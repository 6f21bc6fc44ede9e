----------------------------- MODULE ConfigMutex -----------------------------
(***************************************************************************)
(* What the terminals promise the operators who share a softBTS: one of    *)
(* them at a time configures, only that one changes settings, and nobody   *)
(* loses the configuration to another, only by a turn of his own.          *)
(***************************************************************************)
CONSTANTS
    Sessions,
    Settings,
    Nobody

VARIABLES
    actor,      \* whose turn it is, or Nobody
    holder,     \* who may configure, or Nobody
    settings

mutexVars == <<actor, holder, settings>>

Init ==
    /\ actor = Nobody
    /\ holder = Nobody
    /\ settings \in Settings

Begin(s) == actor = Nobody /\ actor' = s /\ UNCHANGED <<holder, settings>>

Take ==
    /\ actor # Nobody
    /\ holder = Nobody
    /\ holder' = actor
    /\ UNCHANGED <<actor, settings>>

Change ==
    /\ actor # Nobody
    /\ holder = actor
    /\ settings' \in Settings
    /\ UNCHANGED <<actor, holder>>

Release ==
    /\ actor # Nobody
    /\ holder = actor
    /\ holder' = Nobody
    /\ UNCHANGED <<actor, settings>>

\* A turn ends, perhaps with the session itself.
End ==
    /\ actor' = Nobody
    /\ \/ holder' = holder
       \/ holder = actor /\ holder' = Nobody
    /\ settings' = settings

Next == Take \/ Change \/ Release \/ End \/ \E s \in Sessions : Begin(s)

Spec == Init /\ [][Next]_mutexVars
=============================================================================
