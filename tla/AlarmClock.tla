----------------------------- MODULE AlarmClock -----------------------------
(***************************************************************************)
(* What timers promise their users: an alarm that is set rings once, not   *)
(* before its time, unless it is cancelled; nothing else rings.  Whoever   *)
(* is rung may set and cancel alarms, its own among them.                  *)
(***************************************************************************)
EXTENDS Integers

CONSTANT Timers

Off == -1       \* no alarm, and nobody is rung

VARIABLES
    clock,
    alarm,      \* when each timer is to ring, or Off
    ringing     \* the timer whose user is being told, or Off

alarmVars == <<clock, alarm, ringing>>

Init ==
    /\ clock = 1
    /\ alarm = [t \in Timers |-> Off]
    /\ ringing = Off

Tick == clock' = clock + 1 /\ UNCHANGED <<alarm, ringing>>

Set(t) ==
    /\ alarm'[t] \in Nat
    /\ alarm' = [alarm EXCEPT ![t] = alarm'[t]]
    /\ UNCHANGED <<clock, ringing>>

Cancel(t) ==
    /\ alarm' = [alarm EXCEPT ![t] = Off]
    /\ UNCHANGED <<clock, ringing>>

Ring(t) ==
    /\ ringing = Off
    /\ alarm[t] # Off
    /\ alarm[t] <= clock
    /\ alarm' = [alarm EXCEPT ![t] = Off]
    /\ ringing' = t
    /\ clock' = clock

Silence ==
    /\ ringing # Off
    /\ ringing' = Off
    /\ UNCHANGED <<clock, alarm>>

Next == Tick \/ Silence \/ \E t \in Timers : Set(t) \/ Cancel(t) \/ Ring(t)

Spec == Init /\ [][Next]_alarmVars
=============================================================================
