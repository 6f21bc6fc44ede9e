---------------------------- MODULE ObjectStartup ----------------------------
(***************************************************************************)
(* What the start-up of a BTS promises, without messages: each managed     *)
(* object goes through software requested, software active and started,    *)
(* never back, and an object's turn comes when another object's is over    *)
(* (GSM 12.21, quoted at bts_nm.c:257-262 and 364-373).                    *)
(***************************************************************************)
CONSTANTS
    Objects,
    Root,           \* the object whose software is requested first
    AfterActive,    \* o -> objects requested when the software of o is active
    AfterStart,     \* o -> objects requested when o is started
    Needs           \* o -> objects that are started before o is

VARIABLE stage

Stages == {"idle", "requested", "active", "started"}

Init == stage = [o \in Objects |-> "idle"]

\* Object o enters stage s and the objects of next, if idle, are requested.
Advance(o, s, next) ==
    stage' = [p \in Objects |->
                IF p = o THEN s
                ELSE IF p \in next /\ stage[p] = "idle" THEN "requested" ELSE stage[p]]

Request == stage[Root] = "idle" /\ Advance(Root, "requested", {})

Activate(o) == stage[o] = "requested" /\ Advance(o, "active", AfterActive[o])

Start(o) ==
    /\ stage[o] = "active"
    /\ \A p \in Needs[o] : stage[p] = "started"
    /\ Advance(o, "started", AfterStart[o])

Next == Request \/ \E o \in Objects : Activate(o) \/ Start(o)

Spec == Init /\ [][Next]_stage
=============================================================================
