------------------------------- MODULE Timers -------------------------------
(***************************************************************************)
(* The timers of softBTS (src/lib/timer/timer.c) as the event loop drives  *)
(* them: in each pass the loop looks up the nearest timer, sleeps in       *)
(* select() at most until then, and runs the callbacks that are due.       *)
(* Callbacks, of timers and of descriptors, add, schedule and delete       *)
(* timers; a list being walked is changed under the walk.                  *)
(*                                                                         *)
(* Time is a count of the smallest unit; the users' calls are external.    *)
(***************************************************************************)
EXTENDS LinkedList

CONSTANTS
    Timers,     \* struct timer_list objects
    MaxTime,    \* the clock stops here
    MaxCalls,   \* calls of the timers' users
    Delays,     \* for schedule_timer
    Moments     \* timeouts filled out by hand before add_timer

ASSUME TimersAssumption == Timers \subseteq Nat
ASSUME TimeAssumption == MaxTime \in Nat /\ MaxCalls \in Nat /\ Delays \subseteq Nat
ASSUME MomentsAssumption == Moments \subseteq Nat

VARIABLES
    timer_list,     \* list of timers
    active, handled, in_list, timeout,      \* the fields of each timer
    now,            \* what gettimeofday tells
    pc,             \* "loop", "select", "update", "remove"
    wake,           \* when select() returns at the latest, None for never
    current_time,   \* of update_timers
    ringing,        \* the timer whose callback is running, or None
    calls,          \* calls the users may still make
    alarm,          \* history: when each timer was asked to fire, None when it was not
    fired           \* history: timers fired in this pass

flags == <<active, handled, in_list>>
vars == <<timer_list, flags, timeout, now, pc, wake, current_time, ringing, calls, alarm, fired>>

Init ==
    /\ timer_list = <<>>
    /\ active = [t \in Timers |-> FALSE]
    /\ handled = [t \in Timers |-> FALSE]
    /\ in_list = [t \in Timers |-> FALSE]
    /\ timeout = [t \in Timers |-> 0]
    /\ now = 1
    /\ pc = "loop"
    /\ wake = None
    /\ current_time = 0
    /\ ringing = None
    /\ calls = MaxCalls
    /\ alarm = [t \in Timers |-> None]
    /\ fired = {}

Tick ==
    /\ now < MaxTime
    /\ now' = now + 1
    /\ UNCHANGED <<timer_list, flags, timeout, pc, wake, current_time, ringing, calls, alarm, fired>>
-----------------------------------------------------------------------------
(* The users' calls: from a callback, of a descriptor or of a timer.       *)

\* A variant: a timer that is added is not handled, whatever has happened to it.
AddTimerUnhandled(t) ==
    /\ active' = [active EXCEPT ![t] = TRUE]
    /\ handled' = [handled EXCEPT ![t] = FALSE]
    /\ IF t \in Listed(timer_list)
       THEN UNCHANGED <<timer_list, in_list>>
       ELSE /\ in_list' = [in_list EXCEPT ![t] = TRUE]
            /\ timer_list' = AddFirst(timer_list, t)

AddTimer(t) ==
    /\ active' = [active EXCEPT ![t] = TRUE]
    /\ IF t \in Listed(timer_list)
       THEN UNCHANGED <<timer_list, in_list>>
       ELSE /\ in_list' = [in_list EXCEPT ![t] = TRUE]
            /\ timer_list' = AddFirst(timer_list, t)
    /\ handled' = handled

UserCalls ==
    /\ pc = "loop" \/ ringing # None
    /\ calls > 0
    /\ calls' = calls - 1
    /\ UNCHANGED <<now, pc, wake, current_time, ringing, fired>>

\* schedule_timer, or a timeout filled out by hand and add_timer.
Schedule(t, at) ==
    /\ UserCalls
    /\ at <= MaxTime
    /\ timeout' = [timeout EXCEPT ![t] = at]
    /\ alarm' = [alarm EXCEPT ![t] = at]
    /\ AddTimer(t)

Unlink(t) ==
    /\ active' = [active EXCEPT ![t] = FALSE]
    /\ in_list' = [in_list EXCEPT ![t] = FALSE]
    /\ timer_list' = Without(timer_list, t)
    /\ handled' = handled

DelTimer(t) ==
    /\ UserCalls
    /\ IF in_list[t] THEN Unlink(t) ELSE UNCHANGED <<timer_list, flags>>
    /\ alarm' = [alarm EXCEPT ![t] = None]
    /\ timeout' = timeout
-----------------------------------------------------------------------------
(* One pass of the loop.                                                   *)

\* A variant: the comparison of prepare_timers the wrong way round.
LatestTime ==
    IF timer_list = <<>> THEN 0
    ELSE CHOOSE x \in {timeout[t] : t \in Listed(timer_list)} :
            \A t \in Listed(timer_list) : x >= timeout[t]

\* prepare_timers: 0 stands for no timer.
NearestTime ==
    IF timer_list = <<>> THEN 0
    ELSE CHOOSE x \in {timeout[t] : t \in Listed(timer_list)} :
            \A t \in Listed(timer_list) : x <= timeout[t]

\* nearest_timer: how long select() may sleep, here the end of the sleep.
SelectIsCalled ==
    /\ pc = "loop"
    /\ pc' = "select"
    /\ wake' = IF NearestTime = 0 THEN None
               ELSE IF NearestTime < now THEN now ELSE NearestTime
    /\ UNCHANGED <<timer_list, flags, timeout, now, current_time, ringing, calls, alarm, fired>>

\* update_timers begins: the time is read once, and no listed timer is handled.
UpdateBegins ==
    /\ pc = "select"
    /\ pc' = "update"
    /\ wake' = None
    /\ current_time' = now
    /\ handled' = [t \in Timers |-> t \notin Listed(timer_list) /\ handled[t]]
    /\ fired' = {}
    /\ UNCHANGED <<timer_list, active, in_list, timeout, now, ringing, calls, alarm>>

\* select() has slept to the end, or a descriptor is readable.
SelectTimesOut == wake # None /\ wake <= now /\ UpdateBegins
DescriptorReadable == UpdateBegins

\* A signal ends select(): the pass is over and no timer is looked at.
SelectFails ==
    /\ pc = "select"
    /\ pc' = "loop"
    /\ wake' = None
    /\ UNCHANGED <<timer_list, flags, timeout, now, current_time, ringing, calls, alarm, fired>>

\* A variant: TIME_SMALLER with its arguments swapped.
DueLater(t) == ~handled[t] /\ current_time <= timeout[t]

Due(t) == ~handled[t] /\ timeout[t] <= current_time

\* The first timer of the list that is due fires; afterwards the walk starts over.
Fire(t) ==
    /\ pc = "update"
    /\ ringing = None
    /\ t \in Listed(timer_list)
    /\ Due(t)
    /\ \A i \in 1 .. Place(timer_list, t) - 1 : ~Due(timer_list[i])
    /\ handled' = [handled EXCEPT ![t] = TRUE]
    /\ active' = [active EXCEPT ![t] = FALSE]
    /\ ringing' = t
    /\ alarm' = [alarm EXCEPT ![t] = None]
    /\ fired' = fired \cup {t}
    /\ UNCHANGED <<timer_list, in_list, timeout, now, pc, wake, current_time, calls>>

CallbackReturns ==
    /\ ringing # None
    /\ ringing' = None
    /\ UNCHANGED <<timer_list, flags, timeout, now, pc, wake, current_time, calls, alarm, fired>>

\* None is due any more: inactive timers are removed, one after the other.
RemovalBegins ==
    /\ pc = "update"
    /\ ringing = None
    /\ \A t \in Listed(timer_list) : ~Due(t)
    /\ pc' = "remove"
    /\ handled' = [t \in Timers |-> t \notin Listed(timer_list) /\ handled[t]]
    /\ UNCHANGED <<timer_list, active, in_list, timeout, now, wake, current_time, ringing,
                   calls, alarm, fired>>

\* A variant: every timer that fired is removed, scheduled again or not.
RemoveFired(t) ==
    /\ pc = "remove"
    /\ t \in Listed(timer_list)
    /\ ~active[t] \/ t \in fired
    /\ Unlink(t)
    /\ UNCHANGED <<timeout, now, pc, wake, current_time, ringing, calls, alarm, fired>>

Remove(t) ==
    /\ pc = "remove"
    /\ t \in Listed(timer_list)
    /\ ~active[t]
    /\ Unlink(t)
    /\ UNCHANGED <<timeout, now, pc, wake, current_time, ringing, calls, alarm, fired>>

RemovalEnds ==
    /\ pc = "remove"
    /\ \A t \in Listed(timer_list) : active[t]
    /\ pc' = "loop"
    /\ UNCHANGED <<timer_list, flags, timeout, now, wake, current_time, ringing, calls, alarm, fired>>
-----------------------------------------------------------------------------
Pass ==
    \/ SelectIsCalled \/ SelectTimesOut \/ CallbackReturns \/ RemovalBegins \/ RemovalEnds
    \/ \E t \in Timers : Fire(t) \/ Remove(t)

Next ==
    \/ Tick \/ Pass \/ DescriptorReadable \/ SelectFails
    \/ \E t \in Timers :
         \/ DelTimer(t)
         \/ \E d \in Delays : Schedule(t, now + d)
         \/ \E at \in Moments : Schedule(t, at)

Spec == Init /\ [][Next]_vars

\* Time passes and the loop goes on; a signal does not interrupt select() each time.
\* No descriptor has to become readable.
FairSpec == Spec /\ WF_vars(Tick) /\ WF_vars(Pass) /\ SF_vars(SelectTimesOut)
-----------------------------------------------------------------------------
\* No timer is linked twice: a walk of the list would not end.
TypeOK ==
    /\ timer_list \in Seq(Timers)
    /\ Distinct(timer_list)
    /\ active \in [Timers -> BOOLEAN]
    /\ handled \in [Timers -> BOOLEAN]
    /\ in_list \in [Timers -> BOOLEAN]
    /\ timeout \in [Timers -> Nat]
    /\ now \in Nat
    /\ pc \in {"loop", "select", "update", "remove"}
    /\ wake \in Nat \cup {None}
    /\ current_time \in Nat
    /\ ringing \in Timers \cup {None}
    /\ calls \in Nat
    /\ alarm \in [Timers -> Nat \cup {None}]
    /\ fired \subseteq Timers

\* in_list is membership, what is asked for is active and linked with the time asked
\* for, and a linked timer that is not active has been handled and is on its way out.
FlagsOf(t) ==
    /\ in_list[t] <=> t \in Listed(timer_list)
    /\ active[t] => in_list[t] /\ alarm[t] = timeout[t]
    /\ ~active[t] => alarm[t] = None
    /\ in_list[t] /\ ~active[t] => \/ pc = "update" /\ handled[t]
                                   \/ pc = "remove"

\* The flags of the timers and the list agree however callbacks mess with the list
\* (timer.c:136-150).
FlagsAgree == \A t \in Timers : FlagsOf(t)

\* A timer fires at most once in a pass, also when callbacks delete it, add it and
\* schedule it for now: update_timers comes to an end.
OncePerPass == [][\A t \in Timers : ringing # t /\ ringing' = t => t \notin fired]_vars

\* select() ends its sleep in time for timer t: at its time, or at once if that has
\* passed.
WakesFor(t) == wake # None /\ (wake <= alarm[t] \/ wake <= now)

AsksForZero == \E t \in Timers : alarm[t] = 0

\* select() sleeps no longer than to the nearest timer, and 0 on a passed one, as
\* timer.h:37-39 says, whichever callbacks changed the list; but the timeout 0 makes it
\* sleep without end, and for every timer: it is taken for the nearest time of an empty
\* list, whatever else is asked for (timer.c:86).
OnlyZeroOversleeps ==
    pc = "select" =>
        IF AsksForZero THEN wake = None
        ELSE \A t \in Timers : alarm[t] # None => WakesFor(t)

\* Timers are an alarm clock.
Clock == INSTANCE AlarmClock WITH clock <- now

\* What fires was asked for, is due, and fires once.
ImplementsAlarmClock == Clock!Spec

\* Every timer that is asked for fires, or is deleted, unless one is asked for at 0:
\* callbacks that change the list, signals and idle descriptors lose none.
NoneLost == \A t \in Timers : alarm[t] # None ~> alarm[t] = None \/ AsksForZero
=============================================================================
