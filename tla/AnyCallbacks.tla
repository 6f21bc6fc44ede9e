---------------------------- MODULE AnyCallbacks ----------------------------
(***************************************************************************)
(* The event loop with callbacks that do anything the loop is meant to     *)
(* allow: leave data unread, open and register a connection, close and     *)
(* unregister their own, or two connections at once.  Which entry gets     *)
(* which descriptor is the kernel's choice.                                *)
(***************************************************************************)
EXTENDS EventLoop, FiniteSets

VARIABLES
    ready,      \* descriptors with something to read
    selected    \* entries registered since select() returned, or before

callbacksVars == <<loopVars, ready, selected>>

Free == {e \in Entries : fd[e] = None}

CallbacksInit ==
    /\ \E e \in Entries, f \in Fds :
         /\ socket_fds = <<e>>
         /\ fd = [x \in Entries |-> IF x = e THEN f ELSE None]
         /\ maxfd = f
         /\ isOpen = {f}
    /\ inPass = FALSE
    /\ readset = {}
    /\ ufd = None
    /\ unregistered_count = 0
    /\ ready = {}
    /\ selected = {}

Arrives ==
    /\ \E f \in isOpen \ ready : ready' = ready \cup {f}
    /\ UNCHANGED <<loopVars, selected>>

Select ==
    /\ SocketSelectMain(ready)
    /\ selected' = Registered
    /\ ready' = ready

Walk == (NotReadable \/ PassEnds) /\ UNCHANGED <<ready, selected>>

\* The callback reads, and leaves the rest or nothing.
Reads(e) ==
    /\ Called(e)
    /\ ready' \in {ready, ready \ {fd[e]}}
    /\ Resume(e, 0)
    /\ UNCHANGED <<socket_fds, fd, maxfd, isOpen, selected>>

Opens(e) ==
    /\ Called(e)
    /\ \E new \in Free, f \in Fds \ isOpen :
         /\ fd' = [fd EXCEPT ![new] = f]
         /\ isOpen' = isOpen \cup {f}
         /\ SocketRegisterFd(new)
    /\ Resume(e, 0)
    /\ UNCHANGED <<ready, selected>>

\* Entries of the set closed are closed and leave the list.
Closes(closed) ==
    /\ fd' = [x \in Entries |-> IF x \in closed THEN None ELSE fd[x]]
    /\ isOpen' = isOpen \ {fd[x] : x \in closed}
    /\ ready' = ready \ {fd[x] : x \in closed}
    /\ selected' = selected \ closed
    /\ maxfd' = maxfd

ClosesOne(e) ==
    /\ Called(e)
    /\ socket_fds' = Without(socket_fds, e)
    /\ Closes({e})
    /\ Resume(e, 1)

ClosesTwo(e) ==
    /\ Called(e)
    /\ \E a, b \in Registered :
         /\ a # b
         /\ socket_fds' = Without(Without(socket_fds, a), b)
         /\ Closes({a, b})
    /\ Resume(e, 2)

CallbacksNext ==
    \/ Arrives \/ Select \/ Walk
    \/ \E e \in Registered : Reads(e) \/ Opens(e) \/ ClosesOne(e) \/ ClosesTwo(e)

CallbacksSpec == CallbacksInit /\ [][CallbacksNext]_callbacksVars
-----------------------------------------------------------------------------
CallbacksTypeOK ==
    /\ socket_fds \in Seq(Entries)
    /\ fd \in [Entries -> Fds \cup {None}]
    /\ maxfd \in Fds
    /\ isOpen \subseteq Fds
    /\ inPass \in BOOLEAN
    /\ readset \subseteq Fds
    /\ ufd \in Entries \cup {None}
    /\ unregistered_count \in 0 .. 1
    /\ ready \subseteq isOpen
    /\ selected \subseteq Registered

\* However the callbacks change the list, and wherever the walk starts anew, an
\* entry that was registered when select() returned and still is has had its
\* callback when the walk has passed it: nobody is skipped (select.c:107-134).
NobodySkipped ==
    inPass => \A e \in selected : Passed(e) => fd[e] \notin readset
=============================================================================
