------------------------------ MODULE EventLoop ------------------------------
(***************************************************************************)
(* The event loop of softBTS (src/lib/select/select.c): a list of          *)
(* registered descriptors, and one pass of socket_select_main over it.     *)
(*                                                                         *)
(* A pass is several steps, because the callbacks it runs change the list  *)
(* it walks.  This module holds what is the same for every user of the     *)
(* loop; a user adds its callbacks, each of which begins with Called(e)    *)
(* and ends with Resume(e, removed).  Only readability is modelled: the    *)
(* two other descriptor sets are treated in the same way.  Timers run      *)
(* before the walk and do not touch the list.                              *)
(***************************************************************************)
EXTENDS LinkedList

CONSTANTS
    Entries,    \* struct socket_fd objects: the connections that can be registered
    Fds         \* descriptor numbers

ASSUME EntriesAssumption == Entries \subseteq Nat
ASSUME FdsAssumption == Fds \subseteq Nat

VARIABLES
    socket_fds,         \* the registered entries, in list order
    fd,                 \* descriptor kept in each entry
    maxfd,              \* the largest descriptor ever registered
    isOpen,             \* descriptors open in the process
    inPass,             \* between the return of select() and the end of the walk
    readset,            \* descriptors found readable whose callback has not run
    ufd,                \* the entry the walk visits next, None at the end
    unregistered_count  \* entries removed since the walk began or began anew

loopVars == <<socket_fds, fd, maxfd, isOpen, inPass, readset, ufd, unregistered_count>>
-----------------------------------------------------------------------------
Registered == Listed(socket_fds)

Watched == {fd[e] : e \in Registered}
-----------------------------------------------------------------------------
(* One pass.                                                               *)

\* A variant: select is given maxfd instead of maxfd + 1.
SelectBelowMaxfd(ready) ==
    /\ ~inPass
    /\ Watched \subseteq isOpen
    /\ {f \in Watched \cap ready : f < maxfd} # {}
    /\ inPass' = TRUE
    /\ readset' = {f \in Watched \cap ready : f < maxfd}
    /\ ufd' = First(socket_fds)
    /\ unregistered_count' = 0
    /\ UNCHANGED <<socket_fds, fd, maxfd, isOpen>>

\* select() returns when a registered descriptor is readable.  With a closed one
\* among them it fails, and the pass ends before any callback: nothing changes.
SocketSelectMain(ready) ==
    /\ ~inPass
    /\ Watched \subseteq isOpen
    /\ {f \in Watched \cap ready : f <= maxfd} # {}
    /\ inPass' = TRUE
    /\ readset' = {f \in Watched \cap ready : f <= maxfd}
    /\ ufd' = First(socket_fds)
    /\ unregistered_count' = 0
    /\ UNCHANGED <<socket_fds, fd, maxfd, isOpen>>

\* The walk passes an entry whose descriptor is not readable.
NotReadable ==
    /\ inPass
    /\ ufd \in Registered
    /\ fd[ufd] \notin readset
    /\ ufd' = After(socket_fds, ufd)
    /\ UNCHANGED <<socket_fds, fd, maxfd, isOpen, inPass, readset, unregistered_count>>

PassEnds ==
    /\ inPass
    /\ ufd = None
    /\ inPass' = FALSE
    /\ readset' = {}
    /\ UNCHANGED <<socket_fds, fd, maxfd, isOpen, ufd, unregistered_count>>

\* A variant: the bit of the entry is not cleared.
CalledKeepsBit(e) ==
    /\ inPass
    /\ ufd = e
    /\ e \in Registered
    /\ fd[e] \in readset
    /\ UNCHANGED <<readset, inPass>>

\* The callback of e is about to run; its bit is cleared first.
Called(e) ==
    /\ inPass
    /\ ufd = e
    /\ e \in Registered
    /\ fd[e] \in readset
    /\ readset' = readset \ {fd[e]}
    /\ inPass' = inPass

\* A variant: llist_for_each_entry, which reads the pointers of the entry when its
\* callback has removed it.
ResumeUnsafe(e, removed) ==
    IF unregistered_count + removed > 1
    THEN ufd' = First(socket_fds') /\ unregistered_count' = 0
    ELSE /\ ufd' = IF removed > 0 THEN e ELSE After(socket_fds, e)
         /\ unregistered_count' = unregistered_count + removed

\* A variant: when the walk would start anew, it ends.
ResumeGivesUp(e, removed) ==
    IF unregistered_count + removed > 1
    THEN ufd' = None /\ unregistered_count' = 0
    ELSE ufd' = After(socket_fds, e) /\ unregistered_count' = unregistered_count + removed

\* The callback of e has run.  The entry after e was looked up before the call;
\* the walk starts anew when more than one entry was removed.
Resume(e, removed) ==
    IF unregistered_count + removed > 1
    THEN ufd' = First(socket_fds') /\ unregistered_count' = 0
    ELSE ufd' = After(socket_fds, e) /\ unregistered_count' = unregistered_count + removed
-----------------------------------------------------------------------------
\* Register an entry under a descriptor, at the tail of the list.
SocketRegisterFd(e) ==
    /\ socket_fds' = AddLast(socket_fds, e)
    /\ maxfd' = IF fd'[e] > maxfd THEN fd'[e] ELSE maxfd
-----------------------------------------------------------------------------
(* What a user of the loop may rely on.                                    *)

\* The walk never steps on an entry that a callback has removed from the list
\* (the comment at select.c:128-130): its pointers are poisoned.
WalkIsSafe == inPass => ufd \in Registered \cup {None}

\* The walk has passed entry e.
Passed(e) ==
    \/ ufd = None
    \/ ufd \in Registered /\ Place(socket_fds, e) < Place(socket_fds, ufd)
=============================================================================
