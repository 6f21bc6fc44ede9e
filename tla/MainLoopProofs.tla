--------------------------- MODULE MainLoopProofs ---------------------------
(***************************************************************************)
(* Theorems about the main loop: about select.c, for any number of         *)
(* connections and descriptors (whatever the callbacks do, a pass skips    *)
(* nobody), and about timer.c, for any number of timers, calls and moments.*)
(***************************************************************************)
EXTENDS AnyCallbacks, Timers, LinkedListProofs, WellFoundedInduction, TLAPS


(* The walk, whatever the callbacks do.                                    *)

LEMMA NoneIsNothing == None \notin Entries /\ None \notin Fds
BY EntriesAssumption, FdsAssumption DEF None

\* When the walk goes on to the entry after e, it has passed e and what it had passed.
LEMMA PassedBefore ==
    ASSUME socket_fds \in Seq(Entries), Distinct(socket_fds),
           NEW e \in Registered, ufd = e, ufd' = After(socket_fds, e), NEW x \in Registered,
           \/ socket_fds' = socket_fds
           \/ \E new \in Entries \ Registered : socket_fds' = AddLast(socket_fds, new)
           \/ socket_fds' = Without(socket_fds, e) /\ x # e,
           Passed(x)'
    PROVE  x = e \/ Passed(x)
<1> DEFINE s == socket_fds
           t == socket_fds'
           n == After(s, e)
<1>1. None \notin Entries
    BY NoneIsNothing
<1>2. /\ e \in Listed(s) /\ x \in Listed(s)
      /\ Place(s, e) \in 1 .. Len(s) /\ Place(s, x) \in 1 .. Len(s) /\ Len(s) \in Nat
      /\ s[Place(s, e)] = e /\ s[Place(s, x)] = x
    BY PlaceOf DEF Registered
<1>3. n \in (Listed(s) \ {e}) \cup {None}
    BY <1>1, <1>2, AfterIsNext
<1>4. /\ n = None => Place(s, e) = Len(s)
      /\ n # None => Place(s, n) = Place(s, e) + 1
    BY <1>1, <1>2, PlaceAfter
<1>5. ASSUME n # None PROVE Place(s, x) < Place(s, n)
    <2>1. n \in Listed(t) /\ Place(t, x) < Place(t, n)
        BY <1>5 DEF Passed, Registered
    <2>2. CASE t = s
        BY <2>1, <2>2
    <2>3. ASSUME NEW new \in Entries \ Registered, t = AddLast(s, new)
          PROVE  Place(s, x) < Place(s, n)
        <3>1. Place(t, x) = Place(s, x) /\ Place(t, n) = Place(s, n)
            BY <1>2, <1>3, <1>5, <2>3, AddLastKeepsPlaces DEF Registered
        <3> QED
            BY <2>1, <3>1
    <2>4. CASE t = Without(s, e) /\ x # e
        <3>1. Listed(t) = Listed(s) \ {e}
            BY <1>2, <2>4, WithoutOne
        <3> QED
            BY <1>2, <2>1, <2>4, <3>1, WithoutKeepsOrder
    <2> QED
        BY <2>2, <2>3, <2>4
<1>6. x = e \/ Place(s, x) < Place(s, e)
    <2>1. CASE n = None
        BY <1>2, <1>4, <2>1
    <2>2. CASE n # None
        <3>1. Place(s, x) <= Place(s, e)
            BY <1>2, <1>4, <1>5, <2>2
        <3> QED
            BY <1>2, <3>1
    <2> QED
        BY <2>1, <2>2
<1> QED
    BY <1>6 DEF Passed

\* A walk that begins or begins anew has passed nobody.
LEMMA NobodyPassedYet ==
    ASSUME socket_fds' \in Seq(Entries), Distinct(socket_fds'), ufd' = First(socket_fds'),
           NEW x \in Listed(socket_fds')
    PROVE  ~ Passed(x)'
<1> DEFINE t == socket_fds'
<1>1. Place(t, x) \in 1 .. Len(t) /\ Len(t) \in Nat
    BY PlaceOf
<1>2. t # <<>> /\ 1 \in 1 .. Len(t)
    BY <1>1, EmptySeq
<1>3. First(t) = t[1] /\ Place(t, t[1]) = 1
    BY <1>2, PlaceIsIndex DEF First
<1>4. t[1] \in Entries
    BY <1>2, ElementOfSeq
<1>5. ufd' # None /\ ~(Place(t, x) < Place(t, ufd'))
    BY <1>1, <1>3, <1>4, NoneIsNothing
<1> QED
    BY <1>5 DEF Passed
-----------------------------------------------------------------------------
(* The invariant: the walk is safe and has skipped nobody, and who is registered has a *)
(* descriptor.                                                                         *)
AnyInv ==
    /\ CallbacksTypeOK
    /\ Distinct(socket_fds)
    /\ \A e \in Registered : fd[e] # None
    /\ WalkIsSafe
    /\ NobodySkipped

LEMMA AnyInit == CallbacksInit => AnyInv
<1> SUFFICES ASSUME CallbacksInit PROVE AnyInv
    OBVIOUS
<1>1. PICK e \in Entries, f \in Fds :
          /\ socket_fds = <<e>>
          /\ fd = [x \in Entries |-> IF x = e THEN f ELSE None]
          /\ maxfd = f /\ isOpen = {f}
    BY DEF CallbacksInit, None, None
<1>2. Registered = {e} /\ socket_fds \in Seq(Entries) /\ Distinct(socket_fds)
    BY <1>1 DEF Registered, Listed, Distinct
<1>3. fd[e] = f /\ f # None /\ fd \in [Entries -> Fds \cup {None}]
    BY <1>1, NoneIsNothing
<1>4. /\ inPass = FALSE /\ readset = {} /\ ufd = None /\ unregistered_count = 0
      /\ ready = {} /\ selected = {}
    BY DEF CallbacksInit, None, None
<1>5. CallbacksTypeOK
    <2>1. maxfd \in Fds /\ isOpen \subseteq Fds /\ ufd \in Entries \cup {None}
        BY <1>1, <1>4
    <2>2. readset \subseteq Fds /\ unregistered_count \in 0 .. 1
        BY <1>4
    <2>4. inPass \in BOOLEAN
        BY <1>4
    <2>3. ready \subseteq isOpen /\ selected \subseteq Registered
        BY <1>4
    <2> QED
        BY <1>2, <1>3, <2>1, <2>2, <2>3, <2>4 DEF CallbacksTypeOK
<1> QED
    BY <1>2, <1>3, <1>4, <1>5 DEF AnyInv, WalkIsSafe, NobodySkipped

LEMMA AnySelectStep ==
    ASSUME AnyInv, Select
    PROVE  AnyInv'
<1>1. /\ SocketSelectMain(ready) /\ selected' = Registered /\ ready' = ready
    BY DEF Select
<1>2. /\ socket_fds' = socket_fds /\ fd' = fd /\ maxfd' = maxfd /\ isOpen' = isOpen
      /\ Registered' = Registered /\ ufd' = First(socket_fds) /\ unregistered_count' = 0
      /\ inPass' = TRUE
    BY <1>1 DEF SocketSelectMain, Registered
<1>3. readset' \subseteq Fds
    <2>1. readset' \subseteq ready
        BY <1>1 DEF SocketSelectMain
    <2> QED
        BY <2>1 DEF AnyInv, CallbacksTypeOK
<1>4. Registered \subseteq Entries
    <2>1. \A i \in 1 .. Len(socket_fds) : socket_fds[i] \in Entries
        BY ElementOfSeq DEF AnyInv, CallbacksTypeOK
    <2> QED
        BY <2>1 DEF Registered, Listed
<1>5. ufd' \in Registered \cup {None}
    <2>1. Len(socket_fds) \in Nat /\ (socket_fds # <<>> => Len(socket_fds) # 0)
        BY EmptySeq, LenProperties DEF AnyInv, CallbacksTypeOK
    <2> QED
        BY <1>2, <2>1 DEF First, Registered, Listed
<1>6. \A x \in Registered : ~ Passed(x)'
    BY <1>2, NobodyPassedYet DEF Registered, AnyInv, CallbacksTypeOK
<1>7. CallbacksTypeOK'
    BY <1>1, <1>2, <1>3, <1>4, <1>5 DEF AnyInv, CallbacksTypeOK
<1>8. Distinct(socket_fds)' /\ (\A e \in Registered' : fd'[e] # None)
    BY <1>2 DEF AnyInv
<1>9. WalkIsSafe' /\ NobodySkipped'
    BY <1>1, <1>2, <1>5, <1>6 DEF WalkIsSafe, NobodySkipped
<1> QED
    BY <1>7, <1>8, <1>9 DEF AnyInv

LEMMA AnyArrivesStep ==
    ASSUME AnyInv, Arrives
    PROVE  AnyInv'
<1>1. PICK f \in isOpen : ready' = ready \cup {f}
    BY DEF Arrives
<1>2. UNCHANGED <<loopVars, selected>>
    BY DEF Arrives, loopVars, loopVars
<1>3. CallbacksTypeOK'
    BY <1>1, <1>2 DEF AnyInv, CallbacksTypeOK, loopVars, Registered
<1> QED
    BY <1>2, <1>3 DEF AnyInv, WalkIsSafe, NobodySkipped, Passed, Registered, loopVars

\* Past an entry that is not readable, or past the last one.
LEMMA AnyWalkStep ==
    ASSUME AnyInv, Walk
    PROVE  AnyInv'
<1>1. CASE NotReadable
    <2>1. /\ UNCHANGED <<socket_fds, fd, maxfd, isOpen, inPass, readset, unregistered_count>>
          /\ UNCHANGED <<ready, selected>>
          /\ inPass /\ ufd \in Registered /\ ufd' = After(socket_fds, ufd)
          /\ fd[ufd] \notin readset /\ Registered' = Registered
        BY <1>1 DEF Walk, NotReadable, Registered
    <2>2. ufd' \in Registered \cup {None} /\ ufd' \in Entries \cup {None}
        <3>1. ufd' \in (Registered \ {ufd}) \cup {None}
            BY <2>1, AfterIsNext, NoneIsNothing DEF AnyInv, CallbacksTypeOK, Registered
        <3>2. \A i \in 1 .. Len(socket_fds) : socket_fds[i] \in Entries
            BY ElementOfSeq DEF AnyInv, CallbacksTypeOK
        <3> QED
            BY <3>1, <3>2 DEF Registered, Listed
    <2>3. \A x \in Registered : Passed(x)' => x = ufd \/ Passed(x)
        BY <2>1, PassedBefore DEF AnyInv, CallbacksTypeOK
    <2>4. NobodySkipped'
        BY <2>1, <2>3 DEF AnyInv, CallbacksTypeOK, NobodySkipped
    <2> QED
        BY <2>1, <2>2, <2>4 DEF AnyInv, CallbacksTypeOK, WalkIsSafe
<1>2. CASE PassEnds
    <2>1. /\ UNCHANGED <<socket_fds, fd, maxfd, isOpen, ufd, unregistered_count>>
          /\ UNCHANGED <<ready, selected>>
          /\ inPass' = FALSE /\ readset' = {} /\ Registered' = Registered
        BY <1>2 DEF Walk, PassEnds, Registered
    <2> QED
        BY <2>1 DEF AnyInv, CallbacksTypeOK, WalkIsSafe, NobodySkipped
<1> QED
    BY <1>1, <1>2 DEF Walk
(* The callbacks.                                                          *)

\* What is common to them: the entry is called, and the others keep their descriptors.
LEMMA AnyCallback ==
    ASSUME AnyInv, NEW e \in Registered, Called(e), NEW removed \in 0 .. 2, Resume(e, removed),
           socket_fds' \in Seq(Entries), Distinct(socket_fds'),
           fd' \in [Entries -> Fds \cup {None}], \A x \in Registered' : fd'[x] # None,
           maxfd' \in Fds, isOpen' \subseteq Fds, ready' \subseteq isOpen',
           selected' \subseteq selected, selected' \subseteq Registered',
           \A x \in selected' : fd'[x] = fd[x],
           \/ removed = 0 /\ socket_fds' = socket_fds
           \/ removed = 0 /\ \E new \in Entries \ Registered : socket_fds' = AddLast(socket_fds, new)
           \/ removed = 1 /\ socket_fds' = Without(socket_fds, e)
           \/ removed = 2
    PROVE  AnyInv'
<1>1. /\ inPass /\ ufd = e /\ inPass' = inPass
      /\ readset' = readset \ {fd[e]}
    BY DEF Called
<1>2. Registered' = Listed(socket_fds')
    BY DEF Registered
<1>3. /\ ufd' \in Registered' \cup {None}
      /\ unregistered_count' \in 0 .. 1
      /\ \A x \in selected' : Passed(x)' => x = e \/ Passed(x)
    <2>1. CASE unregistered_count + removed > 1
        <3>1. ufd' = First(socket_fds') /\ unregistered_count' = 0
            BY <2>1 DEF Resume
        <3>2. ufd' \in Registered' \cup {None}
            <4>1. Len(socket_fds') \in Nat /\ (socket_fds' # <<>> => Len(socket_fds') # 0)
                BY EmptySeq, LenProperties
            <4> QED
                BY <1>2, <3>1, <4>1 DEF First, Listed
        <3>3. \A x \in Registered' : ~ Passed(x)'
            BY <1>2, <3>1, NobodyPassedYet
        <3> QED
            BY <3>1, <3>2, <3>3
    <2>2. CASE ~(unregistered_count + removed > 1)
        <3>1. ufd' = After(socket_fds, e) /\ unregistered_count' = unregistered_count + removed
            BY <2>2 DEF Resume
        <3>2. unregistered_count' \in 0 .. 1 /\ removed # 2
            BY <2>2, <3>1 DEF AnyInv, CallbacksTypeOK
        <3>3. After(socket_fds, e) \in (Registered \ {e}) \cup {None}
            BY AfterIsNext, NoneIsNothing DEF AnyInv, CallbacksTypeOK, Registered
        <3>4. Registered \ {e} \subseteq Registered'
            <4>1. CASE socket_fds' = socket_fds
                BY <1>2, <4>1 DEF Registered
            <4>2. ASSUME NEW new \in Entries \ Registered, socket_fds' = AddLast(socket_fds, new)
                  PROVE  Registered \ {e} \subseteq Registered'
                BY <1>2, <4>2, AddLastOne DEF Registered, AnyInv, CallbacksTypeOK
            <4>3. CASE socket_fds' = Without(socket_fds, e)
                BY <1>2, <4>3, WithoutOne DEF Registered, AnyInv, CallbacksTypeOK
            <4> QED
                BY <3>2, <4>1, <4>2, <4>3
        <3>5. ASSUME NEW x \in selected', Passed(x)'
              PROVE  x = e \/ Passed(x)
            <4>1. x \in Registered /\ x \in Registered'
                BY DEF AnyInv, CallbacksTypeOK
            <4>2. socket_fds' = Without(socket_fds, e) => x # e
                BY <1>2, <4>1, WithoutOne DEF Registered, AnyInv, CallbacksTypeOK
            <4> QED
                BY <1>1, <3>1, <3>2, <3>5, <4>1, <4>2, PassedBefore DEF AnyInv, CallbacksTypeOK
        <3> QED
            BY <3>1, <3>2, <3>3, <3>4, <3>5
    <2> QED
        BY <2>1, <2>2
<1>4. ufd' \in Entries \cup {None}
    <2>1. \A i \in 1 .. Len(socket_fds') : socket_fds'[i] \in Entries
        BY ElementOfSeq
    <2> QED
        BY <1>2, <1>3, <2>1 DEF Listed
<1>5. CallbacksTypeOK'
    BY <1>1, <1>3, <1>4 DEF AnyInv, CallbacksTypeOK
<1>6. WalkIsSafe'
    BY <1>3 DEF WalkIsSafe
<1>7. NobodySkipped'
    BY <1>1, <1>3 DEF AnyInv, NobodySkipped
<1> QED
    BY <1>5, <1>6, <1>7 DEF AnyInv

\* The callback leaves the list and the descriptors alone.
LEMMA AnyReadsStep ==
    ASSUME AnyInv, NEW e \in Registered, Reads(e)
    PROVE  AnyInv'
<1>1. /\ Called(e) /\ Resume(e, 0) /\ ready' \subseteq ready
      /\ UNCHANGED <<socket_fds, fd, maxfd, isOpen, selected>>
    BY DEF Reads
<1>2. Registered' = Registered
    BY <1>1 DEF Registered
<1> QED
    BY <1>1, <1>2, AnyCallback DEF AnyInv, CallbacksTypeOK

\* It opens and registers a connection.
LEMMA AnyOpensStep ==
    ASSUME AnyInv, NEW e \in Registered, Opens(e)
    PROVE  AnyInv'
<1>1. /\ Called(e) /\ Resume(e, 0) /\ ready' = ready /\ selected' = selected
    BY DEF Opens
<1>2. PICK new \in Free, f \in Fds \ isOpen :
          /\ fd' = [fd EXCEPT ![new] = f]
          /\ isOpen' = isOpen \cup {f}
          /\ SocketRegisterFd(new)
    BY DEF Opens
<1>3. new \in Entries \ Registered /\ f # None
    BY NoneIsNothing DEF Free, None, None, AnyInv
<1>4. socket_fds' = AddLast(socket_fds, new) /\ maxfd' \in {fd'[new], maxfd}
    BY <1>2 DEF SocketRegisterFd
<1>5. /\ socket_fds' \in Seq(Entries) /\ Distinct(socket_fds')
      /\ Registered' = Registered \cup {new}
    BY <1>3, <1>4, AddLastOne DEF Registered, AnyInv, CallbacksTypeOK
<1>6. /\ fd' \in [Entries -> Fds \cup {None}] /\ fd'[new] = f
      /\ \A x \in Registered : fd'[x] = fd[x]
    <2>1. fd \in [Entries -> Fds \cup {None}]
        BY DEF AnyInv, CallbacksTypeOK
    <2> QED
        BY <1>2, <1>3, <2>1
<1>7. maxfd' \in Fds /\ isOpen' \subseteq Fds /\ ready' \subseteq isOpen'
    BY <1>1, <1>2, <1>4, <1>6 DEF AnyInv, CallbacksTypeOK
<1>8. /\ \A x \in Registered' : fd'[x] # None
      /\ \A x \in selected' : fd'[x] = fd[x]
      /\ selected' \subseteq selected /\ selected' \subseteq Registered'
    BY <1>1, <1>3, <1>5, <1>6 DEF AnyInv, CallbacksTypeOK
<1> QED
    BY <1>1, <1>3, <1>4, <1>5, <1>6, <1>7, <1>8, AnyCallback

\* Connections are closed: what remains registered keeps its descriptor.
LEMMA AnyClosed ==
    ASSUME AnyInv, NEW closed \in SUBSET Registered, Closes(closed),
           Registered' = Registered \ closed
    PROVE  /\ fd' \in [Entries -> Fds \cup {None}]
           /\ \A x \in Registered' : fd'[x] # None
           /\ maxfd' \in Fds /\ isOpen' \subseteq Fds /\ ready' \subseteq isOpen'
           /\ selected' \subseteq selected /\ selected' \subseteq Registered'
           /\ \A x \in selected' : fd'[x] = fd[x]
<1>1. Registered \subseteq Entries
    <2>1. \A i \in 1 .. Len(socket_fds) : socket_fds[i] \in Entries
        BY ElementOfSeq DEF AnyInv, CallbacksTypeOK
    <2> QED
        BY <2>1 DEF Registered, Listed
<1>2. /\ fd' = [x \in Entries |-> IF x \in closed THEN None ELSE fd[x]]
      /\ isOpen' = isOpen \ {fd[x] : x \in closed}
      /\ ready' = ready \ {fd[x] : x \in closed}
      /\ selected' = selected \ closed
      /\ maxfd' = maxfd
    BY DEF Closes, None, None
<1>3. /\ fd \in [Entries -> Fds \cup {None}] /\ isOpen \subseteq Fds /\ maxfd \in Fds
      /\ ready \subseteq isOpen /\ selected \subseteq Registered
      /\ \A x \in Registered : fd[x] # None
    BY DEF AnyInv, CallbacksTypeOK
<1>4. fd' \in [Entries -> Fds \cup {None}]
    BY <1>2, <1>3
<1>5. \A x \in Registered' : fd'[x] = fd[x]
    BY <1>1, <1>2
<1>6. isOpen' \subseteq Fds /\ ready' \subseteq isOpen' /\ maxfd' \in Fds
    BY <1>2, <1>3
<1>7. selected' \subseteq selected /\ selected' \subseteq Registered'
    BY <1>2, <1>3
<1> QED
    BY <1>3, <1>4, <1>5, <1>6, <1>7

LEMMA AnyClosesOneStep ==
    ASSUME AnyInv, NEW e \in Registered, ClosesOne(e)
    PROVE  AnyInv'
<1>1. /\ Called(e) /\ Resume(e, 1) /\ socket_fds' = Without(socket_fds, e)
      /\ Closes({e})
    BY DEF ClosesOne
<1>2. /\ socket_fds' \in Seq(Entries) /\ Distinct(socket_fds')
      /\ Registered' = Registered \ {e}
    BY <1>1, WithoutOne DEF Registered, AnyInv, CallbacksTypeOK
<1>3. {e} \in SUBSET Registered
    OBVIOUS
<1> QED
    BY <1>1, <1>2, <1>3, AnyClosed, AnyCallback

LEMMA AnyClosesTwoStep ==
    ASSUME AnyInv, NEW e \in Registered, ClosesTwo(e)
    PROVE  AnyInv'
<1>1. Called(e) /\ Resume(e, 2)
    BY DEF ClosesTwo
<1>2. PICK a \in Registered, b \in Registered :
          a # b /\ socket_fds' = Without(Without(socket_fds, a), b) /\ Closes({a, b})
    BY DEF ClosesTwo
<1>3. /\ Without(socket_fds, a) \in Seq(Entries) /\ Distinct(Without(socket_fds, a))
      /\ Listed(Without(socket_fds, a)) = Registered \ {a}
    BY WithoutOne DEF Registered, AnyInv, CallbacksTypeOK
<1>4. /\ socket_fds' \in Seq(Entries) /\ Distinct(socket_fds')
      /\ Listed(socket_fds') = (Registered \ {a}) \ {b}
    BY <1>2, <1>3, WithoutOne
<1>5. Registered' = Registered \ {a, b} /\ {a, b} \in SUBSET Registered
    BY <1>4 DEF Registered
<1> QED
    BY <1>1, <1>2, <1>4, <1>5, AnyClosed, AnyCallback

\* Whatever its callbacks close, open or leave unread, the event loop calls everybody
\* whom select() found readable before the pass is over (select.c:107-134).
THEOREM NobodyIsSkipped == CallbacksSpec => []NobodySkipped
<1>1. AnyInv /\ [CallbacksNext]_callbacksVars => AnyInv'
    <2> SUFFICES ASSUME AnyInv, [CallbacksNext]_callbacksVars PROVE AnyInv'
        OBVIOUS
    <2>1. CASE Arrives \/ Select \/ Walk
        BY <2>1, AnyArrivesStep, AnySelectStep, AnyWalkStep
    <2>2. ASSUME NEW e \in Registered,
                 Reads(e) \/ Opens(e) \/ ClosesOne(e) \/ ClosesTwo(e)
          PROVE  AnyInv'
        BY <2>2, AnyReadsStep, AnyOpensStep, AnyClosesOneStep, AnyClosesTwoStep
    <2>3. CASE UNCHANGED callbacksVars
        BY <2>3 DEF callbacksVars, loopVars, AnyInv, CallbacksTypeOK, WalkIsSafe, NobodySkipped,
                    Passed, Registered
    <2> QED
        BY <2>1, <2>2, <2>3 DEF CallbacksNext
<1>2. AnyInv => NobodySkipped
    BY DEF AnyInv, NobodySkipped
<1> QED
    BY <1>1, <1>2, AnyInit, PTL DEF CallbacksSpec
-----------------------------------------------------------------------------
(* The timers.                                                             *)

(* The invariant.                                                          *)

\* While callbacks are run, what has fired is marked as handled; the time that
\* timers are compared with is not ahead of the clock; callbacks run in no other place.
PassAgrees ==
    /\ pc = "update" => \A t \in fired : handled[t]
    /\ current_time <= now
    /\ ringing # None => pc = "update"

TimersInv == TypeOK /\ FlagsAgree /\ PassAgrees

LEMMA NoneIsNoTimer == None \notin Timers /\ None \notin Nat
BY TimersAssumption DEF None

LEMMA TimersInit == Init => TimersInv
<1> SUFFICES ASSUME Init PROVE TimersInv
    OBVIOUS
<1>1. timer_list \in Seq(Timers) /\ Distinct(timer_list) /\ Listed(timer_list) = {}
    BY DEF Init, Distinct, Listed
<1>2. TypeOK
    BY <1>1, TimeAssumption DEF Init, TypeOK
<1>3. FlagsAgree
    BY <1>1 DEF Init, FlagsAgree, FlagsOf
<1>4. PassAgrees
    BY DEF Init, PassAgrees
<1> QED
    BY <1>2, <1>3, <1>4 DEF TimersInv

-----------------------------------------------------------------------------
(* What linking and unlinking a timer do to the list and the flags.        *)

LEMMA AddTimerAgrees ==
    ASSUME TimersInv, NEW t \in Timers, AddTimer(t)
    PROVE  /\ timer_list' \in Seq(Timers) /\ Distinct(timer_list')
           /\ Listed(timer_list') = Listed(timer_list) \cup {t}
           /\ in_list' = [in_list EXCEPT ![t] = TRUE]
           /\ active' = [active EXCEPT ![t] = TRUE]
           /\ handled' = handled
<1> USE DEF TimersInv
<1>1. CASE t \in Listed(timer_list)
    <2>1. timer_list' = timer_list /\ in_list' = in_list
        BY <1>1 DEF AddTimer
    <2>2. in_list[t] = TRUE
        BY <1>1 DEF FlagsAgree, FlagsOf, TypeOK
    <2>3. in_list' = [in_list EXCEPT ![t] = TRUE]
        BY <2>1, <2>2 DEF TypeOK
    <2> QED
        BY <1>1, <2>1, <2>3 DEF AddTimer, TypeOK
<1>2. CASE t \notin Listed(timer_list)
    BY <1>2, AddFirstOne DEF AddTimer, TypeOK
<1> QED
    BY <1>1, <1>2

LEMMA UnlinkAgrees ==
    ASSUME TimersInv, NEW t \in Timers, t \in Listed(timer_list), Unlink(t)
    PROVE  /\ timer_list' \in Seq(Timers) /\ Distinct(timer_list')
           /\ Listed(timer_list') = Listed(timer_list) \ {t}
           /\ in_list' = [in_list EXCEPT ![t] = FALSE]
           /\ active' = [active EXCEPT ![t] = FALSE]
           /\ handled' = handled
BY WithoutOne DEF Unlink, TimersInv, TypeOK

LEMMA ScheduleKeeps ==
    ASSUME TimersInv, NEW t \in Timers, NEW at \in Nat, Schedule(t, at)
    PROVE  TimersInv'
<1> USE DEF TimersInv
<1>1. AddTimer(t) /\ UserCalls
    BY DEF Schedule
<1>2. /\ timeout' = [timeout EXCEPT ![t] = at]
      /\ alarm' = [alarm EXCEPT ![t] = at]
      /\ UNCHANGED <<now, pc, wake, current_time, ringing, fired>>
      /\ calls' = calls - 1 /\ calls > 0
    BY DEF Schedule, UserCalls
<1>3. TypeOK'
    <2>1. timer_list' \in Seq(Timers) /\ Distinct(timer_list')
        BY <1>1, AddTimerAgrees
    <2>2. /\ active' \in [Timers -> BOOLEAN]
          /\ handled' \in [Timers -> BOOLEAN]
          /\ in_list' \in [Timers -> BOOLEAN]
        BY <1>1, AddTimerAgrees DEF TypeOK
    <2>3. timeout' \in [Timers -> Nat] /\ alarm' \in [Timers -> Nat \cup {None}] /\ calls' \in Nat
        BY <1>2 DEF TypeOK
    <2> QED
        BY <1>2, <2>1, <2>2, <2>3 DEF TypeOK
<1>4. FlagsAgree'
    <2> SUFFICES ASSUME NEW x \in Timers PROVE FlagsOf(x)'
        BY DEF FlagsAgree
    <2>1. CASE x = t
        BY <2>1, <1>1, <1>2, AddTimerAgrees, NoneIsNoTimer DEF TypeOK, FlagsOf
    <2>2. CASE x # t
        BY <2>2, <1>1, <1>2, AddTimerAgrees DEF TypeOK, FlagsAgree, FlagsOf
    <2> QED
        BY <2>1, <2>2
<1>5. PassAgrees'
    BY <1>1, <1>2, AddTimerAgrees DEF PassAgrees
<1> QED
    BY <1>3, <1>4, <1>5

LEMMA DelTimerKeeps ==
    ASSUME TimersInv, NEW t \in Timers, DelTimer(t)
    PROVE  TimersInv'
<1> USE DEF TimersInv
<1>1. /\ UNCHANGED <<timeout, now, pc, wake, current_time, ringing, fired>>
      /\ alarm' = [alarm EXCEPT ![t] = None]
      /\ calls' = calls - 1 /\ calls > 0
    BY DEF DelTimer, UserCalls
<1>2. CASE in_list[t]
    <2>1. Unlink(t) /\ t \in Listed(timer_list)
        BY <1>2 DEF DelTimer, FlagsAgree, FlagsOf
    <2>2. TypeOK'
        <3>1. timer_list' \in Seq(Timers) /\ Distinct(timer_list')
            BY <2>1, UnlinkAgrees
        <3>2. /\ active' \in [Timers -> BOOLEAN]
              /\ handled' \in [Timers -> BOOLEAN]
              /\ in_list' \in [Timers -> BOOLEAN]
            BY <2>1, UnlinkAgrees DEF TypeOK
        <3>3. alarm' \in [Timers -> Nat \cup {None}] /\ calls' \in Nat
            BY <1>1 DEF TypeOK
        <3> QED
            BY <1>1, <3>1, <3>2, <3>3 DEF TypeOK
    <2>3. FlagsAgree'
        BY <1>1, <2>1, UnlinkAgrees DEF TypeOK, FlagsAgree, FlagsOf
    <2>4. PassAgrees'
        BY <1>1, <2>1, UnlinkAgrees DEF PassAgrees
    <2> QED
        BY <2>2, <2>3, <2>4
<1>3. CASE ~in_list[t]
    <2>1. UNCHANGED <<timer_list, active, handled, in_list>>
        BY <1>3 DEF DelTimer, flags
    <2>2. alarm' = alarm
        BY <1>1, <1>3 DEF FlagsAgree, FlagsOf, TypeOK
    <2> QED
        BY <1>1, <2>1, <2>2 DEF TypeOK, FlagsAgree, FlagsOf, PassAgrees
<1> QED
    BY <1>2, <1>3

-----------------------------------------------------------------------------
(* The nearest timer.                                                      *)

LEMMA LeastOf ==
    ASSUME NEW T, T \subseteq Nat, T # {}
    PROVE  \E x \in T : \A y \in T : x <= y
<1>1. PICK x \in T : \A y \in T : ~ (<<y, x>> \in OpToRel(<, Nat))
    BY NatLessThanWellFounded, WFMin
<1>2. ASSUME NEW y \in T PROVE x <= y
    <2>1. ~ (y < x)
        BY <1>1 DEF OpToRel
    <2> QED
        BY <2>1
<1> QED
    BY <1>2

LEMMA NearestIsLeast ==
    ASSUME TypeOK
    PROVE  /\ NearestTime \in Nat
           /\ timer_list # <<>> =>
                /\ \E t \in Listed(timer_list) : NearestTime = timeout[t]
                /\ \A t \in Listed(timer_list) : NearestTime <= timeout[t]
<1>1. CASE timer_list = <<>>
    BY <1>1 DEF NearestTime
<1>2. CASE timer_list # <<>>
    <2> DEFINE T == {timeout[t] : t \in Listed(timer_list)}
    <2>1. Listed(timer_list) \subseteq Timers
        BY DEF TypeOK, Listed
    <2>2. T \subseteq Nat
        BY <2>1 DEF TypeOK
    <2>3. timer_list[1] \in Listed(timer_list)
        BY <1>2 DEF TypeOK, Listed
    <2>4. T # {}
        BY <2>3
    <2>5. \E x \in T : \A t \in Listed(timer_list) : x <= timeout[t]
        <3>1. \E x \in T : \A y \in T : x <= y
            <4> HIDE DEF T
            <4> QED
                BY <2>2, <2>4, LeastOf
        <3> QED
            BY <3>1
    <2>6. NearestTime = CHOOSE x \in T : \A t \in Listed(timer_list) : x <= timeout[t]
        BY <1>2 DEF NearestTime
    <2>7. NearestTime \in T /\ \A t \in Listed(timer_list) : NearestTime <= timeout[t]
        BY <2>5, <2>6
    <2> QED
        BY <2>2, <2>7
<1> QED
    BY <1>1, <1>2

-----------------------------------------------------------------------------
(* The invariant is inductive.                                             *)

LEMMA StepKinds ==
    ASSUME TypeOK, [Next]_vars
    PROVE  \/ Tick \/ SelectIsCalled \/ UpdateBegins \/ SelectFails \/ CallbackReturns
           \/ RemovalBegins \/ RemovalEnds \/ UNCHANGED vars
           \/ \E t \in Timers : Fire(t)
           \/ \E t \in Timers : Remove(t)
           \/ \E t \in Timers : DelTimer(t)
           \/ \E t \in Timers, at \in Nat : Schedule(t, at) /\ (at \in Moments \/ at >= now)
<1>1. CASE Pass
    BY <1>1 DEF Pass, SelectTimesOut
<1>2. CASE Tick \/ DescriptorReadable \/ SelectFails \/ UNCHANGED vars
    BY <1>2 DEF DescriptorReadable
<1>3. CASE \E t \in Timers : DelTimer(t)
    BY <1>3
<1>4. CASE \E t \in Timers, d \in Delays : Schedule(t, now + d)
    <2>1. PICK t \in Timers, d \in Delays : Schedule(t, now + d)
        BY <1>4
    <2>2. now + d \in Nat /\ now + d >= now
        BY TimeAssumption DEF TypeOK
    <2> QED
        BY <2>1, <2>2
<1>5. CASE \E t \in Timers, at \in Moments : Schedule(t, at)
    BY <1>5, MomentsAssumption
<1>6. \/ Pass \/ Tick \/ DescriptorReadable \/ SelectFails \/ UNCHANGED vars
      \/ \E t \in Timers : DelTimer(t)
      \/ \E t \in Timers, d \in Delays : Schedule(t, now + d)
      \/ \E t \in Timers, at \in Moments : Schedule(t, at)
    BY Zenon DEF Next
<1> QED
    BY <1>1, <1>2, <1>3, <1>4, <1>5, <1>6

LEMMA FireKeeps ==
    ASSUME TimersInv, NEW t \in Timers, Fire(t)
    PROVE  TimersInv'
<1> USE DEF TimersInv
<1>1. TypeOK'
    BY DEF TypeOK, Fire
<1>2. FlagsAgree'
    <2> SUFFICES ASSUME NEW x \in Timers PROVE FlagsOf(x)'
        BY DEF FlagsAgree
    <2>1. CASE x = t
        BY <2>1 DEF Fire, TypeOK, FlagsAgree, FlagsOf
    <2>2. CASE x # t
        BY <2>2 DEF Fire, TypeOK, FlagsAgree, FlagsOf
    <2> QED
        BY <2>1, <2>2
<1>3. PassAgrees'
    BY DEF Fire, PassAgrees, TypeOK
<1> QED
    BY <1>1, <1>2, <1>3

LEMMA RemoveKeeps ==
    ASSUME TimersInv, NEW t \in Timers, Remove(t)
    PROVE  TimersInv'
<1> USE DEF TimersInv
<1>1. Unlink(t) /\ t \in Listed(timer_list) /\ pc = "remove" /\ ~active[t]
    BY DEF Remove
<1>2. UNCHANGED <<timeout, now, pc, wake, current_time, ringing, calls, alarm, fired>>
    BY DEF Remove
<1>3. TypeOK'
    <2>1. timer_list' \in Seq(Timers) /\ Distinct(timer_list')
        BY <1>1, UnlinkAgrees
    <2>2. /\ active' \in [Timers -> BOOLEAN]
          /\ handled' \in [Timers -> BOOLEAN]
          /\ in_list' \in [Timers -> BOOLEAN]
        BY <1>1, UnlinkAgrees DEF TypeOK
    <2> QED
        BY <1>2, <2>1, <2>2 DEF TypeOK
<1>4. FlagsAgree'
    <2> SUFFICES ASSUME NEW x \in Timers PROVE FlagsOf(x)'
        BY DEF FlagsAgree
    <2>1. CASE x = t
        BY <2>1, <1>1, <1>2, UnlinkAgrees DEF TypeOK, FlagsAgree, FlagsOf
    <2>2. CASE x # t
        BY <2>2, <1>1, <1>2, UnlinkAgrees DEF TypeOK, FlagsAgree, FlagsOf
    <2> QED
        BY <2>1, <2>2
<1>5. PassAgrees'
    BY <1>1, <1>2 DEF PassAgrees
<1> QED
    BY <1>3, <1>4, <1>5

LEMMA WalkKeeps ==
    ASSUME TimersInv, SelectIsCalled \/ UpdateBegins \/ RemovalBegins
    PROVE  TimersInv'
<1> USE DEF TimersInv, flags
<1>1. CASE SelectIsCalled
    <2>1. wake' \in Nat \cup {None}
        BY <1>1, NearestIsLeast DEF SelectIsCalled, TypeOK
    <2>2. TypeOK'
        BY <1>1, <2>1 DEF SelectIsCalled, TypeOK
    <2> QED
        BY <1>1, <2>2 DEF SelectIsCalled, FlagsAgree, FlagsOf, PassAgrees
<1>2. CASE UpdateBegins
    <2>1. handled' \in [Timers -> BOOLEAN]
        BY <1>2 DEF UpdateBegins, TypeOK
    <2>2. TypeOK'
        BY <1>2, <2>1 DEF UpdateBegins, TypeOK
    <2> QED
        BY <1>2, <2>2 DEF UpdateBegins, FlagsAgree, FlagsOf, PassAgrees, TypeOK
<1>3. CASE RemovalBegins
    <2>1. handled' \in [Timers -> BOOLEAN]
        BY <1>3 DEF RemovalBegins, TypeOK
    <2>2. TypeOK'
        BY <1>3, <2>1 DEF RemovalBegins, TypeOK
    <2> QED
        BY <1>3, <2>2 DEF RemovalBegins, FlagsAgree, FlagsOf, PassAgrees
<1> QED
    BY <1>1, <1>2, <1>3

LEMMA TimersStep == TimersInv /\ [Next]_vars => TimersInv'
<1> SUFFICES ASSUME TimersInv, [Next]_vars PROVE TimersInv'
    OBVIOUS
<1> USE DEF TimersInv, flags
<1>1. CASE Tick
    <2>1. TypeOK' /\ FlagsAgree'
        BY <1>1 DEF Tick, TypeOK, FlagsAgree, FlagsOf
    <2>2. PassAgrees'
        BY <1>1 DEF Tick, TypeOK, PassAgrees
    <2> QED
        BY <2>1, <2>2
<1>2. CASE SelectIsCalled \/ UpdateBegins \/ RemovalBegins
    BY <1>2, WalkKeeps
<1>3. CASE SelectFails
    BY <1>3 DEF SelectFails, TypeOK, FlagsAgree, FlagsOf, PassAgrees
<1>4. CASE CallbackReturns
    BY <1>4 DEF CallbackReturns, TypeOK, FlagsAgree, FlagsOf, PassAgrees
<1>5. CASE RemovalEnds
    BY <1>5 DEF RemovalEnds, TypeOK, FlagsAgree, FlagsOf, PassAgrees
<1>6. CASE \E t \in Timers : Fire(t) \/ Remove(t)
    BY <1>6, FireKeeps, RemoveKeeps
<1>7. CASE \E t \in Timers : DelTimer(t)
    BY <1>7, DelTimerKeeps
<1>8. CASE \E t \in Timers, at \in Nat : Schedule(t, at)
    BY <1>8, ScheduleKeeps
<1>9. CASE UNCHANGED vars
    BY <1>9 DEF vars, TypeOK, FlagsAgree, FlagsOf, PassAgrees
<1> QED
    BY <1>1, <1>2, <1>3, <1>4, <1>5, <1>6, <1>7, <1>8, <1>9, StepKinds

\* The invariant: timer.c keeps its list and the flags of its timers consistent.
THEOREM TimersInvariant == Spec => []TimersInv
BY TimersInit, TimersStep, PTL DEF Spec

\* The flags of a timer agree with the list and with what was asked for, whatever
\* callbacks do to the list under update_timers' walk (timer.c:136-150).
THEOREM FlagsAlwaysAgree == Spec => []FlagsAgree
<1>1. TimersInv => FlagsAgree
    BY DEF TimersInv
<1> QED
    BY <1>1, TimersInvariant, PTL

\* A timer fires once in a pass: one that has fired is handled, whoever deletes,
\* adds or schedules it meanwhile, and a handled timer does not fire.
THEOREM FiresOncePerPass == Spec => OncePerPass
<1> DEFINE Once == \A t \in Timers : ringing # t /\ ringing' = t => t \notin fired
<1>1. TimersInv /\ [Next]_vars => [Once]_vars
    <2> SUFFICES ASSUME TimersInv, [Next]_vars, NEW t \in Timers, ringing # t, ringing' = t
                 PROVE  t \notin fired
        OBVIOUS
    <2> USE NoneIsNoTimer
    <2>1. CASE \E x \in Timers : Fire(x)
        BY <2>1 DEF Fire, Due, TimersInv, PassAgrees
    <2>2. CASE CallbackReturns
        BY <2>2 DEF CallbackReturns
    <2>3. CASE \/ Tick \/ SelectIsCalled \/ UpdateBegins \/ SelectFails \/ RemovalBegins
               \/ RemovalEnds \/ UNCHANGED vars
        BY <2>3 DEF Tick, SelectIsCalled, UpdateBegins, SelectFails, RemovalBegins, RemovalEnds, vars
    <2>4. CASE \E x \in Timers : Remove(x) \/ DelTimer(x) \/ \E at \in Nat : Schedule(x, at)
        BY <2>4 DEF Remove, DelTimer, Schedule, UserCalls
    <2> QED
        BY <2>1, <2>2, <2>3, <2>4, StepKinds DEF TimersInv
<1> QED
    BY <1>1, TimersInvariant, PTL DEF Spec, OncePerPass

-----------------------------------------------------------------------------
(* Timers implement an alarm clock.                                        *)

LEMMA ClockInit == Init => Clock!Init
BY DEF Init, Clock!Init, Clock!Off, None

LEMMA ClockStep == TimersInv /\ [Next]_vars => [Clock!Next]_(Clock!alarmVars)
<1> SUFFICES ASSUME TimersInv, [Next]_vars
             PROVE  Clock!Next \/ UNCHANGED Clock!alarmVars
    OBVIOUS
<1> USE NoneIsNoTimer DEF Clock!Off, None
<1>1. CASE Tick
    BY <1>1 DEF Tick, Clock!Tick, Clock!Next
<1>2. CASE \E t \in Timers : Fire(t)
    <2>1. PICK t \in Timers : Fire(t)
        BY <1>2
    <2>2. active[t] /\ alarm[t] = timeout[t]
        BY <2>1 DEF Fire, Due, TimersInv, FlagsAgree, FlagsOf
    <2>3. alarm[t] # None /\ alarm[t] <= now
        <3>1. timeout[t] \in Nat /\ current_time \in Nat /\ now \in Nat
            BY DEF TimersInv, TypeOK
        <3>2. timeout[t] <= current_time /\ current_time <= now
            BY <2>1 DEF Fire, Due, TimersInv, PassAgrees
        <3> QED
            BY <3>1, <3>2, <2>2
    <2>4. Clock!Ring(t)
        BY <2>1, <2>3 DEF Fire, Clock!Ring
    <2> QED
        BY <2>4 DEF Clock!Next
<1>3. CASE CallbackReturns
    BY <1>3 DEF CallbackReturns, Clock!Silence, Clock!Next
<1>4. CASE \E t \in Timers : DelTimer(t)
    BY <1>4 DEF DelTimer, UserCalls, Clock!Cancel, Clock!Next
<1>5. CASE \E t \in Timers, at \in Nat : Schedule(t, at)
    <2>1. PICK t \in Timers, at \in Nat : Schedule(t, at)
        BY <1>5
    <2>2. alarm' = [alarm EXCEPT ![t] = at] /\ UNCHANGED <<now, ringing>>
        BY <2>1 DEF Schedule, UserCalls
    <2>3. alarm'[t] = at
        BY <2>2 DEF TimersInv, TypeOK
    <2>4. Clock!Set(t)
        BY <2>2, <2>3 DEF Clock!Set
    <2> QED
        BY <2>4 DEF Clock!Next
<1>6. CASE SelectIsCalled \/ UpdateBegins \/ SelectFails \/ RemovalBegins \/ RemovalEnds
    BY <1>6 DEF SelectIsCalled, UpdateBegins, SelectFails, RemovalBegins, RemovalEnds, Clock!alarmVars
<1>7. CASE \E t \in Timers : Remove(t)
    BY <1>7 DEF Remove, Clock!alarmVars
<1>8. CASE UNCHANGED vars
    BY <1>8 DEF vars, Clock!alarmVars
<1> QED
    BY <1>1, <1>2, <1>3, <1>4, <1>5, <1>6, <1>7, <1>8, StepKinds DEF TimersInv

\* What fires was asked for, is due and fires once: timer.c is an alarm clock.
THEOREM TimersAreAnAlarmClock == Spec => ImplementsAlarmClock
BY ClockInit, ClockStep, TimersInvariant, PTL DEF Spec, ImplementsAlarmClock, Clock!Spec

-----------------------------------------------------------------------------
(* select() oversleeps if, and only if, some user asks for the timeout 0.  *)

SleepInv == TimersInv /\ OnlyZeroOversleeps

LEMMA SleepInit == Init => SleepInv
BY TimersInit DEF Init, SleepInv, OnlyZeroOversleeps

\* What is asked for, when the loop calls select(), is on the list with its time, and
\* what is on the list is asked for.
LEMMA AskedIsListed ==
    ASSUME TimersInv, pc = "loop", NEW t \in Timers
    PROVE  /\ alarm[t] # None <=> t \in Listed(timer_list)
           /\ t \in Listed(timer_list) => alarm[t] = timeout[t]
<1>1. FlagsOf(t)
    BY DEF TimersInv, FlagsAgree
<1>2. timeout[t] \in Nat
    BY DEF TimersInv, TypeOK
<1> QED
    BY <1>1, <1>2, NoneIsNoTimer DEF FlagsOf

LEMMA SelectKnowsTheNearest ==
    ASSUME TimersInv, SelectIsCalled
    PROVE  OnlyZeroOversleeps'
<1>1. pc = "loop" /\ UNCHANGED <<timer_list, alarm, now>>
    BY DEF SelectIsCalled
<1>2. now \in Nat /\ timeout \in [Timers -> Nat] /\ Listed(timer_list) \subseteq Timers
    BY DEF TimersInv, TypeOK, Listed
<1>3. CASE AsksForZero
    <2>1. PICK z \in Timers : alarm[z] = 0
        BY <1>3 DEF AsksForZero
    <2>2. z \in Listed(timer_list) /\ timeout[z] = 0
        BY <1>1, <2>1, AskedIsListed, NoneIsNoTimer
    <2>3. timer_list # <<>>
        BY <2>2 DEF Listed
    <2>4. NearestTime \in Nat /\ NearestTime <= timeout[z]
        BY <2>2, <2>3, NearestIsLeast DEF TimersInv
    <2>5. wake' = None
        BY <2>2, <2>4 DEF SelectIsCalled
    <2>6. AsksForZero'
        BY <1>1, <1>3 DEF AsksForZero
    <2> QED
        BY <2>5, <2>6 DEF OnlyZeroOversleeps
<1>4. CASE ~AsksForZero
    <2>1. ~AsksForZero'
        BY <1>1, <1>4 DEF AsksForZero
    <2>2. ASSUME NEW t \in Timers, alarm[t] # None
          PROVE  wake' # None /\ (wake' <= alarm[t] \/ wake' <= now)
        <3>1. t \in Listed(timer_list) /\ alarm[t] = timeout[t]
            BY <1>1, <2>2, AskedIsListed
        <3>2. timer_list # <<>>
            BY <3>1 DEF Listed
        <3>3. /\ NearestTime \in Nat
              /\ NearestTime <= timeout[t]
              /\ \E u \in Listed(timer_list) : NearestTime = timeout[u]
            BY <3>1, <3>2, NearestIsLeast DEF TimersInv
        <3>4. NearestTime # 0
            BY <1>1, <1>2, <1>4, <3>3, AskedIsListed DEF AsksForZero
        <3>5. wake' = IF NearestTime < now THEN now ELSE NearestTime
            BY <3>4 DEF SelectIsCalled
        <3> QED
            BY <1>2, <3>1, <3>3, <3>5, NoneIsNoTimer
    <2>3. \A t \in Timers : alarm'[t] # None => WakesFor(t)'
        BY <1>1, <2>2 DEF WakesFor
    <2> QED
        BY <2>1, <2>3 DEF OnlyZeroOversleeps
<1> QED
    BY <1>3, <1>4

LEMMA SleepStep == SleepInv /\ [Next]_vars => SleepInv'
<1> SUFFICES ASSUME SleepInv, [Next]_vars PROVE SleepInv'
    OBVIOUS
<1> USE DEF SleepInv
<1>1. TimersInv'
    BY TimersStep
<1>2. OnlyZeroOversleeps'
    <2>1. CASE SelectIsCalled
        BY <2>1, SelectKnowsTheNearest
    <2>2. CASE pc' # "select"
        BY <2>2 DEF OnlyZeroOversleeps
    <2>3. CASE Tick
        <3>1. now \in Nat /\ now' = now + 1 /\ UNCHANGED <<pc, wake, alarm>>
            BY <2>3 DEF Tick, TimersInv, TypeOK
        <3>2. wake \in Nat \cup {None}
            BY DEF TimersInv, TypeOK
        <3>3. ASSUME NEW t \in Timers, WakesFor(t)
              PROVE  WakesFor(t)'
            BY <3>1, <3>2, <3>3 DEF WakesFor
        <3>4. AsksForZero' = AsksForZero
            BY <3>1 DEF AsksForZero
        <3> QED
            BY <3>1, <3>3, <3>4 DEF OnlyZeroOversleeps
    <2>4. CASE UNCHANGED vars \/ CallbackReturns
        BY <2>4 DEF vars, CallbackReturns, OnlyZeroOversleeps, AsksForZero, WakesFor
    <2>5. CASE \E t \in Timers : DelTimer(t) \/ \E at \in Nat : Schedule(t, at)
        <3>1. (pc = "loop" \/ ringing # None) /\ pc' = pc
            BY <2>5 DEF DelTimer, Schedule, UserCalls
        <3> QED
            BY <3>1, <2>2 DEF TimersInv, PassAgrees
    <2>6. CASE \/ UpdateBegins \/ SelectFails \/ RemovalBegins \/ RemovalEnds
               \/ \E t \in Timers : Fire(t) \/ Remove(t)
        BY <2>2, <2>6 DEF UpdateBegins, SelectFails, RemovalBegins, RemovalEnds, Fire, Remove
    <2> QED
        BY <2>1, <2>3, <2>4, <2>5, <2>6, StepKinds DEF TimersInv
<1> QED
    BY <1>1, <1>2

\* While select() sleeps, every timer that is asked for ends the sleep at its time or
\* has passed already; but if one is asked for at 0 the sleep has no end, which is not
\* what timer.h:37-39 says of a passed timer. Whatever the users add, schedule and delete.
THEOREM OnlyZeroMakesItOversleep == Spec => []OnlyZeroOversleeps
<1>1. SleepInv => OnlyZeroOversleeps
    BY DEF SleepInv
<1> QED
    BY <1>1, SleepInit, SleepStep, PTL DEF Spec

=============================================================================
