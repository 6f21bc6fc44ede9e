--------------------------- MODULE TrxServerProofs ---------------------------
(***************************************************************************)
(* Theorems about the transceiver server, for every number of slots, peers *)
(* and descriptors, whatever fails.                                        *)
(***************************************************************************)
EXTENDS TrxServer, LinkedListProofs, WellFoundedInduction, TLAPS

(* The invariant.                                                          *)

\* The listening socket and the O&M link never leave the list, and as long as the
\* listening socket can still be called in a pass every watched descriptor is open,
\* so that the descriptor of a new connection belongs to nobody else.
AcceptIsSafe ==
    /\ {Listen, Oml} \subseteq Registered
    /\ fd[Listen] # None /\ fd[Oml] # None
    /\ inPass /\ fd[Listen] \in readset => Watched \subseteq isOpen

SlotsInv == TypeOK /\ WalkIsSafe /\ SlotsAgree /\ AcceptIsSafe

LEMMA ConstantTypes ==
    /\ None \notin Entries /\ None \notin Fds
    /\ Slots \subseteq Entries /\ Listen \in Entries /\ Oml \in Entries
    /\ Listen \notin Slots /\ Oml \notin Slots /\ Listen # Oml
    /\ \A e \in Entries : e \in Slots \/ e = Listen \/ e = Oml
BY EntriesAreThese, FdsAssumption, MaxTrxAssumption DEF None, Slots, Listen, Oml

LEMMA SlotsInit == Init => SlotsInv
<1> SUFFICES ASSUME Init PROVE SlotsInv
    OBVIOUS
<1> USE ConstantTypes
<1>1. socket_fds = <<Oml, Listen>> /\ Registered = {Oml, Listen}
    BY DEF Init, Registered, Listed
<1>2. /\ fd \in [Entries -> Fds \cup {None}] /\ fd[Oml] = 0 /\ fd[Listen] = 1
      /\ \A i \in Slots : fd[i] = None
    BY FirstFds DEF Init
<1>3. TypeOK
    <2>1. socket_fds \in Seq(Entries)
        BY <1>1
    <2>2. pending \in Seq({"there", "gone"})
        BY EmptySeq DEF Init
    <2>3. maxfd \in Fds /\ isOpen \subseteq Fds /\ readset \subseteq Fds
        BY FirstFds DEF Init
    <2>4. rx \in [Fds -> Arrivals]
        BY DEF Init, Arrivals
    <2>5. inPass \in BOOLEAN
        BY DEF Init
    <2>6. unregistered_count \in 0 .. 1 /\ peers \in 0 .. MaxPeers /\ messages \in 0 .. MaxMessages
          /\ failing \in FailureModes
        BY BudgetAssumption DEF Init
    <2>7. ufd \in Entries \cup {None}
        BY DEF Init
    <2>8. held \subseteq Buffers /\ running \in BOOLEAN
        BY DEF Init
    <2> QED
        BY <1>2, <2>1, <2>2, <2>3, <2>4, <2>5, <2>6, <2>7, <2>8 DEF TypeOK
<1>4. SlotsAgree
    BY <1>1, <1>2 DEF SlotsAgree, Distinct, None
<1>5. WalkIsSafe /\ AcceptIsSafe
    <2>1. ~inPass
        BY DEF Init
    <2>2. fd[Listen] # None /\ fd[Oml] # None
        BY <1>2 DEF None
    <2> QED
        BY <1>1, <2>1, <2>2 DEF WalkIsSafe, AcceptIsSafe
<1> QED
    BY <1>3, <1>4, <1>5 DEF SlotsInv

\* A step that leaves list and descriptors alone.
LEMMA QuietStep ==
    ASSUME SlotsInv, TypeOK', UNCHANGED <<socket_fds, fd, isOpen, failing>>,
           inPass' => ufd' \in Registered \cup {None},
           inPass' /\ fd[Listen] \in readset' => Watched \subseteq isOpen
    PROVE  SlotsInv'
BY DEF SlotsInv, WalkIsSafe, SlotsAgree, AcceptIsSafe, Registered, Watched

\* Where the walk goes after a callback that removed nothing.
LEMMA ResumeNone ==
    ASSUME SlotsInv, NEW e \in Registered, Resume(e, 0), Listed(socket_fds) \subseteq Listed(socket_fds')
    PROVE  ufd' \in Registered \cup {None} /\ unregistered_count' \in 0 .. 1
<1>1. After(socket_fds, e) \in Registered \cup {None}
    BY AfterIsNext, ConstantTypes DEF SlotsInv, TypeOK, SlotsAgree, Registered
<1>2. unregistered_count \in 0 .. 1
    BY DEF SlotsInv, TypeOK
<1> QED
    BY <1>1, <1>2 DEF Resume

LEMMA RegisteredEntries ==
    ASSUME TypeOK
    PROVE  Registered \subseteq Entries
<1>1. \A i \in 1 .. Len(socket_fds) : socket_fds[i] \in Entries
    BY ElementOfSeq DEF TypeOK
<1> QED
    BY <1>1 DEF Registered, Listed

LEMMA SelectStep ==
    ASSUME SlotsInv, Select
    PROVE  SlotsInv'
<1>1. ufd' \in Registered \cup {None}
    <2>1. Len(socket_fds) \in Nat /\ (socket_fds # <<>> => Len(socket_fds) # 0)
        BY EmptySeq, LenProperties DEF SlotsInv, TypeOK
    <2> QED
        BY <2>1 DEF Select, SocketSelectMain, First, Registered, Listed
<1>2. TypeOK'
    <2>1. Registered \subseteq Entries
        BY RegisteredEntries DEF SlotsInv
    <2>2. readset' \subseteq Fds /\ ufd' \in Entries \cup {None} /\ inPass' \in BOOLEAN
        BY <1>1, <2>1 DEF Select, SocketSelectMain, Ready, SlotsInv, TypeOK, AcceptIsSafe
    <2>3. unregistered_count' \in 0 .. 1
        BY DEF Select, SocketSelectMain
    <2> QED
        BY <2>2, <2>3 DEF Select, SocketSelectMain, SlotsInv, TypeOK, peerVars, Quiet
<1> QED
    BY <1>1, <1>2, QuietStep DEF peerVars, Quiet, Select, SocketSelectMain

LEMMA WalkStep ==
    ASSUME SlotsInv, Walk
    PROVE  SlotsInv'
<1>1. CASE NotReadable
    <2>1. ufd' \in Registered \cup {None}
        BY <1>1, AfterIsNext, ConstantTypes DEF NotReadable, SlotsInv, TypeOK, SlotsAgree, Registered
    <2>2. TypeOK'
        BY <1>1, <2>1, RegisteredEntries DEF NotReadable, Walk, SlotsInv, TypeOK, peerVars, Quiet
    <2> QED
        BY <1>1, <2>1, <2>2, QuietStep DEF Walk, peerVars, Quiet, NotReadable, SlotsInv, AcceptIsSafe
<1>2. CASE PassEnds
    <2>1. TypeOK'
        BY <1>2 DEF PassEnds, Walk, SlotsInv, TypeOK, peerVars, Quiet
    <2> QED
        BY <1>2, <2>1, QuietStep DEF Walk, peerVars, Quiet, PassEnds
<1> QED
    BY <1>1, <1>2 DEF Walk

LEMMA PeerStep ==
    ASSUME SlotsInv,
           Peers
    PROVE  SlotsInv'
<1>1. UNCHANGED loopVars
    BY DEF Peers, PeerConnects, PeerGivesUp, PeerSends, PeerCloses
<1>3. failing' = failing
    BY DEF Peers, PeerConnects, PeerGivesUp, PeerSends, PeerCloses, peerVars
<1>2. TypeOK'
    <2>1. CASE PeerConnects
        <3>1. pending' \in Seq({"there", "gone"})
            BY <2>1, AppendProperties DEF PeerConnects, SlotsInv, TypeOK
        <3>2. peers' \in 0 .. MaxPeers
            BY <2>1, BudgetAssumption DEF PeerConnects, SlotsInv, TypeOK
        <3> QED
            BY <2>1, <3>1, <3>2 DEF PeerConnects, SlotsInv, TypeOK, loopVars
    <2>2. CASE PeerGivesUp
        <3>1. pending' \in Seq({"there", "gone"})
            BY <2>2, ExceptSeq DEF PeerGivesUp, SlotsInv, TypeOK
        <3> QED
            BY <2>2, <3>1 DEF PeerGivesUp, SlotsInv, TypeOK, loopVars, peerVars
    <2>3. ASSUME NEW f \in Fds, PeerSends(f)
          PROVE  TypeOK'
        BY <2>3, BudgetAssumption DEF PeerSends, SlotsInv, TypeOK, loopVars, Arrivals
    <2>4. ASSUME NEW f \in Fds, PeerCloses(f)
          PROVE  TypeOK'
        BY <2>4 DEF PeerCloses, SlotsInv, TypeOK, loopVars, peerVars, Arrivals
    <2> QED
        BY <2>1, <2>2, <2>3, <2>4 DEF Peers
<1> QED
    BY <1>1, <1>2, <1>3, QuietStep DEF peerVars, loopVars, SlotsInv, WalkIsSafe, AcceptIsSafe
-----------------------------------------------------------------------------
(* The callbacks.                                                          *)

\* find_index finds a slot with the descriptor of the entry called: if that slot is
\* registered, it is the entry itself.
LEMMA FindsOne ==
    ASSUME NEW e \in Slots
    PROVE  FindIndex(fd[e]) \in Slots /\ fd[FindIndex(fd[e])] = fd[e]
<1> DEFINE S == {j \in Slots : fd[j] = fd[e]}
<1>1. S \in SUBSET Nat /\ S # {}
    BY MaxTrxAssumption DEF Slots
<1> HIDE DEF S
<1>2. PICK i \in S : \A y \in S : ~ (<<y, i>> \in OpToRel(<, Nat))
    BY <1>1, NatLessThanWellFounded, WFMin
<1>3. IsLowest(i, S)
    <2>1. ASSUME NEW y \in S PROVE i <= y
        <3>1. ~ (y < i) /\ i \in Nat /\ y \in Nat
            BY <1>1, <1>2 DEF OpToRel
        <3> QED
            BY <3>1
    <2> QED
        BY <2>1 DEF IsLowest
<1> QED
    BY <1>2, <1>3 DEF FindIndex, IsLowest, S

LEMMA OmlStep ==
    ASSUME SlotsInv, OmlConnection
    PROVE  SlotsInv'
<1>1. ufd' \in Registered \cup {None} /\ unregistered_count' \in 0 .. 1
    BY ResumeNone DEF OmlConnection, Called
<1>2. readset' \subseteq readset /\ inPass' = inPass /\ inPass
    BY DEF OmlConnection, Called
<1>3. rx' \in [Fds -> Arrivals]
    BY DEF OmlConnection, SlotsInv, TypeOK, Arrivals
<1>4. held' \subseteq Buffers
    BY DEF OmlConnection, Receives, Buffers, SlotsInv, TypeOK
<1>5. TypeOK'
    BY <1>1, <1>2, <1>3, <1>4, RegisteredEntries DEF OmlConnection, SlotsInv, TypeOK, peerVars
<1> QED
    BY <1>1, <1>2, <1>5, QuietStep DEF peerVars, OmlConnection, SlotsInv, AcceptIsSafe

\* A callback that does not come back leaves list, slots and descriptors as they are.
LEMMA NeverReturnsStep ==
    ASSUME SlotsInv, NEW e, NEW b, NeverReturns(e, b)
    PROVE  SlotsInv'
<1>1. /\ readset' \subseteq readset /\ inPass' = inPass /\ inPass
      /\ UNCHANGED <<socket_fds, fd, maxfd, isOpen, ufd, unregistered_count>>
      /\ UNCHANGED <<pending, rx, held, peers, messages, failing>> /\ running' = FALSE
    BY DEF NeverReturns, Called, peerVars
<1>2. TypeOK'
    BY <1>1 DEF SlotsInv, TypeOK
<1> QED
    BY <1>1, <1>2, QuietStep DEF SlotsInv, WalkIsSafe, AcceptIsSafe, Registered

LEMMA LoseStep ==
    ASSUME SlotsInv, NEW e \in Slots, Called(e), LoseConnection(e, e),
           rx' = [rx EXCEPT ![fd[e]] = "nothing"], held' \subseteq Buffers,
           UNCHANGED <<pending, running, peerVars>>
    PROVE  SlotsInv'
<1> DEFINE s == socket_fds
<1> USE ConstantTypes
<1>1. /\ s \in Seq(Entries) /\ Distinct(s) /\ e \in Listed(s)
      /\ Registered = Listed(s) /\ Registered' = Listed(socket_fds')
      /\ socket_fds' = Without(s, e)
    BY DEF SlotsInv, TypeOK, SlotsAgree, LoseConnection, Registered
<1>2. /\ socket_fds' \in Seq(Entries) /\ Distinct(socket_fds')
      /\ Registered' = Registered \ {e}
    BY <1>1, WithoutOne
<1>3. ufd' \in Registered' \cup {None} /\ unregistered_count' \in 0 .. 1
    <2>1. After(s, e) \in Registered' \cup {None}
        BY <1>1, <1>2, AfterIsNext
    <2>2. First(socket_fds') \in Registered' \cup {None}
        BY <1>1, <1>2, EmptySeq, LenProperties DEF First, Listed
    <2>3. unregistered_count \in 0 .. 1
        BY DEF SlotsInv, TypeOK
    <2> QED
        BY <2>1, <2>2, <2>3 DEF LoseConnection, Resume
<1>4. /\ readset' \subseteq readset /\ inPass' = inPass /\ isOpen' = isOpen \ {fd[e]}
      /\ fd' = [fd EXCEPT ![e] = None] /\ maxfd' = maxfd
    BY DEF Called, LoseConnection
<1>5. fd \in [Entries -> Fds \cup {None}] /\ e \in Entries
    BY DEF SlotsInv, TypeOK
<1>6. TypeOK'
    <2>1. Registered \subseteq Entries
        BY RegisteredEntries DEF SlotsInv
    <2>2. ufd' \in Entries \cup {None}
        BY <1>2, <1>3, <2>1
    <2>3. rx' \in [Fds -> Arrivals]
        BY DEF SlotsInv, TypeOK, Arrivals
    <2>4. fd' \in [Entries -> Fds \cup {None}]
        BY <1>4, <1>5
    <2> QED
        BY <1>2, <1>3, <1>4, <2>2, <2>3, <2>4 DEF SlotsInv, TypeOK, peerVars
<1>7. SlotsAgree'
    <2>1. /\ \A i \in Slots : i \in Registered' => fd'[i] # None
          /\ "register" \notin failing => \A i \in Slots : fd'[i] # None => i \in Registered'
        BY <1>2, <1>4, <1>5 DEF SlotsInv, SlotsAgree
    <2>2. \A c, d \in Registered' : fd'[c] = fd'[d] => c = d
        BY <1>2, <1>4, <1>5, RegisteredEntries DEF SlotsInv, SlotsAgree
    <2> QED
        BY <1>2, <2>1, <2>2 DEF SlotsAgree, peerVars
<1>8. WalkIsSafe'
    BY <1>3 DEF WalkIsSafe
<1>9. AcceptIsSafe'
    <2>1. Registered \subseteq Entries /\ AcceptIsSafe
        BY RegisteredEntries DEF SlotsInv
    <2>2. fd'[Listen] = fd[Listen] /\ fd'[Oml] = fd[Oml]
        BY <1>4, <1>5
    <2>3. Watched' \subseteq Watched \ {fd[e]}
        <3>1. \A d \in Registered' : fd'[d] = fd[d] /\ fd[d] # fd[e] /\ d \in Registered
            BY <1>1, <1>2, <1>4, <1>5, <2>1 DEF SlotsInv, SlotsAgree
        <3> QED
            BY <3>1 DEF Watched
    <2> QED
        BY <1>2, <1>4, <2>1, <2>2, <2>3 DEF AcceptIsSafe
<1> QED
    BY <1>6, <1>7, <1>8, <1>9 DEF SlotsInv

LEMMA TrxCbStep ==
    ASSUME SlotsInv, NEW e \in Slots, TrxCb(e)
    PROVE  SlotsInv'
<1> DEFINE i == FindIndex(fd[e])
<1>1. i \in Slots /\ fd[i] = fd[e] /\ e \in Registered
    BY FindsOne DEF TrxCb, Called
<1> HIDE DEF i
<1>4. held' \subseteq Buffers
    BY DEF TrxCb, Receives, Buffers, SlotsInv, TypeOK
<1>2. CASE rx[fd[e]] = "message"
    <2>1. /\ Resume(e, 0) /\ UNCHANGED <<socket_fds, fd, maxfd, isOpen>>
          /\ rx' = [rx EXCEPT ![fd[e]] = "nothing"]
        BY <1>1, <1>2 DEF TrxCb, i
    <2>2. ufd' \in Registered \cup {None} /\ unregistered_count' \in 0 .. 1
        BY <2>1, ResumeNone DEF TrxCb, Called
    <2>3. readset' \subseteq readset /\ inPass' = inPass /\ inPass
        BY DEF TrxCb, Called
    <2>4. rx' \in [Fds -> Arrivals]
        BY <2>1 DEF SlotsInv, TypeOK, Arrivals
    <2>5. TypeOK'
        BY <1>4, <2>1, <2>2, <2>3, <2>4, RegisteredEntries DEF TrxCb, SlotsInv, TypeOK, peerVars
    <2> QED
        BY <2>1, <2>2, <2>3, <2>5, QuietStep DEF TrxCb, peerVars, SlotsInv, AcceptIsSafe
<1>3. CASE rx[fd[e]] # "message"
    <2>1. LoseConnection(e, i) /\ rx' = [rx EXCEPT ![fd[e]] = "nothing"]
        BY <1>1, <1>3 DEF TrxCb, i
    <2>2. i = e
        BY <1>1, <2>1 DEF LoseConnection, SlotsInv, SlotsAgree
    <2> QED
        BY <1>4, <2>1, <2>2, LoseStep DEF TrxCb
<1> QED
    BY <1>2, <1>3
-----------------------------------------------------------------------------
(* Accepting a connection.                                                 *)

\* A new registration under a descriptor nobody watches.
LEMMA RegisterStep ==
    ASSUME SlotsInv, NEW i \in Slots, NEW sd \in Fds, fd[i] = None, Accepts(sd),
           fd' = [fd EXCEPT ![i] = sd], SocketRegisterFd(i),
           isOpen' \in {isOpen, isOpen \cup {sd}}
    PROVE  SlotsInv'
<1> USE ConstantTypes
<1>1. /\ socket_fds \in Seq(Entries) /\ fd \in [Entries -> Fds \cup {None}]
      /\ i \notin Registered /\ i \in Entries /\ Registered \subseteq Entries
      /\ Distinct(socket_fds)
    BY RegisteredEntries DEF SlotsInv, TypeOK, SlotsAgree
<1>2. sd \notin Watched
    BY DEF SlotsInv, AcceptIsSafe, Accepts, Called, IsLowest
<1>3. /\ socket_fds' \in Seq(Entries) /\ Distinct(socket_fds')
      /\ Registered' = Registered \cup {i}
    <2>1. i \notin Listed(socket_fds) /\ socket_fds' = AddLast(socket_fds, i)
        BY <1>1 DEF SocketRegisterFd, Registered
    <2>2. /\ AddLast(socket_fds, i) \in Seq(Entries) /\ Distinct(AddLast(socket_fds, i))
          /\ Listed(AddLast(socket_fds, i)) = Listed(socket_fds) \cup {i}
        BY <1>1, <2>1, AddLastOne
    <2> QED
        BY <2>1, <2>2 DEF Registered
<1>4. /\ fd' \in [Entries -> Fds \cup {None}] /\ fd'[i] = sd
      /\ \A d \in Registered : fd'[d] = fd[d]
    BY <1>1
<1>5. ufd' \in Registered' \cup {None} /\ unregistered_count' \in 0 .. 1
    <2>1. Listen \in Registered /\ Resume(Listen, 0)
        BY DEF SlotsInv, AcceptIsSafe, Accepts
    <2> QED
        BY <1>3, <2>1, ResumeNone DEF Registered
<1>6. /\ readset' = readset \ {fd[Listen]} /\ inPass' = inPass /\ pending' = Tail(pending)
      /\ pending # <<>> /\ UNCHANGED <<rx, held, running, peerVars>>
    BY DEF Accepts, Called
<1>7. TypeOK'
    <2>1. ufd' \in Entries \cup {None}
        BY <1>1, <1>3, <1>5
    <2>2. pending' \in Seq({"there", "gone"})
        BY <1>6, HeadTailProperties DEF SlotsInv, TypeOK
    <2>3. maxfd' \in Fds
        BY <1>4 DEF SocketRegisterFd, SlotsInv, TypeOK
    <2> QED
        BY <1>3, <1>4, <1>5, <1>6, <2>1, <2>2, <2>3 DEF SlotsInv, TypeOK, peerVars
<1>8. SlotsAgree'
    <2>1. /\ \A k \in Slots : k \in Registered' => fd'[k] # None
          /\ "register" \notin failing => \A k \in Slots : fd'[k] # None => k \in Registered'
        BY <1>1, <1>3, <1>4, FdsAssumption DEF SlotsInv, SlotsAgree, None
    <2>2. \A c \in Registered : fd'[c] # fd'[i]
        BY <1>2, <1>4 DEF Watched
    <2>3. \A c, d \in Registered' : fd'[c] = fd'[d] => c = d
        BY <1>3, <1>4, <2>2 DEF SlotsInv, SlotsAgree
    <2> QED
        BY <1>3, <1>6, <2>1, <2>3 DEF SlotsAgree, peerVars
<1>9. AcceptIsSafe'
    <2>1. {Listen, Oml} \subseteq Registered /\ fd[Listen] # None /\ fd[Oml] # None
        BY DEF SlotsInv, AcceptIsSafe
    <2>2. fd'[Listen] = fd[Listen] /\ fd'[Oml] = fd[Oml] /\ fd'[Listen] \notin readset'
        BY <1>4, <1>6, <2>1
    <2> QED
        BY <1>3, <2>1, <2>2 DEF AcceptIsSafe
<1> QED
    BY <1>5, <1>7, <1>8, <1>9 DEF SlotsInv, WalkIsSafe

\* Accepting without a registration: nothing but the listen queue changes.
LEMMA NoRegisterStep ==
    ASSUME SlotsInv, Called(Listen), pending # <<>>, pending' \in {pending, Tail(pending)},
           Resume(Listen, 0),
           UNCHANGED <<socket_fds, fd, maxfd, isOpen, rx, held, running, peerVars>>
    PROVE  SlotsInv'
<1>1. ufd' \in Registered \cup {None} /\ unregistered_count' \in 0 .. 1
    BY ResumeNone DEF Called
<1>2. readset' \subseteq readset /\ inPass' = inPass /\ inPass
    BY DEF Called
<1>3. pending' \in Seq({"there", "gone"})
    BY HeadTailProperties, ZenonT(30) DEF SlotsInv, TypeOK
<1>4. TypeOK'
    BY <1>1, <1>2, <1>3, RegisteredEntries DEF SlotsInv, TypeOK, peerVars
<1> QED
    BY <1>1, <1>2, <1>4, QuietStep DEF peerVars, SlotsInv, AcceptIsSafe

\* A registration that fails: its slot, which is not registered, keeps the descriptor.
LEMMA RegistrationFailsStep ==
    ASSUME SlotsInv, NEW i \in Slots, NEW sd \in Fds, fd[i] = None, RegistrationFails(i, sd)
    PROVE  SlotsInv'
<1> USE ConstantTypes
<1>1. /\ fd' = [fd EXCEPT ![i] = sd] /\ fd \in [Entries -> Fds \cup {None}]
      /\ i \notin Registered /\ Registered \subseteq Entries
    BY RegisteredEntries DEF RegistrationFails, SlotsInv, TypeOK, SlotsAgree
<1>2. /\ UNCHANGED <<socket_fds, maxfd, isOpen, rx, held, running, peerVars, inPass>> /\ inPass
      /\ readset' \subseteq readset /\ pending' = Tail(pending) /\ pending # <<>>
      /\ "register" \in failing
    BY DEF RegistrationFails, Accepts, Called
<1>3. Registered' = Registered /\ Watched' = Watched /\ \A d \in Registered : fd'[d] = fd[d]
    <2>1. Registered' = Registered
        BY <1>2 DEF Registered
    <2>2. \A d \in Registered : fd'[d] = fd[d]
        BY <1>1
    <2> QED
        BY <2>1, <2>2 DEF Watched
<1>4. ufd' \in Registered \cup {None} /\ unregistered_count' \in 0 .. 1
    <2>1. Listen \in Registered /\ Resume(Listen, 0) /\ Listed(socket_fds) \subseteq Listed(socket_fds')
        BY <1>2 DEF SlotsInv, AcceptIsSafe, RegistrationFails, Accepts
    <2> QED
        BY <2>1, ResumeNone
<1>5. TypeOK'
    <2>1. pending' \in Seq({"there", "gone"})
        BY <1>2, HeadTailProperties DEF SlotsInv, TypeOK
    <2>2. fd' \in [Entries -> Fds \cup {None}] /\ ufd' \in Entries \cup {None}
        BY <1>1, <1>4
    <2> QED
        BY <1>2, <1>4, <2>1, <2>2 DEF SlotsInv, TypeOK, peerVars
<1>6. SlotsAgree'
    <2>1. Distinct(socket_fds)' /\ "register" \in failing'
        BY <1>2 DEF SlotsInv, SlotsAgree, Distinct, peerVars
    <2>2. \A d, e \in Registered' : fd'[d] = fd'[e] => d = e
        BY <1>3 DEF SlotsInv, SlotsAgree
    <2>3. \A k \in Slots : k \in Registered' => fd'[k] # None
        BY <1>3 DEF SlotsInv, SlotsAgree
    <2> QED
        BY <2>1, <2>2, <2>3 DEF SlotsAgree
<1>7. WalkIsSafe' /\ AcceptIsSafe'
    BY <1>1, <1>2, <1>3, <1>4 DEF SlotsInv, WalkIsSafe, AcceptIsSafe
<1> QED
    BY <1>5, <1>6, <1>7 DEF SlotsInv

LEMMA AcceptStep ==
    ASSUME SlotsInv, AcceptConnection
    PROVE  SlotsInv'
<1>1. CASE AcceptFails
    BY <1>1, NoRegisterStep DEF AcceptFails
<1>2. CASE TurnedAway
    <2>1. PICK sd \in Fds : Accepts(sd)
        BY <1>2 DEF TurnedAway
    <2> QED
        BY <1>2, <2>1, NoRegisterStep DEF TurnedAway, Accepts
<1>3. ASSUME NEW i \in Slots, NEW sd \in Fds, IsLowest(i, FreeSlots),
             Connected(i, sd) \/ RegistrationFails(i, sd) \/ WriteFails(i, sd)
      PROVE  SlotsInv'
    <2>1. fd[i] = None
        BY <1>3 DEF IsLowest, FreeSlots
    <2>2. CASE Connected(i, sd) \/ WriteFails(i, sd)
        <3>1. /\ Accepts(sd) /\ fd' = [fd EXCEPT ![i] = sd] /\ SocketRegisterFd(i)
              /\ isOpen' \in {isOpen, isOpen \cup {sd}}
            BY <2>2 DEF Connected, WriteFails
        <3> QED
            BY <2>1, <3>1, RegisterStep
    <2>3. CASE RegistrationFails(i, sd)
        BY <2>1, <2>3, RegistrationFailsStep
    <2> QED
        BY <1>3, <2>2, <2>3
<1> QED
    BY <1>1, <1>2, <1>3 DEF AcceptConnection

LEMMA SlotsStep ==
    ASSUME SlotsInv, [Next]_vars
    PROVE  SlotsInv'
<1>1. CASE Next
    BY <1>1, SelectStep, WalkStep, OmlStep, NeverReturnsStep, AcceptStep, TrxCbStep, PeerStep
       DEF Next, Loop, Callbacks
<1>2. CASE UNCHANGED vars
    <2>1. TypeOK'
        BY <1>2 DEF vars, loopVars, peerVars, SlotsInv, TypeOK
    <2> QED
        BY <1>2, <2>1, QuietStep DEF peerVars, vars, loopVars, SlotsInv, WalkIsSafe, AcceptIsSafe
<1> QED
    BY <1>1, <1>2

\* The slots of the server, the list of the loop and the descriptors agree, and the
\* walk never steps on a removed entry: the inductive invariant of trx_init.c and
\* select.c together.
THEOREM SlotsInvariant == Spec => []SlotsInv
<1>1. Init => SlotsInv
    BY SlotsInit
<1>2. SlotsInv /\ [Next]_vars => SlotsInv'
    BY SlotsStep
<1> QED
    BY <1>1, <1>2, PTL DEF Spec

\* Every entry is registered once, no two share a descriptor, and as long as no
\* registration fails the slots in use are the slots registered (find_index,
\* find_empty_record).
THEOREM SlotsAlwaysAgree == Spec => []SlotsAgree
<1>1. SlotsInv => SlotsAgree
    BY DEF SlotsInv
<1> QED
    BY <1>1, SlotsInvariant, PTL

\* The callbacks of this program never make the walk step on a removed entry,
\* though the restart of select.c:131 alone does not prevent it.
THEOREM WalkAlwaysSafe == Spec => []WalkIsSafe
<1>1. SlotsInv => WalkIsSafe
    BY DEF SlotsInv
<1> QED
    BY <1>1, SlotsInvariant, PTL

\* List, slots, descriptors and streams keep their types.
THEOREM ServerTypeCorrect == Spec => []TypeOK
<1>1. SlotsInv => TypeOK
    BY DEF SlotsInv
<1> QED
    BY <1>1, SlotsInvariant, PTL
-----------------------------------------------------------------------------
(* What is open and what is ready.                                         *)

\* The callback of a slot closes and empties its own connection at most.
LEMMA TrxCbMoves ==
    ASSUME SlotsInv, NEW e \in Slots, TrxCb(e)
    PROVE  /\ e \in Registered /\ readset' = readset \ {fd[e]}
           /\ rx' = [rx EXCEPT ![fd[e]] = "nothing"] /\ UNCHANGED pending
           /\ \/ UNCHANGED <<socket_fds, fd, isOpen>>
              \/ /\ isOpen' = isOpen \ {fd[e]} /\ fd' = [fd EXCEPT ![e] = None]
                 /\ Registered' = Registered \ {e}
<1> DEFINE i == FindIndex(fd[e])
<1>1. i \in Slots /\ fd[i] = fd[e] /\ e \in Registered
    BY FindsOne DEF TrxCb, Called
<1>2. readset' = readset \ {fd[e]} /\ UNCHANGED pending /\ rx' = [rx EXCEPT ![fd[e]] = "nothing"]
    BY <1>1 DEF TrxCb, Called
<1>3. CASE rx[fd[i]] = "message"
    BY <1>1, <1>2, <1>3 DEF TrxCb
<1>4. CASE rx[fd[i]] # "message"
    <2>1. LoseConnection(e, i)
        BY <1>4 DEF TrxCb
    <2>2. i = e
        BY <1>1, <2>1 DEF LoseConnection, SlotsInv, SlotsAgree
    <2>3. Registered' = Registered \ {e}
        BY <1>1, <2>1, <2>2, WithoutOne DEF LoseConnection, SlotsInv, SlotsAgree, TypeOK, Registered
    <2> QED
        BY <1>1, <1>2, <2>1, <2>2, <2>3 DEF LoseConnection
<1> QED
    BY <1>3, <1>4

\* Accepting ends the call of the listening socket, and registers a connection under
\* the descriptor opened, if it opens one.
LEMMA AcceptMoves ==
    ASSUME SlotsInv, AcceptConnection
    PROVE  /\ readset' = readset \ {fd[Listen]} /\ UNCHANGED rx
           /\ fd'[Listen] = fd[Listen]
           /\ \/ UNCHANGED <<socket_fds, fd, isOpen>>
              \/ \E i \in Slots, sd \in Fds :
                   /\ fd[i] = None /\ fd' = [fd EXCEPT ![i] = sd]
                   /\ isOpen' \in {isOpen, isOpen \cup {sd}}
                   /\ Registered' \in {Registered, Registered \cup {i}}
                   /\ isOpen' # isOpen => Registered' = Registered \cup {i}
<1> USE ConstantTypes
<1>1. CASE AcceptFails
    BY <1>1 DEF AcceptFails, Called
<1>2. CASE TurnedAway
    BY <1>2 DEF TurnedAway, Accepts, Called
<1>3. ASSUME NEW i \in Slots, NEW sd \in Fds, IsLowest(i, FreeSlots),
             Connected(i, sd) \/ RegistrationFails(i, sd) \/ WriteFails(i, sd)
      PROVE  /\ readset' = readset \ {fd[Listen]} /\ UNCHANGED rx
             /\ fd'[Listen] = fd[Listen]
             /\ fd[i] = None /\ fd' = [fd EXCEPT ![i] = sd]
             /\ isOpen' \in {isOpen, isOpen \cup {sd}}
             /\ Registered' \in {Registered, Registered \cup {i}}
             /\ isOpen' # isOpen => Registered' = Registered \cup {i}
    <2>1. /\ fd[i] = None /\ fd' = [fd EXCEPT ![i] = sd] /\ Accepts(sd)
          /\ i \notin Registered /\ i \in Entries
        BY <1>3 DEF IsLowest, FreeSlots, Connected, RegistrationFails, WriteFails,
                    SlotsInv, SlotsAgree
    <2>2. readset' = readset \ {fd[Listen]} /\ UNCHANGED rx /\ fd'[Listen] = fd[Listen]
        BY <2>1 DEF Accepts, Called, SlotsInv, TypeOK
    <2>3. CASE RegistrationFails(i, sd)
        BY <2>1, <2>2, <2>3 DEF RegistrationFails, Registered
    <2>4. CASE SocketRegisterFd(i) /\ isOpen' \in {isOpen, isOpen \cup {sd}}
        <3>1. Registered' = Registered \cup {i}
            BY <2>1, <2>4, AddLastOne
               DEF SocketRegisterFd, SlotsInv, SlotsAgree, TypeOK, Registered
        <3> QED
            BY <2>1, <2>2, <2>4, <3>1
    <2> QED
        BY <1>3, <2>3, <2>4 DEF Connected, WriteFails
<1> QED
    BY <1>1, <1>2, <1>3 DEF AcceptConnection

LEMMA NoLeakStep ==
    ASSUME SlotsInv, NoLeak, [Next]_vars
    PROVE  NoLeak'
<1> USE ConstantTypes
<1>1. CASE UNCHANGED <<socket_fds, fd, isOpen>>
    BY <1>1 DEF NoLeak, Watched, Registered
<1>2. ASSUME NEW e \in Slots, TrxCb(e) PROVE NoLeak'
    <2>1. CASE UNCHANGED <<socket_fds, fd, isOpen>>
        BY <1>1, <2>1
    <2>2. CASE /\ isOpen' = isOpen \ {fd[e]} /\ fd' = [fd EXCEPT ![e] = None]
               /\ Registered' = Registered \ {e}
        BY <2>2, RegisteredEntries DEF NoLeak, Watched, SlotsInv, TypeOK
    <2> QED
        BY <1>2, <2>1, <2>2, TrxCbMoves
<1>3. CASE AcceptConnection
    <2>1. ASSUME NEW i \in Slots, NEW sd \in Fds,
                 fd[i] = None, fd' = [fd EXCEPT ![i] = sd],
                 isOpen' \in {isOpen, isOpen \cup {sd}},
                 Registered' \in {Registered, Registered \cup {i}},
                 isOpen' # isOpen => Registered' = Registered \cup {i}
          PROVE  NoLeak'
        <3>1. fd'[i] = sd /\ \A d \in Registered : fd[d] # None => fd'[d] = fd[d]
            BY <2>1, RegisteredEntries DEF SlotsInv, TypeOK
        <3>2. ASSUME NEW f \in isOpen PROVE f \in Watched'
            <4>1. PICK d \in Registered : fd[d] = f
                BY <3>2 DEF NoLeak, Watched
            <4>2. f # None
                BY <3>2 DEF SlotsInv, TypeOK
            <4> QED
                BY <2>1, <3>1, <4>1, <4>2 DEF Watched
        <3>3. isOpen' # isOpen => sd \in Watched'
            BY <2>1, <3>1 DEF Watched
        <3> QED
            BY <2>1, <3>2, <3>3 DEF NoLeak
    <2> QED
        BY <1>1, <1>3, <2>1, AcceptMoves
<1>4. CASE Select \/ Walk \/ OmlConnection
    BY <1>1, <1>4 DEF Select, SocketSelectMain, Walk, NotReadable, PassEnds, OmlConnection
<1>5. CASE Peers
    BY <1>1, <1>5 DEF Peers, PeerConnects, PeerGivesUp, PeerSends, PeerCloses, loopVars
<1>6. ASSUME NEW e, NEW b, NeverReturns(e, b) PROVE NoLeak'
    BY <1>1, <1>6 DEF NeverReturns
<1> QED
    BY <1>1, <1>2, <1>3, <1>4, <1>5, <1>6 DEF Next, Loop, Callbacks, vars, loopVars

\* No descriptor is left open behind the back of the loop, whichever step of
\* accept_connection fails.
THEOREM NeverLeaks == Spec => []NoLeak
<1>1. ASSUME Init PROVE NoLeak
    <2>1. Registered = {Oml, Listen}
        BY <1>1 DEF Init, Registered, Listed
    <2>2. fd[Oml] = 0 /\ fd[Listen] = 1 /\ isOpen = {0, 1}
        BY <1>1, ConstantTypes DEF Init
    <2> QED
        BY <2>1, <2>2 DEF NoLeak, Watched
<1>2. SlotsInv /\ NoLeak /\ [Next]_vars => NoLeak'
    BY NoLeakStep
<1> QED
    BY <1>1, <1>2, SlotsInvariant, PTL DEF Spec

LEMMA FreshStep ==
    ASSUME SlotsInv, ReadsetIsFresh, [Next]_vars
    PROVE  ReadsetIsFresh'
<1> USE ConstantTypes
<1>1. ASSUME readset' \subseteq readset, UNCHANGED <<fd, isOpen, rx, pending>>
      PROVE  ReadsetIsFresh'
    BY <1>1 DEF ReadsetIsFresh, Ready
<1>2. ASSUME NEW e \in Slots, TrxCb(e) PROVE ReadsetIsFresh'
    <2>1. /\ readset' = readset \ {fd[e]} /\ rx' = [rx EXCEPT ![fd[e]] = "nothing"]
          /\ isOpen \ {fd[e]} \subseteq isOpen' /\ UNCHANGED pending /\ fd'[Listen] = fd[Listen]
        BY <1>2, TrxCbMoves DEF SlotsInv, TypeOK
    <2> QED
        BY <2>1 DEF ReadsetIsFresh, Ready, SlotsInv, TypeOK
<1>3. CASE AcceptConnection
    <2>1. /\ readset' = readset \ {fd[Listen]} /\ UNCHANGED rx /\ isOpen \subseteq isOpen'
        BY <1>3, AcceptMoves
    <2> QED
        BY <2>1 DEF ReadsetIsFresh, Ready
<1>4. CASE Select
    BY <1>4 DEF Select, Quiet, SocketSelectMain, ReadsetIsFresh, Ready
<1>5. CASE Walk
    BY <1>1, <1>5 DEF Walk, Quiet, NotReadable, PassEnds
<1>6. CASE OmlConnection
    BY <1>6 DEF OmlConnection, Called, ReadsetIsFresh, Ready, SlotsInv, TypeOK
<1>7. CASE PeerConnects \/ PeerGivesUp
    <2>1. /\ UNCHANGED <<readset, isOpen, fd, rx>>
          /\ pending # <<>> => pending' # <<>>
        <3>1. CASE PeerConnects
            <4>1. pending \in Seq({"there", "gone"}) /\ pending' = Append(pending, "there")
                BY <3>1 DEF PeerConnects, SlotsInv, TypeOK
            <4>2. Len(Append(pending, "there")) = Len(pending) + 1 /\ Len(pending) \in Nat
                BY <4>1, AppendProperties, LenProperties
            <4>3. Append(pending, "there") # <<>>
                BY <4>2, EmptySeq
            <4> QED
                BY <3>1, <4>1, <4>3 DEF PeerConnects, loopVars
        <3>2. CASE PeerGivesUp
            <4>1. PICK i \in 1 .. Len(pending) : pending' = [pending EXCEPT ![i] = "gone"]
                BY <3>2 DEF PeerGivesUp
            <4>2. pending' \in Seq({"there", "gone"}) /\ Len(pending') = Len(pending)
                BY <4>1, ExceptSeq DEF SlotsInv, TypeOK
            <4>3. Len(pending) \in Nat /\ Len(pending) >= 1
                BY <4>1, LenProperties DEF SlotsInv, TypeOK
            <4>4. pending' # <<>>
                BY <4>2, <4>3, EmptySeq
            <4> QED
                BY <3>2, <4>4 DEF PeerGivesUp, loopVars
        <3> QED
            BY <1>7, <3>1, <3>2
    <2> QED
        BY <2>1 DEF ReadsetIsFresh, Ready
<1>8. ASSUME NEW f \in Fds, PeerSends(f) \/ PeerCloses(f) PROVE ReadsetIsFresh'
    <2>1. /\ UNCHANGED <<readset, isOpen, fd, pending>>
          /\ \E m \in {"message", "empty", "closed"} : rx' = [rx EXCEPT ![f] = m]
        BY <1>8 DEF PeerSends, PeerCloses, loopVars
    <2> QED
        BY <2>1 DEF ReadsetIsFresh, Ready, SlotsInv, TypeOK
<1>9. CASE UNCHANGED vars
    BY <1>1, <1>9 DEF vars, loopVars
<1>10. ASSUME NEW e, NEW b, NeverReturns(e, b) PROVE ReadsetIsFresh'
    BY <1>1, <1>10 DEF NeverReturns, Called
<1> QED
    BY <1>2, <1>3, <1>4, <1>5, <1>6, <1>7, <1>8, <1>9, <1>10 DEF Next, Loop, Callbacks, Peers

\* What select() found readable is still so when the walk gets there, though earlier
\* callbacks of the pass close connections and reuse their descriptors.
THEOREM ReadsetAlwaysFresh == Spec => []ReadsetIsFresh
<1>1. Init => ReadsetIsFresh
    BY DEF Init, ReadsetIsFresh
<1>2. SlotsInv /\ ReadsetIsFresh /\ [Next]_vars => ReadsetIsFresh'
    BY FreshStep
<1> QED
    BY <1>1, <1>2, SlotsInvariant, PTL DEF Spec
-----------------------------------------------------------------------------
(* Turning peers away.                                                     *)

\* A new connection is entered in a free slot, whether it stays or not.
LEMMA AcceptTakesSlot ==
    ASSUME SlotsInv, NEW i \in Slots, NEW sd \in Fds, IsLowest(i, FreeSlots),
           Connected(i, sd) \/ RegistrationFails(i, sd) \/ WriteFails(i, sd)
    PROVE  fd' # fd
<1>1. fd[i] = None /\ sd # None
    BY ConstantTypes DEF IsLowest, FreeSlots
<1>2. fd \in [Entries -> Fds \cup {None}] /\ i \in Entries
    BY ConstantTypes DEF SlotsInv, TypeOK
<1>3. fd' = [fd EXCEPT ![i] = sd]
    BY DEF Connected, RegistrationFails, WriteFails
<1> QED
    BY <1>1, <1>2, <1>3

\* What is left of a sequence is shorter than the sequence.
LEMMA TailIsShorter ==
    ASSUME NEW S, NEW s \in Seq(S), s # <<>>, NEW t \in Seq(S), Len(t) >= Len(s)
    PROVE  Tail(s) # t
<1> DEFINE rest == Len(Tail(s))
<1>1. Len(s) \in Nat /\ Len(t) \in Nat /\ rest = Len(s) - 1
    BY HeadTailProperties, LenProperties
<1> HIDE DEF rest
<1>2. rest # Len(t)
    BY <1>1
<1> QED
    BY <1>2, Zenon DEF rest

\* Only accept_connection takes a peer off the listen queue.
LEMMA QueueShrinks ==
    ASSUME SlotsInv, [Next]_vars, pending # <<>>, pending' = Tail(pending), fd' = fd
    PROVE  TurnedAway
<1>1. pending \in Seq({"there", "gone"}) /\ Len(pending) \in Nat
    BY LenProperties DEF SlotsInv, TypeOK
<1>2. \A t \in Seq({"there", "gone"}) : Len(t) >= Len(pending) => pending' # t
    BY <1>1, TailIsShorter
<1>3. pending' # pending
    BY <1>1, <1>2
<1>4. CASE PeerConnects
    <2>1. /\ Append(pending, "there") \in Seq({"there", "gone"})
          /\ Len(Append(pending, "there")) = Len(pending) + 1
        BY <1>1, AppendProperties
    <2>2. Len(Append(pending, "there")) >= Len(pending)
        BY <1>1, <2>1
    <2> QED
        BY <1>2, <1>4, <2>1, <2>2, Zenon DEF PeerConnects
<1>5. CASE PeerGivesUp
    <2>1. PICK i \in 1 .. Len(pending) : pending' = [pending EXCEPT ![i] = "gone"]
        BY <1>5 DEF PeerGivesUp
    <2> DEFINE t == [pending EXCEPT ![i] = "gone"]
    <2>2. t \in Seq({"there", "gone"}) /\ Len(t) = Len(pending)
        BY <1>1, ExceptSeq
    <2> HIDE DEF t
    <2>3. Len(t) >= Len(pending)
        BY <1>1, <2>2
    <2>4. pending' # t
        BY <1>2, <2>2, <2>3
    <2> QED
        BY <2>1, <2>4, Zenon DEF t
<1>6. ASSUME NEW f \in Fds, PeerSends(f) \/ PeerCloses(f)
      PROVE  FALSE
    BY <1>3, <1>6 DEF PeerSends, PeerCloses
<1>7. CASE Select \/ Walk \/ OmlConnection
    BY <1>3, <1>7 DEF Select, Walk, Quiet, OmlConnection
<1>8. ASSUME NEW e \in Slots, TrxCb(e)
      PROVE  FALSE
    BY <1>3, <1>8 DEF TrxCb
<1>9. CASE AcceptConnection
    <2>1. ~ AcceptFails
        BY <1>3 DEF AcceptFails
    <2> QED
        BY <1>9, <2>1, AcceptTakesSlot DEF AcceptConnection
<1>10. CASE UNCHANGED vars
    BY <1>3, <1>10 DEF vars
<1>11. ASSUME NEW e, NEW b, NeverReturns(e, b)
       PROVE  FALSE
    BY <1>3, <1>11 DEF NeverReturns
<1> QED
    BY <1>4, <1>5, <1>6, <1>7, <1>8, <1>9, <1>10, <1>11 DEF Next, Loop, Callbacks, Peers

\* A peer is turned away only while every slot serves a transceiver, as long as every
\* registration succeeds: a slot in use is registered, and at the listening socket's
\* turn every watched descriptor is open (trx_init.c:194).
THEOREM OnlyFullTurnsAway == Spec => TurnedAwayOnlyWhenFull
<1>1. ASSUME SlotsInv, [Next]_vars, pending # <<>>, pending' = Tail(pending), fd' = fd,
             "register" \notin failing, NEW i \in Slots
      PROVE  i \in Registered /\ fd[i] \in isOpen
    <2>1. TurnedAway
        BY <1>1, QueueShrinks
    <2>2. i \in Registered
        BY <1>1, <2>1 DEF TurnedAway, FreeSlots, SlotsInv, SlotsAgree
    <2>3. Watched \subseteq isOpen
        <3>1. inPass /\ fd[Listen] \in readset
            BY <2>1 DEF TurnedAway, Accepts, Called
        <3> QED
            BY <1>1, <3>1 DEF SlotsInv, AcceptIsSafe
    <2> QED
        BY <2>2, <2>3 DEF Watched
<1>2. SlotsInv /\ [Next]_vars =>
        [pending # <<>> /\ pending' = Tail(pending) /\ fd' = fd /\ "register" \notin failing
          => \A i \in Slots : i \in Registered /\ fd[i] \in isOpen]_vars
    BY <1>1
<1> QED
    BY <1>2, SlotsInvariant, PTL DEF Spec, TurnedAwayOnlyWhenFull
=============================================================================
