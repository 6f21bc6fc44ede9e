------------------------------ MODULE TrxServer ------------------------------
(***************************************************************************)
(* The transceiver server (src/src/trx_init.c) on the event loop: a        *)
(* listening socket and MAX_TRX slots, beside the O&M link to the BSC,     *)
(* which is registered in the same loop before them.                       *)
(*                                                                         *)
(* Peers connect, send messages, send messages with an empty body, close,  *)
(* and give up before they are accepted, all while a pass is under way.    *)
(* The kernel gives a new connection the lowest descriptor that is free.   *)
(*                                                                         *)
(* What receive_msg reads it dispatches, and some messages it may not come *)
(* back from: what follows is then never reached.                          *)
(***************************************************************************)
EXTENDS EventLoop

CONSTANTS
    MaxTrx,         \* MAX_TRX: 4 in the code
    MaxPeers,       \* peers that connect
    MaxMessages,    \* messages the peers send, all together
    FailureModes    \* what may fail in one behaviour: "accept", "register", the
                    \* registration of a connection, and "write": its peer has
                    \* given up when the BTS writes to it

ASSUME MaxTrxAssumption == MaxTrx \in Nat \ {0}
ASSUME BudgetAssumption == MaxPeers \in Nat /\ MaxMessages \in Nat
ASSUME FailureModesAssumption ==
    FailureModes \subseteq SUBSET {"accept", "register", "write"}

\* The entries: trx_socket, the slots of trx[], and oml.
Listen == 0
Slots == 1 .. MaxTrx
Oml == MaxTrx + 1

ASSUME EntriesAreThese == Entries = 0 .. MaxTrx + 1
ASSUME FirstFds == {0, 1} \subseteq Fds

VARIABLES
    pending,    \* the listen queue: peers waiting, "there" or "gone"
    rx,         \* what a descriptor has to read: one message at a time
    held,       \* the receive buffers that hold a message
    running,    \* FALSE once receive_msg does not come back
    peers,      \* peers that may still connect
    messages,   \* messages peers may still send
    failing     \* what may fail, one of FailureModes

peerVars == <<peers, messages, failing>>
vars == <<loopVars, pending, rx, held, running, peerVars>>
-----------------------------------------------------------------------------
\* Something to read on each descriptor; an empty message has a header only.
Arrivals == {"nothing", "message", "empty", "closed"}

\* pmsg_trx is the buffer of all slots, pmsg that of the links to the BSC.
Buffers == {"pmsg_trx", "pmsg"}

Ready == {f \in isOpen : rx[f] # "nothing"}
         \cup (IF pending = <<>> THEN {} ELSE {fd[Listen]})

\* A registered descriptor is closed: select() fails from now on.
Dead == ~(Watched \subseteq isOpen)

Init ==
    /\ socket_fds = <<Oml, Listen>>
    /\ fd = [e \in Entries |-> IF e = Oml THEN 0 ELSE IF e = Listen THEN 1 ELSE None]
    /\ maxfd = 1
    /\ isOpen = {0, 1}
    /\ inPass = FALSE
    /\ readset = {}
    /\ ufd = None
    /\ unregistered_count = 0
    /\ pending = <<>>
    /\ rx = [f \in Fds |-> "nothing"]
    /\ held = {}
    /\ running = TRUE
    /\ peers = MaxPeers
    /\ messages = MaxMessages
    /\ failing \in FailureModes
-----------------------------------------------------------------------------
(* The peers and the kernel.                                               *)
Connections == isOpen \ {fd[Listen]}

PeerConnects ==
    /\ peers > 0
    /\ peers' = peers - 1
    /\ pending' = Append(pending, "there")
    /\ UNCHANGED <<loopVars, rx, held, running, messages, failing>>

\* A peer gives up before it is accepted; accept() succeeds all the same.
PeerGivesUp ==
    /\ "write" \in failing
    /\ \E i \in 1 .. Len(pending) :
         pending[i] = "there" /\ pending' = [pending EXCEPT ![i] = "gone"]
    /\ UNCHANGED <<loopVars, rx, held, running, peerVars>>

PeerSends(f) ==
    /\ messages > 0
    /\ f \in Connections
    /\ rx[f] = "nothing"
    /\ messages' = messages - 1
    /\ \E m \in {"message", "empty"} : rx' = [rx EXCEPT ![f] = m]
    /\ UNCHANGED <<loopVars, pending, held, running, peers, failing>>

PeerCloses(f) ==
    /\ f \in Connections \ {fd[Oml]}
    /\ rx[f] = "nothing"
    /\ rx' = [rx EXCEPT ![f] = "closed"]
    /\ UNCHANGED <<loopVars, pending, held, running, peerVars>>
-----------------------------------------------------------------------------
(* Callbacks.                                                              *)
IsLowest(x, S) == x \in S /\ \A y \in S : x <= y

\* A variant: the search for an empty record stops before the last slot.
FreeSlotsButLast == {i \in Slots \ {MaxTrx} : fd[i] = None}

\* The records find_empty_record looks for.
FreeSlots == {i \in Slots : fd[i] = None}

\* find_index: the first slot that keeps this descriptor.
FindIndex(sd) == CHOOSE i \in Slots : IsLowest(i, {j \in Slots : fd[j] = sd})

\* A variant: the slot is not marked free.
LoseConnectionKeepsSlot(e, i) ==
    /\ i \in Registered
    /\ isOpen' = isOpen \ {fd[i]}
    /\ socket_fds' = Without(socket_fds, i)
    /\ Resume(e, 1)
    /\ UNCHANGED <<fd, maxfd>>

\* In the callback of entry e, the connection of slot i is closed, the slot freed
\* and taken off the list.  The slot found may be another one than e, whose
\* registration failed: taking that off the list follows null pointers, and the
\* program ends there.
LoseConnection(e, i) ==
    /\ i \in Registered
    /\ isOpen' = isOpen \ {fd[i]}
    /\ fd' = [fd EXCEPT ![i] = None]
    /\ socket_fds' = Without(socket_fds, i)
    /\ Resume(e, 1)
    /\ maxfd' = maxfd

\* A message read stays in the buffer, or its answer does.
Receives(b, m) == held' = IF m = "message" THEN held \cup {b} ELSE held

\* receive_msg does not come back from a message, or, where there was no body to
\* read, from what the buffer has held before.  After a ping it tests a return code
\* that nothing has assigned, and may end the program; a list of attributes may be
\* walked for ever; an answer to a peer that has closed may end it by a signal.
NeverReturns(e, b) ==
    /\ Called(e)
    /\ rx[fd[e]] = "message" \/ b \in held
    /\ running' = FALSE
    /\ UNCHANGED <<socket_fds, fd, maxfd, isOpen, ufd, unregistered_count>>
    /\ UNCHANGED <<pending, rx, held, peerVars>>

\* receive_msg has read a message, or it returns 0: the peer has closed, or the
\* body is empty.
TrxCb(e) ==
    /\ Called(e)
    /\ LET i == FindIndex(fd[e]) IN
       /\ IF rx[fd[i]] = "message"
          THEN Resume(e, 0) /\ UNCHANGED <<socket_fds, fd, maxfd, isOpen>>
          ELSE LoseConnection(e, i)
       /\ Receives("pmsg_trx", rx[fd[i]])
       /\ rx' = [rx EXCEPT ![fd[i]] = "nothing"]
    /\ UNCHANGED <<pending, running, peerVars>>

\* The O&M link drops the result of receive_msg.
OmlConnection ==
    /\ Called(Oml)
    /\ Receives("pmsg", rx[fd[Oml]])
    /\ rx' = [rx EXCEPT ![fd[Oml]] = "nothing"]
    /\ Resume(Oml, 0)
    /\ UNCHANGED <<socket_fds, fd, maxfd, isOpen, pending, running, peerVars>>

\* The first peer of the listen queue is accepted under the lowest descriptor.
Accepts(sd) ==
    /\ Called(Listen)
    /\ pending # <<>>
    /\ IsLowest(sd, Fds \ isOpen)
    /\ pending' = Tail(pending)
    /\ Resume(Listen, 0)
    /\ UNCHANGED <<rx, held, running, peerVars>>

\* accept() fails, for want of a descriptor or otherwise; the peer goes on waiting.
AcceptFails ==
    /\ Called(Listen)
    /\ pending # <<>>
    /\ Fds \ isOpen = {} \/ "accept" \in failing
    /\ Resume(Listen, 0)
    /\ UNCHANGED <<socket_fds, fd, maxfd, isOpen, pending, rx, held, running, peerVars>>

\* No empty record: the peer is told so and turned away.
TurnedAway ==
    /\ FreeSlots = {}
    /\ \E sd \in Fds : Accepts(sd)
    /\ UNCHANGED <<socket_fds, fd, maxfd, isOpen>>

\* The connection is registered and asked for its identity.
Connected(i, sd) ==
    /\ Accepts(sd)
    /\ Head(pending) = "there"
    /\ fd' = [fd EXCEPT ![i] = sd]
    /\ SocketRegisterFd(i)
    /\ isOpen' = isOpen \cup {sd}

\* A variant: the descriptor is not closed.
RegistrationFailsOpen(i, sd) ==
    /\ "register" \in failing
    /\ Accepts(sd)
    /\ fd' = [fd EXCEPT ![i] = sd]
    /\ isOpen' = isOpen \cup {sd}
    /\ UNCHANGED <<socket_fds, maxfd>>

\* It cannot be registered: it is closed, and the slot keeps its descriptor.
RegistrationFails(i, sd) ==
    /\ "register" \in failing
    /\ Accepts(sd)
    /\ fd' = [fd EXCEPT ![i] = sd]
    /\ UNCHANGED <<socket_fds, maxfd, isOpen>>

\* The identity request cannot be written: the connection is closed, and stays
\* registered in its slot.
WriteFails(i, sd) ==
    /\ Accepts(sd)
    /\ Head(pending) = "gone"
    /\ fd' = [fd EXCEPT ![i] = sd]
    /\ SocketRegisterFd(i)
    /\ UNCHANGED isOpen

AcceptConnection ==
    \/ AcceptFails
    \/ TurnedAway
    \/ \E i \in Slots, sd \in Fds :
         /\ IsLowest(i, FreeSlots)
         /\ Connected(i, sd) \/ RegistrationFails(i, sd) \/ WriteFails(i, sd)
-----------------------------------------------------------------------------
Quiet == UNCHANGED <<pending, rx, held, running, peerVars>>

Select == SocketSelectMain(Ready) /\ Quiet

Walk == (NotReadable \/ PassEnds) /\ Quiet

Callbacks ==
    \/ OmlConnection \/ NeverReturns(Oml, "pmsg")
    \/ AcceptConnection
    \/ \E e \in Slots : TrxCb(e) \/ NeverReturns(e, "pmsg_trx")

Loop == running /\ (Select \/ Walk \/ Callbacks)

\* What peers do to a program that has ended changes nothing any more.
Peers ==
    /\ running
    /\ \/ PeerConnects \/ PeerGivesUp
       \/ \E f \in Fds : PeerSends(f) \/ PeerCloses(f)

Next == Loop \/ Peers

Spec == Init /\ [][Next]_vars

\* main() calls socket_select_main for ever.  Peers do as they like.
FairSpec == Spec /\ WF_vars(Loop)
-----------------------------------------------------------------------------
TypeOK ==
    /\ socket_fds \in Seq(Entries)
    /\ fd \in [Entries -> Fds \cup {None}]
    /\ maxfd \in Fds
    /\ isOpen \subseteq Fds
    /\ inPass \in BOOLEAN
    /\ readset \subseteq Fds
    /\ ufd \in Entries \cup {None}
    /\ unregistered_count \in 0 .. 1
    /\ pending \in Seq({"there", "gone"})
    /\ rx \in [Fds -> Arrivals]
    /\ held \subseteq Buffers
    /\ running \in BOOLEAN
    /\ peers \in 0 .. MaxPeers
    /\ messages \in 0 .. MaxMessages
    /\ failing \in FailureModes

\* The slots, the list and the descriptors tell the same story at every step of a
\* pass, also when a peer gives up before it is answered (trx_init.c:127-132): an
\* entry is registered once, no two share a descriptor, so that find_index finds the
\* slot whose callback it is, and the slots in use are the slots registered.  A
\* registration that fails leaves a descriptor in a slot that is not.
SlotsAgree ==
    /\ Distinct(socket_fds)
    /\ \A d, e \in Registered : fd[d] = fd[e] => d = e
    /\ \A i \in Slots : i \in Registered => fd[i] # None
    /\ "register" \notin failing => \A i \in Slots : fd[i] # None => i \in Registered

\* No descriptor is left open behind the back of the loop, whichever step of
\* accept_connection fails.
NoLeak == isOpen \subseteq Watched

\* What select() found readable is still so when the walk gets there: no callback
\* reads from a connection that has nothing for it, though earlier callbacks of
\* the pass close connections and reuse their descriptors.
ReadsetIsFresh == readset \subseteq Ready

\* A peer is turned away with "This BTS can serve only 4 TRX" (trx_init.c:194)
\* only while every slot serves a transceiver, if every registration succeeds.
TurnedAwayOnlyWhenFull ==
    [][pending # <<>> /\ pending' = Tail(pending) /\ fd' = fd /\ "register" \notin failing
       => \A i \in Slots : i \in Registered /\ fd[i] \in isOpen]_vars

\* Every connection that has something to read is read, the O&M link among them,
\* and every peer is accepted or turned away, as long as receive_msg comes back from
\* every message (bts_nm.c:213, bts_nm.c:896), descriptors last, no closed one has
\* been left in the list, and nothing but a write fails.
Served ==
    /\ \A f \in Fds : rx[f] # "nothing"
          ~> rx[f] = "nothing" \/ ~running \/ Dead \/ "register" \in failing
    /\ pending # <<>> ~> \/ pending = <<>> \/ ~running \/ Dead \/ Fds \subseteq isOpen
                         \/ failing \cap {"accept", "register"} # {}
=============================================================================
