------------------------------ MODULE AbisLink ------------------------------
(***************************************************************************)
(* The receive path of the two Abis links (src/src/bts_init.c and          *)
(* receive_msg in src/src/bts_nm.c): a header, then as many bytes as it    *)
(* says, read from non-blocking sockets into one buffer, in which the      *)
(* handlers build their replies too.                                       *)
(*                                                                         *)
(* TCP delivers the bytes of a link in pieces.  A byte stands for a part   *)
(* of the message that is looked at as one: <<length, protocol>> is the    *)
(* header, <<type, object>> the body of an O&M message, <<command>> that   *)
(* of the two other protocols.  What a handler does to managed objects is  *)
(* in BtsNm; here a request only leaves its mark, and its reply.           *)
(***************************************************************************)
EXTENDS AttrList

CONSTANTS
    OmlMessages,    \* types of O&M messages that the BSC sends
    MaxMessages,    \* messages the BSC sends, all together
    BufferLength    \* of the shared buffer: longer than what any length names

ASSUME MessagesAssumption == MaxMessages \in Nat
ASSUME BufferAssumption == BufferLength \in Nat /\ BufferLength >= MaxMessages + 7

Links == {"oml", "rsl"}

PROTO_RSL == 0
PROTO_OML == 1
PROTO_SOFTBTS == 2

MSG_PING == 0
REQUEST == 3    \* an O&M request about an object, which is answered
SET_ATTR == 4   \* NM_MT_SET_BTS_ATTR
ACK == 5        \* their acknowledgements
SW_ACT_REQ_ACK == 6     \* an O&M message that is not answered
RSL_CONNECT == 7        \* the manufacturer's message

ASSUME OmlMessagesAssumption ==
    OmlMessages \subseteq {REQUEST, SET_ATTR, SW_ACT_REQ_ACK, RSL_CONNECT}

HeadLength == 2

VARIABLES
    msg,        \* the buffer
    connected,  \* links that main() has connected
    flight,     \* bytes on their way to each link
    arrived,    \* bytes each link has to read
    closed,     \* links whose other side is closed
    reading,    \* the link whose callback has read a header, or "none"
    walking,    \* the link whose callback walks over attributes, or "none"
    running,    \* FALSE once the program has ended itself
    sent,       \* external: messages sent on each link
    handled,    \* external: messages dispatched that were read, of each link
    short,      \* external: links of which a read was short
    requests    \* external: how often the request about each object was handled

link == <<flight, arrived, closed, sent>>
trace == <<handled, short, requests>>
abisVars == <<msg, connected, link, reading, walking, running, trace, walk>>
-----------------------------------------------------------------------------
Numbers == 1 .. MaxMessages     \* each request is about an object of its own

\* Each link is sent the messages of its protocol, and pings.
Messages(l, n) ==
    {<<1, PROTO_SOFTBTS, MSG_PING>>} \cup
        IF l = "rsl" THEN {<<1, PROTO_RSL, ACK>>}
        ELSE {<<2, PROTO_OML, t, n>> : t \in OmlMessages}

Sent == Len(sent["oml"]) + Len(sent["rsl"])

AbisInit ==
    /\ msg = [i \in 1 .. BufferLength |-> 0]
    /\ connected = {}
    /\ flight = [l \in Links |-> <<>>]
    /\ arrived = [l \in Links |-> <<>>]
    /\ closed = {}
    /\ reading = "none"
    /\ walking = "none"
    /\ running = TRUE
    /\ sent = [l \in Links |-> <<>>]
    /\ handled = [l \in Links |-> <<>>]
    /\ short = {}
    /\ requests = [n \in Numbers |-> 0]
    /\ WalkInit
-----------------------------------------------------------------------------
(* main() and the BSC.                                                     *)

\* socket_init: O&M first.  A connection refused ends the program, unless its lock
\* file is gone: then the socket, which has nothing to read, is registered too.
SocketInit(l) ==
    /\ running /\ l \notin connected
    /\ l = "rsl" => "oml" \in connected
    /\ \/ connected' = connected \cup {l} /\ UNCHANGED <<closed, running>>
       \/ connected' = connected \cup {l} /\ closed' = closed \cup {l} /\ running' = running
       \/ running' = FALSE /\ UNCHANGED <<connected, closed>>
    /\ UNCHANGED <<msg, flight, arrived, sent, reading, walking, trace, walk>>

BscSends(l) ==
    /\ l \in connected \ closed
    /\ Sent < MaxMessages
    /\ \E m \in Messages(l, Sent + 1) :
         /\ sent' = [sent EXCEPT ![l] = Append(@, m)]
         /\ flight' = [flight EXCEPT ![l] = @ \o m]
    /\ UNCHANGED <<msg, connected, arrived, closed, reading, walking, running, trace, walk>>

\* Some of the bytes arrive.
Delivered(l) ==
    /\ \E n \in 1 .. Len(flight[l]) :
         /\ arrived' = [arrived EXCEPT ![l] = @ \o SubSeq(flight[l], 1, n)]
         /\ flight' = [flight EXCEPT ![l] = SubSeq(@, n + 1, Len(@))]
    /\ UNCHANGED <<msg, connected, closed, sent, reading, walking, running, trace, walk>>

BscCloses(l) ==
    /\ l \in connected \ closed
    /\ flight[l] = <<>>
    /\ closed' = closed \cup {l}
    /\ UNCHANGED <<msg, connected, flight, arrived, sent, reading, walking, running, trace, walk>>

\* What the BSC does to a program that has ended changes nothing any more.
Bsc == running /\ \E l \in Links : BscSends(l) \/ Delivered(l) \/ BscCloses(l)
-----------------------------------------------------------------------------
(* receive_msg.                                                            *)

LinkReadable(l) == l \in connected /\ (arrived[l] # <<>> \/ l \in closed)

Least(a, b) == IF a < b THEN a ELSE b

\* recv(): what has arrived of n bytes goes to a place in the buffer, which keeps what
\* it had behind.
Received(l, at, n) ==
    LET k == Least(n, Len(arrived[l])) IN
    [i \in 1 .. BufferLength |-> IF i \in at .. at + k - 1 THEN arrived[l][i - at + 1] ELSE msg[i]]

Consumed(l, n) == [arrived EXCEPT ![l] = SubSeq(@, Least(n, Len(@)) + 1, Len(@))]

\* A read is short; that nothing was there to read of a closed link does not count.
ShortOf(l, n) ==
    IF Len(arrived[l]) < n /\ (l \in closed => arrived[l] # <<>>)
    THEN short \cup {l} ELSE short

\* The loop, which begins when both links are connected, calls a link back.
ReadHead(l) ==
    /\ running /\ connected = Links /\ reading = "none" /\ walking = "none"
    /\ LinkReadable(l)
    /\ msg' = Received(l, 1, HeadLength)
    /\ arrived' = Consumed(l, HeadLength)
    /\ short' = ShortOf(l, HeadLength)
    /\ reading' = l
    /\ UNCHANGED <<connected, flight, closed, sent, walking, running, handled, requests, walk>>

\* What is dispatched next: the message read, or what the buffer held before.
Read(l) == Received(l, HeadLength + 1, msg[1])

Record(l, m) ==
    handled' = IF l \in closed /\ arrived[l] = <<>> THEN handled
               ELSE [handled EXCEPT ![l] = Append(@, SubSeq(m, 1, HeadLength + m[1]))]

Reply(m) == [m EXCEPT ![1] = 2, ![2] = PROTO_OML, ![3] = ACK]

\* Answers to a peer that has closed may end the program by a signal, which it does
\* not catch.
MayEnd(dead) == running' \in IF dead THEN BOOLEAN ELSE {TRUE}

\* Messages that stay in the buffer: those of rsl_msg, those that are not answered,
\* and those that are answered from elsewhere, a ping and every identity request but
\* the first.  The handler of a ping tests a return code that nothing has assigned,
\* and may end the program.
Plain(l, m) ==
    /\ m[2] # PROTO_OML \/ m[3] \notin {REQUEST, SET_ATTR, RSL_CONNECT}
    /\ msg' = m
    /\ MayEnd(m[2] = PROTO_SOFTBTS)
    /\ UNCHANGED <<requests, walking, walk>>

\* A variant: the reply is built in a buffer of its own.
RequestAside(l, m) ==
    /\ m[2] = PROTO_OML /\ m[3] = REQUEST
    /\ requests' = IF m[4] \in Numbers THEN [requests EXCEPT ![m[4]] = @ + 1] ELSE requests
    /\ msg' = m
    /\ MayEnd(l \in closed)
    /\ UNCHANGED <<walking, walk>>

\* A request about an object: its reply replaces it in the buffer.
Request(l, m) ==
    /\ m[2] = PROTO_OML /\ m[3] = REQUEST
    /\ requests' = IF m[4] \in Numbers THEN [requests EXCEPT ![m[4]] = @ + 1] ELSE requests
    /\ msg' = Reply(m)
    /\ MayEnd(l \in closed)
    /\ UNCHANGED <<walking, walk>>

\* The manufacturer's message is answered from elsewhere.  If that cannot be sent it
\* stays in the buffer; else two reports are built there, and the RSL link is told.
RslConnect(l, m) ==
    /\ m[2] = PROTO_OML /\ m[3] = RSL_CONNECT
    /\ msg' \in {Reply(m)} \cup (IF l \in closed THEN {m} ELSE {})
    /\ MayEnd(closed # {})
    /\ UNCHANGED <<requests, walking, walk>>

SetBtsAttr(l, m) ==
    /\ m[2] = PROTO_OML /\ m[3] = SET_ATTR
    /\ \E a \in Lists : WalkBegins(a)
    /\ walking' = l
    /\ msg' = m
    /\ UNCHANGED <<running, requests>>

Handles(l, m) == Plain(l, m) \/ Request(l, m) \/ RslConnect(l, m) \/ SetBtsAttr(l, m)

\* A variant: the length of the header counts the header.
ReadBodyLess(l) ==
    /\ running /\ reading = l
    /\ LET n == IF msg[1] > 1 THEN msg[1] - 1 ELSE msg[1]
           m == Received(l, HeadLength + 1, n) IN
       /\ arrived' = Consumed(l, n)
       /\ short' = ShortOf(l, n)
       /\ Record(l, m)
       /\ Handles(l, m)
    /\ reading' = "none"
    /\ UNCHANGED <<connected, flight, closed, sent>>

\* A variant: the sockets block.
ReadBodyBlocks(l) ==
    /\ running /\ reading = l
    /\ Len(arrived[l]) >= msg[1]
    /\ arrived' = Consumed(l, msg[1])
    /\ short' = ShortOf(l, msg[1])
    /\ Record(l, Read(l))
    /\ Handles(l, Read(l))
    /\ reading' = "none"
    /\ UNCHANGED <<connected, flight, closed, sent>>

\* The rest of receive_msg, and of the callback, which drops its result.
ReadBody(l) ==
    /\ running /\ reading = l
    /\ arrived' = Consumed(l, msg[1])
    /\ short' = ShortOf(l, msg[1])
    /\ Record(l, Read(l))
    /\ Handles(l, Read(l))
    /\ reading' = "none"
    /\ UNCHANGED <<connected, flight, closed, sent>>

Walks ==
    /\ running /\ walking # "none"
    /\ WalkRound
    /\ UNCHANGED <<msg, connected, link, reading, walking, running, trace>>

\* The walk is over: the message is acknowledged.
SetBtsAttrAck ==
    /\ running /\ walking # "none" /\ length = 0
    /\ msg' = Reply(msg)
    /\ MayEnd(walking \in closed)
    /\ walking' = "none"
    /\ WalkEnds
    /\ UNCHANGED <<connected, link, reading, trace>>

AbisNext ==
    \/ Bsc \/ Walks \/ SetBtsAttrAck
    \/ \E l \in Links : SocketInit(l) \/ ReadHead(l) \/ ReadBody(l)

AbisSpec == AbisInit /\ [][AbisNext]_abisVars

\* main() gets to its loop, a pass of which serves each link that is readable, and
\* callbacks return.
FairAbisSpec ==
    /\ AbisSpec
    /\ WF_abisVars(Walks) /\ WF_abisVars(SetBtsAttrAck)
    /\ \A l \in Links :
          WF_abisVars(SocketInit(l)) /\ SF_abisVars(ReadHead(l)) /\ WF_abisVars(ReadBody(l))
-----------------------------------------------------------------------------
\* Messages keep their limits: as long as no read of a link was short, what is
\* dispatched of it is what the BSC sent, each message once and in order, though
\* reads of the other link go through the same buffer; and what is left to read
\* begins where a message begins (bts_nm.c:158-166).
InStep ==
    \A l \in Links \ short :
        /\ IsPrefix(handled[l], sent[l])
        /\ reading # l =>
             arrived[l] \o flight[l] =
                 FlattenSeq(SubSeq(sent[l], Len(handled[l]) + 1, Len(sent[l])))

\* A closed link stays registered, and each pass dispatches what the shared buffer
\* holds (bts_init.c:73, bts_nm.c:166).  No request that is answered in the buffer is
\* carried out twice for that, as long as no read was short.  The messages that stay
\* there are handled again: they only repeat an answer, or set a flag once more.
NoRequestTwice == short = {} => \A n \in Numbers : requests[n] <= 1

\* The walk over the attributes of a list that is well formed comes to an end, having
\* walked over each attribute once (bts_nm.c:721-894).
AttrsWalked ==
    \A l \in {k \in Lists : WellFormed(k)} :
        walking # "none" /\ list = l
            ~> walking # "none" /\ list = l /\ length = 0 /\ patr = Len(l) + 1

\* A link that is closed, or has ever been read short, does not keep the other from
\* being read, as long as the program has not ended itself (bts_nm.c:213, or an answer
\* to a closed link) and is not lost in a list of attributes.
BothServed ==
    \A l \in Links : arrived[l] # <<>>
        ~> arrived[l] = <<>> \/ ~running \/ (walking # "none" /\ ~ WellFormed(list))
=============================================================================
