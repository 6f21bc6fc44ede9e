------------------------------- MODULE BtsNm -------------------------------
(***************************************************************************)
(* The network management half of the BTS (src/src/bts_nm.c): what softBTS *)
(* does with one message read from one of its two links to the BSC.        *)
(*                                                                         *)
(* Two TCP connections lead to the BSC, "OML" and "RSL"; the handler that  *)
(* runs is chosen by the protocol byte of the message, not by the link it  *)
(* came from, so every action takes the link as a parameter.  The program  *)
(* is one select() loop: a handler runs to its end before the next message *)
(* is read, hence one action per handler, which takes one message off      *)
(* inbox[l] and appends everything the handler sends to outbox.            *)
(*                                                                         *)
(* This module's own specification puts the BTS in front of a BSC that may *)
(* send any message it knows, in any order, on either link, with any byte  *)
(* for a timeslot and any for a state.  OmlStartup replaces that BSC by    *)
(* one that follows the start-up procedure.                                *)
(***************************************************************************)
EXTENDS Naturals, Sequences

CONSTANTS
    LastTs,     \* the last timeslot; 7 in the code
    NamedTs,    \* the timeslots that messages name: any byte
    Requested   \* the administrative states the BSC asks for: any byte

ASSUME LastTsAssumption == LastTs \in 0 .. 254
ASSUME NamedTsAssumption == NamedTs \subseteq 0 .. 255
ASSUME RequestedAssumption ==
    Requested \subseteq {"LOCKED", "UNLOCKED", "SHUTDOWN", "ZERO", "OTHER"}

VARIABLES
    running,            \* FALSE once the program has killed itself
    bts_id_resp,        \* the initial state has been reported
    sw_site_manager,    \* software state of the site manager
    sw_bts,             \* software state of the BTS object
    opstate,            \* stored operational state of each object
    admin_state,        \* stored administrative state of each object
    inbox,              \* per link: BSC -> BTS, a TCP stream of messages
    outbox              \* per link: BTS -> BSC

objectVars == <<bts_id_resp, sw_site_manager, sw_bts, opstate, admin_state>>
btsVars == <<running, objectVars, inbox, outbox>>
-----------------------------------------------------------------------------
(* Managed objects, GSM 12.21: a class and a timeslot, 0xff where an       *)
(* object has none.                                                        *)
NM_OC_NULL == 255
Channels == 0 .. LastTs

SiteManager  == <<"SITE_MANAGER", NM_OC_NULL>>
Bts          == <<"BTS", NM_OC_NULL>>
BasebTransc  == <<"BASEB_TRANSC", NM_OC_NULL>>
RadioCarrier == <<"RADIO_CARRIER", NM_OC_NULL>>
Channel(ts)  == <<"CHANNEL", ts>>

SingleObjects == {SiteManager, Bts, BasebTransc, RadioCarrier}
ChannelObjects == {Channel(ts) : ts \in Channels}
Objects == SingleObjects \cup ChannelObjects

\* A message may name a timeslot that the BTS has not.
Named == Objects \cup {Channel(ts) : ts \in NamedTs}

Links == {"OML", "RSL"}

\* "ZERO" is the byte 0 and "OTHER" any other value the protocol has no name for.
OpStates    == {"ENABLED", "DISABLED", "ZERO", "OTHER"}
AdminStates == {"LOCKED", "UNLOCKED", "SHUTDOWN", "ZERO", "OTHER"}
AvailStates == {"OK", "DEPENDENCY", "NOT_INSTALLED"}
SwStates == {"FALSE", "SW_ACT_REQ", "SW_ACT_REQ_ACK", "ACTIVATE_SW",
             "SET_BTS_ATTR_ACK", "OTHER"}
-----------------------------------------------------------------------------
(* Messages.                                                               *)
Plain(type) == [type |-> type]
About(type, o) == [type |-> type, obj |-> o]
AdmRequest(o, adm) == [type |-> "CHG_ADM_STATE", obj |-> o, adm |-> adm]
StateChg(o, op, av, adm) ==
    [type |-> "STATECHG_EVENT_REP", obj |-> o, op |-> op, av |-> av, adm |-> adm]

\* What a BSC may send about these objects.  Of the RSL protocol the BTS only
\* decodes and prints; attributes are sent to an object of the class they are for.
LinkRequests == {"PING", "PONG", "ID_GET", "RSL_DATA", "UNKNOWN", "RSL_CONNECT"}
ObjectRequests == {"SW_ACT_REQ_ACK", "ACTIVATE_SW", "OPSTART"}
AttrRequests(objects) ==
       {About("SET_BTS_ATTR", Bts), About("SET_RADIO_ATTR", RadioCarrier)}
  \cup {About("SET_CHAN_ATTR", o) : o \in objects \ SingleObjects}
RequestsAbout(objects) ==
         [type : LinkRequests] \cup [type : ObjectRequests, obj : objects]
    \cup AttrRequests(objects)
    \cup [type : {"CHG_ADM_STATE"}, obj : objects, adm : Requested]

\* What the BTS may send about these objects.
ObjectReplies == {"SW_ACT_REQ", "ACTIVATE_SW_ACK", "OPSTART_ACK",
                  "SW_ACTIVATED_REP", "SET_BTS_ATTR_ACK", "CHG_ADM_STATE_ACK"}
RepliesAbout(objects) ==
    [type : {"PONG", "ID_RESP", "RSL_CONNECT_ACK", "ID_ACK", "RSL_ID_ACK"}]
    \cup [type : ObjectReplies, obj : objects]
    \cup [type : {"STATECHG_EVENT_REP"}, obj : objects, op : OpStates,
          av : AvailStates, adm : AdminStates]

\* The messages of a BSC that keeps to the objects of the BTS, and of any BSC.
ToBts == RequestsAbout(Objects)
ToBsc == RepliesAbout(Objects)
AnyToBts == RequestsAbout(Named)
AnyToBsc == RepliesAbout(Named)

\* One message for every channel, in timeslot order: the for loops over
\* channel = 0x00 .. 0x07.
PerChannel(Msg(_)) == [i \in 1 .. LastTs + 1 |-> Msg(i - 1)]
-----------------------------------------------------------------------------
(* Start of the program: the globals of softbts.c.  Only element 0 of the  *)
(* two channel arrays is initialised by name; C zeroes the others.         *)
InitialState(named) ==
    [o \in Objects |-> IF o \in SingleObjects \cup {Channel(0)} THEN named ELSE "ZERO"]

BtsInit ==
    /\ running = TRUE
    /\ bts_id_resp = FALSE
    /\ sw_site_manager = "FALSE"
    /\ sw_bts = "FALSE"
    /\ opstate = InitialState("DISABLED")
    /\ admin_state = InitialState("LOCKED")
    /\ inbox = [l \in Links |-> <<>>]
    /\ outbox = [l \in Links |-> <<>>]

\* receive_msg: the next message of link l is of this type and is consumed.
Receive(l, types) ==
    /\ running
    /\ inbox[l] # <<>>
    /\ Head(inbox[l]).type \in types
    /\ inbox' = [inbox EXCEPT ![l] = Tail(@)]

Send(l, msgs) == outbox' = [outbox EXCEPT ![l] = @ \o msgs]
-----------------------------------------------------------------------------
(* The protocol of the link itself: softbts_msg.                           *)

\* The handler of a ping tests a return code that nothing has assigned; a
\* negative leftover sends it to kill_background, which ends the program.
Ping(l) ==
    /\ Receive(l, {"PING"})
    /\ Send(l, <<Plain("PONG")>>)
    /\ running' \in BOOLEAN
    /\ UNCHANGED objectVars

\* Messages that change nothing: a pong, RSL data (decoded and printed only),
\* an unknown protocol or command.
NoEffect(l) ==
    /\ Receive(l, {"PONG", "RSL_DATA", "UNKNOWN"})
    /\ UNCHANGED <<running, objectVars, outbox>>

InitialStateReport ==
    LET Down(o) == StateChg(o, "DISABLED", "NOT_INSTALLED", "LOCKED")
        DownChannel(ts) == Down(Channel(ts))
    IN  <<Down(SiteManager), Down(Bts), Down(BasebTransc)>>
        \o PerChannel(DownChannel) \o <<Down(RadioCarrier)>>

\* A variant: the flag is tested and never set.
IdGetForgets(l) ==
    /\ Receive(l, {"ID_GET"})
    /\ Send(l, <<Plain("ID_RESP")>> \o InitialStateReport
               \o <<About("SW_ACT_REQ", SiteManager)>>)
    /\ sw_site_manager' = "SW_ACT_REQ"
    /\ UNCHANGED <<running, bts_id_resp, sw_bts, opstate, admin_state>>

\* The first identity request, whichever link brings it, starts the software
\* activation, on that link.
IdGet(l) ==
    /\ Receive(l, {"ID_GET"})
    /\ IF bts_id_resp
       THEN /\ Send(l, <<Plain("ID_RESP")>>)
            /\ UNCHANGED <<bts_id_resp, sw_site_manager>>
       ELSE /\ Send(l, <<Plain("ID_RESP")>> \o InitialStateReport
                       \o <<About("SW_ACT_REQ", SiteManager)>>)
            /\ bts_id_resp' = TRUE
            /\ sw_site_manager' = "SW_ACT_REQ"
    /\ UNCHANGED <<running, sw_bts, opstate, admin_state>>
-----------------------------------------------------------------------------
(* The O&M protocol: oml_msg.                                              *)

SwActReqAck(l) ==
    /\ Receive(l, {"SW_ACT_REQ_ACK"})
    /\ LET o == Head(inbox[l]).obj IN
       /\ sw_site_manager' = IF o = SiteManager THEN "SW_ACT_REQ_ACK" ELSE sw_site_manager
       /\ sw_bts' = IF o = Bts THEN "SW_ACT_REQ_ACK" ELSE sw_bts
    /\ UNCHANGED <<running, bts_id_resp, opstate, admin_state, outbox>>

(* A handler at work.  The message it handles lies in the one buffer in    *)
(* which it also builds everything it sends: each branch tests the object  *)
(* class that lies there after the branches above it, unless one of those  *)
(* has left the switch.  The branches map the set of ways in which a       *)
(* handler may have come so far, here one way, to the next.                *)
Begin(o, op, adm) == {[buf |-> o, sent |-> <<>>, left |-> FALSE, op |-> op, adm |-> adm]}
Build(h, o) == [h EXCEPT !.buf = o]
Put(h, msgs) == [Build(h, msgs[Len(msgs)].obj) EXCEPT !.sent = @ \o msgs]
Break(h) == [h EXCEPT !.left = TRUE]
Branch(S, class, Body(_)) ==
    {IF ~h.left /\ h.buf[1] = class THEN Body(h) ELSE h : h \in S}

\* Acknowledge, as the branches of the objects that the BTS has once do.
PutAck(h, type, o) == Put(h, <<About(type, o)>>)

ActivateSiteManager(h) ==
    Put(PutAck(h, "ACTIVATE_SW_ACK", SiteManager),
        <<StateChg(SiteManager, "ENABLED", "OK", "LOCKED")>>)

ActivateBts(h) ==
    Put(PutAck(h, "ACTIVATE_SW_ACK", Bts),
        <<StateChg(Bts, "DISABLED", "DEPENDENCY", "LOCKED")>>)

\* A variant: without the break of bts_nm.c:1015.
ActivateBasebNoBreak(h) ==
    Put(PutAck(h, "ACTIVATE_SW_ACK", BasebTransc), <<About("SW_ACT_REQ", RadioCarrier)>>)

\* The request leaves RADIO_CARRIER in the buffer, whose branch comes next.
ActivateBaseb(h) ==
    Break(Put(PutAck(h, "ACTIVATE_SW_ACK", BasebTransc), <<About("SW_ACT_REQ", RadioCarrier)>>))

\* Each request leaves CHANNEL in the buffer.
ActivateRadioCarrier(h) ==
    LET NextRequest(ts) == About("SW_ACT_REQ", Channel(ts))
    IN  Break(Put(PutAck(h, "ACTIVATE_SW_ACK", RadioCarrier), PerChannel(NextRequest)))

\* The timeslot is read from the buffer each time, behind what was built there.
ActivateChannel(h) ==
    LET Activated(ts) == About("SW_ACTIVATED_REP", Channel(ts))
        Acknowledge(g) == PutAck(g, "ACTIVATE_SW_ACK", Channel(g.buf[2]))
        Report(g) == Put(g, <<StateChg(Channel(g.buf[2]), "DISABLED", "DEPENDENCY", "LOCKED")>>)
        Finish(g) == IF g.buf[2] = LastTs THEN Put(g, PerChannel(Activated)) ELSE g
    IN  Break(Finish(Report(Acknowledge(h))))

ActivateBranches(S) ==
    LET upper == Branch(Branch(S, "SITE_MANAGER", ActivateSiteManager), "BTS", ActivateBts)
        halves == Branch(Branch(upper, "BASEB_TRANSC", ActivateBaseb),
                         "RADIO_CARRIER", ActivateRadioCarrier)
    IN  Branch(halves, "CHANNEL", ActivateChannel)

ActivateSw(l) ==
    /\ Receive(l, {"ACTIVATE_SW"})
    /\ LET o == Head(inbox[l]).obj IN
       /\ \E h \in ActivateBranches(Begin(o, opstate, admin_state)) : Send(l, h.sent)
       /\ sw_site_manager' = IF o = SiteManager THEN "ACTIVATE_SW" ELSE sw_site_manager
    /\ UNCHANGED <<running, bts_id_resp, sw_bts, opstate, admin_state>>

\* A report of the stored state of an object.
StoredReport(o, op, adm) == StateChg(o, op[o], "OK", adm[o])

\* A variant: the two halves of the transceiver in the wrong order.
LastChannelBasebFirst(op, adm) ==
    <<About("SW_ACTIVATED_REP", BasebTransc), About("SW_ACTIVATED_REP", RadioCarrier)>>

\* What the BTS sends when its last timeslot is started: the transceiver is
\* active, and the stored state of the objects above it.
LastChannelReport(op, adm) ==
    LET StoredChannel(ts) == StoredReport(Channel(ts), op, adm)
    IN  <<About("SW_ACTIVATED_REP", RadioCarrier),
          StoredReport(SiteManager, op, adm), StoredReport(Bts, op, adm)>>
        \o PerChannel(StoredChannel) \o <<About("SW_ACTIVATED_REP", BasebTransc)>>

\* The operational state of object o is stored.
Started(h, o) == [h EXCEPT !.op = [@ EXCEPT ![o] = "ENABLED"]]
Unlocked(h, o) == [h EXCEPT !.adm = [@ EXCEPT ![o] = "UNLOCKED"]]

\* Variants: the start of the site manager asks for the software of the object
\* after the next; nothing follows its acknowledgement.
StartSiteManagerSkipsBts(h) ==
    Break(Put(Unlocked(Started(h, SiteManager), SiteManager),
              <<About("OPSTART_ACK", SiteManager), About("SW_ACTIVATED_REP", SiteManager),
                About("SW_ACT_REQ", BasebTransc)>>))
StartSiteManagerStops(h) ==
    Break(PutAck(Unlocked(Started(h, SiteManager), SiteManager), "OPSTART_ACK", SiteManager))

StartSiteManager(h) ==
    Break(Put(Unlocked(Started(h, SiteManager), SiteManager),
              <<About("OPSTART_ACK", SiteManager), About("SW_ACTIVATED_REP", SiteManager),
                About("SW_ACT_REQ", Bts)>>))

StartBts(h) ==
    Break(Put(Started(h, Bts),
              <<About("OPSTART_ACK", Bts), About("SW_ACTIVATED_REP", Bts),
                About("SW_ACT_REQ", BasebTransc)>>))

StartBaseb(h) == Break(PutAck(Started(h, BasebTransc), "OPSTART_ACK", BasebTransc))

StartRadioCarrier(h) == Break(PutAck(Started(h, RadioCarrier), "OPSTART_ACK", RadioCarrier))

\* The channel that the buffer names is started, if the BTS has it, and acknowledged.
ChannelStarted(h) ==
    LET Start(g) == IF g.buf \in Objects THEN Started(g, g.buf) ELSE g
        Acknowledge(g) == PutAck(g, "OPSTART_ACK", Channel(g.buf[2]))
    IN  Acknowledge(Start(h))

\* Variants: the reports are built from the state before the start; the first
\* timeslot is taken for the last.
StartChannelStale(h) ==
    LET Finish(g) == IF g.buf[2] = LastTs THEN Put(g, LastChannelReport(h.op, h.adm)) ELSE g
    IN  Break(Finish(ChannelStarted(h)))
StartChannelFirst(h) ==
    LET Finish(g) == IF g.buf[2] = 0 THEN Put(g, LastChannelReport(g.op, g.adm)) ELSE g
    IN  Break(Finish(ChannelStarted(h)))

StartChannel(h) ==
    LET Finish(g) == IF g.buf[2] = LastTs THEN Put(g, LastChannelReport(g.op, g.adm)) ELSE g
    IN  Break(Finish(ChannelStarted(h)))

StartBranches(S) ==
    LET upper == Branch(Branch(S, "SITE_MANAGER", StartSiteManager), "BTS", StartBts)
        halves == Branch(Branch(upper, "BASEB_TRANSC", StartBaseb),
                         "RADIO_CARRIER", StartRadioCarrier)
    IN  Branch(halves, "CHANNEL", StartChannel)

Opstart(l) ==
    /\ Receive(l, {"OPSTART"})
    /\ Head(inbox[l]).obj \in Objects
    /\ \E h \in StartBranches(Begin(Head(inbox[l]).obj, opstate, admin_state)) :
       /\ opstate' = h.op
       /\ admin_state' = h.adm
       /\ Send(l, h.sent)
    /\ UNCHANGED <<running, bts_id_resp, sw_site_manager, sw_bts>>

\* The index of the two arrays of channels is a byte of the message that nothing
\* checks.  What lies beyond their ends the build decides: a byte nobody reads, one
\* without which the program is lost, or one of the states and flags kept beside
\* them.
WriteBeyond ==
    \/ UNCHANGED objectVars
    \/ /\ \E o \in Objects, s \in OpStates : opstate' = [opstate EXCEPT ![o] = s]
       /\ UNCHANGED <<bts_id_resp, sw_site_manager, sw_bts, admin_state>>
    \/ /\ \E o \in Objects, s \in AdminStates : admin_state' = [admin_state EXCEPT ![o] = s]
       /\ UNCHANGED <<bts_id_resp, sw_site_manager, sw_bts, opstate>>
    \/ /\ bts_id_resp' \in BOOLEAN /\ sw_site_manager' \in SwStates /\ sw_bts' \in SwStates
       /\ UNCHANGED <<opstate, admin_state>>

\* The next message of link l, of this type, is about a timeslot beyond the last.
ReceiveBeyond(l, type) == Receive(l, {type}) /\ Head(inbox[l]).obj \notin Objects

\* The program is lost, or has written there and answers as ever.
WriteAndSend(l, msgs) ==
    \/ running' = FALSE /\ UNCHANGED <<objectVars, outbox>>
    \/ WriteBeyond /\ Send(l, msgs) /\ UNCHANGED running

OpstartBeyond(l) ==
    /\ ReceiveBeyond(l, "OPSTART")
    /\ \E h \in StartBranches(Begin(Head(inbox[l]).obj, opstate, admin_state)) :
          WriteAndSend(l, h.sent)

\* All three attribute messages are acknowledged as SET_BTS_ATTR.  The attribute
\* list is taken to be one that bts_get_attr reads to its end.
SetAttrReply(m) == <<About("SET_BTS_ATTR_ACK", m.obj)>>

SetAttr(l) ==
    /\ Receive(l, {"SET_BTS_ATTR", "SET_CHAN_ATTR", "SET_RADIO_ATTR"})
    /\ Send(l, SetAttrReply(Head(inbox[l])))
    /\ sw_bts' = IF Head(inbox[l]).type = "SET_BTS_ATTR" THEN "SET_BTS_ATTR_ACK" ELSE sw_bts
    /\ UNCHANGED <<running, bts_id_resp, sw_site_manager, opstate, admin_state>>

\* A variant: the state of every channel is kept in element 0 of the array.
ChgAdmStateOfFirst(l) ==
    /\ Receive(l, {"CHG_ADM_STATE"})
    /\ LET m == Head(inbox[l])
           kept == IF m.obj \in ChannelObjects THEN Channel(0) ELSE m.obj
       IN  /\ m.obj \in Objects
           /\ admin_state' = [admin_state EXCEPT ![kept] = m.adm]
           /\ Send(l, <<About("CHG_ADM_STATE_ACK", m.obj)>>)
    /\ UNCHANGED <<running, bts_id_resp, sw_site_manager, sw_bts, opstate>>

\* The site manager has no branch: its state is kept and nothing is sent.
ChgAdmState(l) ==
    /\ Receive(l, {"CHG_ADM_STATE"})
    /\ Head(inbox[l]).obj \in Objects
    /\ LET m == Head(inbox[l]) IN
       IF m.obj = SiteManager
       THEN UNCHANGED <<admin_state, outbox>>
       ELSE /\ admin_state' = [admin_state EXCEPT ![m.obj] = m.adm]
            /\ Send(l, <<About("CHG_ADM_STATE_ACK", m.obj)>>)
    /\ UNCHANGED <<running, bts_id_resp, sw_site_manager, sw_bts, opstate>>

ChgAdmStateBeyond(l) ==
    /\ ReceiveBeyond(l, "CHG_ADM_STATE")
    /\ WriteAndSend(l, <<About("CHG_ADM_STATE_ACK", Head(inbox[l]).obj)>>)

\* The manufacturer message: the answer and two state reports go back on the
\* link it came from, two identity acknowledgements always go to the RSL socket.
RslConnectReply ==
    <<Plain("RSL_CONNECT_ACK"), StoredReport(BasebTransc, opstate, admin_state),
      StoredReport(RadioCarrier, opstate, admin_state)>>

RslConnect(l) ==
    /\ Receive(l, {"RSL_CONNECT"})
    /\ outbox' = [k \in Links |-> outbox[k]
                     \o (IF k = l THEN RslConnectReply ELSE <<>>)
                     \o (IF k = "RSL" THEN <<Plain("ID_ACK"), Plain("RSL_ID_ACK")>> ELSE <<>>)]
    /\ UNCHANGED <<running, objectVars>>

BtsHandles(l) ==
    \/ Ping(l)        \/ NoEffect(l) \/ IdGet(l)
    \/ SwActReqAck(l) \/ ActivateSw(l) \/ Opstart(l)
    \/ SetAttr(l)     \/ ChgAdmState(l) \/ RslConnect(l)
    \/ OpstartBeyond(l) \/ ChgAdmStateBeyond(l)
-----------------------------------------------------------------------------
(* The BSC of this module: it writes any message on any link, one at a     *)
(* time, and reads everything the BTS sent before it writes the next.      *)
BscWrites(l) ==
    /\ inbox = [k \in Links |-> <<>>]
    /\ outbox = [k \in Links |-> <<>>]
    /\ \E m \in AnyToBts : inbox' = [inbox EXCEPT ![l] = Append(@, m)]
    /\ UNCHANGED <<running, objectVars, outbox>>

BscReads ==
    /\ inbox = [k \in Links |-> <<>>]
    /\ outbox # [k \in Links |-> <<>>]
    /\ outbox' = [k \in Links |-> <<>>]
    /\ UNCHANGED <<running, objectVars, inbox>>

AnyNext == BscReads \/ \E l \in Links : BtsHandles(l) \/ BscWrites(l)

AnySpec == BtsInit /\ [][AnyNext]_btsVars
-----------------------------------------------------------------------------
StatesTypeOK ==
    /\ running \in BOOLEAN
    /\ bts_id_resp \in BOOLEAN
    /\ sw_site_manager \in SwStates
    /\ sw_bts \in SwStates
    /\ opstate \in [Objects -> OpStates]
    /\ admin_state \in [Objects -> AdminStates]

\* In front of any BSC, and of one that keeps to the objects of the BTS.
AnyTypeOK ==
    /\ StatesTypeOK
    /\ inbox \in [Links -> Seq(AnyToBts)]
    /\ outbox \in [Links -> Seq(AnyToBsc)]

BtsTypeOK ==
    /\ StatesTypeOK
    /\ inbox \in [Links -> Seq(ToBts)]
    /\ outbox \in [Links -> Seq(ToBsc)]
-----------------------------------------------------------------------------
(* Properties that hold whatever the BSC sends.                            *)

\* What this step appends to the stream of link l.
Sent(l) == SubSeq(outbox'[l], Len(outbox[l]) + 1, Len(outbox'[l]))

\* This step consumes the next message of link l, and it is of type t.
Handles(l) == inbox[l] # <<>> /\ inbox'[l] = Tail(inbox[l])

\* m says that the software of an object is active and waits for its start.
ReportsWaiting(m) == m.type = "STATECHG_EVENT_REP" /\ m.av = "DEPENDENCY"

Positions(s, Test(_)) == {i \in 1 .. Len(s) : Test(s[i])}

AckTypes == {"ACTIVATE_SW_ACK", "OPSTART_ACK", "SET_BTS_ATTR_ACK", "CHG_ADM_STATE_ACK"}
AckOf(type) ==
    CASE type = "ACTIVATE_SW"   -> "ACTIVATE_SW_ACK"
      [] type = "OPSTART"       -> "OPSTART_ACK"
      [] type = "CHG_ADM_STATE" -> "CHG_ADM_STATE_ACK"
      [] OTHER                  -> "SET_BTS_ATTR_ACK"

IsRequest(m) ==
    \/ m.type \in {"ACTIVATE_SW", "OPSTART", "SET_BTS_ATTR", "SET_CHAN_ATTR", "SET_RADIO_ATTR"}
    \/ m.type = "CHG_ADM_STATE" /\ m.obj # SiteManager

\* A request is acknowledged exactly once, about the object it names and ahead
\* of every other message it causes, and nothing else causes an acknowledgement:
\* though the handlers go on testing the object class in a buffer that their own
\* answers overwrite (bts_nm.c:1015), none runs on into the branch of another
\* object.  Only a program lost to a write beyond its arrays does not answer.
OneAckPerRequest ==
    [][\A l \in Links :
         LET acks == Positions(Sent(l), LAMBDA m : m.type \in AckTypes) IN
         IF Handles(l) /\ IsRequest(Head(inbox[l]))
         THEN LET r == Head(inbox[l]) IN
              \/ acks = {1} /\ Sent(l)[1] = About(AckOf(r.type), r.obj)
              \/ acks = {} /\ r.obj \notin Objects /\ ~running'
         ELSE acks = {}]_btsVars
=============================================================================
