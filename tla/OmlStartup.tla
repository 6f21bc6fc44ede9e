----------------------------- MODULE OmlStartup -----------------------------
(***************************************************************************)
(* The start-up of the BTS: the handlers of BtsNm together with a BSC that *)
(* follows the procedure they are written for.  softBTS contains no BSC;   *)
(* this one is external, and its answers are read off the requests that    *)
(* oml_msg has a branch for and off the reports it sends to provoke them.  *)
(*                                                                         *)
(* Each link is two FIFO streams, and the two programs run concurrently,   *)
(* so requests, answers and reports of several objects are in flight at    *)
(* the same time.                                                          *)
(***************************************************************************)
EXTENDS BtsNm, FiniteSets

CONSTANTS
    MaxPings,       \* how many pings the BSC sends, over both links
    MaxRestarts     \* how often the BSC starts the site manager again

ASSUME BudgetAssumption == MaxPings \in Nat /\ MaxRestarts \in Nat
ASSUME UnlockAssumption == "UNLOCKED" \in Requested

VARIABLES
    asksId,     \* links on which the BSC has not yet asked for the identity
    pings,      \* pings the BSC may still send
    restarts,   \* repeated starts the BSC may still order
    view,       \* the BSC's copy of each object's state: the last report about it
    said,       \* history: every message the BTS has put on the OML link
    asked       \* history: every message the BSC has put on the OML link

bscVars == <<asksId, pings, restarts, view>>
vars == <<btsVars, bscVars, said, asked>>
-----------------------------------------------------------------------------
NoReport == [op |-> "none", adm |-> "none"]

Elements(s) == {s[i] : i \in 1 .. Len(s)}

Init ==
    /\ BtsInit
    /\ asksId = Links
    /\ pings = MaxPings
    /\ restarts = MaxRestarts
    /\ view = [o \in Objects |-> NoReport]
    /\ said = {}
    /\ asked = {}

\* What the BSC answers to one message of the BTS on the OML link.
Reaction(m) ==
    LET start(o) == <<AdmRequest(o, "UNLOCKED"), About("OPSTART", o)>> IN
    CASE m.type = "SW_ACT_REQ" ->
            <<About("SW_ACT_REQ_ACK", m.obj), About("ACTIVATE_SW", m.obj)>>
      [] m = StateChg(SiteManager, "ENABLED", "OK", "LOCKED") ->
            <<About("OPSTART", SiteManager)>>
      [] m = StateChg(Bts, "DISABLED", "DEPENDENCY", "LOCKED") ->
            <<About("SET_BTS_ATTR", Bts)>> \o start(Bts)
      [] m.type = "STATECHG_EVENT_REP" /\ m.av = "DEPENDENCY" /\ m.obj \in ChannelObjects ->
            <<About("SET_CHAN_ATTR", m.obj)>> \o start(m.obj)
      [] m = About("SW_ACTIVATED_REP", RadioCarrier) ->
            <<About("SET_RADIO_ATTR", RadioCarrier)>> \o start(RadioCarrier)
      [] m = About("SW_ACTIVATED_REP", BasebTransc) ->
            start(BasebTransc) \o <<Plain("RSL_CONNECT")>>
      [] OTHER -> <<>>

\* Every message on the OML link is remembered; steps only add to the streams.
Remember ==
    /\ said' = said \cup Elements(outbox'["OML"])
    /\ asked' = asked \cup Elements(inbox'["OML"])

\* The BSC reads one message of the OML link, notes a state report, and answers.
BscReacts ==
    /\ outbox["OML"] # <<>>
    /\ LET m == Head(outbox["OML"]) IN
       /\ outbox' = [outbox EXCEPT !["OML"] = Tail(@)]
       /\ inbox' = [inbox EXCEPT !["OML"] = @ \o Reaction(m)]
       /\ view' = IF m.type = "STATECHG_EVENT_REP"
                  THEN [view EXCEPT ![m.obj] = [op |-> m.op, adm |-> m.adm]] ELSE view
    /\ Remember
    /\ UNCHANGED <<running, objectVars, asksId, pings, restarts>>

\* On the RSL link the BSC expects no O&M messages and ignores them.
BscReadsRsl ==
    /\ outbox["RSL"] # <<>>
    /\ outbox' = [outbox EXCEPT !["RSL"] = Tail(@)]
    /\ UNCHANGED <<running, objectVars, inbox, bscVars, said, asked>>

BscSends(l, m) ==
    /\ inbox' = [inbox EXCEPT ![l] = Append(@, m)]
    /\ UNCHANGED <<running, objectVars, outbox, view>>
    /\ Remember

\* After accepting a connection the BSC asks who is there, once per link.
BscAsksId(l) ==
    /\ l \in asksId
    /\ asksId' = asksId \ {l}
    /\ BscSends(l, Plain("ID_GET"))
    /\ UNCHANGED <<pings, restarts>>

BscPings(l) ==
    /\ pings > 0
    /\ pings' = pings - 1
    /\ BscSends(l, Plain("PING"))
    /\ UNCHANGED <<asksId, restarts>>

\* The BSC starts the site manager once more, whatever is under way.
BscRestarts ==
    /\ restarts > 0
    /\ About("OPSTART", SiteManager) \in asked
    /\ restarts' = restarts - 1
    /\ BscSends("OML", About("OPSTART", SiteManager))
    /\ UNCHANGED <<asksId, pings>>

BtsStep(l) == BtsHandles(l) /\ Remember /\ UNCHANGED bscVars

Next ==
    \/ BscReacts \/ BscReadsRsl \/ BscRestarts
    \/ \E l \in Links : BtsStep(l) \/ BscAsksId(l) \/ BscPings(l)

\* The select() loop serves every readable link in each pass, and the BSC is
\* taken to read what it is sent and to identify its peers.  Nobody has to ping
\* or to start anything twice.
Fairness ==
    /\ WF_vars(BscReacts) /\ WF_vars(BscReadsRsl)
    /\ \A l \in Links : WF_vars(BtsStep(l)) /\ WF_vars(BscAsksId(l))

Spec == Init /\ [][Next]_vars
FairSpec == Spec /\ Fairness
-----------------------------------------------------------------------------
TypeOK ==
    /\ BtsTypeOK
    /\ asksId \subseteq Links
    /\ pings \in 0 .. MaxPings
    /\ restarts \in 0 .. MaxRestarts
    /\ view \in [Objects -> [op : OpStates, adm : AdminStates] \cup {NoReport}]
    /\ said \subseteq ToBsc
    /\ asked \subseteq ToBts

Enabled(o) == opstate[o] = "ENABLED"

\* Objects come up from the top: the BTS object after the site manager, a channel
\* after the BTS object, the two halves of the transceiver after the last channel.
StartupOrder ==
    /\ Enabled(Bts) => Enabled(SiteManager)
    /\ \A o \in ChannelObjects : Enabled(o) => Enabled(Bts)
    /\ \A o \in {BasebTransc, RadioCarrier} : Enabled(o) => Enabled(Channel(LastTs))

(* Why objects come up in that order: every message of the procedure is    *)
(* caused by one before it.                                                *)

\* What is under way on the OML link has been remembered; the RSL link brings
\* identity requests and pings only.
StreamsRemembered ==
    /\ Elements(outbox["OML"]) \subseteq said
    /\ Elements(inbox["OML"]) \subseteq asked
    /\ Elements(inbox["RSL"]) \subseteq {Plain("ID_GET"), Plain("PING")}

\* The BTS asks for the software of an object when its turn has come.
RequestsInTurn ==
    /\ About("SW_ACT_REQ", Bts) \in said => Enabled(SiteManager)
    /\ About("SW_ACT_REQ", BasebTransc) \in said => Enabled(Bts)
    /\ About("SW_ACT_REQ", RadioCarrier) \in said
         => About("ACTIVATE_SW", BasebTransc) \in asked
    /\ \A c \in ChannelObjects : About("SW_ACT_REQ", c) \in said
         => About("ACTIVATE_SW", RadioCarrier) \in asked

\* Software is activated on request, and an object waits for its start after that.
ActivationsInTurn ==
    /\ \A o \in Objects : About("ACTIVATE_SW", o) \in asked => About("SW_ACT_REQ", o) \in said
    /\ \A m \in said : ReportsWaiting(m) => About("ACTIVATE_SW", m.obj) \in asked

\* An object is started on order, and ordered to start when it waits for it or,
\* a half of the transceiver, when the BTS has said that it is active.
StartsInTurn ==
    /\ \A o \in Objects : Enabled(o) => About("OPSTART", o) \in asked
    /\ \A o \in {Bts} \cup ChannelObjects : About("OPSTART", o) \in asked
         => \E m \in said : ReportsWaiting(m) /\ m.obj = o
    /\ \A o \in {BasebTransc, RadioCarrier} :
         /\ About("OPSTART", o) \in asked => About("SW_ACTIVATED_REP", o) \in said
         /\ About("SW_ACTIVATED_REP", o) \in said => Enabled(Channel(LastTs))

\* No message of the start-up overtakes its cause (oml_msg sends nothing on its
\* own): the inductive form of StartupOrder.
CausalOrder ==
    StreamsRemembered /\ RequestsInTurn /\ ActivationsInTurn /\ StartsInTurn

\* The BTS declares its transceiver active when the last timeslot is started
\* (bts_nm.c:1182); by then every other timeslot is started too, because the
\* requests for the eight timeslots stay in order through four crossings of the
\* link.
TransceiverLast ==
    \A o \in {BasebTransc, RadioCarrier} :
        About("SW_ACTIVATED_REP", o) \in said => \A c \in ChannelObjects : Enabled(c)

\* An object is started only after the BSC has unlocked it, so that the reports
\* built from the stored state (bts_nm.c:1194-1247) never show a started object
\* locked, nor the zero byte the channel arrays are born with.
EnabledIsUnlocked ==
    \A o \in Objects : Enabled(o) => admin_state[o] = "UNLOCKED"

\* The RSL link is acknowledged (bts_nm.c:1412) only when both halves of the
\* transceiver are started, and the reports sent with the acknowledgement say so.
RslLast ==
    Plain("RSL_CONNECT_ACK") \in said => Enabled(BasebTransc) /\ Enabled(RadioCarrier)

Quiet == \A l \in Links : inbox[l] = <<>> /\ outbox[l] = <<>>

\* Whenever nothing is in flight the BSC's copy of the state of an object it has
\* heard of is the state the BTS holds, though most requests that change a state
\* are answered without a report of it.
ViewAgrees ==
    Quiet => \A o \in Objects :
        view[o] # NoReport => view[o] = [op |-> opstate[o], adm |-> admin_state[o]]

\* Over both links together, the initial state report and the request that starts
\* the site manager leave the BTS at most once (bts_nm.c:233): never after its
\* software state has moved, so that a started BTS is not reported as not
\* installed when the other link asks for its identity.
StartsOnce ==
    [][\A l \in Links : \A i \in 1 .. Len(Sent(l)) :
         LET m == Sent(l)[i] IN
         \/ m = About("SW_ACT_REQ", SiteManager)
         \/ m.type = "STATECHG_EVENT_REP" /\ m.av = "NOT_INSTALLED"
         => sw_site_manager = "FALSE"]_vars

\* Every object is started, the BSC knows it, and the RSL link is acknowledged.
InService ==
    /\ \A o \in Objects : Enabled(o) /\ view[o] = [op |-> "ENABLED", adm |-> "UNLOCKED"]
    /\ Plain("RSL_CONNECT_ACK") \in said

\* The identity request of the RSL link was read first, and the report of the
\* initial state and the request that starts everything went out on that link.
StartedOnRsl == bts_id_resp /\ About("SW_ACT_REQ", SiteManager) \notin said

\* A BTS that is identified on the OML link first, and is not ended by a ping,
\* comes into service with the BSC knowing it, and stays there.
ComesUp == <>[](InService \/ ~running \/ StartedOnRsl)
-----------------------------------------------------------------------------
(* The start-up procedure implements the life cycle of ObjectStartup.      *)

StageOf(o) ==
    CASE Enabled(o) -> "started"
      [] ~Enabled(o) /\ About("ACTIVATE_SW_ACK", o) \in said -> "active"
      [] ~Enabled(o) /\ About("ACTIVATE_SW_ACK", o) \notin said
                     /\ About("SW_ACT_REQ", o) \in said -> "requested"
      [] OTHER -> "idle"

OnActive == [o \in Objects |-> CASE o = BasebTransc  -> {RadioCarrier}
                                 [] o = RadioCarrier -> ChannelObjects
                                 [] OTHER -> {}]
OnStart == [o \in Objects |-> CASE o = SiteManager -> {Bts}
                                [] o = Bts -> {BasebTransc}
                                [] OTHER -> {}]
NeedsStarted == [o \in Objects |-> CASE o \in {BasebTransc, RadioCarrier} -> ChannelObjects
                                     [] o \in ChannelObjects -> {Bts}
                                     [] OTHER -> {}]

LifeCycle == INSTANCE ObjectStartup
    WITH Root <- SiteManager, AfterActive <- OnActive, AfterStart <- OnStart,
         Needs <- NeedsStarted, stage <- [o \in Objects |-> StageOf(o)]

\* Every object of the BTS goes through the life cycle in order and in its turn,
\* as the acknowledgements it sends and the states it stores show.
ImplementsLifeCycle == LifeCycle!Spec
=============================================================================
