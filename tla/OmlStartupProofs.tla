-------------------------- MODULE OmlStartupProofs --------------------------
(***************************************************************************)
(* The handlers of BtsNm keep what they promise whatever the BSC sends,    *)
(* and the start-up brings objects up in order, for every number of        *)
(* timeslots, pings and repeated starts.                                   *)
(***************************************************************************)
EXTENDS OmlStartup, TLAPS, SequenceTheorems
-----------------------------------------------------------------------------
(* The answers to a request in full.                                       *)

\* What activating the software of object o makes the BTS send after the
\* acknowledgement.
AfterActivateSw(o) ==
    LET NextRequest(ts) == About("SW_ACT_REQ", Channel(ts))
        Activated(ts) == About("SW_ACTIVATED_REP", Channel(ts))
    IN  CASE o = SiteManager  -> <<StateChg(o, "ENABLED", "OK", "LOCKED")>>
          [] o = Bts          -> <<StateChg(o, "DISABLED", "DEPENDENCY", "LOCKED")>>
          [] o = BasebTransc  -> <<About("SW_ACT_REQ", RadioCarrier)>>
          [] o = RadioCarrier -> PerChannel(NextRequest)
          [] OTHER            -> <<StateChg(o, "DISABLED", "DEPENDENCY", "LOCKED")>>
                                 \o (IF o = Channel(LastTs)
                                     THEN PerChannel(Activated) ELSE <<>>)

ActivateSwReply(o) == <<About("ACTIVATE_SW_ACK", o)>> \o AfterActivateSw(o)

\* What starting object o makes the BTS send after the acknowledgement, when op and
\* adm are the states that it leaves.
AfterOpstart(o, op, adm) ==
    CASE o = SiteManager -> <<About("SW_ACTIVATED_REP", o), About("SW_ACT_REQ", Bts)>>
      [] o = Bts         -> <<About("SW_ACTIVATED_REP", o), About("SW_ACT_REQ", BasebTransc)>>
      [] o = Channel(LastTs) -> LastChannelReport(op, adm)
      [] OTHER           -> <<>>

OpstartReply(o, op, adm) == <<About("OPSTART_ACK", o)>> \o AfterOpstart(o, op, adm)
-----------------------------------------------------------------------------
(* A handler at work sends these answers and no others.                    *)

\* A handler that has come so far; it has left the switch or is still there.
At(b, s, gone, p, a) == [buf |-> b, sent |-> s, left |-> gone, op |-> p, adm |-> a]
Gone == TRUE
Here == FALSE
Nothing == <<>>
Then(s, m) == s \o <<m>>
OneEnabled(p, o) == [p EXCEPT ![o] = "ENABLED"]
OneUnlocked(a, o) == [a EXCEPT ![o] = "UNLOCKED"]

LEMMA AtFields ==
    ASSUME NEW b, NEW s, NEW gone, NEW p, NEW a
    PROVE  LET h == At(b, s, gone, p, a) IN
           h.buf = b /\ h.sent = s /\ h.left = gone /\ h.op = p /\ h.adm = a
BY DEF At

LEMMA BeginAt ==
    ASSUME NEW b, NEW p, NEW a
    PROVE  Begin(b, p, a) = {At(b, Nothing, Here, p, a)}
BY DEF Begin, At, Nothing, Here

\* The messages for every channel, or one message, or an acknowledgement.
LEMMA PutAt ==
    ASSUME NEW b, NEW s, NEW gone, NEW p, NEW a, NEW msgs, NEW o, o = msgs[Len(msgs)].obj
    PROVE  Put(At(b, s, gone, p, a), msgs) = At(o, s \o msgs, gone, p, a)
<1> DEFINE h == At(b, s, gone, p, a)
           t == s \o msgs
<1>1. Build(h, o) = At(o, s, gone, p, a)
  BY DEF At, Build
<1>2. ASSUME NEW u PROVE [At(o, s, gone, p, a) EXCEPT !.sent = u] = At(o, u, gone, p, a)
  BY DEF At
<1>3. Put(h, msgs) = [At(o, s, gone, p, a) EXCEPT !.sent = At(o, s, gone, p, a).sent \o msgs]
  BY <1>1 DEF Put
<1>4. At(o, s, gone, p, a).sent = s
  BY AtFields
<1> HIDE DEF t
<1>5. Put(h, msgs) = At(o, t, gone, p, a)
  BY <1>2, <1>3, <1>4 DEF t
<1> QED BY <1>5 DEF t

LEMMA PutOneAt ==
    ASSUME NEW b, NEW s, NEW gone, NEW p, NEW a, NEW m
    PROVE  Put(At(b, s, gone, p, a), <<m>>) = At(m.obj, Then(s, m), gone, p, a)
<1> DEFINE one == <<m>>
           o == m.obj
<1>1. o = one[Len(one)].obj
  OBVIOUS
<1> HIDE DEF one, o
<1>2. Put(At(b, s, gone, p, a), one) = At(o, s \o one, gone, p, a)
  BY <1>1, PutAt
<1> QED BY <1>2 DEF one, o, Then

LEMMA PutAckAt ==
    ASSUME NEW b, NEW s, NEW gone, NEW p, NEW a, NEW type, NEW o
    PROVE  PutAck(At(b, s, gone, p, a), type, o)
              = At(o, Then(s, About(type, o)), gone, p, a)
<1> DEFINE m == About(type, o)
<1>1. m.obj = o
  BY DEF About
<1> HIDE DEF m
<1>2. Put(At(b, s, gone, p, a), <<m>>) = At(o, Then(s, m), gone, p, a)
  BY <1>1, PutOneAt
<1> QED BY <1>2 DEF PutAck, m

LEMMA BreakAt ==
    ASSUME NEW b, NEW s, NEW gone, NEW p, NEW a
    PROVE  Break(At(b, s, gone, p, a)) = At(b, s, Gone, p, a)
<1>1. ASSUME NEW x PROVE [At(b, s, gone, p, a) EXCEPT !.left = x] = At(b, s, x, p, a)
  BY DEF At
<1> QED BY <1>1, Zenon DEF Break, Gone

LEMMA StoreAt ==
    ASSUME NEW b, NEW s, NEW gone, NEW p, NEW a, NEW o
    PROVE  /\ Started(At(b, s, gone, p, a), o)
                 = At(b, s, gone, OneEnabled(p, o), a)
           /\ Unlocked(At(b, s, gone, p, a), o)
                 = At(b, s, gone, p, OneUnlocked(a, o))
BY DEF At, Started, Unlocked, OneEnabled, OneUnlocked

\* The branches, one by one.
ActivateSiteManagerBranch(S) == Branch(S, "SITE_MANAGER", ActivateSiteManager)
ActivateBtsBranch(S) == Branch(S, "BTS", ActivateBts)
ActivateBasebBranch(S) == Branch(S, "BASEB_TRANSC", ActivateBaseb)
ActivateRadioCarrierBranch(S) == Branch(S, "RADIO_CARRIER", ActivateRadioCarrier)
ActivateChannelBranch(S) == Branch(S, "CHANNEL", ActivateChannel)

StartSiteManagerBranch(S) == Branch(S, "SITE_MANAGER", StartSiteManager)
StartBtsBranch(S) == Branch(S, "BTS", StartBts)
StartBasebBranch(S) == Branch(S, "BASEB_TRANSC", StartBaseb)
StartRadioCarrierBranch(S) == Branch(S, "RADIO_CARRIER", StartRadioCarrier)
StartChannelBranch(S) == Branch(S, "CHANNEL", StartChannel)

LEMMA ActivateRow ==
    ASSUME NEW S
    PROVE  ActivateBranches(S)
             = ActivateChannelBranch(ActivateRadioCarrierBranch(ActivateBasebBranch(
                  ActivateBtsBranch(ActivateSiteManagerBranch(S)))))
BY DEF ActivateBranches, ActivateSiteManagerBranch, ActivateBtsBranch, ActivateBasebBranch,
   ActivateRadioCarrierBranch, ActivateChannelBranch

LEMMA StartRow ==
    ASSUME NEW S
    PROVE  StartBranches(S)
             = StartChannelBranch(StartRadioCarrierBranch(StartBasebBranch(
                  StartBtsBranch(StartSiteManagerBranch(S)))))
BY DEF StartBranches, StartSiteManagerBranch, StartBtsBranch, StartBasebBranch,
   StartRadioCarrierBranch, StartChannelBranch

\* A branch whose class the buffer does not name, or that comes behind a break, is
\* passed; another one is taken.
LEMMA ActivatePassed ==
    ASSUME NEW h
    PROVE  LET Passes(class) == h.left \/ h.buf[1] # class IN
           /\ Passes("SITE_MANAGER") => ActivateSiteManagerBranch({h}) = {h}
           /\ Passes("BTS") => ActivateBtsBranch({h}) = {h}
           /\ Passes("BASEB_TRANSC") => ActivateBasebBranch({h}) = {h}
           /\ Passes("RADIO_CARRIER") => ActivateRadioCarrierBranch({h}) = {h}
           /\ Passes("CHANNEL") => ActivateChannelBranch({h}) = {h}
BY DEF Branch, ActivateSiteManagerBranch, ActivateBtsBranch, ActivateBasebBranch,
   ActivateRadioCarrierBranch, ActivateChannelBranch

LEMMA ActivateTaken ==
    ASSUME NEW h, ~h.left
    PROVE  /\ h.buf[1] = "SITE_MANAGER" => ActivateSiteManagerBranch({h}) = {ActivateSiteManager(h)}
           /\ h.buf[1] = "BTS" => ActivateBtsBranch({h}) = {ActivateBts(h)}
           /\ h.buf[1] = "BASEB_TRANSC" => ActivateBasebBranch({h}) = {ActivateBaseb(h)}
           /\ h.buf[1] = "RADIO_CARRIER" =>
                                            ActivateRadioCarrierBranch({h}) = {ActivateRadioCarrier(h)}
           /\ h.buf[1] = "CHANNEL" => ActivateChannelBranch({h}) = {ActivateChannel(h)}
BY DEF Branch, ActivateSiteManagerBranch, ActivateBtsBranch, ActivateBasebBranch,
   ActivateRadioCarrierBranch, ActivateChannelBranch

LEMMA StartPassed ==
    ASSUME NEW h
    PROVE  LET Passes(class) == h.left \/ h.buf[1] # class IN
           /\ Passes("SITE_MANAGER") => StartSiteManagerBranch({h}) = {h}
           /\ Passes("BTS") => StartBtsBranch({h}) = {h}
           /\ Passes("BASEB_TRANSC") => StartBasebBranch({h}) = {h}
           /\ Passes("RADIO_CARRIER") => StartRadioCarrierBranch({h}) = {h}
           /\ Passes("CHANNEL") => StartChannelBranch({h}) = {h}
BY DEF Branch, StartSiteManagerBranch, StartBtsBranch, StartBasebBranch, StartRadioCarrierBranch,
   StartChannelBranch

LEMMA StartTaken ==
    ASSUME NEW h, ~h.left
    PROVE  /\ h.buf[1] = "SITE_MANAGER" => StartSiteManagerBranch({h}) = {StartSiteManager(h)}
           /\ h.buf[1] = "BTS" => StartBtsBranch({h}) = {StartBts(h)}
           /\ h.buf[1] = "BASEB_TRANSC" => StartBasebBranch({h}) = {StartBaseb(h)}
           /\ h.buf[1] = "RADIO_CARRIER" => StartRadioCarrierBranch({h}) = {StartRadioCarrier(h)}
           /\ h.buf[1] = "CHANNEL" => StartChannelBranch({h}) = {StartChannel(h)}
BY DEF Branch, StartSiteManagerBranch, StartBtsBranch, StartBasebBranch, StartRadioCarrierBranch,
   StartChannelBranch

\* The classes of the objects.
LEMMA Classes ==
    /\ SiteManager[1] = "SITE_MANAGER" /\ Bts[1] = "BTS" /\ BasebTransc[1] = "BASEB_TRANSC"
    /\ RadioCarrier[1] = "RADIO_CARRIER"
    /\ \A ts : Channel(ts)[1] = "CHANNEL" /\ Channel(ts)[2] = ts
    /\ \A o \in Named : o \in SingleObjects \/ o = Channel(o[2])
    /\ \A x, y : Channel(x) = Channel(y) => x = y
<1>1. \A o \in Named : o \in SingleObjects \/ \E ts : o = Channel(ts)
  BY DEF Named, Objects, ChannelObjects
<1>2. /\ SiteManager[1] = "SITE_MANAGER" /\ Bts[1] = "BTS" /\ BasebTransc[1] = "BASEB_TRANSC"
      /\ RadioCarrier[1] = "RADIO_CARRIER"
  BY DEF SiteManager, Bts, BasebTransc, RadioCarrier
<1>3. \A ts : Channel(ts)[1] = "CHANNEL" /\ Channel(ts)[2] = ts
  BY DEF Channel
<1> QED BY <1>1, <1>2, <1>3

\* A request, and a report that it is active, for every channel.
RequestEach == [i \in 1 .. LastTs + 1 |-> About("SW_ACT_REQ", Channel(i - 1))]
ActiveEach == [i \in 1 .. LastTs + 1 |-> About("SW_ACTIVATED_REP", Channel(i - 1))]

LEMMA FamilyEnds ==
    /\ Len(RequestEach) = LastTs + 1 /\ Len(ActiveEach) = LastTs + 1
    /\ RequestEach[Len(RequestEach)].obj = Channel(LastTs)
    /\ ActiveEach[Len(ActiveEach)].obj = Channel(LastTs)
<1>1. Len(RequestEach) = LastTs + 1 /\ Len(ActiveEach) = LastTs + 1
  BY LastTsAssumption DEF RequestEach, ActiveEach
<1>2. RequestEach[LastTs + 1] = About("SW_ACT_REQ", Channel(LastTs))
  BY LastTsAssumption DEF RequestEach
<1>3. ActiveEach[LastTs + 1] = About("SW_ACTIVATED_REP", Channel(LastTs))
  BY LastTsAssumption DEF ActiveEach
<1>4. \A t, o : About(t, o).obj = o
  BY DEF About
<1> QED BY <1>1, <1>2, <1>3, <1>4

\* What the branches make of a handler that comes to them.
LEMMA ActivateAt ==
    ASSUME NEW b, NEW s, NEW gone, NEW p, NEW a
    PROVE  /\ ActivateSiteManager(At(b, s, gone, p, a))
                = At(SiteManager, Then(Then(s, About("ACTIVATE_SW_ACK", SiteManager)),
                          StateChg(SiteManager, "ENABLED", "OK", "LOCKED")), gone, p, a)
           /\ ActivateBts(At(b, s, gone, p, a))
                = At(Bts, Then(Then(s, About("ACTIVATE_SW_ACK", Bts)),
                          StateChg(Bts, "DISABLED", "DEPENDENCY", "LOCKED")), gone, p, a)
           /\ ActivateBaseb(At(b, s, gone, p, a))
                = At(RadioCarrier, Then(Then(s, About("ACTIVATE_SW_ACK", BasebTransc)),
                          About("SW_ACT_REQ", RadioCarrier)), Gone, p, a)
           /\ ActivateRadioCarrier(At(b, s, gone, p, a))
                = At(Channel(LastTs), Then(s, About("ACTIVATE_SW_ACK", RadioCarrier)) \o RequestEach,
                  Gone, p, a)
<1> DEFINE h == At(b, s, gone, p, a)
           Ack(o) == Then(s, About("ACTIVATE_SW_ACK", o))
<1>1. \A o : PutAck(h, "ACTIVATE_SW_ACK", o) = At(o, Ack(o), gone, p, a)
  BY PutAckAt
<1>2. \A t, o : About(t, o).obj = o
  BY DEF About
<1>3. \A o, op, av, adm : StateChg(o, op, av, adm).obj = o
  BY DEF StateChg
<1> HIDE DEF h, Ack
<1>4. ASSUME NEW o, NEW m, m.obj = o
      PROVE  Put(At(o, Ack(o), gone, p, a), <<m>>) = At(o, Then(Ack(o), m), gone, p, a)
  BY <1>4, PutOneAt
<1>5. ActivateSiteManager(h)
        = At(SiteManager, Then(Ack(SiteManager), StateChg(SiteManager, "ENABLED", "OK", "LOCKED")),
          gone, p, a)
  BY <1>1, <1>3, <1>4 DEF ActivateSiteManager
<1>6. ActivateBts(h)
        = At(Bts, Then(Ack(Bts), StateChg(Bts, "DISABLED", "DEPENDENCY", "LOCKED")), gone, p, a)
  BY <1>1, <1>3, <1>4 DEF ActivateBts
<1>7. ActivateBaseb(h)
        = At(RadioCarrier, Then(Ack(BasebTransc), About("SW_ACT_REQ", RadioCarrier)),
             Gone, p, a)
  <2> DEFINE m == About("SW_ACT_REQ", RadioCarrier)
  <2>1. m.obj = RadioCarrier
    BY <1>2
  <2> HIDE DEF m
  <2>2. Put(At(BasebTransc, Ack(BasebTransc), gone, p, a), <<m>>)
          = At(RadioCarrier, Then(Ack(BasebTransc), m), gone, p, a)
    BY <2>1, PutOneAt
  <2> QED BY <1>1, <2>2, BreakAt DEF ActivateBaseb, m
<1>8. ActivateRadioCarrier(h)
        = At(Channel(LastTs), Ack(RadioCarrier) \o RequestEach, Gone, p, a)
  <2>1. ActivateRadioCarrier(h)
          = Break(Put(PutAck(h, "ACTIVATE_SW_ACK", RadioCarrier), RequestEach))
    BY DEF ActivateRadioCarrier, PerChannel, RequestEach
  <2>2. Put(At(RadioCarrier, Ack(RadioCarrier), gone, p, a), RequestEach)
          = At(Channel(LastTs), Ack(RadioCarrier) \o RequestEach, gone, p, a)
    BY FamilyEnds, PutAt
  <2> QED BY <1>1, <2>1, <2>2, BreakAt
<1> QED BY <1>5, <1>6, <1>7, <1>8 DEF h, Ack

LEMMA ActivateChannelAt ==
    ASSUME NEW ts, NEW s, NEW gone, NEW p, NEW a, NEW o, o = Channel(ts)
    PROVE  LET front == Then(Then(s, About("ACTIVATE_SW_ACK", o)),
                          StateChg(o, "DISABLED", "DEPENDENCY", "LOCKED"))
           IN  /\ ActivateChannel(At(o, s, gone, p, a))
                    = IF ts = LastTs THEN At(o, front \o ActiveEach, Gone, p, a)
                                     ELSE At(o, front, Gone, p, a)
<1> DEFINE h == At(o, s, gone, p, a)
           ack == Then(s, About("ACTIVATE_SW_ACK", o))
           m == StateChg(o, "DISABLED", "DEPENDENCY", "LOCKED")
           acked == At(o, ack, gone, p, a)
           waits == At(o, Then(ack, m), gone, p, a)
           Finish(g) == IF g.buf[2] = LastTs THEN Put(g, ActiveEach) ELSE g
<1>1. o[2] = ts /\ o = Channel(o[2])
  BY Classes
<1>2. h.buf = o /\ acked.buf = o /\ waits.buf = o
  BY AtFields
<1>3. PutAck(h, "ACTIVATE_SW_ACK", o) = acked
  BY PutAckAt
<1>4. Put(acked, <<m>>) = waits
  <2>1. m.obj = o
    BY DEF StateChg
  <2> HIDE DEF m, ack
  <2> QED BY <2>1, PutOneAt
<1> HIDE DEF h, acked, waits, ack, m
<1>5. ActivateChannel(h) = Break(Finish(waits))
  <2>1. ActivateChannel(h)
          = LET Activated(x) == About("SW_ACTIVATED_REP", Channel(x))
                Acknowledge(g) == PutAck(g, "ACTIVATE_SW_ACK", Channel(g.buf[2]))
                Report(g) == Put(g,
                  <<StateChg(Channel(g.buf[2]), "DISABLED", "DEPENDENCY", "LOCKED")>>)
                End(g) == IF g.buf[2] = LastTs THEN Put(g, PerChannel(Activated)) ELSE g
            IN  Break(End(Report(Acknowledge(h))))
    BY DEF ActivateChannel
  <2>2. PutAck(h, "ACTIVATE_SW_ACK", Channel(h.buf[2])) = acked
    BY <1>1, <1>2, <1>3
  <2>3. Put(acked, <<StateChg(Channel(acked.buf[2]), "DISABLED", "DEPENDENCY", "LOCKED")>>)
          = waits
    BY <1>1, <1>2, <1>4 DEF m
  <2> QED BY <2>1, <2>2, <2>3 DEF PerChannel, ActiveEach
<1>6. CASE ts = LastTs
  <2>1. Finish(waits) = Put(waits, ActiveEach)
    BY <1>1, <1>2, <1>6
  <2>2. Put(waits, ActiveEach) = At(o, Then(ack, m) \o ActiveEach, gone, p, a)
    BY <1>6, FamilyEnds, PutAt DEF waits
  <2> QED BY <1>5, <1>6, <2>1, <2>2, BreakAt DEF h, ack, m
<1>7. CASE ts # LastTs
  <2>1. Finish(waits) = waits
    BY <1>1, <1>2, <1>7
  <2> QED BY <1>5, <1>7, <2>1, BreakAt DEF h, waits, ack, m
<1> QED BY <1>6, <1>7


LEMMA SiteManagerActivated ==
    ASSUME NEW p, NEW a
    PROVE  \A h \in ActivateBranches(Begin(SiteManager, p, a)) :
             /\ h.sent = Then(Then(Nothing, About("ACTIVATE_SW_ACK", SiteManager)),
                  StateChg(SiteManager, "ENABLED", "OK", "LOCKED"))
             /\ h.op = p /\ h.adm = a
<1> DEFINE s == Then(Then(Nothing, About("ACTIVATE_SW_ACK", SiteManager)),
                  StateChg(SiteManager, "ENABLED", "OK", "LOCKED"))
           op == p
           adm == a
           h == At(SiteManager, Nothing, Here, p, a)
           g == At(SiteManager, s, Here, op, adm)
<1>1. ActivateBranches(Begin(SiteManager, p, a)) = ActivateBranches({h})
  BY BeginAt
<1>2. ActivateSiteManager(h) = g
  BY ActivateAt
<1> HIDE DEF s, op, adm
<1>3. /\ h.buf = SiteManager /\ h.left = Here /\ g.buf = SiteManager /\ g.left = Here
      /\ g.sent = s /\ g.op = op /\ g.adm = adm
  BY AtFields
<1> HIDE DEF h, g
<1>4. h.buf[1] = "SITE_MANAGER" /\ g.buf[1] = "SITE_MANAGER" /\ ~h.left
  BY <1>3, Classes DEF Here
<1>6. ActivateSiteManagerBranch({h}) = {g}
  BY <1>2, <1>4, ActivateTaken
<1>7. /\ ActivateBtsBranch({g}) = {g}
      /\ ActivateBasebBranch({g}) = {g}
      /\ ActivateRadioCarrierBranch({g}) = {g}
      /\ ActivateChannelBranch({g}) = {g}
  BY <1>4, ActivatePassed
<1>8. ActivateBranches({h}) = {g}
  BY <1>6, <1>7, ActivateRow
<1> QED BY <1>1, <1>3, <1>8 DEF s, op, adm

LEMMA BtsActivated ==
    ASSUME NEW p, NEW a
    PROVE  \A h \in ActivateBranches(Begin(Bts, p, a)) :
             /\ h.sent = Then(Then(Nothing, About("ACTIVATE_SW_ACK", Bts)),
                  StateChg(Bts, "DISABLED", "DEPENDENCY", "LOCKED"))
             /\ h.op = p /\ h.adm = a
<1> DEFINE s == Then(Then(Nothing, About("ACTIVATE_SW_ACK", Bts)),
                  StateChg(Bts, "DISABLED", "DEPENDENCY", "LOCKED"))
           op == p
           adm == a
           h == At(Bts, Nothing, Here, p, a)
           g == At(Bts, s, Here, op, adm)
<1>1. ActivateBranches(Begin(Bts, p, a)) = ActivateBranches({h})
  BY BeginAt
<1>2. ActivateBts(h) = g
  BY ActivateAt
<1> HIDE DEF s, op, adm
<1>3. /\ h.buf = Bts /\ h.left = Here /\ g.buf = Bts /\ g.left = Here
      /\ g.sent = s /\ g.op = op /\ g.adm = adm
  BY AtFields
<1> HIDE DEF h, g
<1>4. h.buf[1] = "BTS" /\ g.buf[1] = "BTS" /\ ~h.left
  BY <1>3, Classes DEF Here
<1>5. /\ ActivateSiteManagerBranch({h}) = {h}
  BY <1>4, ActivatePassed
<1>6. ActivateBtsBranch({h}) = {g}
  BY <1>2, <1>4, ActivateTaken
<1>7. /\ ActivateBasebBranch({g}) = {g}
      /\ ActivateRadioCarrierBranch({g}) = {g}
      /\ ActivateChannelBranch({g}) = {g}
  BY <1>4, ActivatePassed
<1>8. ActivateBranches({h}) = {g}
  BY <1>5, <1>6, <1>7, ActivateRow
<1> QED BY <1>1, <1>3, <1>8 DEF s, op, adm

LEMMA BasebActivated ==
    ASSUME NEW p, NEW a
    PROVE  \A h \in ActivateBranches(Begin(BasebTransc, p, a)) :
             /\ h.sent = Then(Then(Nothing, About("ACTIVATE_SW_ACK", BasebTransc)),
                  About("SW_ACT_REQ", RadioCarrier))
             /\ h.op = p /\ h.adm = a
<1> DEFINE s == Then(Then(Nothing, About("ACTIVATE_SW_ACK", BasebTransc)),
                  About("SW_ACT_REQ", RadioCarrier))
           op == p
           adm == a
           h == At(BasebTransc, Nothing, Here, p, a)
           g == At(RadioCarrier, s, Gone, op, adm)
<1>1. ActivateBranches(Begin(BasebTransc, p, a)) = ActivateBranches({h})
  BY BeginAt
<1>2. ActivateBaseb(h) = g
  BY ActivateAt
<1> HIDE DEF s, op, adm
<1>3. /\ h.buf = BasebTransc /\ h.left = Here /\ g.buf = RadioCarrier /\ g.left = Gone
      /\ g.sent = s /\ g.op = op /\ g.adm = adm
  BY AtFields
<1> HIDE DEF h, g
<1>4. h.buf[1] = "BASEB_TRANSC" /\ g.buf[1] = "RADIO_CARRIER" /\ ~h.left /\ g.left
  BY <1>3, Classes DEF Here, Gone
<1>5. /\ ActivateSiteManagerBranch({h}) = {h}
      /\ ActivateBtsBranch({h}) = {h}
  BY <1>4, ActivatePassed
<1>6. ActivateBasebBranch({h}) = {g}
  BY <1>2, <1>4, ActivateTaken
<1>7. /\ ActivateRadioCarrierBranch({g}) = {g}
      /\ ActivateChannelBranch({g}) = {g}
  BY <1>4, ActivatePassed
<1>8. ActivateBranches({h}) = {g}
  BY <1>5, <1>6, <1>7, ActivateRow
<1> QED BY <1>1, <1>3, <1>8 DEF s, op, adm

LEMMA RadioCarrierActivated ==
    ASSUME NEW p, NEW a
    PROVE  \A h \in ActivateBranches(Begin(RadioCarrier, p, a)) :
             /\ h.sent = Then(Nothing, About("ACTIVATE_SW_ACK", RadioCarrier)) \o RequestEach
             /\ h.op = p /\ h.adm = a
<1> DEFINE s == Then(Nothing, About("ACTIVATE_SW_ACK", RadioCarrier)) \o RequestEach
           op == p
           adm == a
           h == At(RadioCarrier, Nothing, Here, p, a)
           g == At(Channel(LastTs), s, Gone, op, adm)
<1>1. ActivateBranches(Begin(RadioCarrier, p, a)) = ActivateBranches({h})
  BY BeginAt
<1>2. ActivateRadioCarrier(h) = g
  BY ActivateAt
<1> HIDE DEF s, op, adm
<1>3. /\ h.buf = RadioCarrier /\ h.left = Here /\ g.buf = Channel(LastTs) /\ g.left = Gone
      /\ g.sent = s /\ g.op = op /\ g.adm = adm
  BY AtFields
<1> HIDE DEF h, g
<1>4. h.buf[1] = "RADIO_CARRIER" /\ g.buf[1] = "CHANNEL" /\ ~h.left /\ g.left
  BY <1>3, Classes DEF Here, Gone
<1>5. /\ ActivateSiteManagerBranch({h}) = {h}
      /\ ActivateBtsBranch({h}) = {h}
      /\ ActivateBasebBranch({h}) = {h}
  BY <1>4, ActivatePassed
<1>6. ActivateRadioCarrierBranch({h}) = {g}
  BY <1>2, <1>4, ActivateTaken
<1>7. /\ ActivateChannelBranch({g}) = {g}
  BY <1>4, ActivatePassed
<1>8. ActivateBranches({h}) = {g}
  BY <1>5, <1>6, <1>7, ActivateRow
<1> QED BY <1>1, <1>3, <1>8 DEF s, op, adm

LEMMA ChannelActivated ==
    ASSUME NEW p, NEW a, NEW ts, ts # LastTs
    PROVE  \A h \in ActivateBranches(Begin(Channel(ts), p, a)) :
             /\ h.sent = Then(Then(Nothing, About("ACTIVATE_SW_ACK", Channel(ts))),
                  StateChg(Channel(ts), "DISABLED", "DEPENDENCY", "LOCKED"))
             /\ h.op = p /\ h.adm = a
<1> DEFINE s == Then(Then(Nothing, About("ACTIVATE_SW_ACK", Channel(ts))),
                  StateChg(Channel(ts), "DISABLED", "DEPENDENCY", "LOCKED"))
           op == p
           adm == a
           h == At(Channel(ts), Nothing, Here, p, a)
           g == At(Channel(ts), s, Gone, op, adm)
<1>1. ActivateBranches(Begin(Channel(ts), p, a)) = ActivateBranches({h})
  BY BeginAt
<1>2. ActivateChannel(h) = g
  BY ActivateChannelAt
<1> HIDE DEF s, op, adm
<1>3. /\ h.buf = Channel(ts) /\ h.left = Here /\ g.buf = Channel(ts) /\ g.left = Gone
      /\ g.sent = s /\ g.op = op /\ g.adm = adm
  BY AtFields
<1> HIDE DEF h, g
<1>4. h.buf[1] = "CHANNEL" /\ g.buf[1] = "CHANNEL" /\ ~h.left /\ g.left
  BY <1>3, Classes DEF Here, Gone
<1>5. /\ ActivateSiteManagerBranch({h}) = {h}
      /\ ActivateBtsBranch({h}) = {h}
      /\ ActivateBasebBranch({h}) = {h}
      /\ ActivateRadioCarrierBranch({h}) = {h}
  BY <1>4, ActivatePassed
<1>6. ActivateChannelBranch({h}) = {g}
  BY <1>2, <1>4, ActivateTaken
<1>8. ActivateBranches({h}) = {g}
  BY <1>5, <1>6, ActivateRow
<1> QED BY <1>1, <1>3, <1>8 DEF s, op, adm

LEMMA LastChannelActivated ==
    ASSUME NEW p, NEW a
    PROVE  \A h \in ActivateBranches(Begin(Channel(LastTs), p, a)) :
             /\ h.sent = Then(Then(Nothing, About("ACTIVATE_SW_ACK", Channel(LastTs))),
                  StateChg(Channel(LastTs), "DISABLED", "DEPENDENCY", "LOCKED")) \o ActiveEach
             /\ h.op = p /\ h.adm = a
<1> DEFINE s == Then(Then(Nothing, About("ACTIVATE_SW_ACK", Channel(LastTs))),
                  StateChg(Channel(LastTs), "DISABLED", "DEPENDENCY", "LOCKED")) \o ActiveEach
           op == p
           adm == a
           h == At(Channel(LastTs), Nothing, Here, p, a)
           g == At(Channel(LastTs), s, Gone, op, adm)
<1>1. ActivateBranches(Begin(Channel(LastTs), p, a)) = ActivateBranches({h})
  BY BeginAt
<1>2. ActivateChannel(h) = g
  BY ActivateChannelAt
<1> HIDE DEF s, op, adm
<1>3. /\ h.buf = Channel(LastTs) /\ h.left = Here /\ g.buf = Channel(LastTs) /\ g.left = Gone
      /\ g.sent = s /\ g.op = op /\ g.adm = adm
  BY AtFields
<1> HIDE DEF h, g
<1>4. h.buf[1] = "CHANNEL" /\ g.buf[1] = "CHANNEL" /\ ~h.left /\ g.left
  BY <1>3, Classes DEF Here, Gone
<1>5. /\ ActivateSiteManagerBranch({h}) = {h}
      /\ ActivateBtsBranch({h}) = {h}
      /\ ActivateBasebBranch({h}) = {h}
      /\ ActivateRadioCarrierBranch({h}) = {h}
  BY <1>4, ActivatePassed
<1>6. ActivateChannelBranch({h}) = {g}
  BY <1>2, <1>4, ActivateTaken
<1>8. ActivateBranches({h}) = {g}
  BY <1>5, <1>6, ActivateRow
<1> QED BY <1>1, <1>3, <1>8 DEF s, op, adm

\* What the start of an object sends.
SiteManagerStart == <<About("OPSTART_ACK", SiteManager),
                      About("SW_ACTIVATED_REP", SiteManager), About("SW_ACT_REQ", Bts)>>
BtsStart == <<About("OPSTART_ACK", Bts),
              About("SW_ACTIVATED_REP", Bts), About("SW_ACT_REQ", BasebTransc)>>

LEMMA StartAt ==
    ASSUME NEW b, NEW s, NEW gone, NEW p, NEW a
    PROVE  /\ StartSiteManager(At(b, s, gone, p, a))
                = At(Bts, s \o SiteManagerStart, Gone,
                     OneEnabled(p, SiteManager),
                     OneUnlocked(a, SiteManager))
           /\ StartBts(At(b, s, gone, p, a))
                = At(BasebTransc, s \o BtsStart, Gone, OneEnabled(p, Bts), a)
           /\ StartBaseb(At(b, s, gone, p, a))
                = At(BasebTransc, Then(s, About("OPSTART_ACK", BasebTransc)), Gone,
                     OneEnabled(p, BasebTransc), a)
           /\ StartRadioCarrier(At(b, s, gone, p, a))
                = At(RadioCarrier, Then(s, About("OPSTART_ACK", RadioCarrier)), Gone,
                     OneEnabled(p, RadioCarrier), a)
<1>1. /\ SiteManagerStart[Len(SiteManagerStart)].obj = Bts
      /\ BtsStart[Len(BtsStart)].obj = BasebTransc
  BY DEF SiteManagerStart, BtsStart, About
<1>2. StartSiteManager(At(b, s, gone, p, a))
        = Break(Put(Unlocked(Started(At(b, s, gone, p, a), SiteManager), SiteManager),
                    SiteManagerStart))
  BY DEF StartSiteManager, SiteManagerStart
<1>3. StartBts(At(b, s, gone, p, a)) = Break(Put(Started(At(b, s, gone, p, a), Bts), BtsStart))
  BY DEF StartBts, BtsStart
<1>4. ASSUME NEW x, NEW y, NEW o, NEW msgs, msgs[Len(msgs)].obj = o
      PROVE  Break(Put(At(b, s, gone, x, y), msgs)) = At(o, s \o msgs, Gone, x, y)
  BY <1>4, PutAt, BreakAt
<1>5. ASSUME NEW x, NEW y, NEW o
      PROVE  Break(PutAck(At(b, s, gone, x, y), "OPSTART_ACK", o))
                = At(o, Then(s, About("OPSTART_ACK", o)), Gone, x, y)
  BY PutAckAt, BreakAt
<1>6. StartSiteManager(At(b, s, gone, p, a))
        = At(Bts, s \o SiteManagerStart, Gone, OneEnabled(p, SiteManager),
             OneUnlocked(a, SiteManager))
  <2> DEFINE x == OneEnabled(p, SiteManager)
             y == OneUnlocked(a, SiteManager)
  <2>1. Unlocked(Started(At(b, s, gone, p, a), SiteManager), SiteManager)
          = At(b, s, gone, x, y)
    BY StoreAt
  <2> HIDE DEF x, y
  <2>2. Break(Put(At(b, s, gone, x, y), SiteManagerStart))
          = At(Bts, s \o SiteManagerStart, Gone, x, y)
    BY <1>1, <1>4
  <2> QED BY <1>2, <2>1, <2>2 DEF x, y
<1>7. StartBts(At(b, s, gone, p, a))
        = At(BasebTransc, s \o BtsStart, Gone, OneEnabled(p, Bts), a)
  <2> DEFINE x == OneEnabled(p, Bts)
  <2>1. Started(At(b, s, gone, p, a), Bts) = At(b, s, gone, x, a)
    BY StoreAt
  <2> HIDE DEF x
  <2>2. Break(Put(At(b, s, gone, x, a), BtsStart))
          = At(BasebTransc, s \o BtsStart, Gone, x, a)
    BY <1>1, <1>4
  <2> QED BY <1>3, <2>1, <2>2 DEF x
<1>8. ASSUME NEW o
      PROVE  Break(PutAck(Started(At(b, s, gone, p, a), o), "OPSTART_ACK", o))
               = At(o, Then(s, About("OPSTART_ACK", o)), Gone, OneEnabled(p, o), a)
  <2> DEFINE x == OneEnabled(p, o)
  <2>1. Started(At(b, s, gone, p, a), o) = At(b, s, gone, x, a)
    BY StoreAt
  <2> HIDE DEF x
  <2> QED BY <1>5, <2>1 DEF x
<1> QED BY <1>6, <1>7, <1>8 DEF StartBaseb, StartRadioCarrier

LEMMA LastReportEnds ==
    ASSUME NEW op, NEW adm
    PROVE  LastChannelReport(op, adm)[Len(LastChannelReport(op, adm))].obj = BasebTransc
<1> DEFINE Stored(ts) == StoredReport(Channel(ts), op, adm)
           front == <<About("SW_ACTIVATED_REP", RadioCarrier),
                      StoredReport(SiteManager, op, adm), StoredReport(Bts, op, adm)>>
           family == [i \in 1 .. LastTs + 1 |-> Stored(i - 1)]
           m == About("SW_ACTIVATED_REP", BasebTransc)
           All == {front[1], front[2], front[3], m} \cup {Stored(ts) : ts \in Channels}
<1>1. LastChannelReport(op, adm) = (front \o family) \o <<m>>
  BY DEF LastChannelReport, PerChannel
<1>2. front \in Seq(All) /\ family \in Seq(All) /\ m \in All /\ m.obj = BasebTransc
  <2>1. LastTs + 1 \in Nat /\ \A i \in 1 .. LastTs + 1 : i - 1 \in Channels
    BY LastTsAssumption DEF Channels
  <2>2. family \in [1 .. LastTs + 1 -> All]
    BY <2>1
  <2>3. family \in Seq(All)
    BY <2>1, <2>2, SeqDef
  <2> QED BY <2>3 DEF About
<1> HIDE DEF front, family, m, All
<1>3. front \o family \in Seq(All) /\ <<m>> \in Seq(All)
  BY <1>2
<1> DEFINE t == front \o family
<1> HIDE DEF t
<1>4. Len(t \o <<m>>) = Len(t) + 1 /\ (t \o <<m>>)[Len(t) + 1] = m
  BY <1>3 DEF t
<1> QED BY <1>1, <1>2, <1>4 DEF t

LEMMA StartChannelAt ==
    ASSUME NEW ts, NEW s, NEW gone, NEW p, NEW a, NEW o, o = Channel(ts), NEW q,
           q = IF o \in Objects THEN OneEnabled(p, o) ELSE p
    PROVE  StartChannel(At(o, s, gone, p, a))
             = IF ts = LastTs
               THEN At(BasebTransc, Then(s, About("OPSTART_ACK", o)) \o LastChannelReport(q, a),
                       Gone, q, a)
               ELSE At(o, Then(s, About("OPSTART_ACK", o)), Gone, q, a)
<1> DEFINE h == At(o, s, gone, p, a)
           g == At(o, s, gone, q, a)
           ack == Then(s, About("OPSTART_ACK", o))
           acked == At(o, ack, gone, q, a)
           Start(x) == IF x.buf \in Objects THEN Started(x, x.buf) ELSE x
           Finish(x) == IF x.buf[2] = LastTs
                        THEN Put(x, LastChannelReport(x.op, x.adm)) ELSE x
<1>1. o[2] = ts /\ o = Channel(o[2])
  BY Classes
<1>2. h.buf = o /\ g.buf = o /\ acked.buf = o /\ acked.op = q /\ acked.adm = a
  BY AtFields
<1>3. PutAck(g, "OPSTART_ACK", o) = acked
  BY PutAckAt
<1>4. Start(h) = g
  <2>1. Started(h, o) = At(o, s, gone, OneEnabled(p, o), a)
    BY StoreAt
  <2>2. CASE o \in Objects
    BY <1>2, <2>1, <2>2
  <2>3. CASE o \notin Objects
    BY <1>2, <2>3
  <2> QED BY <2>2, <2>3
<1> HIDE DEF h, g, acked, ack
<1>5. ChannelStarted(h) = acked
  <2>1. ChannelStarted(h) = PutAck(Start(h), "OPSTART_ACK", Channel(Start(h).buf[2]))
    BY DEF ChannelStarted
  <2> QED BY <1>1, <1>2, <1>3, <1>4, <2>1
<1>6. StartChannel(h) = Break(Finish(acked))
  BY <1>5 DEF StartChannel
<1>7. CASE ts = LastTs
  <2> DEFINE r == LastChannelReport(q, a)
  <2>1. Finish(acked) = Put(acked, r)
    BY <1>1, <1>2, <1>7
  <2>2. r[Len(r)].obj = BasebTransc
    BY LastReportEnds
  <2> HIDE DEF r
  <2>3. Put(acked, r) = At(BasebTransc, ack \o r, gone, q, a)
    BY <2>2, PutAt DEF acked
  <2> QED BY <1>6, <1>7, <2>1, <2>3, BreakAt DEF h, ack, r
<1>8. CASE ts # LastTs
  <2>1. Finish(acked) = acked
    BY <1>1, <1>2, <1>8
  <2> QED BY <1>6, <1>8, <2>1, BreakAt DEF h, acked, ack
<1> QED BY <1>7, <1>8

LEMMA SiteManagerStarted ==
    ASSUME NEW p, NEW a
    PROVE  \A h \in StartBranches(Begin(SiteManager, p, a)) :
             /\ h.sent = Nothing \o SiteManagerStart
             /\ h.op = OneEnabled(p, SiteManager) /\ h.adm = OneUnlocked(a, SiteManager)
<1> DEFINE s == Nothing \o SiteManagerStart
           op == OneEnabled(p, SiteManager)
           adm == OneUnlocked(a, SiteManager)
           h == At(SiteManager, Nothing, Here, p, a)
           g == At(Bts, s, Gone, op, adm)
<1>1. StartBranches(Begin(SiteManager, p, a)) = StartBranches({h})
  BY BeginAt
<1>2. StartSiteManager(h) = g
  BY StartAt
<1> HIDE DEF s, op, adm
<1>3. /\ h.buf = SiteManager /\ h.left = Here /\ g.buf = Bts /\ g.left = Gone
      /\ g.sent = s /\ g.op = op /\ g.adm = adm
  BY AtFields
<1> HIDE DEF h, g
<1>4. h.buf[1] = "SITE_MANAGER" /\ g.buf[1] = "BTS" /\ ~h.left /\ g.left
  BY <1>3, Classes DEF Here, Gone
<1>6. StartSiteManagerBranch({h}) = {g}
  BY <1>2, <1>4, StartTaken
<1>7. /\ StartBtsBranch({g}) = {g}
      /\ StartBasebBranch({g}) = {g}
      /\ StartRadioCarrierBranch({g}) = {g}
      /\ StartChannelBranch({g}) = {g}
  BY <1>4, StartPassed
<1>8. StartBranches({h}) = {g}
  BY <1>6, <1>7, StartRow
<1> QED BY <1>1, <1>3, <1>8 DEF s, op, adm

LEMMA BtsStarted ==
    ASSUME NEW p, NEW a
    PROVE  \A h \in StartBranches(Begin(Bts, p, a)) :
             /\ h.sent = Nothing \o BtsStart
             /\ h.op = OneEnabled(p, Bts) /\ h.adm = a
<1> DEFINE s == Nothing \o BtsStart
           op == OneEnabled(p, Bts)
           adm == a
           h == At(Bts, Nothing, Here, p, a)
           g == At(BasebTransc, s, Gone, op, adm)
<1>1. StartBranches(Begin(Bts, p, a)) = StartBranches({h})
  BY BeginAt
<1>2. StartBts(h) = g
  BY StartAt
<1> HIDE DEF s, op, adm
<1>3. /\ h.buf = Bts /\ h.left = Here /\ g.buf = BasebTransc /\ g.left = Gone
      /\ g.sent = s /\ g.op = op /\ g.adm = adm
  BY AtFields
<1> HIDE DEF h, g
<1>4. h.buf[1] = "BTS" /\ g.buf[1] = "BASEB_TRANSC" /\ ~h.left /\ g.left
  BY <1>3, Classes DEF Here, Gone
<1>5. /\ StartSiteManagerBranch({h}) = {h}
  BY <1>4, StartPassed
<1>6. StartBtsBranch({h}) = {g}
  BY <1>2, <1>4, StartTaken
<1>7. /\ StartBasebBranch({g}) = {g}
      /\ StartRadioCarrierBranch({g}) = {g}
      /\ StartChannelBranch({g}) = {g}
  BY <1>4, StartPassed
<1>8. StartBranches({h}) = {g}
  BY <1>5, <1>6, <1>7, StartRow
<1> QED BY <1>1, <1>3, <1>8 DEF s, op, adm

LEMMA BasebStarted ==
    ASSUME NEW p, NEW a
    PROVE  \A h \in StartBranches(Begin(BasebTransc, p, a)) :
             /\ h.sent = Then(Nothing, About("OPSTART_ACK", BasebTransc))
             /\ h.op = OneEnabled(p, BasebTransc) /\ h.adm = a
<1> DEFINE s == Then(Nothing, About("OPSTART_ACK", BasebTransc))
           op == OneEnabled(p, BasebTransc)
           adm == a
           h == At(BasebTransc, Nothing, Here, p, a)
           g == At(BasebTransc, s, Gone, op, adm)
<1>1. StartBranches(Begin(BasebTransc, p, a)) = StartBranches({h})
  BY BeginAt
<1>2. StartBaseb(h) = g
  BY StartAt
<1> HIDE DEF s, op, adm
<1>3. /\ h.buf = BasebTransc /\ h.left = Here /\ g.buf = BasebTransc /\ g.left = Gone
      /\ g.sent = s /\ g.op = op /\ g.adm = adm
  BY AtFields
<1> HIDE DEF h, g
<1>4. h.buf[1] = "BASEB_TRANSC" /\ g.buf[1] = "BASEB_TRANSC" /\ ~h.left /\ g.left
  BY <1>3, Classes DEF Here, Gone
<1>5. /\ StartSiteManagerBranch({h}) = {h}
      /\ StartBtsBranch({h}) = {h}
  BY <1>4, StartPassed
<1>6. StartBasebBranch({h}) = {g}
  BY <1>2, <1>4, StartTaken
<1>7. /\ StartRadioCarrierBranch({g}) = {g}
      /\ StartChannelBranch({g}) = {g}
  BY <1>4, StartPassed
<1>8. StartBranches({h}) = {g}
  BY <1>5, <1>6, <1>7, StartRow
<1> QED BY <1>1, <1>3, <1>8 DEF s, op, adm

LEMMA RadioCarrierStarted ==
    ASSUME NEW p, NEW a
    PROVE  \A h \in StartBranches(Begin(RadioCarrier, p, a)) :
             /\ h.sent = Then(Nothing, About("OPSTART_ACK", RadioCarrier))
             /\ h.op = OneEnabled(p, RadioCarrier) /\ h.adm = a
<1> DEFINE s == Then(Nothing, About("OPSTART_ACK", RadioCarrier))
           op == OneEnabled(p, RadioCarrier)
           adm == a
           h == At(RadioCarrier, Nothing, Here, p, a)
           g == At(RadioCarrier, s, Gone, op, adm)
<1>1. StartBranches(Begin(RadioCarrier, p, a)) = StartBranches({h})
  BY BeginAt
<1>2. StartRadioCarrier(h) = g
  BY StartAt
<1> HIDE DEF s, op, adm
<1>3. /\ h.buf = RadioCarrier /\ h.left = Here /\ g.buf = RadioCarrier /\ g.left = Gone
      /\ g.sent = s /\ g.op = op /\ g.adm = adm
  BY AtFields
<1> HIDE DEF h, g
<1>4. h.buf[1] = "RADIO_CARRIER" /\ g.buf[1] = "RADIO_CARRIER" /\ ~h.left /\ g.left
  BY <1>3, Classes DEF Here, Gone
<1>5. /\ StartSiteManagerBranch({h}) = {h}
      /\ StartBtsBranch({h}) = {h}
      /\ StartBasebBranch({h}) = {h}
  BY <1>4, StartPassed
<1>6. StartRadioCarrierBranch({h}) = {g}
  BY <1>2, <1>4, StartTaken
<1>7. /\ StartChannelBranch({g}) = {g}
  BY <1>4, StartPassed
<1>8. StartBranches({h}) = {g}
  BY <1>5, <1>6, <1>7, StartRow
<1> QED BY <1>1, <1>3, <1>8 DEF s, op, adm

LEMMA AnyChannelStarted ==
    ASSUME NEW p, NEW a, NEW ts, ts # LastTs, NEW q,
           q = IF Channel(ts) \in Objects
                      THEN OneEnabled(p, Channel(ts)) ELSE p
    PROVE  \A h \in StartBranches(Begin(Channel(ts), p, a)) :
             /\ h.sent = Then(Nothing, About("OPSTART_ACK", Channel(ts)))
             /\ h.op = q /\ h.adm = a
<1> DEFINE s == Then(Nothing, About("OPSTART_ACK", Channel(ts)))
           op == q
           adm == a
           h == At(Channel(ts), Nothing, Here, p, a)
           g == At(Channel(ts), s, Gone, op, adm)
<1>1. StartBranches(Begin(Channel(ts), p, a)) = StartBranches({h})
  BY BeginAt
<1>2. StartChannel(h) = g
  BY StartChannelAt
<1> HIDE DEF s, op, adm
<1>3. /\ h.buf = Channel(ts) /\ h.left = Here /\ g.buf = Channel(ts) /\ g.left = Gone
      /\ g.sent = s /\ g.op = op /\ g.adm = adm
  BY AtFields
<1> HIDE DEF h, g
<1>4. h.buf[1] = "CHANNEL" /\ g.buf[1] = "CHANNEL" /\ ~h.left /\ g.left
  BY <1>3, Classes DEF Here, Gone
<1>5. /\ StartSiteManagerBranch({h}) = {h}
      /\ StartBtsBranch({h}) = {h}
      /\ StartBasebBranch({h}) = {h}
      /\ StartRadioCarrierBranch({h}) = {h}
  BY <1>4, StartPassed
<1>6. StartChannelBranch({h}) = {g}
  BY <1>2, <1>4, StartTaken
<1>8. StartBranches({h}) = {g}
  BY <1>5, <1>6, StartRow
<1> QED BY <1>1, <1>3, <1>8 DEF s, op, adm

LEMMA LastChannelStarted ==
    ASSUME NEW p, NEW a, NEW q,
           q = IF Channel(LastTs) \in Objects
                      THEN OneEnabled(p, Channel(LastTs)) ELSE p
    PROVE  \A h \in StartBranches(Begin(Channel(LastTs), p, a)) :
             /\ h.sent = Then(Nothing, About("OPSTART_ACK", Channel(LastTs)))
                         \o LastChannelReport(q, a)
             /\ h.op = q /\ h.adm = a
<1> DEFINE s == Then(Nothing, About("OPSTART_ACK", Channel(LastTs))) \o LastChannelReport(q, a)
           op == q
           adm == a
           h == At(Channel(LastTs), Nothing, Here, p, a)
           g == At(BasebTransc, s, Gone, op, adm)
<1>1. StartBranches(Begin(Channel(LastTs), p, a)) = StartBranches({h})
  BY BeginAt
<1>2. StartChannel(h) = g
  BY StartChannelAt
<1> HIDE DEF s, op, adm
<1>3. /\ h.buf = Channel(LastTs) /\ h.left = Here /\ g.buf = BasebTransc /\ g.left = Gone
      /\ g.sent = s /\ g.op = op /\ g.adm = adm
  BY AtFields
<1> HIDE DEF h, g
<1>4. h.buf[1] = "CHANNEL" /\ g.buf[1] = "BASEB_TRANSC" /\ ~h.left /\ g.left
  BY <1>3, Classes DEF Here, Gone
<1>5. /\ StartSiteManagerBranch({h}) = {h}
      /\ StartBtsBranch({h}) = {h}
      /\ StartBasebBranch({h}) = {h}
      /\ StartRadioCarrierBranch({h}) = {h}
  BY <1>4, StartPassed
<1>6. StartChannelBranch({h}) = {g}
  BY <1>2, <1>4, StartTaken
<1>8. StartBranches({h}) = {g}
  BY <1>5, <1>6, StartRow
<1> QED BY <1>1, <1>3, <1>8 DEF s, op, adm

LEMMA AckThenOne ==
    ASSUME NEW x, NEW y
    PROVE  Then(Then(Nothing, x), y) = <<x>> \o <<y>>
BY DEF Then, Nothing

LEMMA AckAlone ==
    ASSUME NEW x
    PROVE  Then(Nothing, x) = <<x>> /\ Then(Nothing, x) = <<x>> \o Nothing
BY DEF Then, Nothing

LEMMA AckThenAll ==
    ASSUME NEW x, NEW y, NEW S, NEW t \in Seq(S)
    PROVE  Then(Then(Nothing, x), y) \o t = <<x>> \o (<<y>> \o t)
<1> DEFINE T == S \cup {x, y}
<1>1. <<x>> \in Seq(T) /\ <<y>> \in Seq(T) /\ t \in Seq(T)
  BY SeqDef
<1> HIDE DEF T
<1>2. (<<x>> \o <<y>>) \o t = <<x>> \o (<<y>> \o t)
  BY <1>1, ConcatAssociative
<1> QED BY <1>2, AckThenOne

LEMMA NothingBefore ==
    ASSUME NEW m, NEW n, NEW k
    PROVE  Nothing \o <<m, n, k>> = <<m>> \o <<n, k>>
BY DEF Nothing

LEMMA ChannelFamilies == ActiveEach \in Seq({ActiveEach[i] : i \in 1 .. LastTs + 1})
<1>1. LastTs + 1 \in Nat
  BY LastTsAssumption
<1>2. ActiveEach \in [1 .. LastTs + 1 -> {ActiveEach[i] : i \in 1 .. LastTs + 1}]
  BY DEF ActiveEach
<1> QED BY <1>1, <1>2, SeqDef

\* The objects differ, and those that messages name are these.
LEMMA DifferentObjects ==
    /\ Bts # SiteManager /\ BasebTransc \notin {SiteManager, Bts}
    /\ RadioCarrier \notin {SiteManager, Bts, BasebTransc}
    /\ \A ts : Channel(ts) \notin {SiteManager, Bts, BasebTransc, RadioCarrier}
    /\ \A o \in Named : o \in {SiteManager, Bts, BasebTransc, RadioCarrier} \/ o = Channel(o[2])
    /\ {SiteManager, Bts, BasebTransc, RadioCarrier} \subseteq Objects
<1>1. {SiteManager, Bts, BasebTransc, RadioCarrier} = SingleObjects
  BY DEF SingleObjects
<1>2. \A ts : Channel(ts) \notin SingleObjects
  BY Classes, <1>1
<1>3. \A o \in Named : o \in SingleObjects \/ o = Channel(o[2])
  BY Classes
<1> QED BY <1>1, <1>2, <1>3, Classes DEF Objects

\* What the handler of a request for activation sends, whatever the states.
LEMMA ActivateSwSends ==
    ASSUME NEW o \in Named, NEW p, NEW a
    PROVE  \A h \in ActivateBranches(Begin(o, p, a)) :
              h.sent = ActivateSwReply(o) /\ h.op = p /\ h.adm = a
<1> DEFINE Right(s) == \A h \in ActivateBranches(Begin(o, p, a)) :
                          h.sent = s /\ h.op = p /\ h.adm = a
<1>1. CASE o = SiteManager
  <2>1. ActivateSwReply(o) = Then(Then(Nothing, About("ACTIVATE_SW_ACK", SiteManager)),
                                  StateChg(SiteManager, "ENABLED", "OK", "LOCKED"))
    BY <1>1, AckThenOne, DifferentObjects DEF ActivateSwReply, AfterActivateSw
  <2> QED BY <1>1, <2>1, SiteManagerActivated
<1>2. CASE o = Bts
  <2>1. ActivateSwReply(o) = Then(Then(Nothing, About("ACTIVATE_SW_ACK", Bts)),
                                  StateChg(Bts, "DISABLED", "DEPENDENCY", "LOCKED"))
    BY <1>2, AckThenOne, DifferentObjects DEF ActivateSwReply, AfterActivateSw
  <2> QED BY <1>2, <2>1, BtsActivated
<1>3. CASE o = BasebTransc
  <2>1. ActivateSwReply(o) = Then(Then(Nothing, About("ACTIVATE_SW_ACK", BasebTransc)),
                                  About("SW_ACT_REQ", RadioCarrier))
    BY <1>3, AckThenOne, DifferentObjects DEF ActivateSwReply, AfterActivateSw
  <2> QED BY <1>3, <2>1, BasebActivated
<1>4. CASE o = RadioCarrier
  <2>1. ActivateSwReply(o)
          = Then(Nothing, About("ACTIVATE_SW_ACK", RadioCarrier)) \o RequestEach
    BY <1>4, AckAlone, DifferentObjects
       DEF ActivateSwReply, AfterActivateSw, PerChannel, RequestEach
  <2> QED BY <1>4, <2>1, RadioCarrierActivated
<1>5. ASSUME NEW ts, o = Channel(ts)
      PROVE  Right(ActivateSwReply(o))
  <2> DEFINE ack == About("ACTIVATE_SW_ACK", o)
             waits == StateChg(o, "DISABLED", "DEPENDENCY", "LOCKED")
  <2>1. o \notin {SiteManager, Bts, BasebTransc, RadioCarrier}
    BY <1>5, DifferentObjects
  <2>2. o = Channel(LastTs) <=> ts = LastTs
    BY <1>5, Classes
  <2>3. CASE ts # LastTs
    <3>1. AfterActivateSw(o) = <<waits>> \o Nothing
      BY <2>1, <2>2, <2>3 DEF AfterActivateSw, Nothing
    <3>2. ActivateSwReply(o) = Then(Then(Nothing, ack), waits)
      BY <3>1, AckThenOne DEF ActivateSwReply, Nothing
    <3> QED BY <1>5, <2>3, <3>2, ChannelActivated
  <2>4. CASE ts = LastTs
    <3>1. AfterActivateSw(o) = <<waits>> \o ActiveEach
      BY <2>1, <2>2, <2>4 DEF AfterActivateSw, PerChannel, ActiveEach
    <3>2. ActivateSwReply(o) = <<ack>> \o AfterActivateSw(o)
      BY DEF ActivateSwReply
    <3>3. \A h \in ActivateBranches(Begin(o, p, a)) :
             /\ h.sent = Then(Then(Nothing, ack), waits) \o ActiveEach
             /\ h.op = p /\ h.adm = a
      BY <1>5, <2>4, LastChannelActivated
    <3> HIDE DEF ack, waits
    <3>4. Then(Then(Nothing, ack), waits) \o ActiveEach
            = <<ack>> \o (<<waits>> \o ActiveEach)
      BY AckThenAll, ChannelFamilies
    <3> QED BY <3>1, <3>2, <3>3, <3>4
  <2> QED BY <2>3, <2>4
<1> QED BY <1>1, <1>2, <1>3, <1>4, <1>5, DifferentObjects

\* What a request for a start leaves of the stored states.
OpAfter(o, p) == IF o \in Objects THEN OneEnabled(p, o) ELSE p
AdmAfter(o, a) == IF o = SiteManager THEN OneUnlocked(a, o) ELSE a

LEMMA OpstartSends ==
    ASSUME NEW o \in Named, NEW p, NEW a
    PROVE  \A h \in StartBranches(Begin(o, p, a)) :
              /\ h.op = OpAfter(o, p) /\ h.adm = AdmAfter(o, a)
              /\ h.sent = OpstartReply(o, OpAfter(o, p), AdmAfter(o, a))
<1> DEFINE q == OpAfter(o, p)
           b == AdmAfter(o, a)
<1>1. CASE o = SiteManager
  <2>1. OpstartReply(o, q, b) = Nothing \o SiteManagerStart
    BY <1>1, NothingBefore, DifferentObjects DEF OpstartReply, AfterOpstart, SiteManagerStart
  <2>2. q = OneEnabled(p, SiteManager) /\ b = OneUnlocked(a, SiteManager)
    BY <1>1, DifferentObjects DEF OpAfter, AdmAfter
  <2> QED BY <1>1, <2>1, <2>2, SiteManagerStarted
<1>2. CASE o = Bts
  <2>1. OpstartReply(o, q, b) = Nothing \o BtsStart
    BY <1>2, NothingBefore, DifferentObjects DEF OpstartReply, AfterOpstart, BtsStart
  <2>2. q = OneEnabled(p, Bts) /\ b = a
    BY <1>2, DifferentObjects DEF OpAfter, AdmAfter
  <2> QED BY <1>2, <2>1, <2>2, BtsStarted
<1>3. ASSUME o \in {BasebTransc, RadioCarrier}
      PROVE  /\ OpstartReply(o, q, b) = Then(Nothing, About("OPSTART_ACK", o))
             /\ q = OneEnabled(p, o) /\ b = a
  <2>1. o \notin {SiteManager, Bts, Channel(LastTs)}
    BY <1>3, DifferentObjects
  <2>2. AfterOpstart(o, q, b) = Nothing
    BY <2>1 DEF AfterOpstart, Nothing
  <2>3. OpstartReply(o, q, b) = Then(Nothing, About("OPSTART_ACK", o))
    BY <2>2, AckAlone DEF OpstartReply
  <2>4. q = OneEnabled(p, o) /\ b = a
    BY <1>3, <2>1, DifferentObjects DEF OpAfter, AdmAfter
  <2> QED BY <2>3, <2>4
<1>4. CASE o = BasebTransc
  BY <1>3, <1>4, BasebStarted
<1>5. CASE o = RadioCarrier
  BY <1>3, <1>5, RadioCarrierStarted
<1>6. ASSUME NEW ts, o = Channel(ts)
      PROVE  \A h \in StartBranches(Begin(o, p, a)) :
                h.sent = OpstartReply(o, q, b) /\ h.op = q /\ h.adm = b
  <2>1. o \notin {SiteManager, Bts, BasebTransc, RadioCarrier}
    BY <1>6, DifferentObjects
  <2>2. o = Channel(LastTs) <=> ts = LastTs
    BY <1>6, Classes
  <2>3. b = a /\ q = IF o \in Objects THEN OneEnabled(p, o) ELSE p
    BY <2>1 DEF OpAfter, AdmAfter
  <2>4. CASE ts # LastTs
    <3>1. AfterOpstart(o, q, b) = Nothing
      BY <2>1, <2>2, <2>4 DEF AfterOpstart, Nothing
    <3>2. OpstartReply(o, q, b) = Then(Nothing, About("OPSTART_ACK", o))
      BY <3>1, AckAlone DEF OpstartReply
    <3> HIDE DEF q, b
    <3> QED BY <1>6, <2>3, <2>4, <3>2, AnyChannelStarted
  <2>5. CASE ts = LastTs
    <3>1. AfterOpstart(o, q, b) = LastChannelReport(q, b)
      BY <2>1, <2>2, <2>5 DEF AfterOpstart
    <3>2. OpstartReply(o, q, b)
            = Then(Nothing, About("OPSTART_ACK", o)) \o LastChannelReport(q, b)
      BY <3>1, AckAlone DEF OpstartReply
    <3> HIDE DEF q, b
    <3>3. \A h \in StartBranches(Begin(Channel(LastTs), p, a)) :
             /\ h.sent = Then(Nothing, About("OPSTART_ACK", Channel(LastTs)))
                            \o LastChannelReport(q, a)
             /\ h.op = q /\ h.adm = a
      BY <1>6, <2>3, <2>5, LastChannelStarted
    <3> QED BY <1>6, <2>3, <2>5, <3>2, <3>3
  <2> QED BY <2>4, <2>5
<1> QED BY <1>1, <1>2, <1>3, <1>4, <1>5, <1>6, DifferentObjects
-----------------------------------------------------------------------------
(* What a step of the BTS says, by the request r that it handles: it asks  *)
(* for the software of an object when the object before it has come so     *)
(* far, reports that an object waits when it activates its software, and   *)
(* calls its transceiver active when it starts the last timeslot.          *)
Waits(o) == StateChg(o, "DISABLED", "DEPENDENCY", "LOCKED")

\* The report that the site manager waits for its start.
Managed == StateChg(SiteManager, "ENABLED", "OK", "LOCKED")

\* The first report of all, and the request that starts everything.
Initial(m) ==
    \/ m = About("SW_ACT_REQ", SiteManager)
    \/ m.type = "STATECHG_EVENT_REP" /\ m.av = "NOT_INSTALLED"

\* The objects that an answer to r may be about.
Near(r) == IF r.type \in LinkRequests THEN Objects ELSE Objects \cup {r.obj}

CausedBy(r) ==
    {m \in RepliesAbout(Near(r)) :
       /\ Initial(m) => r = Plain("ID_GET")
       /\ m.type = "SW_ACT_REQ" =>
            \/ m.obj = SiteManager
            \/ m.obj = Bts /\ r = About("OPSTART", SiteManager)
            \/ m.obj = BasebTransc /\ r = About("OPSTART", Bts)
            \/ m.obj = RadioCarrier /\ r = About("ACTIVATE_SW", BasebTransc)
            \/ m.obj \in ChannelObjects /\ r = About("ACTIVATE_SW", RadioCarrier)
       /\ ReportsWaiting(m) => r = About("ACTIVATE_SW", m.obj) /\ m = Waits(m.obj)
       /\ m.type = "STATECHG_EVENT_REP" /\ m.av = "OK" =>
            \/ r.type \in {"OPSTART", "RSL_CONNECT"}
            \/ r = About("ACTIVATE_SW", SiteManager) /\ m = Managed
       /\ m.type = "ACTIVATE_SW_ACK" => r = About("ACTIVATE_SW", m.obj)
       /\ m.type = "SW_ACTIVATED_REP" /\ m.obj \in {BasebTransc, RadioCarrier} =>
            r = About("OPSTART", Channel(LastTs))
       /\ m = Plain("RSL_CONNECT_ACK") => r = Plain("RSL_CONNECT")}

\* What follows the acknowledgement.
Consequences(r) == {m \in CausedBy(r) : m.type \notin AckTypes}

AckPositions(s) == Positions(s, LAMBDA m : m.type \in AckTypes)

\* Among the messages s that answer r, the first and no other acknowledges it.
Acked(s, r) ==
    IF IsRequest(r) THEN AckPositions(s) = {1} /\ s[1] = About(AckOf(r.type), r.obj)
                    ELSE AckPositions(s) = {}
-----------------------------------------------------------------------------
(* Sequences and messages.                                                 *)

\* A family of messages, one per timeslot, is a stream of such messages.
LEMMA FamilyType ==
    ASSUME NEW S, NEW f \in [1 .. LastTs + 1 -> S]
    PROVE  f \in Seq(S)
BY LastTsAssumption, SMT

\* The objects are distinct and they are objects.
LEMMA ObjectTypes ==
    /\ SingleObjects \subseteq Objects /\ ChannelObjects \subseteq Objects
    /\ SiteManager \in SingleObjects /\ Bts \in SingleObjects
    /\ BasebTransc \in SingleObjects /\ RadioCarrier \in SingleObjects
    /\ \A ts \in Channels : Channel(ts) \in ChannelObjects
    /\ LastTs \in Channels
    /\ \A i \in 1 .. LastTs + 1 : i - 1 \in Channels
BY LastTsAssumption DEF Objects, SingleObjects, ChannelObjects, Channels

LEMMA ObjectsDiffer ==
    /\ \A o \in ChannelObjects : o \notin SingleObjects
    /\ SiteManager \notin {Bts, BasebTransc, RadioCarrier}
    /\ Bts \notin {BasebTransc, RadioCarrier}
    /\ BasebTransc # RadioCarrier
BY DEF SingleObjects, ChannelObjects, Channel, SiteManager, Bts, BasebTransc, RadioCarrier

LEMMA ReplyTypes ==
    ASSUME NEW S
    PROVE  /\ \A o \in S, t \in ObjectReplies :
                About(t, o) \in RepliesAbout(S) /\ About(t, o).type = t /\ About(t, o).obj = o
           /\ \A o \in S, op \in OpStates, av \in AvailStates, adm \in AdminStates :
                LET m == StateChg(o, op, av, adm) IN
                m \in RepliesAbout(S) /\ m.type = "STATECHG_EVENT_REP" /\ m.obj = o /\ m.av = av
           /\ \A t \in {"PONG", "ID_RESP", "RSL_CONNECT_ACK", "ID_ACK", "RSL_ID_ACK"} :
                Plain(t) \in RepliesAbout(S) /\ Plain(t).type = t
BY DEF About, StateChg, Plain, RepliesAbout

LEMMA MessageTypes ==
    /\ \A o \in Objects, t \in ObjectReplies :
          About(t, o) \in ToBsc /\ About(t, o).type = t /\ About(t, o).obj = o
    /\ \A o \in Objects, op \in OpStates, av \in AvailStates, adm \in AdminStates :
          LET m == StateChg(o, op, av, adm) IN
          m \in ToBsc /\ m.type = "STATECHG_EVENT_REP" /\ m.obj = o /\ m.av = av
    /\ \A t \in {"PONG", "ID_RESP", "RSL_CONNECT_ACK", "ID_ACK", "RSL_ID_ACK"} :
          Plain(t) \in ToBsc /\ Plain(t).type = t
BY ReplyTypes DEF ToBsc

LEMMA NearObjects ==
    ASSUME NEW r
    PROVE  /\ Objects \subseteq Near(r)
           /\ r.type \notin LinkRequests => r.obj \in Near(r)
BY DEF Near

LEMMA NearReplies ==
    ASSUME NEW r
    PROVE  /\ \A o \in Near(r), t \in ObjectReplies :
                LET m == About(t, o) IN
                m \in RepliesAbout(Near(r)) /\ m.type = t /\ m.obj = o
           /\ \A o \in Near(r), op \in OpStates, av \in AvailStates, adm \in AdminStates :
                LET m == StateChg(o, op, av, adm) IN
                /\ m \in RepliesAbout(Near(r)) /\ m.type = "STATECHG_EVENT_REP"
                /\ m.obj = o /\ m.av = av
           /\ \A t \in {"PONG", "ID_RESP", "RSL_CONNECT_ACK", "ID_ACK", "RSL_ID_ACK"} :
                Plain(t) \in RepliesAbout(Near(r)) /\ Plain(t).type = t
           /\ \A o \in Objects : o \in Near(r)
<1> DEFINE N == Near(r)
<1>1. \A o \in Objects : o \in N
  BY NearObjects
<1> HIDE DEF N
<1> QED BY <1>1, ReplyTypes DEF N

\* A wider set of objects has more messages.
LEMMA MoreMessages ==
    ASSUME NEW S, NEW T, S \subseteq T
    PROVE  RepliesAbout(S) \subseteq RepliesAbout(T)
<1> SUFFICES ASSUME NEW m \in RepliesAbout(S) PROVE m \in RepliesAbout(T)
  OBVIOUS
<1>1. CASE m \in [type : {"PONG", "ID_RESP", "RSL_CONNECT_ACK", "ID_ACK", "RSL_ID_ACK"}]
  BY <1>1 DEF RepliesAbout
<1>2. CASE m \in [type : ObjectReplies, obj : S]
  <2>1. m \in [type : ObjectReplies, obj : T]
    BY <1>2
  <2> QED BY <2>1 DEF RepliesAbout
<1>3. CASE m \in [type : {"STATECHG_EVENT_REP"}, obj : S, op : OpStates,
                  av : AvailStates, adm : AdminStates]
  <2>1. m \in [type : {"STATECHG_EVENT_REP"}, obj : T, op : OpStates,
               av : AvailStates, adm : AdminStates]
    BY <1>3
  <2> QED BY <2>1 DEF RepliesAbout
<1> QED BY <1>1, <1>2, <1>3 DEF RepliesAbout

\* Requests about an object are determined by their type and object.
LEMMA AnyRequestShape ==
    ASSUME NEW S, SingleObjects \subseteq S, NEW r \in RequestsAbout(S)
    PROVE  /\ r.type \in ObjectRequests => r.obj \in S /\ r = About(r.type, r.obj)
           /\ r.type \in {"SET_BTS_ATTR", "SET_CHAN_ATTR", "SET_RADIO_ATTR", "CHG_ADM_STATE"}
                => r.obj \in S /\ (r.type = "CHG_ADM_STATE" => r.adm \in Requested)
           /\ r.type \in LinkRequests => r = Plain(r.type)
           /\ r.type \notin LinkRequests => r.obj \in S
<1>1. CASE r \in [type : LinkRequests]
  BY <1>1 DEF LinkRequests, ObjectRequests, Plain
<1>2. CASE r \in [type : ObjectRequests, obj : S]
  BY <1>2 DEF LinkRequests, ObjectRequests, About
<1>3. CASE r \in AttrRequests(S)
  <2>1. /\ r.type \in {"SET_BTS_ATTR", "SET_CHAN_ATTR", "SET_RADIO_ATTR"}
        /\ r.obj \in {Bts, RadioCarrier} \cup S
    BY <1>3 DEF AttrRequests, About
  <2> QED BY <2>1, ObjectTypes DEF LinkRequests, ObjectRequests
<1>4. CASE r \in [type : {"CHG_ADM_STATE"}, obj : S, adm : Requested]
  BY <1>4 DEF LinkRequests, ObjectRequests
<1> QED BY <1>1, <1>2, <1>3, <1>4 DEF RequestsAbout

LEMMA NamedObjects == Objects \subseteq Named /\ SingleObjects \subseteq Named
BY ObjectTypes DEF Named

LEMMA RequestShape ==
    ASSUME NEW r \in ToBts, r.type \in ObjectRequests
    PROVE  r.obj \in Objects /\ r = About(r.type, r.obj)
BY AnyRequestShape, ObjectTypes DEF ToBts

LEMMA NamedRequestShape ==
    ASSUME NEW r \in AnyToBts, r.type \in ObjectRequests
    PROVE  r.obj \in Named /\ r = About(r.type, r.obj)
BY AnyRequestShape, NamedObjects DEF AnyToBts

LEMMA NamedAttrShape ==
    ASSUME NEW r \in AnyToBts,
           r.type \in {"SET_BTS_ATTR", "SET_CHAN_ATTR", "SET_RADIO_ATTR", "CHG_ADM_STATE"}
    PROVE  r.obj \in Named /\ (r.type = "CHG_ADM_STATE" => r.adm \in Requested)
BY AnyRequestShape, NamedObjects DEF AnyToBts

LEMMA NamedLinkShape ==
    ASSUME NEW r \in AnyToBts, r.type \in LinkRequests
    PROVE  r = Plain(r.type)
BY AnyRequestShape, NamedObjects DEF AnyToBts

\* The requests of a BSC that keeps to the objects of the BTS are among those of any.
LEMMA NarrowRequests == ToBts \subseteq AnyToBts /\ ToBsc \subseteq AnyToBsc
<1>1. ToBsc \subseteq AnyToBsc
  BY MoreMessages, NamedObjects DEF ToBsc, AnyToBsc
<1>2. ASSUME NEW r \in ToBts PROVE r \in AnyToBts
  <2>1. CASE r \in [type : LinkRequests]
    BY <2>1 DEF AnyToBts, RequestsAbout
  <2>2. CASE r \in [type : ObjectRequests, obj : Objects]
    <3>1. r \in [type : ObjectRequests, obj : Named]
      BY <2>2, NamedObjects
    <3> QED BY <3>1 DEF AnyToBts, RequestsAbout
  <2>3. CASE r \in AttrRequests(Objects)
    <3>1. r \in AttrRequests(Named)
      BY <2>3, NamedObjects DEF AttrRequests
    <3> QED BY <3>1 DEF AnyToBts, RequestsAbout
  <2>4. CASE r \in [type : {"CHG_ADM_STATE"}, obj : Objects, adm : Requested]
    <3>1. r \in [type : {"CHG_ADM_STATE"}, obj : Named, adm : Requested]
      BY <2>4, NamedObjects
    <3> QED BY <3>1 DEF AnyToBts, RequestsAbout
  <2> QED BY <2>1, <2>2, <2>3, <2>4 DEF ToBts, RequestsAbout
<1> QED BY <1>1, <1>2

\* What such a request causes, and what any request causes, are messages of the BTS.
LEMMA CausedByType ==
    ASSUME NEW r
    PROVE  /\ r \in ToBts => CausedBy(r) \subseteq ToBsc
           /\ r \in AnyToBts => CausedBy(r) \subseteq AnyToBsc
<1>1. CausedBy(r) \subseteq RepliesAbout(Near(r))
  BY DEF CausedBy
<1>2. r \in ToBts => Near(r) \subseteq Objects
  BY AnyRequestShape, ObjectTypes DEF ToBts, Near
<1>3. r \in AnyToBts => Near(r) \subseteq Named
  BY AnyRequestShape, NamedObjects DEF AnyToBts, Near
<1> QED BY <1>1, <1>2, <1>3, MoreMessages DEF ToBsc, AnyToBsc
-----------------------------------------------------------------------------
(* What each reply may contain.                                            *)

\* Messages that no request has to cause.
LEMMA FreeReplies ==
    ASSUME NEW r
    PROVE  /\ \A o \in Objects \ {BasebTransc, RadioCarrier} :
                 About("SW_ACTIVATED_REP", o) \in Consequences(r)
           /\ r.type \in {"OPSTART", "RSL_CONNECT"} =>
                 \A o \in Objects, op \in OpStates, adm \in AdminStates :
                    StateChg(o, op, "OK", adm) \in Consequences(r)
           /\ \A t \in {"PONG", "ID_RESP", "ID_ACK", "RSL_ID_ACK"} :
                 Plain(t) \in Consequences(r)
<1>1. ASSUME NEW o \in Objects \ {BasebTransc, RadioCarrier}
      PROVE  About("SW_ACTIVATED_REP", o) \in Consequences(r)
  <2> DEFINE m == About("SW_ACTIVATED_REP", o)
  <2>1. m \in RepliesAbout(Near(r)) /\ m.type = "SW_ACTIVATED_REP" /\ m.obj = o
    BY NearReplies DEF ObjectReplies
  <2>2. m # About("SW_ACT_REQ", SiteManager) /\ m # Plain("RSL_CONNECT_ACK")
    BY DEF About, Plain
  <2> HIDE DEF m
  <2>3. m \in Consequences(r)
    BY <2>1, <2>2 DEF Consequences, CausedBy, ReportsWaiting, Initial, AckTypes
  <2> QED BY <2>3 DEF m
<1>2. ASSUME r.type \in {"OPSTART", "RSL_CONNECT"},
             NEW o \in Objects, NEW op \in OpStates, NEW adm \in AdminStates
      PROVE  StateChg(o, op, "OK", adm) \in Consequences(r)
  <2> DEFINE m == StateChg(o, op, "OK", adm)
  <2>1. m \in RepliesAbout(Near(r)) /\ m.type = "STATECHG_EVENT_REP" /\ m.av = "OK"
    BY NearReplies DEF AvailStates
  <2>2. m # About("SW_ACT_REQ", SiteManager) /\ m # Plain("RSL_CONNECT_ACK")
    BY DEF StateChg, About, Plain
  <2> HIDE DEF m
  <2>3. m \in Consequences(r)
    BY <1>2, <2>1, <2>2 DEF Consequences, CausedBy, ReportsWaiting, Initial, AckTypes
  <2> QED BY <2>3 DEF m
<1>3. ASSUME NEW t \in {"PONG", "ID_RESP", "ID_ACK", "RSL_ID_ACK"}
      PROVE  Plain(t) \in Consequences(r)
  <2> DEFINE m == Plain(t)
  <2>1. m \in RepliesAbout(Near(r)) /\ m.type = t
    BY <1>3, NearReplies
  <2>2. m # About("SW_ACT_REQ", SiteManager) /\ m # Plain("RSL_CONNECT_ACK")
    BY <1>3 DEF About, Plain
  <2> HIDE DEF m
  <2>3. m \in Consequences(r)
    BY <1>3, <2>1, <2>2 DEF Consequences, CausedBy, ReportsWaiting, Initial, AckTypes
  <2> QED BY <2>3 DEF m
<1> QED BY <1>1, <1>2, <1>3

\* The acknowledgement of a request.
LEMMA AckType ==
    ASSUME NEW r \in AnyToBts, IsRequest(r)
    PROVE  LET a == About(AckOf(r.type), r.obj) IN a \in CausedBy(r) /\ a.type \in AckTypes
<1> DEFINE t == AckOf(r.type)
           a == About(t, r.obj)
<1>1. /\ r.obj \in Near(r)
      /\ r.type \in {"ACTIVATE_SW", "OPSTART", "SET_BTS_ATTR", "SET_CHAN_ATTR",
                     "SET_RADIO_ATTR", "CHG_ADM_STATE"}
  BY NearObjects DEF IsRequest, LinkRequests
<1>2. t \in AckTypes /\ (t = "ACTIVATE_SW_ACK" => r.type = "ACTIVATE_SW")
  BY <1>1 DEF AckOf, AckTypes
<1> HIDE DEF t
<1>3. a \in RepliesAbout(Near(r)) /\ a.type = t /\ a.obj = r.obj
  BY <1>1, <1>2, NearReplies DEF ObjectReplies, AckTypes
<1>4. t = "ACTIVATE_SW_ACK" => r = About("ACTIVATE_SW", r.obj)
  BY <1>2, NamedRequestShape DEF ObjectRequests
<1>5. a # About("SW_ACT_REQ", SiteManager) /\ a # Plain("RSL_CONNECT_ACK")
  BY <1>2 DEF About, Plain, AckTypes
<1> HIDE DEF a
<1>6. a \in CausedBy(r)
  BY <1>2, <1>3, <1>4, <1>5 DEF CausedBy, ReportsWaiting, Initial, AckTypes
<1> QED BY <1>2, <1>3, <1>6 DEF a, t

\* A stream without acknowledgements, and one that begins with the only one.
LEMMA NoAcks ==
    ASSUME NEW r, NEW s \in Seq(Consequences(r))
    PROVE  AckPositions(s) = {}
<1>1. \A i \in 1 .. Len(s) : s[i].type \notin AckTypes
  BY ElementOfSeq DEF Consequences
<1> QED BY <1>1 DEF AckPositions, Positions

LEMMA AckFirst ==
    ASSUME NEW r, NEW a \in CausedBy(r), a.type \in AckTypes, NEW s \in Seq(Consequences(r))
    PROVE  /\ <<a>> \o s \in Seq(CausedBy(r))
           /\ AckPositions(<<a>> \o s) = {1} /\ (<<a>> \o s)[1] = a
<1> DEFINE one == <<a>>
           t == one \o s
<1>1. s \in Seq(CausedBy(r)) /\ one \in Seq(CausedBy(r)) /\ Len(one) = 1 /\ one[1] = a
  BY SeqMonotonic DEF Consequences
<1>2. Len(s) \in Nat
  BY <1>1, LenProperties
<1> HIDE DEF one
<1>3. /\ t \in Seq(CausedBy(r)) /\ Len(t) = 1 + Len(s) /\ t[1] = a
      /\ \A i \in 1 .. Len(s) : t[1 + i] = s[i]
  <2>1. t \in Seq(CausedBy(r)) /\ Len(t) = Len(one) + Len(s)
    BY <1>1, ConcatProperties
  <2>2. \A i \in 1 .. Len(one) + Len(s) :
          t[i] = IF i <= Len(one) THEN one[i] ELSE s[i - Len(one)]
    BY <1>1, ConcatProperties
  <2> HIDE DEF t
  <2>3. t[1] = a /\ \A i \in 1 .. Len(s) : t[1 + i] = s[i]
    BY <1>1, <1>2, <2>2
  <2> QED BY <1>1, <2>1, <2>3
<1> HIDE DEF t
<1>4. ASSUME NEW i \in 1 .. Len(t), i # 1 PROVE t[i].type \notin AckTypes
  <2>1. i - 1 \in 1 .. Len(s) /\ i = 1 + (i - 1)
    BY <1>2, <1>3, <1>4
  <2>2. t[i] = s[i - 1]
    BY <1>3, <2>1
  <2> HIDE <1>3
  <2> QED BY <2>1, <2>2, ElementOfSeq DEF Consequences
<1>5. 1 \in 1 .. Len(t)
  BY <1>2, <1>3
<1>6. AckPositions(t) = {1}
  BY <1>3, <1>4, <1>5 DEF AckPositions, Positions
<1> QED BY <1>3, <1>6 DEF t, one

LEMMA InitialReportType ==
    ASSUME NEW r, r = Plain("ID_GET")
    PROVE  /\ InitialStateReport \in Seq(Consequences(r))
           /\ <<About("SW_ACT_REQ", SiteManager)>> \in Seq(Consequences(r))
<1> DEFINE S == Consequences(r)
           Down(o) == StateChg(o, "DISABLED", "NOT_INSTALLED", "LOCKED")
           downs == [i \in 1 .. LastTs + 1 |-> Down(Channel(i - 1))]
           top == <<Down(SiteManager), Down(Bts), Down(BasebTransc)>>
           request == About("SW_ACT_REQ", SiteManager)
<1>1. ASSUME NEW o \in Objects PROVE Down(o) \in S
  <2> DEFINE m == Down(o)
  <2>1. m \in RepliesAbout(Near(r)) /\ m.type = "STATECHG_EVENT_REP" /\ m.av = "NOT_INSTALLED"
    BY NearReplies DEF OpStates, AvailStates, AdminStates
  <2>2. m # Plain("RSL_CONNECT_ACK")
    BY DEF StateChg, Plain
  <2> HIDE DEF m
  <2>3. m \in S
    BY <2>1, <2>2 DEF Consequences, CausedBy, ReportsWaiting, AckTypes
  <2> QED BY <2>3 DEF m
<1>2. top \in Seq(S) /\ <<Down(RadioCarrier)>> \in Seq(S)
  BY <1>1, ObjectTypes
<1>3. downs \in Seq(S)
  <2>1. downs \in [1 .. LastTs + 1 -> S]
    BY <1>1, ObjectTypes
  <2> QED BY <2>1, FamilyType
<1>4. request \in S
  <2>1. request \in RepliesAbout(Near(r)) /\ request.type = "SW_ACT_REQ"
        /\ request.obj = SiteManager
    BY NearReplies, ObjectTypes DEF ObjectReplies
  <2>2. request # Plain("RSL_CONNECT_ACK")
    BY DEF About, Plain
  <2> QED BY <2>1, <2>2 DEF Consequences, CausedBy, ReportsWaiting, AckTypes
<1>5. InitialStateReport = top \o downs \o <<Down(RadioCarrier)>>
  BY DEF InitialStateReport, PerChannel
<1>6. <<request>> \in Seq(S)
  BY <1>4
<1> HIDE DEF S, downs, top, request
<1>7. InitialStateReport \in Seq(S)
  BY <1>2, <1>3, <1>5, ConcatProperties
<1> QED BY <1>6, <1>7 DEF S, request

LEMMA AfterActivateSwType ==
    ASSUME NEW o \in Named
    PROVE  AfterActivateSw(o) \in Seq(Consequences(About("ACTIVATE_SW", o)))
<1> DEFINE r == About("ACTIVATE_SW", o)
           S == Consequences(r)
           requests == [i \in 1 .. LastTs + 1 |-> About("SW_ACT_REQ", Channel(i - 1))]
           active == [i \in 1 .. LastTs + 1 |-> About("SW_ACTIVATED_REP", Channel(i - 1))]
           waits == Waits(o)
<1>1. o \in Near(r)
  BY NearObjects DEF About, LinkRequests
<1>2. waits \in S
  <2>1. waits \in RepliesAbout(Near(r)) /\ waits.type = "STATECHG_EVENT_REP" /\ waits.obj = o
        /\ waits.av = "DEPENDENCY"
    BY <1>1, NearReplies DEF OpStates, AvailStates, AdminStates, Waits
  <2>2. waits # About("SW_ACT_REQ", SiteManager) /\ waits # Plain("RSL_CONNECT_ACK")
    BY DEF Waits, StateChg, About, Plain
  <2>3. waits = Waits(waits.obj)
    BY <2>1
  <2> HIDE DEF waits
  <2> QED BY <2>1, <2>2, <2>3 DEF Consequences, CausedBy, AckTypes, Initial
<1>3. ASSUME NEW p \in Objects \ {SiteManager},
             \/ p = RadioCarrier /\ o = BasebTransc
             \/ p \in ChannelObjects /\ o = RadioCarrier
      PROVE  About("SW_ACT_REQ", p) \in S
  <2> DEFINE m == About("SW_ACT_REQ", p)
  <2>1. m \in RepliesAbout(Near(r)) /\ m.type = "SW_ACT_REQ" /\ m.obj = p
    BY NearReplies DEF ObjectReplies
  <2>2. m # About("SW_ACT_REQ", SiteManager) /\ m # Plain("RSL_CONNECT_ACK")
    BY <1>3 DEF About, Plain
  <2> HIDE DEF m
  <2>3. m \in S
    BY <1>3, <2>1, <2>2 DEF Consequences, CausedBy, ReportsWaiting, AckTypes, Initial
  <2> QED BY <2>3 DEF m
<1>4. o = BasebTransc => <<About("SW_ACT_REQ", RadioCarrier)>> \in Seq(S)
  BY <1>3, ObjectTypes, ObjectsDiffer
<1>5. o = RadioCarrier => requests \in Seq(S)
  <2>1. o = RadioCarrier => \A ts \in Channels : About("SW_ACT_REQ", Channel(ts)) \in S
    BY <1>3, ObjectTypes, ObjectsDiffer
  <2>2. o = RadioCarrier => requests \in [1 .. LastTs + 1 -> S]
    BY <2>1, ObjectTypes
  <2> QED BY <2>2, FamilyType
<1>6. active \in Seq(S)
  <2>1. \A ts \in Channels : About("SW_ACTIVATED_REP", Channel(ts)) \in S
    BY FreeReplies, ObjectTypes, ObjectsDiffer
  <2>2. active \in [1 .. LastTs + 1 -> S]
    BY <2>1, ObjectTypes
  <2> QED BY <2>2, FamilyType
<1>7. o = SiteManager => <<StateChg(o, "ENABLED", "OK", "LOCKED")>> \in Seq(S)
  <2>1. Managed \in RepliesAbout(Near(r)) /\ Managed.type = "STATECHG_EVENT_REP"
        /\ Managed.av = "OK"
    BY NearReplies, ObjectTypes DEF Managed, OpStates, AvailStates, AdminStates
  <2>2. Managed # About("SW_ACT_REQ", SiteManager) /\ Managed # Plain("RSL_CONNECT_ACK")
    BY DEF Managed, StateChg, About, Plain
  <2>3. o = SiteManager => Managed \in S
    BY <2>1, <2>2 DEF Consequences, CausedBy, ReportsWaiting, Initial, AckTypes
  <2> QED BY <2>3 DEF Managed
<1> DEFINE rest ==
      CASE o = SiteManager  -> <<StateChg(o, "ENABLED", "OK", "LOCKED")>>
        [] o = Bts          -> <<waits>>
        [] o = BasebTransc  -> <<About("SW_ACT_REQ", RadioCarrier)>>
        [] o = RadioCarrier -> requests
        [] OTHER            -> <<waits>> \o (IF o = Channel(LastTs) THEN active ELSE <<>>)
<1>8. AfterActivateSw(o) = rest
  BY DEF AfterActivateSw, PerChannel, Waits
<1>9. rest \in Seq(S)
  <2> HIDE DEF S, requests, active, waits
  <2>1. <<waits>> \in Seq(S) /\ <<>> \in Seq(S)
    BY <1>2
  <2>2. <<waits>> \o (IF o = Channel(LastTs) THEN active ELSE <<>>) \in Seq(S)
    BY <2>1, <1>6, ConcatProperties
  <2> QED BY <2>1, <2>2, <1>4, <1>5, <1>7
<1> QED BY <1>8, <1>9

LEMMA AfterOpstartType ==
    ASSUME NEW o \in Named, NEW op \in [Objects -> OpStates],
           NEW adm \in [Objects -> AdminStates]
    PROVE  AfterOpstart(o, op, adm) \in Seq(Consequences(About("OPSTART", o)))
<1> DEFINE r == About("OPSTART", o)
           S == Consequences(r)
           Stored(p) == StateChg(p, op[p], "OK", adm[p])
           Active(p) == About("SW_ACTIVATED_REP", p)
           top == <<Active(RadioCarrier), Stored(SiteManager), Stored(Bts)>>
           reports == [i \in 1 .. LastTs + 1 |-> Stored(Channel(i - 1))]
           rest == CASE o = SiteManager -> <<Active(o), About("SW_ACT_REQ", Bts)>>
                     [] o = Bts -> <<Active(o), About("SW_ACT_REQ", BasebTransc)>>
                     [] o = Channel(LastTs) -> LastChannelReport(op, adm)
                     [] OTHER -> <<>>
<1>2. \A p \in Objects : Stored(p) \in S
  <2>1. r.type = "OPSTART"
    BY DEF About
  <2> HIDE DEF r
  <2> QED BY <2>1, FreeReplies
<1>3. ASSUME NEW p \in Objects \ {SiteManager},
             (p = Bts /\ o = SiteManager) \/ (p = BasebTransc /\ o = Bts)
      PROVE  About("SW_ACT_REQ", p) \in S
  <2> DEFINE m == About("SW_ACT_REQ", p)
  <2>1. m \in RepliesAbout(Near(r)) /\ m.type = "SW_ACT_REQ" /\ m.obj = p
    BY NearReplies DEF ObjectReplies
  <2>2. m # About("SW_ACT_REQ", SiteManager) /\ m # Plain("RSL_CONNECT_ACK")
    BY <1>3 DEF About, Plain
  <2> HIDE DEF m
  <2>3. m \in S
    BY <1>3, <2>1, <2>2 DEF Consequences, CausedBy, ReportsWaiting, AckTypes, Initial
  <2> QED BY <2>3 DEF m
<1>4. (o = SiteManager => About("SW_ACT_REQ", Bts) \in S)
      /\ (o = Bts => About("SW_ACT_REQ", BasebTransc) \in S)
  BY <1>3, ObjectTypes, ObjectsDiffer
<1>5. o \in {SiteManager, Bts} => Active(o) \in S
  BY FreeReplies, ObjectTypes, ObjectsDiffer
<1>6. o = Channel(LastTs) => LastChannelReport(op, adm) \in Seq(S)
  <2>1. ASSUME o = Channel(LastTs), NEW p \in {BasebTransc, RadioCarrier}
        PROVE  Active(p) \in S
    <3> DEFINE m == Active(p)
    <3>1. m \in RepliesAbout(Near(r)) /\ m.type = "SW_ACTIVATED_REP" /\ m.obj = p
      BY NearReplies, ObjectTypes DEF ObjectReplies
    <3>2. m # About("SW_ACT_REQ", SiteManager) /\ m # Plain("RSL_CONNECT_ACK")
      BY DEF About, Plain
    <3> HIDE DEF m
    <3>3. m \in S
      BY <2>1, <3>1, <3>2 DEF Consequences, CausedBy, ReportsWaiting, AckTypes, Initial
    <3> QED BY <3>3 DEF m
  <2>2. reports \in Seq(S)
    <3>1. reports \in [1 .. LastTs + 1 -> S]
      BY <1>2, ObjectTypes
    <3> QED BY <3>1, FamilyType
  <2>3. LastChannelReport(op, adm) = top \o reports \o <<Active(BasebTransc)>>
    BY DEF LastChannelReport, StoredReport, PerChannel
  <2> HIDE DEF S, reports, Active, Stored
  <2>4. o = Channel(LastTs) => top \in Seq(S) /\ <<Active(BasebTransc)>> \in Seq(S)
    BY <2>1, <1>2, ObjectTypes
  <2> QED BY <2>2, <2>3, <2>4, ConcatProperties
<1>7. AfterOpstart(o, op, adm) = rest
  BY DEF AfterOpstart
<1>8. rest \in Seq(S)
  <2> HIDE DEF S, Active
  <2> QED BY <1>4, <1>5, <1>6
<1> QED BY <1>7, <1>8
-----------------------------------------------------------------------------
(* Elements of streams.                                                    *)

LEMMA ElementsOf ==
    ASSUME NEW S, NEW s \in Seq(S)
    PROVE  Elements(s) \subseteq S
BY ElementOfSeq DEF Elements

LEMMA ElementsConcat ==
    ASSUME NEW S, NEW s \in Seq(S), NEW t \in Seq(S)
    PROVE  Elements(s \o t) = Elements(s) \cup Elements(t)
<1>1. Len(s) \in Nat /\ Len(t) \in Nat /\ Len(s \o t) = Len(s) + Len(t)
  BY LenProperties, ConcatProperties
<1>2. \A i \in 1 .. Len(s) : (s \o t)[i] = s[i]
  BY <1>1, ConcatProperties
<1>3. \A i \in 1 .. Len(t) : (s \o t)[Len(s) + i] = t[i]
  BY <1>1, ConcatProperties
<1>4. ASSUME NEW i \in 1 .. Len(s \o t)
      PROVE  (s \o t)[i] \in Elements(s) \cup Elements(t)
  <2>1. CASE i \in 1 .. Len(s)
    BY <1>2, <2>1 DEF Elements
  <2>2. CASE i \notin 1 .. Len(s)
    <3>1. i - Len(s) \in 1 .. Len(t) /\ i = Len(s) + (i - Len(s))
      BY <1>1, <2>2
    <3> QED BY <1>3, <3>1 DEF Elements
  <2> QED BY <2>1, <2>2
<1>5. ASSUME NEW i \in 1 .. Len(s) PROVE s[i] \in Elements(s \o t)
  <2>1. i \in 1 .. Len(s \o t)
    BY <1>1
  <2> QED BY <1>2, <2>1 DEF Elements
<1>6. ASSUME NEW i \in 1 .. Len(t) PROVE t[i] \in Elements(s \o t)
  <2>1. Len(s) + i \in 1 .. Len(s \o t)
    BY <1>1
  <2> QED BY <1>3, <2>1 DEF Elements
<1> QED BY <1>4, <1>5, <1>6 DEF Elements

LEMMA ElementsHeadTail ==
    ASSUME NEW S, NEW s \in Seq(S), s # <<>>
    PROVE  Head(s) \in Elements(s) /\ Elements(Tail(s)) \subseteq Elements(s)
<1>1. Len(s) \in Nat \ {0} /\ Len(Tail(s)) = Len(s) - 1
  BY EmptySeq, HeadTailProperties
<1>2. Head(s) \in Elements(s)
  BY <1>1 DEF Elements
<1>3. ASSUME NEW i \in 1 .. Len(Tail(s)) PROVE Tail(s)[i] \in Elements(s)
  <2>1. Tail(s)[i] = s[i + 1] /\ i + 1 \in 1 .. Len(s)
    BY <1>1, HeadTailProperties
  <2> QED BY <2>1 DEF Elements
<1> QED BY <1>2, <1>3 DEF Elements

LEMMA ElementsAppend ==
    ASSUME NEW S, NEW s \in Seq(S), NEW e \in S
    PROVE  Elements(Append(s, e)) = Elements(s) \cup {e}
<1> DEFINE one == <<e>>
<1>1. Append(s, e) = s \o one /\ one \in Seq(S)
  BY AppendIsConcat
<1>2. Elements(one) = {e}
  BY DEF Elements
<1> HIDE DEF one
<1> QED BY <1>1, <1>2, ElementsConcat
-----------------------------------------------------------------------------
(* One step of the BTS.                                                    *)

\* The whole answer, where it matters.
Exactly(r, s) ==
    /\ r.type = "ACTIVATE_SW" => s = ActivateSwReply(r.obj)
    /\ r.type = "OPSTART" => s = OpstartReply(r.obj, opstate', admin_state')
    /\ r.type = "ID_GET" /\ bts_id_resp => s = <<Plain("ID_RESP")>>
    /\ r.type = "ID_GET" /\ ~bts_id_resp => About("SW_ACT_REQ", SiteManager) \in Elements(s)
    /\ r.type = "RSL_CONNECT" =>
          /\ Plain("RSL_CONNECT_ACK") \in Elements(s)
          /\ \A o \in {BasebTransc, RadioCarrier} :
                StoredReport(o, opstate', admin_state') \in Elements(s)
          /\ \A m \in Elements(s) : m.type = "STATECHG_EVENT_REP" =>
                /\ m.obj \in {BasebTransc, RadioCarrier}
                /\ m = StoredReport(m.obj, opstate', admin_state')

\* What the step adds to the streams is caused by r, and a request of the link
\* protocol is answered on its own link.
Replies(l, r) ==
    \E reply \in [Links -> Seq(CausedBy(r))] :
        /\ outbox' = [k \in Links |-> outbox[k] \o reply[k]]
        /\ r.type \in {"ID_GET", "PING"} => \A k \in Links \ {l} : reply[k] = <<>>
        /\ Acked(reply[l], r) /\ \A k \in Links \ {l} : AckPositions(reply[k]) = {}
        /\ Exactly(r, reply[l])

\* The administrative state that r leaves object o in.
Administered(r, o) ==
    IF o = SiteManager
    THEN IF r = About("OPSTART", SiteManager) THEN "UNLOCKED" ELSE admin_state[o]
    ELSE IF r.type = "CHG_ADM_STATE" /\ r.obj = o THEN r.adm ELSE admin_state[o]

\* The handlers of what the BTS has: all but those that write beyond the arrays.
Ordinary(l) ==
    \/ Ping(l)        \/ NoEffect(l) \/ IdGet(l)
    \/ SwActReqAck(l) \/ ActivateSw(l) \/ Opstart(l)
    \/ SetAttr(l)     \/ ChgAdmState(l) \/ RslConnect(l)

\* What every one of them does with the next message of link l.
AnyEffect(l) ==
    LET r == Head(inbox[l]) IN
    /\ inbox[l] # <<>>
    /\ inbox' = [inbox EXCEPT ![l] = Tail(@)]
    /\ Replies(l, r)
    /\ \A o \in Objects :
          /\ opstate'[o] = IF r = About("OPSTART", o) THEN "ENABLED" ELSE opstate[o]
          /\ admin_state'[o] = Administered(r, o)
    /\ bts_id_resp' = (bts_id_resp \/ r.type = "ID_GET")
    /\ sw_site_manager' # sw_site_manager =>
          \/ r.type = "ID_GET"
          \/ r \in {About("SW_ACT_REQ_ACK", SiteManager), About("ACTIVATE_SW", SiteManager)}

\* The same of a BSC that keeps to the objects of the BTS.
HandlerEffect(l) == Head(inbox[l]) \in ToBts /\ AnyEffect(l)

LEMMA ReceiveType ==
    ASSUME AnyTypeOK, NEW l \in Links, NEW types, Receive(l, types)
    PROVE  /\ inbox[l] # <<>> /\ Head(inbox[l]) \in AnyToBts /\ Head(inbox[l]).type \in types
           /\ inbox' = [inbox EXCEPT ![l] = Tail(@)]
           /\ inbox' \in [Links -> Seq(AnyToBts)]
<1>1. inbox[l] \in Seq(AnyToBts) /\ inbox[l] # <<>>
  BY DEF AnyTypeOK, Receive
<1>2. Head(inbox[l]) \in AnyToBts /\ Tail(inbox[l]) \in Seq(AnyToBts)
  BY <1>1, HeadTailProperties
<1> QED BY <1>1, <1>2 DEF AnyTypeOK, Receive

LEMMA SendType ==
    ASSUME AnyTypeOK, NEW l \in Links, NEW r, NEW msgs \in Seq(CausedBy(r)), Send(l, msgs),
           Acked(msgs, r), Exactly(r, msgs)
    PROVE  Replies(l, r)
<1> DEFINE reply == [k \in Links |-> IF k = l THEN msgs ELSE <<>>]
<1>1. \A k \in Links : outbox[k] \o <<>> = outbox[k]
  BY ConcatEmptySeq DEF AnyTypeOK
<1>2. outbox' = [k \in Links |-> outbox[k] \o reply[k]]
  BY <1>1 DEF Send, AnyTypeOK
<1>3. reply \in [Links -> Seq(CausedBy(r))] /\ \A k \in Links \ {l} : reply[k] = <<>>
  BY EmptySeq
<1>4. AckPositions(<<>>) = {} /\ reply[l] = msgs
  BY DEF AckPositions, Positions
<1> HIDE DEF reply
<1> QED BY <1>2, <1>3, <1>4 DEF Replies

LEMMA SilentType ==
    ASSUME AnyTypeOK, NEW l \in Links, NEW r, UNCHANGED outbox, ~IsRequest(r),
           r.type \notin {"ID_GET", "RSL_CONNECT"}
    PROVE  Replies(l, r)
<1> DEFINE none == <<>>
<1>1. none \in Seq(CausedBy(r)) /\ AckPositions(none) = {} /\ Elements(none) = {}
  BY EmptySeq DEF AckPositions, Positions, Elements
<1>2. Send(l, none)
  <2>1. outbox[l] \o none = outbox[l]
    BY ConcatEmptySeq DEF AnyTypeOK
  <2> QED BY <2>1 DEF Send, AnyTypeOK
<1> HIDE DEF none
<1> QED BY <1>1, <1>2, SendType DEF Acked, Exactly, IsRequest

LEMMA RepliesType ==
    ASSUME NEW T, outbox \in [Links -> Seq(T)], NEW l, NEW r, CausedBy(r) \subseteq T,
           Replies(l, r)
    PROVE  outbox' \in [Links -> Seq(T)]
<1>1. PICK reply \in [Links -> Seq(CausedBy(r))] :
        outbox' = [k \in Links |-> outbox[k] \o reply[k]]
  BY DEF Replies
<1>2. \A k \in Links : reply[k] \in Seq(T)
  BY <1>1, SeqMonotonic
<1>3. \A k \in Links : outbox[k] \o reply[k] \in Seq(T)
  BY <1>2, ConcatProperties
<1> QED BY <1>1, <1>3

\* Steps that leave the objects alone, by the type of the request.
LEMMA QuietHandlers ==
    ASSUME AnyTypeOK, NEW l \in Links,
           Ping(l) \/ NoEffect(l) \/ IdGet(l) \/ SwActReqAck(l) \/ ActivateSw(l)
           \/ SetAttr(l) \/ ChgAdmState(l) \/ RslConnect(l)
    PROVE  opstate' = opstate /\ Head(inbox[l]).type # "OPSTART"
BY DEF Ping, NoEffect, IdGet, SwActReqAck, ActivateSw, SetAttr, ChgAdmState, RslConnect,
       Receive, objectVars

LEMMA PeacefulHandlers ==
    ASSUME AnyTypeOK, NEW l \in Links,
           Ping(l) \/ NoEffect(l) \/ IdGet(l) \/ SwActReqAck(l) \/ ActivateSw(l)
           \/ SetAttr(l) \/ RslConnect(l)
    PROVE  admin_state' = admin_state /\ Head(inbox[l]).type \notin {"OPSTART", "CHG_ADM_STATE"}
BY DEF Ping, NoEffect, IdGet, SwActReqAck, ActivateSw, SetAttr, RslConnect,
       Receive, objectVars

LEMMA OrdinaryHandlers ==
    ASSUME AnyTypeOK, NEW l \in Links,
           Ping(l) \/ NoEffect(l) \/ SwActReqAck(l) \/ ActivateSw(l) \/ Opstart(l)
           \/ SetAttr(l) \/ ChgAdmState(l) \/ RslConnect(l)
    PROVE  bts_id_resp' = bts_id_resp /\ Head(inbox[l]).type # "ID_GET"
BY DEF Ping, NoEffect, SwActReqAck, ActivateSw, Opstart, SetAttr, ChgAdmState, RslConnect,
       Receive, objectVars

\* The software state of the site manager.
LEMMA SiteManagerHandlers ==
    ASSUME AnyTypeOK, NEW l \in Links, Ordinary(l), sw_site_manager' # sw_site_manager
    PROVE  LET r == Head(inbox[l]) IN
           \/ r.type = "ID_GET"
           \/ r \in {About("SW_ACT_REQ_ACK", SiteManager), About("ACTIVATE_SW", SiteManager)}
<1> DEFINE r == Head(inbox[l])
<1>1. IdGet(l) \/ SwActReqAck(l) \/ ActivateSw(l)
  BY DEF Ordinary, Ping, NoEffect, Opstart, SetAttr, ChgAdmState, RslConnect, objectVars
<1>2. CASE IdGet(l)
  BY <1>2 DEF IdGet, Receive
<1>3. CASE SwActReqAck(l)
  <2>1. r \in AnyToBts /\ r.type = "SW_ACT_REQ_ACK" /\ r.obj = SiteManager
    BY <1>3, ReceiveType DEF SwActReqAck
  <2> QED BY <2>1, NamedRequestShape DEF ObjectRequests
<1>4. CASE ActivateSw(l)
  <2>1. r \in AnyToBts /\ r.type = "ACTIVATE_SW" /\ r.obj = SiteManager
    BY <1>4, ReceiveType DEF ActivateSw
  <2> QED BY <2>1, NamedRequestShape DEF ObjectRequests
<1> QED BY <1>1, <1>2, <1>3, <1>4

LEMMA UnadministeredType ==
    ASSUME admin_state' = admin_state, NEW r, r.type \notin {"OPSTART", "CHG_ADM_STATE"},
           NEW o \in Objects
    PROVE  admin_state'[o] = Administered(r, o)
BY DEF Administered, About

\* Every handler keeps the types and has the effect above.
LEMMA AnyHandlerStep ==
    ASSUME AnyTypeOK, NEW l \in Links, Ordinary(l)
    PROVE  AnyTypeOK' /\ AnyEffect(l)
<1> DEFINE r == Head(inbox[l])
<1>0. SUFFICES /\ r \in AnyToBts /\ inbox[l] # <<>>
               /\ inbox' = [inbox EXCEPT ![l] = Tail(@)]
               /\ inbox' \in [Links -> Seq(AnyToBts)]
               /\ Replies(l, r)
               /\ opstate' \in [Objects -> OpStates]
               /\ \A o \in Objects :
                     opstate'[o] = IF r = About("OPSTART", o) THEN "ENABLED" ELSE opstate[o]
               /\ admin_state' \in [Objects -> AdminStates]
               /\ \A o \in Objects : admin_state'[o] = Administered(r, o)
               /\ bts_id_resp' = (bts_id_resp \/ r.type = "ID_GET")
               /\ running' \in BOOLEAN
               /\ sw_site_manager' \in SwStates /\ sw_bts' \in SwStates
  <2>1. CausedBy(r) \subseteq AnyToBsc /\ outbox \in [Links -> Seq(AnyToBsc)]
    BY <1>0, CausedByType DEF AnyTypeOK
  <2>2. outbox' \in [Links -> Seq(AnyToBsc)]
    BY <1>0, <2>1, RepliesType
  <2>3. sw_site_manager' # sw_site_manager =>
          \/ r.type = "ID_GET"
          \/ r \in {About("SW_ACT_REQ_ACK", SiteManager), About("ACTIVATE_SW", SiteManager)}
    BY SiteManagerHandlers
  <2> QED BY <1>0, <2>2, <2>3 DEF AnyTypeOK, StatesTypeOK, AnyEffect
<1> HIDE DEF r
<1> USE DEF AnyTypeOK, StatesTypeOK
<1>1. ASSUME opstate' = opstate, r.type # "OPSTART"
      PROVE  /\ opstate' \in [Objects -> OpStates]
             /\ \A o \in Objects :
                   opstate'[o] = IF r = About("OPSTART", o) THEN "ENABLED" ELSE opstate[o]
  BY <1>1 DEF About
<1>2. ASSUME admin_state' = admin_state, r.type \notin {"OPSTART", "CHG_ADM_STATE"}
      PROVE  /\ admin_state' \in [Objects -> AdminStates]
             /\ \A o \in Objects : admin_state'[o] = Administered(r, o)
  BY <1>2, UnadministeredType
<1>3. ASSUME bts_id_resp' = bts_id_resp, r.type # "ID_GET"
      PROVE  bts_id_resp' = (bts_id_resp \/ r.type = "ID_GET")
  BY <1>3
<1>4. ASSUME ~IsRequest(r), NEW msgs \in Seq(Consequences(r)), Send(l, msgs),
             r.type # "RSL_CONNECT",
             r.type = "ID_GET" /\ bts_id_resp => msgs = <<Plain("ID_RESP")>>,
             r.type = "ID_GET" /\ ~bts_id_resp
                => About("SW_ACT_REQ", SiteManager) \in Elements(msgs)
      PROVE  Replies(l, r)
  <2>1. msgs \in Seq(CausedBy(r))
    BY <1>4, SeqMonotonic DEF Consequences
  <2>2. Acked(msgs, r)
    BY <1>4, NoAcks DEF Acked
  <2>3. r.type \notin {"ACTIVATE_SW", "OPSTART"}
    BY <1>4 DEF IsRequest
  <2> QED BY <1>4, <2>1, <2>2, <2>3, SendType DEF Exactly
<1>5. ASSUME r \in AnyToBts, IsRequest(r), NEW a, a = About(AckOf(r.type), r.obj),
             NEW rest \in Seq(Consequences(r)),
             Send(l, <<a>> \o rest), Exactly(r, <<a>> \o rest)
      PROVE  Replies(l, r)
  <2>1. a \in CausedBy(r) /\ a.type \in AckTypes
    BY <1>5, AckType
  <2>2. <<a>> \o rest \in Seq(CausedBy(r)) /\ Acked(<<a>> \o rest, r)
    BY <1>5, <2>1, AckFirst DEF Acked
  <2> QED BY <1>5, <2>2, SendType
<1>6. CASE Ping(l)
  <2>1. r.type = "PING" /\ ~IsRequest(r)
    BY <1>6, ReceiveType DEF Ping, r, IsRequest
  <2>2. <<Plain("PONG")>> \in Seq(Consequences(r))
    BY FreeReplies
  <2>3. Replies(l, r)
    BY <1>6, <1>4, <2>1, <2>2 DEF Ping
  <2> QED BY <1>1, <1>2, <1>3, <1>6, <2>1, <2>3, QuietHandlers, PeacefulHandlers, ReceiveType
         DEF Ping, objectVars, r
<1>7. CASE NoEffect(l)
  <2>1. r.type \in {"PONG", "RSL_DATA", "UNKNOWN"}
    BY <1>7, ReceiveType DEF NoEffect, r
  <2>2. r.type \notin {"ID_GET", "RSL_CONNECT"} /\ ~IsRequest(r)
    BY <2>1 DEF IsRequest
  <2> QED BY <1>1, <1>2, <1>3, <1>7, <2>2, SilentType, QuietHandlers, PeacefulHandlers, ReceiveType
         DEF NoEffect, objectVars, r
<1>8. CASE IdGet(l)
  <2> DEFINE resp == <<Plain("ID_RESP")>>
             start == <<About("SW_ACT_REQ", SiteManager)>>
             all == resp \o InitialStateReport \o start
  <2>1. r \in AnyToBts /\ r.type = "ID_GET" /\ ~IsRequest(r)
    BY <1>8, ReceiveType DEF IdGet, r, IsRequest
  <2>2. r = Plain("ID_GET")
    BY <2>1, NamedLinkShape DEF LinkRequests
  <2>3. /\ resp \in Seq(Consequences(r)) /\ start \in Seq(Consequences(r))
        /\ InitialStateReport \in Seq(Consequences(r))
    BY <2>2, FreeReplies, InitialReportType
  <2>4. IF bts_id_resp THEN Send(l, resp) ELSE Send(l, all)
    BY <1>8 DEF IdGet
  <2> HIDE DEF resp, start
  <2>5. all \in Seq(Consequences(r))
    BY <2>3, ConcatProperties
  <2>9. About("SW_ACT_REQ", SiteManager) \in Elements(all)
    <3> DEFINE front == resp \o InitialStateReport
    <3>1. front \in Seq(Consequences(r)) /\ all = front \o start
      BY <2>3, ConcatProperties
    <3>2. Elements(start) = {About("SW_ACT_REQ", SiteManager)}
      BY DEF Elements, start
    <3> HIDE DEF front, all
    <3>3. Elements(all) = Elements(front) \cup Elements(start)
      BY <2>3, <3>1, ElementsConcat
    <3> QED BY <3>2, <3>3
  <2> HIDE DEF all
  <2>10. ASSUME bts_id_resp PROVE Replies(l, r)
    <3>1. Send(l, resp) /\ resp = <<Plain("ID_RESP")>>
      BY <2>4, <2>10 DEF resp
    <3>2. r.type # "RSL_CONNECT"
      BY <2>1
    <3> QED BY <1>4, <2>1, <2>3, <2>10, <3>1, <3>2
  <2>11. ASSUME ~bts_id_resp PROVE Replies(l, r)
    <3>1. Send(l, all)
      BY <2>4, <2>11
    <3>2. r.type # "RSL_CONNECT"
      BY <2>1
    <3> QED BY <1>4, <2>1, <2>5, <2>9, <2>11, <3>1, <3>2
  <2>6. Replies(l, r)
    BY <2>10, <2>11
  <2>7. bts_id_resp' = (bts_id_resp \/ r.type = "ID_GET")
    BY <1>8, <2>1 DEF IdGet
  <2>8. sw_site_manager' \in SwStates
    BY <1>8 DEF IdGet, SwStates
  <2> QED BY <1>1, <1>2, <1>8, <2>1, <2>6, <2>7, <2>8, QuietHandlers, PeacefulHandlers, ReceiveType
         DEF IdGet, r
<1>9. CASE SwActReqAck(l)
  <2>1. r.type = "SW_ACT_REQ_ACK" /\ ~IsRequest(r)
    BY <1>9, ReceiveType DEF SwActReqAck, r, IsRequest
  <2>2. Replies(l, r)
    BY <1>9, <2>1, SilentType DEF SwActReqAck
  <2> QED BY <1>1, <1>2, <1>3, <1>9, <2>1, <2>2, QuietHandlers, PeacefulHandlers, ReceiveType
         DEF SwActReqAck, SwStates, r
<1>10. CASE ActivateSw(l)
  <2>1. r \in AnyToBts /\ r.type = "ACTIVATE_SW" /\ IsRequest(r)
    BY <1>10, ReceiveType DEF ActivateSw, r, IsRequest
  <2>2. r.obj \in Named /\ r = About("ACTIVATE_SW", r.obj)
    BY <2>1, NamedRequestShape DEF ObjectRequests
  <2>3. AfterActivateSw(r.obj) \in Seq(Consequences(r))
    BY <2>2, AfterActivateSwType
  <2>4. ActivateSwReply(r.obj) = <<About(AckOf(r.type), r.obj)>> \o AfterActivateSw(r.obj)
    BY <2>1 DEF ActivateSwReply, AckOf
  <2>5. Exactly(r, ActivateSwReply(r.obj)) /\ Send(l, ActivateSwReply(r.obj))
    <3>1. PICK h \in ActivateBranches(Begin(r.obj, opstate, admin_state)) : Send(l, h.sent)
      BY <1>10 DEF ActivateSw, r
    <3>2. h.sent = ActivateSwReply(r.obj)
      BY <2>2, ActivateSwSends
    <3>3. Exactly(r, ActivateSwReply(r.obj))
      BY <2>1 DEF Exactly
    <3> QED BY <3>1, <3>2, <3>3
  <2>6. Replies(l, r)
    BY <1>5, <2>1, <2>3, <2>4, <2>5
  <2> QED BY <1>1, <1>2, <1>3, <1>10, <2>1, <2>6, QuietHandlers, PeacefulHandlers, ReceiveType
         DEF ActivateSw, SwStates, r
<1>11. CASE Opstart(l)
  <2>1. r \in AnyToBts /\ r.type = "OPSTART" /\ IsRequest(r)
    BY <1>11, ReceiveType DEF Opstart, r, IsRequest
  <2>2. r.obj \in Objects /\ r.obj \in Named /\ r = About("OPSTART", r.obj)
    BY <1>11, <2>1, NamedRequestShape DEF ObjectRequests, Opstart, r
  <2>13. PICK h \in StartBranches(Begin(r.obj, opstate, admin_state)) :
           opstate' = h.op /\ admin_state' = h.adm /\ Send(l, h.sent)
    BY <1>11 DEF Opstart, r
  <2>14. /\ h.op = OpAfter(r.obj, opstate) /\ h.adm = AdmAfter(r.obj, admin_state)
         /\ h.sent = OpstartReply(r.obj, OpAfter(r.obj, opstate), AdmAfter(r.obj, admin_state))
    BY <2>2, OpstartSends
  <2>3. opstate' = [opstate EXCEPT ![r.obj] = "ENABLED"]
    BY <2>2, <2>13, <2>14 DEF OpAfter, OneEnabled
  <2>15. admin_state' = IF r.obj = SiteManager
                        THEN [admin_state EXCEPT ![r.obj] = "UNLOCKED"] ELSE admin_state
    BY <2>13, <2>14 DEF AdmAfter, OneUnlocked
  <2>4. opstate' \in [Objects -> OpStates]
    BY <2>3 DEF OpStates
  <2>5. admin_state' \in [Objects -> AdminStates]
    BY <2>15 DEF AdminStates
  <2>6. AfterOpstart(r.obj, opstate', admin_state') \in Seq(Consequences(r))
    BY <2>2, <2>4, <2>5, AfterOpstartType
  <2>7. OpstartReply(r.obj, opstate', admin_state')
          = <<About(AckOf(r.type), r.obj)>> \o AfterOpstart(r.obj, opstate', admin_state')
    BY <2>1 DEF OpstartReply, AckOf
  <2>8. Exactly(r, OpstartReply(r.obj, opstate', admin_state'))
        /\ Send(l, OpstartReply(r.obj, opstate', admin_state'))
    <3>1. Exactly(r, OpstartReply(r.obj, opstate', admin_state'))
      BY <2>1 DEF Exactly
    <3> QED BY <2>13, <2>14, <3>1
  <2>9. Replies(l, r)
    BY <1>5, <2>1, <2>6, <2>7, <2>8
  <2>10. ASSUME NEW o \in Objects
        PROVE  opstate'[o] = IF r = About("OPSTART", o) THEN "ENABLED" ELSE opstate[o]
    <3>1. r = About("OPSTART", o) <=> r.obj = o
      BY <2>2 DEF About
    <3> QED BY <2>2, <2>3, <3>1
  <2>11. ASSUME NEW o \in Objects PROVE admin_state'[o] = Administered(r, o)
    <3>1. r = About("OPSTART", SiteManager) <=> r.obj = SiteManager
      BY <2>2 DEF About
    <3>2. admin_state' = IF r.obj = SiteManager
                         THEN [admin_state EXCEPT ![r.obj] = "UNLOCKED"] ELSE admin_state
      BY <2>15
    <3> QED BY <2>1, <2>2, <3>1, <3>2 DEF Administered
  <2>12. sw_site_manager' = sw_site_manager /\ sw_bts' = sw_bts /\ running' = running
    BY <1>11 DEF Opstart
  <2> QED BY <1>3, <1>11, <2>4, <2>5, <2>9, <2>10, <2>11, <2>12, OrdinaryHandlers, ReceiveType
         DEF Opstart, r
<1>12. CASE SetAttr(l)
  <2>1. r \in AnyToBts /\ r.type \in {"SET_BTS_ATTR", "SET_CHAN_ATTR", "SET_RADIO_ATTR"}
        /\ IsRequest(r)
    BY <1>12, ReceiveType DEF SetAttr, r, IsRequest
  <2> DEFINE a == About("SET_BTS_ATTR_ACK", r.obj)
  <2>2. SetAttrReply(r) = <<a>> \o <<>> /\ a = About(AckOf(r.type), r.obj)
    BY <2>1 DEF SetAttrReply, AckOf
  <2> HIDE DEF a
  <2>3. Exactly(r, <<a>> \o <<>>) /\ Send(l, <<a>> \o <<>>)
    BY <1>12, <2>1, <2>2 DEF SetAttr, Exactly, r
  <2>4. Replies(l, r)
    BY <1>5, <2>1, <2>2, <2>3, EmptySeq
  <2> QED BY <1>1, <1>2, <1>3, <1>12, <2>1, <2>4, QuietHandlers, PeacefulHandlers, ReceiveType
         DEF SetAttr, SwStates, r
<1>13. CASE ChgAdmState(l)
  <2>1. r \in AnyToBts /\ r.type = "CHG_ADM_STATE"
    BY <1>13, ReceiveType DEF ChgAdmState, r
  <2>2. r.obj \in Objects /\ r.adm \in AdminStates
    BY <1>13, <2>1, NamedAttrShape, RequestedAssumption DEF AdminStates, ChgAdmState, r
  <2> DEFINE a == About("CHG_ADM_STATE_ACK", r.obj)
  <2>3. CASE r.obj = SiteManager
    <3>1. outbox' = outbox /\ admin_state' = admin_state /\ ~IsRequest(r)
      BY <1>13, <2>1, <2>3 DEF ChgAdmState, r, IsRequest
    <3>2. Replies(l, r)
      BY <2>1, <3>1, SilentType
    <3>3. \A o \in Objects : admin_state'[o] = Administered(r, o)
      BY <2>1, <2>3, <3>1 DEF Administered, About
    <3> QED BY <1>1, <1>3, <1>13, <3>1, <3>2, <3>3, QuietHandlers, OrdinaryHandlers, ReceiveType
           DEF ChgAdmState, r
  <2>4. CASE r.obj # SiteManager
    <3>1. /\ Send(l, <<a>>) /\ IsRequest(r)
          /\ admin_state' = [admin_state EXCEPT ![r.obj] = r.adm]
      BY <1>13, <2>1, <2>4 DEF ChgAdmState, r, IsRequest
    <3>2. <<a>> = <<a>> \o <<>> /\ a = About(AckOf(r.type), r.obj)
      BY <2>1 DEF AckOf
    <3> HIDE DEF a
    <3>3. Exactly(r, <<a>> \o <<>>)
      BY <2>1 DEF Exactly
    <3>4. Replies(l, r)
      BY <1>5, <2>1, <3>1, <3>2, <3>3, EmptySeq
    <3>5. admin_state' \in [Objects -> AdminStates]
      BY <2>2, <3>1
    <3>6. \A o \in Objects : admin_state'[o] = Administered(r, o)
      <4>1. r # About("OPSTART", SiteManager)
        BY <2>1 DEF About
      <4> QED BY <2>1, <2>2, <2>4, <3>1, <4>1 DEF Administered
    <3> QED BY <1>1, <1>3, <1>13, <3>4, <3>5, <3>6, QuietHandlers, OrdinaryHandlers, ReceiveType
           DEF ChgAdmState, r
  <2> QED BY <2>3, <2>4
<1>14. CASE RslConnect(l)
  <2> DEFINE here == RslConnectReply
             ids == <<Plain("ID_ACK"), Plain("RSL_ID_ACK")>>
             reply == [k \in Links |-> (IF k = l THEN here ELSE <<>>)
                                       \o (IF k = "RSL" THEN ids ELSE <<>>)]
  <2>1. r \in AnyToBts /\ r.type = "RSL_CONNECT" /\ ~IsRequest(r)
    BY <1>14, ReceiveType DEF RslConnect, r, IsRequest
  <2>2. Plain("RSL_CONNECT_ACK") \in Consequences(r)
    <3> DEFINE m == Plain("RSL_CONNECT_ACK")
    <3>1. r = Plain("RSL_CONNECT")
      BY <2>1, NamedLinkShape DEF LinkRequests
    <3>2. m \in RepliesAbout(Near(r)) /\ m.type = "RSL_CONNECT_ACK"
          /\ m # About("SW_ACT_REQ", SiteManager)
      BY NearReplies DEF Plain, About
    <3> HIDE DEF m
    <3>3. m \in Consequences(r)
      BY <3>1, <3>2 DEF Consequences, CausedBy, ReportsWaiting, AckTypes, Initial, m
    <3> QED BY <3>3 DEF m
  <2>3. here \in Seq(Consequences(r)) /\ ids \in Seq(Consequences(r))
    BY <2>1, <2>2, FreeReplies, ObjectTypes DEF RslConnectReply, StoredReport
  <2>4. reply \in [Links -> Seq(Consequences(r))]
    BY <2>3, EmptySeq, ConcatProperties
  <2>5. outbox' = [k \in Links |-> outbox[k] \o reply[k]]
    <3>1. outbox' = [k \in Links |-> outbox[k] \o (IF k = l THEN here ELSE <<>>)
                                               \o (IF k = "RSL" THEN ids ELSE <<>>)]
      BY <1>14 DEF RslConnect
    <3>2. \A k \in Links : outbox[k] \in Seq(AnyToBsc)
      OBVIOUS
    <3>3. here \in Seq(AnyToBsc) /\ ids \in Seq(AnyToBsc) /\ <<>> \in Seq(AnyToBsc)
      <4>1. Consequences(r) \subseteq AnyToBsc
        BY <2>1, CausedByType DEF Consequences
      <4>2. Seq(Consequences(r)) \subseteq Seq(AnyToBsc)
        BY <4>1, SeqMonotonic
      <4> QED BY <2>3, <4>2, EmptySeq
    <3> HIDE DEF here, ids
    <3>4. ASSUME NEW k \in Links
          PROVE  outbox'[k] = outbox[k] \o reply[k]
      <4> DEFINE h == IF k = l THEN here ELSE <<>>
                 i == IF k = "RSL" THEN ids ELSE <<>>
      <4>1. outbox'[k] = (outbox[k] \o h) \o i
        BY <3>1
      <4>2. h \in Seq(AnyToBsc) /\ i \in Seq(AnyToBsc)
        BY <3>3
      <4>3. reply[k] = h \o i
        OBVIOUS
      <4> HIDE DEF h, i, reply
      <4> QED BY <3>2, <4>1, <4>2, <4>3, ConcatAssociative, SMTT(30)
    <3> QED BY <3>1, <3>4
  <2>9. opstate' = opstate /\ admin_state' = admin_state /\ bts_id_resp' = bts_id_resp
        /\ running' \in BOOLEAN /\ sw_site_manager' \in SwStates /\ sw_bts' \in SwStates
    BY <1>14 DEF RslConnect, objectVars
  <2>11. /\ Plain("RSL_CONNECT_ACK") \in Elements(reply[l])
         /\ \A o \in {BasebTransc, RadioCarrier} :
               StoredReport(o, opstate', admin_state') \in Elements(reply[l])
         /\ \A m \in Elements(reply[l]) : m.type = "STATECHG_EVENT_REP" =>
               /\ m.obj \in {BasebTransc, RadioCarrier}
               /\ m = StoredReport(m.obj, opstate', admin_state')
    <3> DEFINE ack == Plain("RSL_CONNECT_ACK")
               baseb == StoredReport(BasebTransc, opstate, admin_state)
               radio == StoredReport(RadioCarrier, opstate, admin_state)
               i == IF l = "RSL" THEN ids ELSE <<>>
    <3>1. reply[l] = here \o i /\ i \in Seq(Consequences(r))
      BY <2>3, EmptySeq
    <3>2. \A x \in Elements(i) : x.type \in {"ID_ACK", "RSL_ID_ACK"}
      BY DEF Elements, Plain
    <3>3. ack.type = "RSL_CONNECT_ACK" /\ baseb.obj = BasebTransc /\ radio.obj = RadioCarrier
      BY DEF Plain, StoredReport, StateChg
    <3>4. here = <<ack, baseb, radio>>
      BY DEF RslConnectReply
    <3> HIDE DEF here, i, ack, baseb, radio, reply
    <3>5. Elements(here) = {ack, baseb, radio}
      BY <3>4 DEF Elements
    <3>6. Elements(reply[l]) = Elements(here) \cup Elements(i)
      BY <2>3, <3>1, ElementsConcat
    <3>7. \A m \in Elements(reply[l]) : m.type = "STATECHG_EVENT_REP" => m = baseb \/ m = radio
      BY <3>2, <3>3, <3>5, <3>6
    <3>8. /\ baseb = StoredReport(BasebTransc, opstate', admin_state')
          /\ radio = StoredReport(RadioCarrier, opstate', admin_state')
      BY <2>9 DEF baseb, radio
    <3>9. {ack, baseb, radio} \subseteq Elements(reply[l])
      BY <3>5, <3>6
    <3> QED BY <3>3, <3>7, <3>8, <3>9 DEF ack
  <2> HIDE DEF reply
  <2>6. \A k \in Links : AckPositions(reply[k]) = {}
    BY <2>4, NoAcks
  <2>7. reply \in [Links -> Seq(CausedBy(r))]
    <3>1. Seq(Consequences(r)) \subseteq Seq(CausedBy(r))
      BY SeqMonotonic DEF Consequences
    <3> QED BY <2>4, <3>1
  <2>8. Replies(l, r)
    <3>1. Exactly(r, reply[l])
      BY <2>1, <2>11 DEF Exactly
    <3> QED BY <2>1, <2>5, <2>6, <2>7, <3>1 DEF Replies, Acked
  <2>10. r.type \notin {"OPSTART", "CHG_ADM_STATE", "ID_GET"}
    BY <2>1
  <2> QED BY <1>1, <1>2, <1>3, <1>14, <2>1, <2>8, <2>9, <2>10, ReceiveType DEF RslConnect, r
<1> QED
  BY <1>6, <1>7, <1>8, <1>9, <1>10, <1>11, <1>12, <1>13, <1>14 DEF Ordinary
-----------------------------------------------------------------------------
\* A BSC that keeps to the objects of the BTS is one of those.
LEMMA NarrowTypes == BtsTypeOK => AnyTypeOK
<1> SUFFICES ASSUME BtsTypeOK PROVE AnyTypeOK
  OBVIOUS
<1>1. Seq(ToBts) \subseteq Seq(AnyToBts) /\ Seq(ToBsc) \subseteq Seq(AnyToBsc)
  BY NarrowRequests, SeqMonotonic
<1>2. inbox \in [Links -> Seq(AnyToBts)] /\ outbox \in [Links -> Seq(AnyToBsc)]
  BY <1>1 DEF BtsTypeOK
<1> QED BY <1>2 DEF BtsTypeOK, AnyTypeOK

\* None of its requests is about a timeslot beyond the last.
LEMMA NothingBeyond ==
    ASSUME BtsTypeOK, NEW l \in Links, BtsHandles(l)
    PROVE  Ordinary(l) /\ Head(inbox[l]) \in ToBts
<1> DEFINE r == Head(inbox[l])
<1>1. inbox[l] \in Seq(ToBts)
  BY DEF BtsTypeOK
<1>2. ASSUME inbox[l] # <<>> PROVE r \in ToBts
  BY <1>1, <1>2, HeadTailProperties
<1>3. ASSUME OpstartBeyond(l) \/ ChgAdmStateBeyond(l) PROVE FALSE
  <2>1. r \in ToBts /\ r.obj \notin Objects /\ r.type \notin LinkRequests
    BY <1>2, <1>3 DEF OpstartBeyond, ChgAdmStateBeyond, ReceiveBeyond, Receive, LinkRequests
  <2> QED BY <2>1, AnyRequestShape, ObjectTypes DEF ToBts
<1>4. Ordinary(l)
  BY <1>3 DEF BtsHandles, Ordinary
<1>5. inbox[l] # <<>>
  BY <1>4, NarrowTypes, AnyHandlerStep DEF AnyEffect
<1> QED BY <1>2, <1>4, <1>5

\* Every handler keeps the types and has the effect above.
LEMMA HandlerStep ==
    ASSUME BtsTypeOK, NEW l \in Links, BtsHandles(l)
    PROVE  BtsTypeOK' /\ HandlerEffect(l)
<1> DEFINE r == Head(inbox[l])
<1>1. r \in ToBts /\ AnyTypeOK' /\ AnyEffect(l)
  BY NothingBeyond, NarrowTypes, AnyHandlerStep
<1>2. inbox[l] # <<>> /\ inbox' = [inbox EXCEPT ![l] = Tail(@)] /\ Replies(l, r)
  BY <1>1 DEF AnyEffect
<1>3. inbox' \in [Links -> Seq(ToBts)]
  <2>1. Tail(inbox[l]) \in Seq(ToBts)
    BY <1>2, HeadTailProperties DEF BtsTypeOK
  <2> QED BY <1>2, <2>1 DEF BtsTypeOK
<1>4. outbox' \in [Links -> Seq(ToBsc)]
  <2>1. CausedBy(r) \subseteq ToBsc /\ outbox \in [Links -> Seq(ToBsc)]
    BY <1>1, CausedByType DEF BtsTypeOK
  <2> QED BY <1>2, <2>1, RepliesType
<1> QED BY <1>1, <1>3, <1>4 DEF HandlerEffect, BtsTypeOK, AnyTypeOK

\* What was answered, whether or not the answer tells the state that the step leaves.
Answers(l, r) ==
    \E reply \in [Links -> Seq(CausedBy(r))] :
        /\ outbox' = [k \in Links |-> outbox[k] \o reply[k]]
        /\ Acked(reply[l], r) /\ \A k \in Links \ {l} : AckPositions(reply[k]) = {}

\* A write beyond the arrays leaves states in the states and flags.
LEMMA WriteBeyondType ==
    ASSUME StatesTypeOK, WriteBeyond, running' = running
    PROVE  StatesTypeOK'
<1>1. CASE UNCHANGED objectVars
  BY <1>1 DEF StatesTypeOK, objectVars
<1>2. CASE /\ \E o \in Objects, s \in OpStates : opstate' = [opstate EXCEPT ![o] = s]
           /\ UNCHANGED <<bts_id_resp, sw_site_manager, sw_bts, admin_state>>
  BY <1>2 DEF StatesTypeOK
<1>3. CASE /\ \E o \in Objects, s \in AdminStates : admin_state' = [admin_state EXCEPT ![o] = s]
           /\ UNCHANGED <<bts_id_resp, sw_site_manager, sw_bts, opstate>>
  BY <1>3 DEF StatesTypeOK
<1>4. CASE /\ bts_id_resp' \in BOOLEAN /\ sw_site_manager' \in SwStates /\ sw_bts' \in SwStates
           /\ UNCHANGED <<opstate, admin_state>>
  BY <1>4 DEF StatesTypeOK
<1> QED BY <1>1, <1>2, <1>3, <1>4 DEF WriteBeyond

\* A request about a timeslot beyond the last is answered as any other, unless the
\* program is lost.
LEMMA BeyondStep ==
    ASSUME AnyTypeOK, NEW l \in Links, OpstartBeyond(l) \/ ChgAdmStateBeyond(l)
    PROVE  LET r == Head(inbox[l]) IN
           /\ AnyTypeOK'
           /\ inbox[l] # <<>> /\ inbox' = [inbox EXCEPT ![l] = Tail(@)]
           /\ r \in AnyToBts /\ IsRequest(r) /\ r.obj \notin Objects
           /\ Answers(l, r) \/ (outbox' = outbox /\ ~running')
<1> DEFINE r == Head(inbox[l])
           a == About(AckOf(r.type), r.obj)
           msgs == <<a>>
<1>1. /\ inbox[l] # <<>> /\ r \in AnyToBts /\ inbox' = [inbox EXCEPT ![l] = Tail(@)]
      /\ inbox' \in [Links -> Seq(AnyToBts)]
      /\ r.type \in {"OPSTART", "CHG_ADM_STATE"} /\ r.obj \notin Objects
  BY ReceiveType DEF OpstartBeyond, ChgAdmStateBeyond, ReceiveBeyond
<1>2. r.obj \in Named
  BY <1>1, NamedRequestShape, NamedAttrShape DEF ObjectRequests
<1>3. IsRequest(r)
  <2>1. SiteManager \in Objects
    BY ObjectTypes
  <2> QED BY <1>1, <2>1 DEF IsRequest
<1>4. WriteAndSend(l, msgs)
  <2>1. CASE OpstartBeyond(l)
    <3>1. PICK h \in StartBranches(Begin(r.obj, opstate, admin_state)) : WriteAndSend(l, h.sent)
      BY <2>1 DEF OpstartBeyond
    <3> DEFINE p == OpAfter(r.obj, opstate)
               adm == AdmAfter(r.obj, admin_state)
    <3>2. h.sent = OpstartReply(r.obj, p, adm)
      BY <1>2, OpstartSends
    <3>3. AfterOpstart(r.obj, p, adm) = Nothing
      <4>1. SiteManager \in Objects /\ Bts \in Objects /\ Channel(LastTs) \in Objects
        BY ObjectTypes
      <4> QED BY <1>1, <4>1 DEF AfterOpstart, Nothing
    <3>4. AckOf(r.type) = "OPSTART_ACK"
      BY <2>1 DEF OpstartBeyond, ReceiveBeyond, Receive, AckOf
    <3>5. h.sent = msgs
      BY <3>2, <3>3, <3>4, AckAlone DEF OpstartReply
    <3> QED BY <3>1, <3>5
  <2>2. CASE ChgAdmStateBeyond(l)
    <3>1. AckOf(r.type) = "CHG_ADM_STATE_ACK"
      BY <2>2 DEF ChgAdmStateBeyond, ReceiveBeyond, Receive, AckOf
    <3> QED BY <2>2, <3>1 DEF ChgAdmStateBeyond
  <2> QED BY <2>1, <2>2
<1>5. msgs \in Seq(CausedBy(r)) /\ Acked(msgs, r)
  <2>1. a \in CausedBy(r) /\ a.type \in AckTypes
    BY <1>1, <1>3, AckType
  <2> DEFINE none == Nothing
  <2>2. none \in Seq(Consequences(r))
    BY EmptySeq DEF Nothing
  <2>3. msgs = <<a>> \o none
    BY DEF Nothing
  <2> HIDE DEF none, a, r
  <2>4. /\ <<a>> \o none \in Seq(CausedBy(r))
        /\ AckPositions(<<a>> \o none) = {1} /\ (<<a>> \o none)[1] = a
    BY <2>1, <2>2, AckFirst
  <2> QED BY <1>3, <2>3, <2>4 DEF Acked, a, r
<1> HIDE DEF r, msgs
<1>6. CASE running' = FALSE /\ UNCHANGED <<objectVars, outbox>>
  BY <1>1, <1>3, <1>6 DEF AnyTypeOK, StatesTypeOK, objectVars, r
<1>7. CASE WriteBeyond /\ Send(l, msgs) /\ UNCHANGED running
  <2>1. StatesTypeOK'
    BY <1>7, WriteBeyondType DEF AnyTypeOK
  <2> DEFINE reply == [k \in Links |-> IF k = l THEN msgs ELSE <<>>]
  <2>2. \A k \in Links : outbox[k] \o <<>> = outbox[k]
    BY ConcatEmptySeq DEF AnyTypeOK
  <2>3. outbox' = [k \in Links |-> outbox[k] \o reply[k]]
    BY <1>7, <2>2 DEF Send, AnyTypeOK
  <2>4. reply \in [Links -> Seq(CausedBy(r))] /\ \A k \in Links \ {l} : reply[k] = <<>>
    BY <1>5, EmptySeq
  <2>5. AckPositions(<<>>) = {} /\ reply[l] = msgs
    BY DEF AckPositions, Positions
  <2>6. outbox' \in [Links -> Seq(AnyToBsc)]
    <3>1. Seq(CausedBy(r)) \subseteq Seq(AnyToBsc)
      BY <1>1, CausedByType, SeqMonotonic
    <3>2. \A k \in Links : reply[k] \in Seq(AnyToBsc)
      BY <2>4, <3>1
    <3> HIDE DEF reply
    <3>3. \A k \in Links : outbox[k] \o reply[k] \in Seq(AnyToBsc)
      BY <3>2, ConcatProperties DEF AnyTypeOK
    <3> QED BY <2>3, <3>3
  <2> HIDE DEF reply
  <2>7. Answers(l, r)
    BY <1>5, <2>3, <2>4, <2>5 DEF Answers
  <2> QED BY <1>1, <1>3, <2>1, <2>6, <2>7 DEF AnyTypeOK, r
<1> QED BY <1>4, <1>6, <1>7 DEF WriteAndSend
-----------------------------------------------------------------------------
LEMMA BtsInitType == BtsInit => BtsTypeOK
<1> SUFFICES ASSUME BtsInit PROVE BtsTypeOK
  OBVIOUS
<1>1. running \in BOOLEAN /\ bts_id_resp \in BOOLEAN
  BY DEF BtsInit
<1>2. sw_site_manager \in SwStates /\ sw_bts \in SwStates
  BY DEF BtsInit, SwStates
<1>3. opstate \in [Objects -> OpStates] /\ admin_state \in [Objects -> AdminStates]
  BY DEF BtsInit, InitialState, OpStates, AdminStates
<1>4. inbox \in [Links -> Seq(ToBts)] /\ outbox \in [Links -> Seq(ToBsc)]
  BY EmptySeq DEF BtsInit
<1> QED BY <1>1, <1>2, <1>3, <1>4 DEF BtsTypeOK, StatesTypeOK

\* Whatever a BSC sends, on either link and in any order, with any byte for a
\* timeslot and any for a state, every stored state is a byte of the model and
\* every message sent is one the protocol has, about an object that was named.
THEOREM BtsTypeCorrect == AnySpec => []AnyTypeOK
<1>1. BtsInit => AnyTypeOK
  BY BtsInitType, NarrowTypes
<1>2. AnyTypeOK /\ [AnyNext]_btsVars => AnyTypeOK'
  <2> SUFFICES ASSUME AnyTypeOK, [AnyNext]_btsVars PROVE AnyTypeOK'
    OBVIOUS
  <2>1. ASSUME NEW l \in Links, BtsHandles(l) PROVE AnyTypeOK'
    <3>1. Ordinary(l) \/ OpstartBeyond(l) \/ ChgAdmStateBeyond(l)
      BY <2>1 DEF BtsHandles, Ordinary
    <3> QED BY <3>1, AnyHandlerStep, BeyondStep
  <2>2. ASSUME NEW l \in Links, BscWrites(l) PROVE AnyTypeOK'
    <3>1. PICK m \in AnyToBts : inbox' = [inbox EXCEPT ![l] = Append(@, m)]
      BY <2>2 DEF BscWrites
    <3>2. Append(inbox[l], m) \in Seq(AnyToBts)
      BY AppendProperties DEF AnyTypeOK
    <3> QED BY <2>2, <3>1, <3>2 DEF BscWrites, AnyTypeOK, StatesTypeOK, objectVars
  <2>3. CASE BscReads
    BY <2>3, EmptySeq DEF BscReads, AnyTypeOK, StatesTypeOK, objectVars
  <2>4. CASE UNCHANGED btsVars
    BY <2>4 DEF btsVars, objectVars, AnyTypeOK, StatesTypeOK
  <2> QED BY <2>1, <2>2, <2>3, <2>4 DEF AnyNext
<1> QED BY <1>1, <1>2, PTL DEF AnySpec

\* A stream is not what is left of it.
LEMMA TailDiffers ==
    ASSUME NEW S, NEW s \in Seq(S), s # <<>>
    PROVE  Tail(s) # s
<1> DEFINE t == Tail(s)
<1>1. Len(s) \in Nat /\ Len(t) = Len(s) - 1
  BY LenProperties, HeadTailProperties
<1> HIDE DEF t
<1>2. t # s
  BY <1>1
<1> QED BY <1>2 DEF t

\* What is sent beyond the end of a stream.
LEMMA SentIs ==
    ASSUME NEW S, NEW s \in Seq(S), NEW t \in Seq(S)
    PROVE  SubSeq(s \o t, Len(s) + 1, Len(s \o t)) = t
<1> DEFINE n == Len(s)
           k == Len(t)
           u == s \o t
<1>1. n \in Nat /\ k \in Nat /\ u \in Seq(S) /\ Len(u) = n + k
  BY LenProperties, ConcatProperties
<1>2. \A i \in 1 .. n + k : u[i] = IF i <= n THEN s[i] ELSE t[i - n]
  BY ConcatProperties
<1> HIDE DEF u
<1>3. SubSeq(u, n + 1, n + k) \in Seq(S) /\ Len(SubSeq(u, n + 1, n + k)) = k
  BY <1>1, SubSeqProperties
<1>4. ASSUME NEW i \in 1 .. k PROVE SubSeq(u, n + 1, n + k)[i] = t[i]
  <2>1. SubSeq(u, n + 1, n + k)[i] = u[n + 1 + i - 1]
    BY <1>1, SubSeqProperties
  <2>2. n + 1 + i - 1 = n + i /\ n + i \in 1 .. n + k /\ n + i > n /\ n + i - n = i
    BY <1>1
  <2> HIDE DEF n, k
  <2> QED BY <1>1, <1>2, <2>1, <2>2, SMTT(30)
<1> HIDE DEF n, k
<1>5. SubSeq(u, n + 1, n + k) = t
  BY <1>3, <1>4, SeqEqual DEF k
<1> QED BY <1>1, <1>5 DEF u, n

\* What a handler sends is its reply.
LEMMA SentReply ==
    ASSUME NEW T, outbox \in [Links -> Seq(T)], NEW r, CausedBy(r) \subseteq T,
           NEW reply \in [Links -> Seq(CausedBy(r))],
           outbox' = [k \in Links |-> outbox[k] \o reply[k]], NEW l \in Links
    PROVE  Sent(l) = reply[l]
<1>1. outbox[l] \in Seq(T) /\ reply[l] \in Seq(T)
  <2>1. Seq(CausedBy(r)) \subseteq Seq(T)
    BY SeqMonotonic
  <2> QED BY <2>1
<1>2. outbox'[l] = outbox[l] \o reply[l]
  OBVIOUS
<1> QED BY <1>1, <1>2, SentIs DEF Sent

\* Among the messages s that answer r, the first and no other acknowledges it; none
\* does when r is about no object of the BTS and the program is lost.
AckedOrLost(s, r) ==
    IF IsRequest(r)
    THEN \/ AckPositions(s) = {1} /\ s[1] = About(AckOf(r.type), r.obj)
         \/ AckPositions(s) = {} /\ r.obj \notin Objects /\ ~running'
    ELSE AckPositions(s) = {}

\* Every request that is acknowledged at all is acknowledged once, about its own
\* object and before anything else it causes, whatever else the BSC sends, though the
\* branches of a handler test the class in the buffer that their own answers
\* overwrite; only a program lost to a write beyond its arrays does not answer.
THEOREM AcknowledgesOnce == AnySpec => OneAckPerRequest
<1> DEFINE Acks ==
      \A l \in Links :
         LET acks == Positions(Sent(l), LAMBDA m : m.type \in AckTypes) IN
         IF Handles(l) /\ IsRequest(Head(inbox[l]))
         THEN LET r == Head(inbox[l]) IN
              \/ acks = {1} /\ Sent(l)[1] = About(AckOf(r.type), r.obj)
              \/ acks = {} /\ r.obj \notin Objects /\ ~running'
         ELSE acks = {}
<1>1. AnyTypeOK /\ [AnyNext]_btsVars => [Acks]_btsVars
  <2> SUFFICES ASSUME AnyTypeOK, AnyNext PROVE Acks
    OBVIOUS
  <2>1. SUFFICES ASSUME NEW k \in Links
                 PROVE  IF Handles(k) /\ IsRequest(Head(inbox[k]))
                        THEN AckedOrLost(Sent(k), Head(inbox[k]))
                        ELSE AckPositions(Sent(k)) = {}
    BY DEF AckedOrLost, AckPositions
  <2>2. \A j \in Links : inbox[j] \in Seq(AnyToBts) /\ outbox[j] \in Seq(AnyToBsc)
    BY DEF AnyTypeOK
  <2>3. ASSUME inbox[k] = inbox'[k] \/ inbox[k] = <<>>, AckPositions(Sent(k)) = {}
        PROVE  IF Handles(k) /\ IsRequest(Head(inbox[k]))
               THEN AckedOrLost(Sent(k), Head(inbox[k]))
               ELSE AckPositions(Sent(k)) = {}
    <3>1. ~Handles(k)
      BY <2>2, <2>3, TailDiffers DEF Handles
    <3> QED BY <2>3, <3>1
  <2>4. ASSUME outbox'[k] = outbox[k] \/ outbox'[k] = <<>>
        PROVE  AckPositions(Sent(k)) = {}
    <3>1. Len(Sent(k)) = 0
      BY <2>2, <2>4, LenProperties DEF Sent
    <3> QED BY <3>1 DEF AckPositions, Positions
  <2>5. ASSUME NEW l \in Links, BtsHandles(l)
        PROVE  IF Handles(k) /\ IsRequest(Head(inbox[k]))
               THEN AckedOrLost(Sent(k), Head(inbox[k]))
               ELSE AckPositions(Sent(k)) = {}
    <3> DEFINE r == Head(inbox[l])
    <3>1. /\ inbox[l] # <<>> /\ inbox' = [inbox EXCEPT ![l] = Tail(@)]
          /\ r \in AnyToBts
          /\ \/ Answers(l, r)
             \/ outbox' = outbox /\ IsRequest(r) /\ r.obj \notin Objects /\ ~running'
      <4>1. CASE Ordinary(l)
        <5>1. AnyEffect(l)
          BY <4>1, AnyHandlerStep
        <5>2. r \in AnyToBts
          BY <2>2, <5>1, HeadTailProperties DEF AnyEffect
        <5>3. Answers(l, r)
          BY <5>1 DEF AnyEffect, Replies, Answers
        <5> QED BY <5>1, <5>2, <5>3 DEF AnyEffect
      <4>2. CASE OpstartBeyond(l) \/ ChgAdmStateBeyond(l)
        BY <4>2, BeyondStep
      <4> QED BY <2>5, <4>1, <4>2 DEF BtsHandles, Ordinary
    <3> HIDE DEF r
    <3>2. Handles(l) /\ \A j \in Links : j # l => inbox'[j] = inbox[j]
      BY <3>1 DEF Handles, AnyTypeOK
    <3>3. CASE Answers(l, r)
      <4>1. PICK reply \in [Links -> Seq(CausedBy(r))] :
              /\ outbox' = [j \in Links |-> outbox[j] \o reply[j]]
              /\ Acked(reply[l], r) /\ \A j \in Links \ {l} : AckPositions(reply[j]) = {}
        BY <3>3 DEF Answers
      <4>2. CausedBy(r) \subseteq AnyToBsc /\ outbox \in [Links -> Seq(AnyToBsc)]
        BY <3>1, CausedByType DEF AnyTypeOK
      <4>3. Sent(k) = reply[k]
        BY <4>1, <4>2, SentReply
      <4>4. CASE k = l
        BY <3>2, <4>1, <4>3, <4>4 DEF Acked, AckedOrLost, r
      <4>5. CASE k # l
        BY <2>3, <3>2, <4>1, <4>3, <4>5
      <4> QED BY <4>4, <4>5
    <3>4. CASE outbox' = outbox /\ IsRequest(r) /\ r.obj \notin Objects /\ ~running'
      <4>1. AckPositions(Sent(k)) = {}
        BY <2>4, <3>4
      <4>2. CASE k = l
        BY <3>2, <3>4, <4>1, <4>2 DEF AckedOrLost, r
      <4>3. CASE k # l
        BY <2>3, <3>2, <4>1, <4>3
      <4> QED BY <4>2, <4>3
    <3> QED BY <3>1, <3>3, <3>4
  <2>6. ASSUME NEW l \in Links, BscWrites(l)
        PROVE  inbox[k] = <<>> /\ outbox'[k] = outbox[k]
    BY <2>6 DEF BscWrites
  <2>7. CASE BscReads
    <3>1. inbox[k] = <<>> /\ outbox'[k] = <<>>
      BY <2>7 DEF BscReads
    <3> QED BY <2>3, <2>4, <3>1
  <2> QED BY <2>3, <2>4, <2>5, <2>6, <2>7 DEF AnyNext
<1> QED BY <1>1, BtsTypeCorrect, PTL DEF AnySpec, OneAckPerRequest
-----------------------------------------------------------------------------
(* Order in streams.                                                       *)

\* In stream s every d comes behind a c; every message of C comes before a d.
Leads(s, c, d) == \A i \in 1 .. Len(s) : s[i] = d => \E j \in 1 .. i - 1 : s[j] = c
Trails(s, C, d) == \A i \in 1 .. Len(s) : s[i] \in C => \E j \in i + 1 .. Len(s) : s[j] = d

\* What is known of a stream t that is s without its first message e.
Consumes(s, e, t) ==
    /\ e \in Elements(s) /\ Elements(t) \subseteq Elements(s)
    /\ \A x \in Elements(s) : x = e \/ x \in Elements(t)
    /\ \A c, d : c # d /\ Leads(s, c, d) => e # d /\ (e = c \/ Leads(t, c, d))
    /\ \A C, d : Trails(s, C, d) => Trails(t, C, d) /\ (e \in C => d \in Elements(t))

\* What is known of a stream t that is s with the messages u behind it.
Extends(s, u, t) ==
    /\ Elements(t) = Elements(s) \cup Elements(u)
    /\ \A c, d : Leads(s, c, d) /\ (d \in Elements(u) => c \in Elements(s) \/ Leads(u, c, d))
                   => Leads(t, c, d)
    /\ \A C, d : Trails(u, C, d) /\ (Trails(s, C, d) \/ d \in Elements(u)) => Trails(t, C, d)

LEMMA TailConsumes ==
    ASSUME NEW S, NEW s \in Seq(S), s # <<>>
    PROVE  Consumes(s, Head(s), Tail(s))
<1> DEFINE n == Len(s)
           e == Head(s)
           t == Tail(s)
<1>1. n \in Nat /\ n > 0 /\ Len(t) = n - 1 /\ e = s[1]
      /\ \A i \in 1 .. n - 1 : t[i] = s[i + 1]
  <2>1. n \in Nat \ {0}
    BY EmptySeq, LenProperties
  <2>2. t \in Seq(S) /\ Len(t) = n - 1 /\ \A i \in 1 .. Len(t) : t[i] = s[i + 1]
    BY HeadTailProperties
  <2> QED BY <2>1, <2>2
<1> HIDE DEF n, e, t
<1>2. e \in Elements(s) /\ Elements(t) \subseteq Elements(s)
  BY <1>1 DEF Elements, n
<1>3. ASSUME NEW i \in 1 .. n, i # 1
      PROVE  i - 1 \in 1 .. n - 1 /\ t[i - 1] = s[i]
  <2>1. i - 1 \in 1 .. n - 1 /\ (i - 1) + 1 = i
    BY <1>1, <1>3
  <2> QED BY <1>1, <2>1
<1>4. ASSUME NEW x \in Elements(s) PROVE x = e \/ x \in Elements(t)
  <2>1. PICK i \in 1 .. n : x = s[i]
    BY <1>4 DEF Elements, n
  <2>2. CASE i = 1
    BY <1>1, <2>1, <2>2
  <2>3. CASE i # 1
    BY <1>1, <1>3, <2>1, <2>3 DEF Elements
  <2> QED BY <2>2, <2>3
<1>5. ASSUME NEW c, NEW d, c # d, Leads(s, c, d)
      PROVE  e # d /\ (e = c \/ Leads(t, c, d))
  <2>1. e # d
    BY <1>1, <1>5 DEF Leads, n
  <2>2. ASSUME e # c, NEW i \in 1 .. n - 1, t[i] = d
        PROVE  \E j \in 1 .. i - 1 : t[j] = c
    <3>1. i + 1 \in 1 .. n /\ s[i + 1] = d
      BY <1>1, <2>2
    <3>2. PICK j \in 1 .. i : s[j] = c
      BY <1>1, <1>5, <3>1 DEF Leads, n
    <3>3. j # 1 /\ j \in 1 .. n
      BY <1>1, <2>2, <3>2
    <3>4. t[j - 1] = c /\ j - 1 \in 1 .. i - 1
      BY <1>1, <1>3, <3>2, <3>3
    <3> QED BY <3>4
  <2> QED BY <1>1, <2>1, <2>2 DEF Leads
<1>6. ASSUME NEW C, NEW d, Trails(s, C, d)
      PROVE  Trails(t, C, d) /\ (e \in C => d \in Elements(t))
  <2>1. ASSUME NEW i \in 1 .. n, s[i] \in C
        PROVE  \E j \in i .. n - 1 : t[j] = d
    <3>1. PICK j \in i + 1 .. n : s[j] = d
      BY <1>6, <2>1 DEF Trails, n
    <3>2. j \in 1 .. n /\ j # 1 /\ j - 1 \in i .. n - 1
      BY <1>1, <3>1
    <3> QED BY <1>3, <3>1, <3>2
  <2>2. ASSUME NEW i \in 1 .. n - 1, t[i] \in C
        PROVE  \E j \in i + 1 .. n - 1 : t[j] = d
    <3>1. i + 1 \in 1 .. n /\ s[i + 1] \in C
      BY <1>1, <2>2
    <3> QED BY <2>1, <3>1
  <2>3. e \in C => d \in Elements(t)
    <3> SUFFICES ASSUME e \in C PROVE d \in Elements(t)
      OBVIOUS
    <3>1. 1 \in 1 .. n /\ s[1] \in C
      BY <1>1
    <3>2. PICK j \in 1 .. n - 1 : t[j] = d
      BY <2>1, <3>1
    <3> QED BY <1>1, <3>2 DEF Elements
  <2> QED BY <1>1, <2>2, <2>3 DEF Trails
<1> QED BY <1>2, <1>4, <1>5, <1>6 DEF Consumes, e, t

LEMMA ConcatExtends ==
    ASSUME NEW S, NEW s \in Seq(S), NEW u \in Seq(S)
    PROVE  Extends(s, u, s \o u)
<1> DEFINE n == Len(s)
           k == Len(u)
           t == s \o u
<1>1. n \in Nat /\ k \in Nat /\ Len(t) = n + k
  BY LenProperties, ConcatProperties
<1>2. \A i \in 1 .. n + k : t[i] = IF i <= n THEN s[i] ELSE u[i - n]
  BY ConcatProperties
<1>3. Elements(t) = Elements(s) \cup Elements(u)
  BY ElementsConcat
<1> HIDE DEF n, k, t
<1>4. (\A i \in 1 .. n : i \in 1 .. n + k /\ t[i] = s[i])
      /\ (\A i \in 1 .. k : n + i \in 1 .. n + k /\ t[n + i] = u[i])
  BY <1>1, <1>2
<1>5. ASSUME NEW i \in 1 .. n + k, i \notin 1 .. n
      PROVE  i - n \in 1 .. k /\ t[i] = u[i - n]
  BY <1>1, <1>2, <1>5
<1>6. ASSUME NEW c, NEW d, Leads(s, c, d),
             d \in Elements(u) => c \in Elements(s) \/ Leads(u, c, d)
      PROVE  Leads(t, c, d)
  <2> SUFFICES ASSUME NEW i \in 1 .. n + k, t[i] = d
               PROVE  \E j \in 1 .. i - 1 : t[j] = c
    BY <1>1 DEF Leads
  <2>1. CASE i \in 1 .. n
    <3>1. PICK j \in 1 .. i - 1 : s[j] = c
      BY <1>4, <1>6, <2>1 DEF Leads, n
    <3>2. j \in 1 .. n
      BY <1>1, <2>1, <3>1
    <3> QED BY <1>4, <3>1, <3>2
  <2>2. CASE i \notin 1 .. n
    <3>1. i - n \in 1 .. k /\ u[i - n] = d
      BY <1>5, <2>2
    <3>2. CASE c \in Elements(s)
      <4>1. PICK j \in 1 .. n : s[j] = c
        BY <3>2 DEF Elements, n
      <4>2. j \in 1 .. i - 1
        BY <1>1, <2>2, <4>1
      <4> QED BY <1>4, <4>1, <4>2
    <3>3. CASE c \notin Elements(s)
      <4>1. Leads(u, c, d)
        BY <1>6, <3>1, <3>3 DEF Elements, k
      <4>2. PICK j \in 1 .. (i - n) - 1 : u[j] = c
        BY <3>1, <4>1 DEF Leads, k
      <4>3. j \in 1 .. k /\ n + j \in 1 .. i - 1
        BY <1>1, <3>1, <4>2
      <4> QED BY <1>4, <4>2, <4>3
    <3> QED BY <3>2, <3>3
  <2> QED BY <2>1, <2>2
<1>7. ASSUME NEW C, NEW d, Trails(u, C, d), Trails(s, C, d) \/ d \in Elements(u)
      PROVE  Trails(t, C, d)
  <2> SUFFICES ASSUME NEW i \in 1 .. n + k, t[i] \in C
               PROVE  \E j \in i + 1 .. n + k : t[j] = d
    BY <1>1 DEF Trails
  <2>1. CASE i \in 1 .. n
    <3>1. CASE d \in Elements(u)
      <4>1. PICK j \in 1 .. k : u[j] = d
        BY <3>1 DEF Elements, k
      <4>2. n + j \in i + 1 .. n + k
        BY <1>1, <2>1, <4>1
      <4> QED BY <1>4, <4>1, <4>2
    <3>2. CASE Trails(s, C, d)
      <4>1. PICK j \in i + 1 .. n : s[j] = d
        BY <1>4, <2>1, <3>2 DEF Trails, n
      <4>2. j \in 1 .. n /\ j \in i + 1 .. n + k
        BY <1>1, <2>1, <4>1
      <4> QED BY <1>4, <4>1, <4>2
    <3> QED BY <1>7, <3>1, <3>2
  <2>2. CASE i \notin 1 .. n
    <3>1. i - n \in 1 .. k /\ u[i - n] \in C
      BY <1>5, <2>2
    <3>2. PICK j \in (i - n) + 1 .. k : u[j] = d
      BY <1>7, <3>1 DEF Trails, k
    <3>3. j \in 1 .. k /\ n + j \in i + 1 .. n + k
      BY <1>1, <3>1, <3>2
    <3> QED BY <1>4, <3>2, <3>3
  <2> QED BY <2>1, <2>2
<1> QED BY <1>3, <1>6, <1>7 DEF Extends, t
-----------------------------------------------------------------------------
(* The BSC.                                                                *)

\* What message m of the BTS makes the BSC send.
ProvokedBy(m) ==
    {r \in ToBts :
       /\ r.type \in {"SW_ACT_REQ_ACK", "ACTIVATE_SW"} => m = About("SW_ACT_REQ", r.obj)
       /\ r.type = "OPSTART" =>
            \/ r.obj = SiteManager /\ m = Managed
            \/ r.obj \in {Bts} \cup ChannelObjects /\ ReportsWaiting(m) /\ m.obj = r.obj
            \/ r.obj \in {BasebTransc, RadioCarrier} /\ m = About("SW_ACTIVATED_REP", r.obj)
       /\ r.type = "CHG_ADM_STATE" => r.adm = "UNLOCKED"
       /\ r.type = "RSL_CONNECT" => m = About("SW_ACTIVATED_REP", BasebTransc)
       /\ r.type \notin {"ID_GET", "PING"}}

LEMMA RequestTypes ==
    /\ \A o \in Objects, t \in ObjectRequests :
          About(t, o) \in ToBts /\ About(t, o).type = t /\ About(t, o).obj = o
    /\ \A t \in LinkRequests : Plain(t) \in ToBts /\ Plain(t).type = t
    /\ \A o \in Objects : AdmRequest(o, "UNLOCKED") \in ToBts
                          /\ AdmRequest(o, "UNLOCKED").type = "CHG_ADM_STATE"
                          /\ AdmRequest(o, "UNLOCKED").adm = "UNLOCKED"
                          /\ AdmRequest(o, "UNLOCKED").obj = o
    /\ \A r \in AttrRequests(Objects) : r \in ToBts
                          /\ r.type \in {"SET_BTS_ATTR", "SET_CHAN_ATTR", "SET_RADIO_ATTR"}
    /\ About("SET_BTS_ATTR", Bts) \in AttrRequests(Objects)
    /\ About("SET_RADIO_ATTR", RadioCarrier) \in AttrRequests(Objects)
    /\ \A o \in ChannelObjects : About("SET_CHAN_ATTR", o) \in AttrRequests(Objects)
<1> DEFINE A == AttrRequests(Objects)
<1>1. A \subseteq ToBts
  BY DEF ToBts, RequestsAbout
<1>2. \A r \in A : r.type \in {"SET_BTS_ATTR", "SET_CHAN_ATTR", "SET_RADIO_ATTR"}
  BY DEF AttrRequests, About
<1>3. \A o \in Objects, t \in ObjectRequests :
          About(t, o) \in ToBts /\ About(t, o).type = t /\ About(t, o).obj = o
  BY DEF About, ToBts, RequestsAbout
<1>4. \A t \in LinkRequests : Plain(t) \in ToBts /\ Plain(t).type = t
  BY DEF Plain, ToBts, RequestsAbout
<1>5. \A o \in Objects : AdmRequest(o, "UNLOCKED") \in ToBts
                          /\ AdmRequest(o, "UNLOCKED").type = "CHG_ADM_STATE"
                          /\ AdmRequest(o, "UNLOCKED").adm = "UNLOCKED"
                          /\ AdmRequest(o, "UNLOCKED").obj = o
  BY UnlockAssumption DEF AdmRequest, ToBts, RequestsAbout
<1>6. /\ About("SET_BTS_ATTR", Bts) \in A /\ About("SET_RADIO_ATTR", RadioCarrier) \in A
      /\ \A o \in ChannelObjects : About("SET_CHAN_ATTR", o) \in A
  <2>1. ChannelObjects \subseteq Objects \ SingleObjects
    BY ObjectTypes, ObjectsDiffer
  <2> QED BY <2>1 DEF AttrRequests
<1> HIDE DEF A
<1>7. \A r \in A : r \in ToBts /\ r.type \in {"SET_BTS_ATTR", "SET_CHAN_ATTR", "SET_RADIO_ATTR"}
  BY <1>1, <1>2
<1> QED BY <1>3, <1>4, <1>5, <1>6, <1>7 DEF A

LEMMA SoftwareReplyShape ==
    ASSUME NEW m \in ToBsc, m.type \in ObjectReplies
    PROVE  m.obj \in Objects /\ m = About(m.type, m.obj)
BY DEF ToBsc, RepliesAbout, About, ObjectReplies

LEMMA ReportShape ==
    ASSUME NEW m \in ToBsc, m.type = "STATECHG_EVENT_REP"
    PROVE  /\ m.obj \in Objects /\ m.op \in OpStates /\ m.adm \in AdminStates
           /\ m = StateChg(m.obj, m.op, m.av, m.adm)
BY DEF ToBsc, RepliesAbout, ObjectReplies, StateChg

\* The answer to each message, spelled out.
SetAndStart(set, o) == <<set, AdmRequest(o, "UNLOCKED"), About("OPSTART", o)>>

\* A concatenation of three messages, element by element.
LEMMA ConcatOfThree ==
    ASSUME NEW S, NEW s \in Seq(S), NEW t \in Seq(S), NEW u \in Seq(S),
           Len(u) = 3, u[1] = s[1]
    PROVE  /\ Len(s) = 1 /\ Len(t) = 2 /\ u[2] = t[1] /\ u[3] = t[2] => s \o t = u
           /\ Len(s) = 2 /\ Len(t) = 1 /\ u[2] = s[2] /\ u[3] = t[1] => s \o t = u
<1> DEFINE w == s \o t
<1>1. w \in Seq(S) /\ Len(w) = Len(s) + Len(t)
  BY ConcatProperties
<1>2. \A i \in 1 .. Len(s) + Len(t) : w[i] = IF i <= Len(s) THEN s[i] ELSE t[i - Len(s)]
  BY ConcatProperties
<1> HIDE DEF w
<1>3. Len(s) = 1 /\ Len(t) = 2 => w[1] = s[1] /\ w[2] = t[1] /\ w[3] = t[2]
  BY <1>2
<1>4. Len(s) = 2 /\ Len(t) = 1 => w[1] = s[1] /\ w[2] = s[2] /\ w[3] = t[1]
  BY <1>2
<1>5. ASSUME Len(w) = 3, w[1] = u[1], w[2] = u[2], w[3] = u[3]
      PROVE  w = u
  <2>1. ASSUME NEW i \in 1 .. Len(w) PROVE w[i] = u[i]
    <3>1. i = 1 \/ i = 2 \/ i = 3
      BY <1>5
    <3> QED BY <1>5, <3>1
  <2>2. Len(w) = Len(u)
    BY <1>5
  <2> QED BY <1>1, <2>1, <2>2, SeqEqual, Zenon
<1>6. CASE Len(s) = 1 /\ Len(t) = 2
  <2>1. Len(w) = 3
    BY <1>1, <1>6
  <2> HIDE <1>1, <1>2
  <2> QED BY <1>3, <1>5, <1>6, <2>1 DEF w
<1>7. CASE Len(s) = 2 /\ Len(t) = 1
  <2>1. Len(w) = 3
    BY <1>1, <1>7
  <2> HIDE <1>1, <1>2
  <2> QED BY <1>4, <1>5, <1>7, <2>1 DEF w
<1> QED BY <1>6, <1>7

LEMMA TwoAndOne ==
    ASSUME NEW a, NEW b, NEW c
    PROVE  <<a>> \o <<b, c>> = <<a, b, c>> /\ <<a, b>> \o <<c>> = <<a, b, c>>
<1> DEFINE S == {a, b, c}
           u == <<a, b, c>>
<1>0. u \in Seq(S) /\ Len(u) = 3 /\ u[1] = a /\ u[2] = b /\ u[3] = c
  OBVIOUS
<1>2. <<a>> \o <<b, c>> = u
  <2> DEFINE s == <<a>>
             t == <<b, c>>
  <2>1. s \in Seq(S) /\ t \in Seq(S) /\ Len(s) = 1 /\ Len(t) = 2
    OBVIOUS
  <2>2. s[1] = a /\ t[1] = b /\ t[2] = c
    OBVIOUS
  <2> HIDE DEF s, t, u, S
  <2>5. s \o t = u
    BY <1>0, <2>1, <2>2, ConcatOfThree
  <2> QED BY <2>5 DEF s, t
<1>3. <<a, b>> \o <<c>> = u
  <2> DEFINE s == <<a, b>>
             t == <<c>>
  <2>1. s \in Seq(S) /\ t \in Seq(S) /\ Len(s) = 2 /\ Len(t) = 1
    OBVIOUS
  <2>2. s[1] = a /\ s[2] = b /\ t[1] = c
    OBVIOUS
  <2> HIDE DEF s, t, u, S
  <2>5. s \o t = u
    BY <1>0, <2>1, <2>2, ConcatOfThree
  <2> QED BY <2>5 DEF s, t
<1> QED BY <1>2, <1>3 DEF u

LEMMA ReactionValue ==
    ASSUME NEW m \in ToBsc
    PROVE  LET software == m.type = "SW_ACT_REQ"
               bts == m = Waits(Bts)
               channel == ReportsWaiting(m) /\ m.obj \in ChannelObjects
               radio == m = About("SW_ACTIVATED_REP", RadioCarrier)
               baseb == m = About("SW_ACTIVATED_REP", BasebTransc)
               R == Reaction(m)
           IN  /\ software => R = <<About("SW_ACT_REQ_ACK", m.obj), About("ACTIVATE_SW", m.obj)>>
               /\ m = Managed => R = <<About("OPSTART", SiteManager)>>
               /\ bts => R = SetAndStart(About("SET_BTS_ATTR", Bts), Bts)
               /\ channel => R = SetAndStart(About("SET_CHAN_ATTR", m.obj), m.obj)
               /\ radio => R = SetAndStart(About("SET_RADIO_ATTR", RadioCarrier), RadioCarrier)
               /\ baseb => R = <<AdmRequest(BasebTransc, "UNLOCKED"),
                                 About("OPSTART", BasebTransc), Plain("RSL_CONNECT")>>
               /\ ~software /\ m # Managed /\ ~bts /\ ~channel /\ ~radio /\ ~baseb => R = <<>>
<1> DEFINE start(o) == <<AdmRequest(o, "UNLOCKED"), About("OPSTART", o)>>
           software == m.type = "SW_ACT_REQ"
           managed == m = Managed
           bts == m = Waits(Bts)
           channel == ReportsWaiting(m) /\ m.obj \in ChannelObjects
           radio == m = About("SW_ACTIVATED_REP", RadioCarrier)
           baseb == m = About("SW_ACTIVATED_REP", BasebTransc)
           activate == <<About("SW_ACT_REQ_ACK", m.obj), About("ACTIVATE_SW", m.obj)>>
           setBts == <<About("SET_BTS_ATTR", Bts)>> \o start(Bts)
           setChannel == <<About("SET_CHAN_ATTR", m.obj)>> \o start(m.obj)
           setRadio == <<About("SET_RADIO_ATTR", RadioCarrier)>> \o start(RadioCarrier)
           connect == start(BasebTransc) \o <<Plain("RSL_CONNECT")>>
\* The cases are disjoint.
<1>1. /\ ~(software /\ managed) /\ ~(software /\ bts) /\ ~(software /\ channel)
      /\ ~(software /\ radio) /\ ~(software /\ baseb)
  BY DEF Managed, Waits, ReportsWaiting, StateChg, About
<1>2. /\ ~(managed /\ bts) /\ ~(managed /\ channel)
      /\ ~(managed /\ radio) /\ ~(managed /\ baseb)
  BY DEF Managed, Waits, ReportsWaiting, StateChg, About
<1>3. ~(bts /\ channel)
  <2>1. bts => m.obj = Bts
    BY DEF Waits, StateChg
  <2> QED BY <2>1, ObjectTypes, ObjectsDiffer
<1>4. /\ ~(bts /\ radio) /\ ~(bts /\ baseb) /\ ~(channel /\ radio) /\ ~(channel /\ baseb)
  BY DEF Waits, ReportsWaiting, StateChg, About
<1>5. ~(radio /\ baseb)
  BY ObjectsDiffer DEF About
<1>6. Reaction(m) = CASE software -> activate
                      [] managed  -> <<About("OPSTART", SiteManager)>>
                      [] bts      -> setBts
                      [] channel  -> setChannel
                      [] radio    -> setRadio
                      [] baseb    -> connect
                      [] OTHER    -> <<>>
  BY Zenon DEF Reaction, Managed, Waits, ReportsWaiting
<1>7. /\ setBts = SetAndStart(About("SET_BTS_ATTR", Bts), Bts)
      /\ setChannel = SetAndStart(About("SET_CHAN_ATTR", m.obj), m.obj)
      /\ setRadio = SetAndStart(About("SET_RADIO_ATTR", RadioCarrier), RadioCarrier)
      /\ connect = <<AdmRequest(BasebTransc, "UNLOCKED"),
                     About("OPSTART", BasebTransc), Plain("RSL_CONNECT")>>
  BY TwoAndOne DEF SetAndStart
<1> HIDE DEF start, software, managed, bts, channel, radio, baseb, activate, setBts,
             setChannel, setRadio, connect
<1>8. /\ software => Reaction(m) = activate
      /\ managed => Reaction(m) = <<About("OPSTART", SiteManager)>>
      /\ bts => Reaction(m) = setBts
      /\ channel => Reaction(m) = setChannel
      /\ radio => Reaction(m) = setRadio
      /\ baseb => Reaction(m) = connect
      /\ ~software /\ ~managed /\ ~bts /\ ~channel /\ ~radio /\ ~baseb => Reaction(m) = <<>>
  BY <1>1, <1>2, <1>3, <1>4, <1>5, <1>6, Zenon
<1> QED BY <1>7, <1>8 DEF software, managed, bts, channel, radio, baseb, activate

\* Requests that nothing has to provoke.
LEMMA FreeRequests ==
    ASSUME NEW m
    PROVE  /\ \A r \in AttrRequests(Objects) : r \in ProvokedBy(m)
           /\ \A o \in Objects : AdmRequest(o, "UNLOCKED") \in ProvokedBy(m)
<1>1. \A r \in AttrRequests(Objects) : r \in ProvokedBy(m)
  BY RequestTypes DEF ProvokedBy
<1>2. ASSUME NEW o \in Objects PROVE AdmRequest(o, "UNLOCKED") \in ProvokedBy(m)
  BY RequestTypes DEF ProvokedBy
<1> QED BY <1>1, <1>2

\* The BSC sends only what a message provokes, unlocks before it starts, and
\* connects the RSL link after it has started the transceiver.
LEMMA ReactionType ==
    ASSUME NEW m \in ToBsc
    PROVE  /\ Reaction(m) \in Seq(ProvokedBy(m))
           /\ \A o \in Objects \ {SiteManager} :
                 Leads(Reaction(m), AdmRequest(o, "UNLOCKED"), About("OPSTART", o))
           /\ Leads(Reaction(m), About("OPSTART", BasebTransc), Plain("RSL_CONNECT"))
<1> DEFINE S == ProvokedBy(m)
           Unlocks(R) == \A o \in Objects \ {SiteManager} :
                            Leads(R, AdmRequest(o, "UNLOCKED"), About("OPSTART", o))
           Connects(R) == Leads(R, About("OPSTART", BasebTransc), Plain("RSL_CONNECT"))
           Right(R) == R \in Seq(S) /\ Unlocks(R) /\ Connects(R)
<1>1. ASSUME NEW p \in Objects, NEW set \in AttrRequests(Objects), About("OPSTART", p) \in S
      PROVE  Right(SetAndStart(set, p))
  <2> DEFINE a == set
             b == AdmRequest(p, "UNLOCKED")
             c == About("OPSTART", p)
             R == <<a, b, c>>
  <2>1. a \in S /\ b \in S /\ c \in S
    BY <1>1, FreeRequests
  <2>2. R \in Seq(S)
    BY <2>1
  <2>3. /\ a.type \in {"SET_BTS_ATTR", "SET_CHAN_ATTR", "SET_RADIO_ATTR"}
        /\ b.type = "CHG_ADM_STATE" /\ c.type = "OPSTART" /\ c.obj = p
    BY RequestTypes DEF ObjectRequests
  <2>4. ASSUME NEW o \in Objects \ {SiteManager}
        PROVE  Leads(R, AdmRequest(o, "UNLOCKED"), About("OPSTART", o))
    <3>1. About("OPSTART", o).type = "OPSTART" /\ About("OPSTART", o).obj = o
      BY DEF About
    <3>2. ASSUME NEW i \in 1 .. 3, R[i] = About("OPSTART", o)
          PROVE  i = 3 /\ p = o
      BY <2>3, <3>1, <3>2
    <3>3. Len(R) = 3 /\ R[2] = b
      OBVIOUS
    <3> HIDE DEF R
    <3> QED BY <3>2, <3>3 DEF Leads
  <2>5. Connects(R)
    <3>1. Plain("RSL_CONNECT").type = "RSL_CONNECT"
      BY DEF Plain
    <3>2. ASSUME NEW i \in 1 .. 3 PROVE R[i] # Plain("RSL_CONNECT")
      BY <2>3, <3>1
    <3>3. Len(R) = 3
      OBVIOUS
    <3> HIDE DEF R
    <3> QED BY <3>2, <3>3 DEF Leads
  <2> QED BY <2>2, <2>4, <2>5 DEF SetAndStart
<1>2. ASSUME NEW p \in {Bts} \cup ChannelObjects, ReportsWaiting(m), m.obj = p,
             NEW set \in AttrRequests(Objects)
      PROVE  Right(SetAndStart(set, p))
  <2>1. p \in Objects
    BY ObjectTypes
  <2>2. About("OPSTART", p) \in S
    BY <1>2, <2>1, RequestTypes DEF ProvokedBy, ObjectRequests
  <2> QED BY <1>1, <2>1, <2>2
<1>3. m.type = "SW_ACT_REQ" =>
        Right(<<About("SW_ACT_REQ_ACK", m.obj), About("ACTIVATE_SW", m.obj)>>)
  <2> SUFFICES ASSUME m.type = "SW_ACT_REQ"
               PROVE  Right(<<About("SW_ACT_REQ_ACK", m.obj), About("ACTIVATE_SW", m.obj)>>)
    OBVIOUS
  <2> DEFINE a == About("SW_ACT_REQ_ACK", m.obj)
             b == About("ACTIVATE_SW", m.obj)
             R == <<a, b>>
  <2>1. m.obj \in Objects /\ m = About("SW_ACT_REQ", m.obj)
    BY SoftwareReplyShape DEF ObjectReplies
  <2>2. a \in S /\ b \in S /\ a.type = "SW_ACT_REQ_ACK" /\ b.type = "ACTIVATE_SW"
    BY <2>1, RequestTypes DEF ProvokedBy, ObjectRequests
  <2>3. R \in Seq(S) /\ Len(R) = 2
    BY <2>2
  <2>4. ASSUME NEW i \in 1 .. 2 PROVE R[i].type \notin {"OPSTART", "RSL_CONNECT"}
    BY <2>2
  <2> HIDE DEF R
  <2>5. Unlocks(R)
    <3>1. \A o \in Objects : About("OPSTART", o).type = "OPSTART"
      BY DEF About
    <3> QED BY <2>3, <2>4, <3>1 DEF Leads
  <2>6. Connects(R)
    BY <2>3, <2>4 DEF Leads, Plain
  <2> QED BY <2>3, <2>5, <2>6 DEF R
<1>4. m = Managed => Right(<<About("OPSTART", SiteManager)>>)
  <2> SUFFICES ASSUME m = Managed PROVE Right(<<About("OPSTART", SiteManager)>>)
    OBVIOUS
  <2> DEFINE a == About("OPSTART", SiteManager)
             R == <<a>>
  <2>1. a \in S /\ a.type = "OPSTART" /\ a.obj = SiteManager
    BY RequestTypes, ObjectTypes DEF ProvokedBy, ObjectRequests
  <2>2. R \in Seq(S) /\ Len(R) = 1 /\ R[1] = a
    BY <2>1
  <2> HIDE DEF R
  <2>3. Unlocks(R)
    <3>1. \A o \in Objects : About("OPSTART", o).obj = o
      BY DEF About
    <3> QED BY <2>1, <2>2, <3>1 DEF Leads
  <2>4. Connects(R)
    BY <2>1, <2>2 DEF Leads, Plain
  <2> QED BY <2>2, <2>3, <2>4 DEF R
<1>5. m = Waits(Bts) => Right(SetAndStart(About("SET_BTS_ATTR", Bts), Bts))
  BY <1>2, RequestTypes DEF Waits, StateChg, ReportsWaiting
<1>6. ReportsWaiting(m) /\ m.obj \in ChannelObjects
        => Right(SetAndStart(About("SET_CHAN_ATTR", m.obj), m.obj))
  BY <1>2, RequestTypes
<1>7. m = About("SW_ACTIVATED_REP", RadioCarrier)
        => Right(SetAndStart(About("SET_RADIO_ATTR", RadioCarrier), RadioCarrier))
  <2>1. m = About("SW_ACTIVATED_REP", RadioCarrier) => About("OPSTART", RadioCarrier) \in S
    BY RequestTypes, ObjectTypes DEF ProvokedBy, ObjectRequests
  <2> QED BY <1>1, <2>1, ObjectTypes, RequestTypes
<1>8. m = About("SW_ACTIVATED_REP", BasebTransc)
        => Right(<<AdmRequest(BasebTransc, "UNLOCKED"), About("OPSTART", BasebTransc),
                   Plain("RSL_CONNECT")>>)
  <2> DEFINE a == AdmRequest(BasebTransc, "UNLOCKED")
             b == About("OPSTART", BasebTransc)
             c == Plain("RSL_CONNECT")
             R == <<a, b, c>>
  <2> SUFFICES ASSUME m = About("SW_ACTIVATED_REP", BasebTransc) PROVE Right(R)
    OBVIOUS
  <2>1. BasebTransc \in Objects
    BY ObjectTypes
  <2>2. /\ a \in S /\ a.type = "CHG_ADM_STATE"
        /\ b \in S /\ b.type = "OPSTART" /\ b.obj = BasebTransc
        /\ c \in S /\ c.type = "RSL_CONNECT"
    BY <2>1, FreeRequests, RequestTypes DEF ProvokedBy, ObjectRequests, LinkRequests
  <2>3. R \in Seq(S) /\ Len(R) = 3 /\ R[1] = a /\ R[2] = b
    BY <2>2
  <2>4. ASSUME NEW o \in Objects \ {SiteManager}
        PROVE  Leads(R, AdmRequest(o, "UNLOCKED"), About("OPSTART", o))
    <3>1. About("OPSTART", o).type = "OPSTART" /\ About("OPSTART", o).obj = o
      BY DEF About
    <3>2. ASSUME NEW i \in 1 .. 3, R[i] = About("OPSTART", o)
          PROVE  i = 2 /\ o = BasebTransc
      BY <2>2, <3>1, <3>2
    <3> HIDE DEF R
    <3> QED BY <2>3, <3>2 DEF Leads
  <2>5. Connects(R)
    <3>1. ASSUME NEW i \in 1 .. 3, R[i] = c PROVE i = 3
      BY <2>2, <3>1
    <3> HIDE DEF R
    <3> QED BY <2>3, <3>1 DEF Leads
  <2> QED BY <2>3, <2>4, <2>5
<1>9. Right(<<>>)
  BY EmptySeq DEF Leads
<1> HIDE DEF Right
<1>10. Right(Reaction(m))
  BY <1>3, <1>4, <1>5, <1>6, <1>7, <1>8, <1>9, ReactionValue
<1> QED BY <1>10 DEF Right
-----------------------------------------------------------------------------
(* Type correctness.                                                       *)

LEMMA TypeInit == Init => TypeOK
<1> SUFFICES ASSUME Init PROVE TypeOK
  OBVIOUS
<1>1. BtsTypeOK
  BY BtsInitType DEF Init
<1>2. view \in [Objects -> [op : OpStates, adm : AdminStates] \cup {NoReport}]
  BY DEF Init
<1>3. asksId \subseteq Links /\ pings \in 0 .. MaxPings /\ restarts \in 0 .. MaxRestarts
  BY BudgetAssumption DEF Init
<1> QED BY <1>1, <1>2, <1>3 DEF Init, TypeOK

\* What is remembered stays within the messages there are.
LEMMA RememberType ==
    ASSUME said \subseteq ToBsc, asked \subseteq ToBts, BtsTypeOK', Remember
    PROVE  said' \subseteq ToBsc /\ asked' \subseteq ToBts
<1>1. outbox'["OML"] \in Seq(ToBsc) /\ inbox'["OML"] \in Seq(ToBts)
  BY DEF BtsTypeOK, StatesTypeOK, Links
<1> QED BY <1>1, ElementsOf DEF Remember

LEMMA SendsType ==
    ASSUME TypeOK, NEW l \in Links, NEW r \in ToBts, BscSends(l, r)
    PROVE  BtsTypeOK' /\ said' \subseteq ToBsc /\ asked' \subseteq ToBts /\ view' = view
<1>1. Append(inbox[l], r) \in Seq(ToBts)
  BY AppendProperties DEF TypeOK, BtsTypeOK, StatesTypeOK
<1>2. BtsTypeOK'
  BY <1>1 DEF TypeOK, BtsTypeOK, StatesTypeOK, BscSends, objectVars
<1> QED BY <1>2, RememberType DEF TypeOK, BscSends

LEMMA TypeStep == TypeOK /\ [Next]_vars => TypeOK'
<1> SUFFICES ASSUME TypeOK, [Next]_vars PROVE TypeOK'
  OBVIOUS
<1> USE DEF TypeOK
<1>1. ASSUME NEW l \in Links, BtsStep(l) PROVE TypeOK'
  BY <1>1, HandlerStep, RememberType DEF BtsStep, bscVars
<1>2. CASE BscReacts
  <2> DEFINE m == Head(outbox["OML"])
  <2>1. outbox["OML"] \in Seq(ToBsc) /\ inbox["OML"] \in Seq(ToBts) /\ outbox["OML"] # <<>>
    BY <1>2 DEF BscReacts, BtsTypeOK, StatesTypeOK, Links
  <2>2. m \in ToBsc /\ Tail(outbox["OML"]) \in Seq(ToBsc)
    BY <2>1, HeadTailProperties
  <2>3. Reaction(m) \in Seq(ToBts)
    <3>1. ProvokedBy(m) \subseteq ToBts
      BY DEF ProvokedBy
    <3> HIDE DEF m
    <3> QED BY <2>2, <3>1, ReactionType, SeqMonotonic
  <2>4. inbox["OML"] \o Reaction(m) \in Seq(ToBts)
    BY <2>1, <2>3, ConcatProperties
  <2>5. outbox' \in [Links -> Seq(ToBsc)] /\ inbox' \in [Links -> Seq(ToBts)]
    BY <1>2, <2>2, <2>4 DEF BscReacts, BtsTypeOK, StatesTypeOK
  <2>6. BtsTypeOK'
    BY <1>2, <2>5 DEF BscReacts, BtsTypeOK, StatesTypeOK, objectVars
  <2>7. view' \in [Objects -> [op : OpStates, adm : AdminStates] \cup {NoReport}]
    BY <1>2, <2>2, ReportShape DEF BscReacts
  <2> QED BY <1>2, <2>6, <2>7, RememberType DEF BscReacts
<1>3. CASE BscReadsRsl
  <2>1. outbox["RSL"] \in Seq(ToBsc) /\ outbox["RSL"] # <<>>
    BY <1>3 DEF BscReadsRsl, BtsTypeOK, StatesTypeOK, Links
  <2>2. Tail(outbox["RSL"]) \in Seq(ToBsc)
    BY <2>1, HeadTailProperties
  <2> QED BY <1>3, <2>2 DEF BscReadsRsl, BtsTypeOK, StatesTypeOK, objectVars, bscVars
<1>4. CASE BscRestarts
  <2>1. About("OPSTART", SiteManager) \in ToBts /\ "OML" \in Links
    BY RequestTypes, ObjectTypes DEF ObjectRequests, Links
  <2> QED BY <1>4, <2>1, SendsType, BudgetAssumption DEF BscRestarts
<1>5. ASSUME NEW l \in Links, BscAsksId(l) PROVE TypeOK'
  <2>1. Plain("ID_GET") \in ToBts
    BY RequestTypes DEF LinkRequests
  <2> QED BY <1>5, <2>1, SendsType DEF BscAsksId
<1>6. ASSUME NEW l \in Links, BscPings(l) PROVE TypeOK'
  <2>1. Plain("PING") \in ToBts
    BY RequestTypes DEF LinkRequests
  <2> QED BY <1>6, <2>1, SendsType, BudgetAssumption DEF BscPings
<1>7. CASE UNCHANGED vars
  BY <1>7 DEF vars, btsVars, objectVars, bscVars, BtsTypeOK, StatesTypeOK
<1> QED BY <1>1, <1>2, <1>3, <1>4, <1>5, <1>6, <1>7 DEF Next

\* The start-up keeps every state and every message within its type.
THEOREM TypeCorrect == Spec => []TypeOK
BY TypeInit, TypeStep, PTL DEF Spec
-----------------------------------------------------------------------------
(* What a step does to the OML link.                                       *)

In == inbox["OML"]
Out == outbox["OML"]

\* The effect of a step on the OML link and on the objects.  The BTS answers
\* request r with t; the BSC answers message m, or speaks of its own accord; or
\* something happens on the RSL link.
BtsAnswers(r, t) ==
    /\ r \in asked /\ t \in Seq(CausedBy(r)) /\ Exactly(r, t)
    /\ Consumes(In, r, In') /\ Extends(Out, t, Out')
    /\ said' = said \cup Elements(t) /\ asked' = asked /\ view' = view
    /\ \A o \in Objects :
          /\ opstate'[o] = IF r = About("OPSTART", o) THEN "ENABLED" ELSE opstate[o]
          /\ admin_state'[o] = Administered(r, o)
    /\ bts_id_resp' = (bts_id_resp \/ r.type = "ID_GET")
    /\ sw_site_manager' # sw_site_manager =>
          \/ r.type = "ID_GET"
          \/ r \in {About("SW_ACT_REQ_ACK", SiteManager), About("ACTIVATE_SW", SiteManager)}

BscAnswers(m) ==
    /\ m \in said
    /\ Consumes(Out, m, Out') /\ Extends(In, Reaction(m), In')
    /\ said' = said /\ asked' = asked \cup Elements(Reaction(m))
    /\ view' = IF m.type = "STATECHG_EVENT_REP"
               THEN [view EXCEPT ![m.obj] = [op |-> m.op, adm |-> m.adm]] ELSE view
    /\ UNCHANGED objectVars

BscSpeaks(r) ==
    /\ r.type \in {"ID_GET", "PING"} \/ (r = About("OPSTART", SiteManager) /\ r \in asked)
    /\ Extends(In, <<r>>, In') /\ Out' = Out
    /\ said' = said /\ asked' = asked \cup {r} /\ view' = view
    /\ UNCHANGED objectVars

Elsewhere ==
    /\ In' = In /\ Out' = Out /\ said' = said /\ asked' = asked /\ view' = view
    /\ \A o \in Objects : opstate'[o] = opstate[o] /\ admin_state'[o] = admin_state[o]
    /\ bts_id_resp => bts_id_resp'
    /\ sw_site_manager' # sw_site_manager => bts_id_resp'

OmlStep ==
    \/ \E r \in asked : \E t \in Seq(CausedBy(r)) : BtsAnswers(r, t)
    \/ \E m \in said : BscAnswers(m)
    \/ \E r \in ToBts : BscSpeaks(r)
    \/ Elsewhere

LEMMA BtsOmlStep ==
    ASSUME TypeOK, StreamsRemembered, BtsStep("OML")
    PROVE  OmlStep /\ StreamsRemembered'
<1> DEFINE r == Head(inbox["OML"])
<1>1. "OML" \in Links /\ "RSL" \in Links /\ BtsTypeOK
  BY DEF Links, TypeOK
<1>2. HandlerEffect("OML") /\ BtsTypeOK' /\ view' = view
  BY <1>1, HandlerStep DEF BtsStep, bscVars
<1>3. inbox["OML"] \in Seq(ToBts) /\ inbox["OML"] # <<>>
      /\ inbox' = [inbox EXCEPT !["OML"] = Tail(@)]
  BY <1>1, <1>2 DEF HandlerEffect, AnyEffect, BtsTypeOK, StatesTypeOK
<1>4. inbox'["OML"] = Tail(inbox["OML"]) /\ inbox'["RSL"] = inbox["RSL"]
  BY <1>1, <1>3 DEF BtsTypeOK, StatesTypeOK
<1>5. Consumes(In, r, In')
  BY <1>3, <1>4, TailConsumes DEF In
<1>6. r \in asked /\ Elements(In') \subseteq asked
  BY <1>5 DEF Consumes, StreamsRemembered, In
<1>7. PICK reply \in [Links -> Seq(CausedBy(r))] :
        /\ outbox' = [k \in Links |-> outbox[k] \o reply[k]]
        /\ Exactly(r, reply["OML"])
  BY <1>2 DEF HandlerEffect, AnyEffect, Replies
<1> DEFINE t == reply["OML"]
<1>8. Out' = Out \o t /\ Out \in Seq(ToBsc) /\ t \in Seq(CausedBy(r)) /\ t \in Seq(ToBsc)
  <2>1. r \in ToBts
    BY <1>2 DEF HandlerEffect
  <2>2. Seq(CausedBy(r)) \subseteq Seq(ToBsc)
    BY <2>1, CausedByType, SeqMonotonic
  <2> QED BY <1>1, <1>7, <2>2 DEF BtsTypeOK, StatesTypeOK, Out
<1>9. Extends(Out, t, Out')
  BY <1>8, ConcatExtends
<1>10. Elements(Out') = Elements(Out) \cup Elements(t)
  BY <1>9 DEF Extends
<1>11. said' = said \cup Elements(t) /\ asked' = asked
  BY <1>6, <1>10 DEF BtsStep, Remember, StreamsRemembered, In, Out
<1>12. StreamsRemembered'
  BY <1>4, <1>6, <1>10, <1>11 DEF StreamsRemembered, In, Out
<1> HIDE DEF t
<1>13. BtsAnswers(r, t)
  BY <1>2, <1>5, <1>6, <1>7, <1>8, <1>9, <1>11 DEF BtsAnswers, HandlerEffect, AnyEffect, t
<1> HIDE DEF r
<1> QED BY <1>6, <1>8, <1>12, <1>13 DEF OmlStep

LEMMA BtsRslStep ==
    ASSUME TypeOK, StreamsRemembered, BtsStep("RSL")
    PROVE  OmlStep /\ StreamsRemembered'
<1> DEFINE r == Head(inbox["RSL"])
<1>1. "OML" \in Links /\ "RSL" \in Links /\ "OML" # "RSL" /\ BtsTypeOK
  BY DEF Links, TypeOK
<1>2. HandlerEffect("RSL") /\ BtsTypeOK' /\ view' = view
  BY <1>1, HandlerStep DEF BtsStep, bscVars
<1>3. inbox["RSL"] \in Seq(ToBts) /\ inbox["RSL"] # <<>>
      /\ inbox' = [inbox EXCEPT !["RSL"] = Tail(@)]
  BY <1>1, <1>2 DEF HandlerEffect, AnyEffect, BtsTypeOK, StatesTypeOK
<1>4. r \in {Plain("ID_GET"), Plain("PING")}
      /\ Elements(Tail(inbox["RSL"])) \subseteq {Plain("ID_GET"), Plain("PING")}
  BY <1>3, ElementsHeadTail DEF StreamsRemembered
<1>5. r.type \in {"ID_GET", "PING"}
  BY <1>4 DEF Plain
<1>6. inbox'["RSL"] = Tail(inbox["RSL"]) /\ inbox'["OML"] = inbox["OML"]
  BY <1>1, <1>3 DEF BtsTypeOK, StatesTypeOK
<1>7. PICK reply \in [Links -> Seq(CausedBy(r))] :
        /\ outbox' = [k \in Links |-> outbox[k] \o reply[k]]
        /\ \A k \in Links \ {"RSL"} : reply[k] = <<>>
  BY <1>2, <1>5 DEF HandlerEffect, AnyEffect, Replies
<1>8. outbox'["OML"] = outbox["OML"]
  <2>1. outbox["OML"] \in Seq(ToBsc) /\ outbox'["OML"] = outbox["OML"] \o <<>>
    BY <1>1, <1>7 DEF BtsTypeOK, StatesTypeOK
  <2> QED BY <2>1, ConcatEmptySeq
<1>9. said' = said /\ asked' = asked
  BY <1>6, <1>8 DEF BtsStep, Remember, StreamsRemembered
<1>10. \A o \in Objects : opstate'[o] = opstate[o] /\ admin_state'[o] = admin_state[o]
  <2>1. \A o \in Objects : r # About("OPSTART", o)
    BY <1>5 DEF About
  <2>2. "CHG_ADM_STATE" # r.type
    BY <1>5
  <2> HIDE DEF r
  <2>3. \A o \in Objects : Administered(r, o) = admin_state[o]
    BY <2>1, <2>2, ObjectTypes DEF Administered
  <2> QED BY <1>2, <2>1, <2>3 DEF HandlerEffect, AnyEffect, r
<1>11. (bts_id_resp => bts_id_resp') /\ (sw_site_manager' # sw_site_manager => bts_id_resp')
  <2>1. r \notin {About("SW_ACT_REQ_ACK", SiteManager), About("ACTIVATE_SW", SiteManager)}
    BY <1>5 DEF About
  <2> QED BY <1>2, <2>1 DEF HandlerEffect, AnyEffect
<1>12. StreamsRemembered'
  BY <1>4, <1>6, <1>8, <1>9 DEF StreamsRemembered
<1>13. Elsewhere
  BY <1>2, <1>6, <1>8, <1>9, <1>10, <1>11 DEF Elsewhere, In, Out
<1> QED BY <1>12, <1>13 DEF OmlStep

LEMMA ReactsStep ==
    ASSUME TypeOK, StreamsRemembered, BscReacts
    PROVE  OmlStep /\ StreamsRemembered'
<1> DEFINE m == Head(Out)
<1>1. "OML" \in Links /\ "RSL" \in Links /\ BtsTypeOK
  BY DEF Links, TypeOK
<1>2. Out \in Seq(ToBsc) /\ In \in Seq(ToBts) /\ Out # <<>>
  BY <1>1 DEF BscReacts, BtsTypeOK, StatesTypeOK, In, Out
<1>3. Out' = Tail(Out) /\ In' = In \o Reaction(m) /\ inbox'["RSL"] = inbox["RSL"]
  BY <1>1 DEF BscReacts, BtsTypeOK, StatesTypeOK, In, Out
<1>4. Consumes(Out, m, Out')
  BY <1>2, <1>3, TailConsumes
<1>5. m \in said /\ Elements(Out') \subseteq said /\ m \in ToBsc
  BY <1>2, <1>4, HeadTailProperties DEF StreamsRemembered, Consumes, Out
<1>6. Reaction(m) \in Seq(ToBts)
  <2>1. Seq(ProvokedBy(m)) \subseteq Seq(ToBts)
    BY SeqMonotonic DEF ProvokedBy
  <2> HIDE DEF m
  <2> QED BY <1>5, <2>1, ReactionType
<1>7. Extends(In, Reaction(m), In')
  BY <1>2, <1>3, <1>6, ConcatExtends
<1>8. Elements(In') = Elements(In) \cup Elements(Reaction(m))
  BY <1>7 DEF Extends
<1>9. said' = said /\ asked' = asked \cup Elements(Reaction(m))
  BY <1>5, <1>8 DEF BscReacts, Remember, StreamsRemembered, In, Out
<1>10. StreamsRemembered'
  BY <1>3, <1>5, <1>8, <1>9 DEF StreamsRemembered, In, Out
<1>11. /\ UNCHANGED objectVars
       /\ view' = IF m.type = "STATECHG_EVENT_REP"
                  THEN [view EXCEPT ![m.obj] = [op |-> m.op, adm |-> m.adm]] ELSE view
  BY DEF BscReacts, Out
<1> HIDE DEF m
<1>12. BscAnswers(m)
  BY <1>4, <1>5, <1>7, <1>9, <1>11 DEF BscAnswers
<1> QED BY <1>5, <1>10, <1>12 DEF OmlStep

LEMMA SendsStep ==
    ASSUME TypeOK, StreamsRemembered, NEW l \in Links, NEW r \in ToBts, BscSends(l, r),
           \/ r \in {Plain("ID_GET"), Plain("PING")}
           \/ r = About("OPSTART", SiteManager) /\ l = "OML" /\ r \in asked
    PROVE  OmlStep /\ StreamsRemembered'
<1>1. "OML" \in Links /\ "RSL" \in Links /\ BtsTypeOK
  BY DEF Links, TypeOK
<1> DEFINE one == <<r>>
<1>2. inbox[l] \in Seq(ToBts) /\ inbox'[l] = inbox[l] \o one /\ one \in Seq(ToBts)
      /\ \A k \in Links \ {l} : inbox'[k] = inbox[k]
  BY <1>1, AppendIsConcat DEF BscSends, BtsTypeOK, StatesTypeOK
<1>3. Elements(one) = {r}
  BY DEF Elements
<1> HIDE DEF one
<1>9. Elements(inbox'[l]) = Elements(inbox[l]) \cup {r}
  BY <1>2, <1>3, ElementsConcat
<1>4. outbox' = outbox /\ UNCHANGED objectVars /\ view' = view
  BY DEF BscSends
<1>5. Out' = Out /\ Elements(Out) \subseteq said /\ Elements(In) \subseteq asked
  BY <1>4 DEF StreamsRemembered, In, Out
<1>6. r.type \in {"ID_GET", "PING"} \/ (r = About("OPSTART", SiteManager) /\ r \in asked)
  BY DEF Plain
<1>7. CASE l = "OML"
  <2>1. Extends(In, one, In')
    BY <1>2, <1>7, ConcatExtends DEF In
  <2>2. Elements(In') = Elements(In) \cup {r}
    BY <1>3, <2>1 DEF Extends
  <2>3. said' = said /\ asked' = asked \cup {r}
    BY <1>5, <2>2 DEF BscSends, Remember, In, Out
  <2>4. BscSpeaks(r)
    BY <1>4, <1>5, <1>6, <2>1, <2>3 DEF BscSpeaks, one
  <2>5. inbox'["RSL"] = inbox["RSL"] /\ outbox'["OML"] = outbox["OML"]
    BY <1>1, <1>2, <1>4, <1>7
  <2>6. StreamsRemembered'
    BY <1>5, <2>2, <2>3, <2>5 DEF StreamsRemembered, In, Out
  <2> QED BY <2>4, <2>6 DEF OmlStep
<1>8. CASE l # "OML"
  <2>1. r \in {Plain("ID_GET"), Plain("PING")} /\ l = "RSL"
    BY <1>8 DEF Links
  <2>2. In' = In
    BY <1>1, <1>2, <1>8 DEF In
  <2>3. said' = said /\ asked' = asked
    BY <1>5, <2>2 DEF BscSends, Remember, In, Out
  <2>4. Elements(inbox'["RSL"]) = Elements(inbox["RSL"]) \cup {r}
    BY <1>9, <2>1
  <2>5. Elements(inbox'["RSL"]) \subseteq {Plain("ID_GET"), Plain("PING")}
    BY <2>1, <2>4 DEF StreamsRemembered
  <2>6. inbox'["OML"] = inbox["OML"] /\ outbox'["OML"] = outbox["OML"]
    BY <1>4, <2>2 DEF In
  <2>7. StreamsRemembered'
    BY <2>3, <2>5, <2>6 DEF StreamsRemembered
  <2>8. Elsewhere
    BY <1>4, <1>5, <2>2, <2>3 DEF Elsewhere, objectVars
  <2> QED BY <2>7, <2>8 DEF OmlStep
<1> QED BY <1>7, <1>8

\* Every step is one of the four kinds, and what is in flight has been remembered.
LEMMA StepKinds ==
    ASSUME TypeOK, StreamsRemembered, [Next]_vars
    PROVE  OmlStep /\ StreamsRemembered'
<1>1. ASSUME NEW l \in Links, BtsStep(l) PROVE OmlStep /\ StreamsRemembered'
  BY <1>1, BtsOmlStep, BtsRslStep DEF Links
<1>2. CASE BscReacts
  BY <1>2, ReactsStep
<1>3. CASE BscReadsRsl
  <2>1. outbox'["OML"] = outbox["OML"] /\ inbox' = inbox /\ view' = view
    BY <1>3 DEF BscReadsRsl, TypeOK, BtsTypeOK, StatesTypeOK, Links, bscVars
  <2>2. said' = said /\ asked' = asked /\ UNCHANGED objectVars
    BY <1>3 DEF BscReadsRsl
  <2>3. Elsewhere /\ StreamsRemembered'
    BY <2>1, <2>2 DEF Elsewhere, objectVars, In, Out, StreamsRemembered
  <2> QED BY <2>3 DEF OmlStep
<1>4. CASE BscRestarts
  <2>1. About("OPSTART", SiteManager) \in ToBts /\ "OML" \in Links
    BY RequestTypes, ObjectTypes DEF ObjectRequests, Links
  <2> QED BY <1>4, <2>1, SendsStep DEF BscRestarts
<1>5. ASSUME NEW l \in Links, BscAsksId(l) PROVE OmlStep /\ StreamsRemembered'
  <2>1. Plain("ID_GET") \in ToBts
    BY RequestTypes DEF LinkRequests
  <2> QED BY <1>5, <2>1, SendsStep DEF BscAsksId
<1>6. ASSUME NEW l \in Links, BscPings(l) PROVE OmlStep /\ StreamsRemembered'
  <2>1. Plain("PING") \in ToBts
    BY RequestTypes DEF LinkRequests
  <2> QED BY <1>6, <2>1, SendsStep DEF BscPings
<1>7. CASE UNCHANGED vars
  <2>1. Elsewhere /\ StreamsRemembered'
    BY <1>7 DEF vars, btsVars, objectVars, bscVars, Elsewhere, In, Out, StreamsRemembered
  <2> QED BY <2>1 DEF OmlStep
<1> QED BY <1>1, <1>2, <1>3, <1>4, <1>5, <1>6, <1>7 DEF Next

\* A step forgets nothing, and what it adds was caused: a message of the BTS by
\* a request, which has started its object if it is a start; a request of the
\* BSC by a message, unless it is free to send it; a started object by an order.
CausedStep ==
    /\ said \subseteq said' /\ asked \subseteq asked'
    /\ \A o \in Objects : Enabled(o) => Enabled(o)'
    /\ \A m \in said' \ said : \E r \in asked :
          /\ m \in CausedBy(r) /\ (r.type = "ID_GET" => bts_id_resp')
          /\ \A o \in Objects : r = About("OPSTART", o) => Enabled(o)'
    /\ \A r \in asked' \ asked :
          \/ r.type \in {"ID_GET", "PING"}
          \/ \E m \in said : r \in ProvokedBy(m)
    /\ \A o \in Objects : Enabled(o)' => Enabled(o) \/ About("OPSTART", o) \in asked
    /\ bts_id_resp => bts_id_resp'
    /\ sw_site_manager' # sw_site_manager =>
          \/ bts_id_resp'
          \/ {About("SW_ACT_REQ_ACK", SiteManager), About("ACTIVATE_SW", SiteManager)}
               \cap asked # {}

LEMMA EveryStepCaused ==
    ASSUME TypeOK, OmlStep
    PROVE  CausedStep
<1>1. ASSUME NEW r \in asked, NEW t \in Seq(CausedBy(r)), BtsAnswers(r, t) PROVE CausedStep
  <2>1. Elements(t) \subseteq CausedBy(r)
    BY ElementsOf
  <2>2. \A m \in said' \ said : m \in CausedBy(r)
    BY <1>1, <2>1 DEF BtsAnswers
  <2>3. \A o \in Objects : /\ Enabled(o) => Enabled(o)'
                           /\ r = About("OPSTART", o) => Enabled(o)'
                           /\ Enabled(o)' => Enabled(o) \/ r = About("OPSTART", o)
    BY <1>1 DEF BtsAnswers, Enabled
  <2>4. /\ bts_id_resp => bts_id_resp'
        /\ r.type = "ID_GET" => bts_id_resp'
    BY <1>1 DEF BtsAnswers
  <2>5. said \subseteq said' /\ asked' = asked
    BY <1>1 DEF BtsAnswers
  <2>6. sw_site_manager' # sw_site_manager =>
          \/ bts_id_resp'
          \/ {About("SW_ACT_REQ_ACK", SiteManager), About("ACTIVATE_SW", SiteManager)}
               \cap asked # {}
    BY <1>1, <2>4 DEF BtsAnswers
  <2> QED BY <2>2, <2>3, <2>4, <2>5, <2>6 DEF CausedStep
<1>2. ASSUME NEW m \in said, BscAnswers(m) PROVE CausedStep
  <2>1. Elements(Reaction(m)) \subseteq ProvokedBy(m)
    BY ReactionType, ElementsOf DEF TypeOK
  <2> QED BY <1>2, <2>1 DEF BscAnswers, CausedStep, Enabled, objectVars
<1>3. ASSUME NEW r \in ToBts, BscSpeaks(r) PROVE CausedStep
  BY <1>3 DEF BscSpeaks, CausedStep, Enabled, objectVars
<1>4. CASE Elsewhere
  BY <1>4 DEF Elsewhere, CausedStep, Enabled
<1> QED BY <1>1, <1>2, <1>3, <1>4 DEF OmlStep
-----------------------------------------------------------------------------
(* Order.                                                                  *)

LEMMA CausalInit == Init => CausalOrder
<1> SUFFICES ASSUME Init PROVE CausalOrder
  OBVIOUS
<1>1. said = {} /\ asked = {} /\ "OML" \in Links /\ "RSL" \in Links
  BY DEF Init, Links
<1>2. inbox["OML"] = <<>> /\ inbox["RSL"] = <<>> /\ outbox["OML"] = <<>>
  BY <1>1 DEF Init, BtsInit
<1>3. Elements(<<>>) = {}
  BY DEF Elements
<1>4. \A o \in Objects : ~Enabled(o)
  BY DEF Init, BtsInit, InitialState, Enabled
<1> QED BY <1>1, <1>2, <1>3, <1>4 DEF CausalOrder, StreamsRemembered, RequestsInTurn,
                                      ActivationsInTurn, StartsInTurn

\* New requests for the software of an object come when its turn has come.
LEMMA RequestsStep ==
    ASSUME RequestsInTurn, CausedStep
    PROVE  RequestsInTurn'
<1>1. ASSUME NEW o \in Objects, About("SW_ACT_REQ", o) \in said' \ said
      PROVE  \E r \in asked :
               /\ \/ o = SiteManager
                  \/ o = Bts /\ r = About("OPSTART", SiteManager)
                  \/ o = BasebTransc /\ r = About("OPSTART", Bts)
                  \/ o = RadioCarrier /\ r = About("ACTIVATE_SW", BasebTransc)
                  \/ o \in ChannelObjects /\ r = About("ACTIVATE_SW", RadioCarrier)
               /\ \A p \in Objects : r = About("OPSTART", p) => Enabled(p)'
  <2>1. About("SW_ACT_REQ", o).type = "SW_ACT_REQ" /\ About("SW_ACT_REQ", o).obj = o
    BY DEF About
  <2> QED BY <1>1, <2>1 DEF CausedStep, CausedBy
<1>2. (About("SW_ACT_REQ", Bts) \in said => Enabled(SiteManager))'
  BY <1>1, ObjectTypes, ObjectsDiffer DEF CausedStep, RequestsInTurn
<1>3. (About("SW_ACT_REQ", BasebTransc) \in said => Enabled(Bts))'
  BY <1>1, ObjectTypes, ObjectsDiffer DEF CausedStep, RequestsInTurn
<1>4. (About("SW_ACT_REQ", RadioCarrier) \in said => About("ACTIVATE_SW", BasebTransc) \in asked)'
  BY <1>1, ObjectTypes, ObjectsDiffer DEF CausedStep, RequestsInTurn
<1>5. ASSUME NEW c \in ChannelObjects
      PROVE  (About("SW_ACT_REQ", c) \in said => About("ACTIVATE_SW", RadioCarrier) \in asked)'
  BY <1>1, ObjectTypes, ObjectsDiffer DEF CausedStep, RequestsInTurn
<1> QED BY <1>2, <1>3, <1>4, <1>5 DEF RequestsInTurn

LEMMA ActivationsStep ==
    ASSUME ActivationsInTurn, CausedStep
    PROVE  ActivationsInTurn'
<1>1. ASSUME NEW o \in Objects, About("ACTIVATE_SW", o) \in asked'
      PROVE  About("SW_ACT_REQ", o) \in said'
  <2> DEFINE r == About("ACTIVATE_SW", o)
  <2>1. r.type = "ACTIVATE_SW" /\ r.obj = o /\ r # About("OPSTART", SiteManager)
    BY DEF About
  <2>2. CASE r \in asked
    BY <2>2 DEF ActivationsInTurn, CausedStep
  <2>3. CASE r \notin asked
    <3> HIDE DEF r
    <3>1. r \in asked' \ asked
      BY <1>1, <2>3 DEF r
    <3>2. PICK m \in said : r \in ProvokedBy(m)
      BY <2>1, <3>1 DEF CausedStep
    <3> QED BY <2>1, <3>2 DEF ProvokedBy, CausedStep
  <2> QED BY <2>2, <2>3
<1>2. ASSUME NEW m \in said', ReportsWaiting(m)
      PROVE  About("ACTIVATE_SW", m.obj) \in asked'
  BY <1>2 DEF ActivationsInTurn, CausedStep, CausedBy
<1> QED BY <1>1, <1>2 DEF ActivationsInTurn

LEMMA StartsStep ==
    ASSUME StartsInTurn, CausedStep
    PROVE  StartsInTurn'
<1>1. ASSUME NEW o \in Objects, Enabled(o)' PROVE About("OPSTART", o) \in asked'
  BY <1>1 DEF StartsInTurn, CausedStep
<1>2. ASSUME NEW o \in Objects, o # SiteManager, About("OPSTART", o) \in asked' \ asked
      PROVE  \E m \in said :
               \/ o \in {Bts} \cup ChannelObjects /\ ReportsWaiting(m) /\ m.obj = o
               \/ o \in {BasebTransc, RadioCarrier} /\ m = About("SW_ACTIVATED_REP", o)
  <2> DEFINE r == About("OPSTART", o)
  <2>1. r.type = "OPSTART" /\ r.obj = o /\ r # About("OPSTART", SiteManager)
    BY <1>2 DEF About
  <2> HIDE DEF r
  <2>2. PICK m \in said : r \in ProvokedBy(m)
    BY <1>2, <2>1 DEF CausedStep, r
  <2> QED BY <1>2, <2>1, <2>2 DEF ProvokedBy
<1>3. ASSUME NEW o \in {Bts} \cup ChannelObjects, About("OPSTART", o) \in asked'
      PROVE  \E m \in said' : ReportsWaiting(m) /\ m.obj = o
  <2>1. o \in Objects /\ o # SiteManager /\ o \notin {BasebTransc, RadioCarrier}
    BY ObjectTypes, ObjectsDiffer
  <2>2. \E m \in said : ReportsWaiting(m) /\ m.obj = o
    BY <1>2, <1>3, <2>1 DEF StartsInTurn
  <2> QED BY <2>2 DEF CausedStep
<1>4. ASSUME NEW o \in {BasebTransc, RadioCarrier}, About("OPSTART", o) \in asked'
      PROVE  About("SW_ACTIVATED_REP", o) \in said'
  <2>1. o \in Objects /\ o # SiteManager /\ o \notin {Bts} \cup ChannelObjects
    BY ObjectTypes, ObjectsDiffer
  <2>2. About("SW_ACTIVATED_REP", o) \in said
    BY <1>2, <1>4, <2>1 DEF StartsInTurn
  <2> QED BY <2>2 DEF CausedStep
<1>5. ASSUME NEW o \in {BasebTransc, RadioCarrier}, About("SW_ACTIVATED_REP", o) \in said'
      PROVE  Enabled(Channel(LastTs))'
  <2> DEFINE m == About("SW_ACTIVATED_REP", o)
  <2>1. m.type = "SW_ACTIVATED_REP" /\ m.obj = o /\ Channel(LastTs) \in Objects
    BY ObjectTypes DEF About
  <2>2. CASE m \in said
    BY <2>1, <2>2 DEF StartsInTurn, CausedStep
  <2>3. CASE m \notin said
    <3> HIDE DEF m
    <3>1. m \in said' \ said
      BY <1>5, <2>3 DEF m
    <3>2. PICK r \in asked :
            m \in CausedBy(r) /\ \A p \in Objects : r = About("OPSTART", p) => Enabled(p)'
      BY <3>1 DEF CausedStep
    <3> QED BY <2>1, <3>2 DEF CausedBy
  <2> QED BY <2>2, <2>3
<1> QED BY <1>1, <1>3, <1>4, <1>5 DEF StartsInTurn

\* Every message of the start-up, and every object that comes up, has its cause
\* behind it, whatever is in flight on the two links.
THEOREM MessagesAreCaused == Spec => []CausalOrder
<1>1. TypeOK /\ CausalOrder /\ [Next]_vars => CausalOrder'
  <2> SUFFICES ASSUME TypeOK, CausalOrder, [Next]_vars PROVE CausalOrder'
    OBVIOUS
  <2>1. CausedStep /\ StreamsRemembered'
    BY StepKinds, EveryStepCaused DEF CausalOrder
  <2> QED BY <2>1, RequestsStep, ActivationsStep, StartsStep DEF CausalOrder
<1> QED BY <1>1, CausalInit, TypeCorrect, PTL DEF Spec

\* Objects come up from the top: site manager, BTS object, channels, and the two
\* halves of the transceiver after the last channel.
THEOREM ComesUpInOrder == Spec => []StartupOrder
<1>1. CausalOrder => StartupOrder
  <2> SUFFICES ASSUME CausalOrder PROVE StartupOrder
    OBVIOUS
  <2> USE DEF CausalOrder
  <2>1. ASSUME NEW o \in {Bts} \cup ChannelObjects, Enabled(o)
        PROVE  About("SW_ACT_REQ", o) \in said
    <3>1. o \in Objects
      BY ObjectTypes
    <3>2. PICK m \in said : ReportsWaiting(m) /\ m.obj = o
      BY <2>1, <3>1 DEF StartsInTurn
    <3> QED BY <3>1, <3>2 DEF ActivationsInTurn
  <2>2. ASSUME NEW o \in Objects, About("ACTIVATE_SW", o) \in asked
        PROVE  About("SW_ACT_REQ", o) \in said
    BY <2>2 DEF ActivationsInTurn
  <2>3. Enabled(Bts) => Enabled(SiteManager)
    BY <2>1 DEF RequestsInTurn
  <2>4. ASSUME NEW c \in ChannelObjects, Enabled(c) PROVE Enabled(Bts)
    <3>1. About("SW_ACT_REQ", RadioCarrier) \in said
      BY <2>1, <2>2, <2>4, ObjectTypes DEF RequestsInTurn
    <3>2. About("SW_ACT_REQ", BasebTransc) \in said
      BY <2>2, <3>1, ObjectTypes DEF RequestsInTurn
    <3> QED BY <3>2 DEF RequestsInTurn
  <2>5. ASSUME NEW o \in {BasebTransc, RadioCarrier}, Enabled(o)
        PROVE  Enabled(Channel(LastTs))
    BY <2>5, ObjectTypes DEF StartsInTurn
  <2> QED BY <2>3, <2>4, <2>5 DEF StartupOrder
<1> QED BY <1>1, MessagesAreCaused, PTL
-----------------------------------------------------------------------------
(* What the replies contain, and in which order.                           *)

\* A reply that begins with a.
LEMMA Prepended ==
    ASSUME NEW S, NEW a \in S, NEW s \in Seq(S)
    PROVE  /\ <<a>> \o s \in Seq(S)
           /\ Elements(<<a>> \o s) = {a} \cup Elements(s)
           /\ \A c, d : Leads(s, c, d) /\ a # d => Leads(<<a>> \o s, c, d)
           /\ \A C, d : Trails(s, C, d) /\ a \notin C => Trails(<<a>> \o s, C, d)
<1> DEFINE one == <<a>>
<1>1. one \in Seq(S) /\ Elements(one) = {a} /\ Len(one) = 1 /\ one[1] = a
  BY DEF Elements
<1> HIDE DEF one
<1>2. Extends(one, s, one \o s) /\ one \o s \in Seq(S)
  BY <1>1, ConcatExtends, ConcatProperties
<1>3. \A c, d : a # d => Leads(one, c, d)
  BY <1>1 DEF Leads
<1>4. \A C, d : a \notin C => Trails(one, C, d)
  BY <1>1 DEF Trails
<1>5. \A c, d : Leads(s, c, d) /\ a # d => Leads(one \o s, c, d)
  BY <1>2, <1>3 DEF Extends
<1>6. \A C, d : Trails(s, C, d) /\ a \notin C => Trails(one \o s, C, d)
  BY <1>2, <1>4 DEF Extends
<1> QED BY <1>1, <1>2, <1>5, <1>6 DEF one, Extends


\* The requests for the software of the timeslots: one for each, the last one last.
LEMMA ChannelRequests ==
    LET s == [i \in 1 .. LastTs + 1 |-> About("SW_ACT_REQ", Channel(i - 1))]
        last == About("SW_ACT_REQ", Channel(LastTs))
    IN  \A o \in ChannelObjects :
          /\ About("SW_ACT_REQ", o) \in Elements(s)
          /\ o # Channel(LastTs) =>
               Leads(s, About("SW_ACT_REQ", o), last) /\ Trails(s, {About("SW_ACT_REQ", o)}, last)
<1> DEFINE n == LastTs + 1
           s == [i \in 1 .. n |-> About("SW_ACT_REQ", Channel(i - 1))]
           last == About("SW_ACT_REQ", Channel(LastTs))
<1>1. n \in Nat /\ n > 0 /\ Len(s) = n /\ LastTs = n - 1
  BY LastTsAssumption
<1>2. \A i \in 1 .. n : s[i] = About("SW_ACT_REQ", Channel(i - 1))
  OBVIOUS
<1>3. \A i, j : About("SW_ACT_REQ", Channel(i)) = About("SW_ACT_REQ", Channel(j)) => i = j
  BY DEF About, Channel
<1> SUFFICES ASSUME NEW o \in ChannelObjects
             PROVE  /\ About("SW_ACT_REQ", o) \in Elements(s)
                    /\ o # Channel(LastTs) =>
                         /\ Leads(s, About("SW_ACT_REQ", o), last)
                         /\ Trails(s, {About("SW_ACT_REQ", o)}, last)
  OBVIOUS
<1>4. PICK k \in 1 .. n : o = Channel(k - 1)
  <2>1. PICK ts \in 0 .. LastTs : o = Channel(ts)
    BY DEF ChannelObjects, Channels
  <2>2. ts + 1 \in 1 .. n /\ ts = (ts + 1) - 1
    BY <1>1, <2>1
  <2> QED BY <2>1, <2>2
<1>5. s[k] = About("SW_ACT_REQ", o) /\ s[n] = last
  BY <1>1, <1>2, <1>4
<1>6. \A i \in 1 .. n : (s[i] = last => i = n) /\ (s[i] = About("SW_ACT_REQ", o) => i = k)
  <2> SUFFICES ASSUME NEW i \in 1 .. n
               PROVE  (s[i] = last => i = n) /\ (s[i] = About("SW_ACT_REQ", o) => i = k)
    OBVIOUS
  <2>1. s[i] = About("SW_ACT_REQ", Channel(i - 1))
    BY <1>2
  <2>2. s[i] = last => i - 1 = LastTs
    BY <1>3, <2>1
  <2>3. s[i] = About("SW_ACT_REQ", o) => i - 1 = k - 1
    BY <1>3, <1>4, <2>1
  <2> HIDE DEF s, last, n
  <2> QED BY <1>1, <1>4, <2>2, <2>3
<1> HIDE DEF s, last
<1>7. o # Channel(LastTs) => k # n
  BY <1>1, <1>4
<1> HIDE DEF n
<1>8. About("SW_ACT_REQ", o) \in Elements(s)
  BY <1>1, <1>4, <1>5 DEF Elements
<1>9. k # n => Leads(s, About("SW_ACT_REQ", o), last)
  <2> SUFFICES ASSUME k # n, NEW i \in 1 .. n, s[i] = last
               PROVE  \E j \in 1 .. i - 1 : s[j] = About("SW_ACT_REQ", o)
    BY <1>1 DEF Leads
  <2>1. i = n /\ k \in 1 .. i - 1
    BY <1>1, <1>4, <1>6
  <2> QED BY <1>5, <2>1
<1>10. k # n => Trails(s, {About("SW_ACT_REQ", o)}, last)
  <2> SUFFICES ASSUME k # n, NEW i \in 1 .. n, s[i] = About("SW_ACT_REQ", o)
               PROVE  \E j \in i + 1 .. n : s[j] = last
    BY <1>1 DEF Trails
  <2>1. i = k /\ n \in i + 1 .. n
    BY <1>1, <1>4, <1>6
  <2> QED BY <1>5, <2>1
<1> QED BY <1>7, <1>8, <1>9, <1>10 DEF s, last

LEMMA ActivateSwContents ==
    ASSUME NEW o \in Objects
    PROVE  LET t == ActivateSwReply(o)
               last == About("SW_ACT_REQ", Channel(LastTs))
           IN  /\ About("ACTIVATE_SW_ACK", o) \in Elements(t)
               /\ o \in {Bts} \cup ChannelObjects => Waits(o) \in Elements(t)
               /\ o = SiteManager => Managed \in Elements(t)
               /\ o = BasebTransc => About("SW_ACT_REQ", RadioCarrier) \in Elements(t)
               /\ o = RadioCarrier => \A c \in ChannelObjects :
                    /\ About("SW_ACT_REQ", c) \in Elements(t)
                    /\ c # Channel(LastTs) => /\ Leads(t, About("SW_ACT_REQ", c), last)
                                              /\ Trails(t, {About("SW_ACT_REQ", c)}, last)
<1> DEFINE a == About("ACTIVATE_SW_ACK", o)
           s == AfterActivateSw(o)
           t == <<a>> \o s
           last == About("SW_ACT_REQ", Channel(LastTs))
           requests == [i \in 1 .. LastTs + 1 |-> About("SW_ACT_REQ", Channel(i - 1))]
           active == [i \in 1 .. LastTs + 1 |-> About("SW_ACTIVATED_REP", Channel(i - 1))]
           rest == CASE o = SiteManager  -> <<Managed>>
                     [] o = Bts          -> <<Waits(Bts)>>
                     [] o = BasebTransc  -> <<About("SW_ACT_REQ", RadioCarrier)>>
                     [] o = RadioCarrier -> requests
                     [] OTHER            -> <<Waits(o)>> \o
                          (IF o = Channel(LastTs) THEN active ELSE <<>>)
<1>1. a \in ToBsc /\ a.type = "ACTIVATE_SW_ACK" /\ s \in Seq(ToBsc)
  <2>1. About("ACTIVATE_SW", o) \in ToBts /\ o \in Named
    BY RequestTypes, NamedObjects DEF ObjectRequests
  <2>2. Consequences(About("ACTIVATE_SW", o)) \subseteq ToBsc
    BY <2>1, CausedByType DEF Consequences
  <2>3. Seq(Consequences(About("ACTIVATE_SW", o))) \subseteq Seq(ToBsc)
    BY <2>2, SeqMonotonic
  <2> QED BY <2>1, <2>3, AfterActivateSwType, MessageTypes DEF ObjectReplies
<1> HIDE DEF a, t, s
<1>2. /\ Elements(t) = {a} \cup Elements(s)
      /\ \A c, d : Leads(s, c, d) /\ a # d => Leads(t, c, d)
      /\ \A C, d : Trails(s, C, d) /\ a \notin C => Trails(t, C, d)
  BY <1>1, Prepended DEF t
<1>3. s = rest
  BY DEF AfterActivateSw, PerChannel, Waits, Managed, s
<1>4. o = SiteManager => Managed \in Elements(s)
  <2>1. Elements(<<Managed>>) = {Managed}
    BY DEF Elements
  <2>2. o = SiteManager => s = <<Managed>>
    BY <1>3, ObjectsDiffer
  <2> QED BY <2>1, <2>2
<1>5. o = BasebTransc => About("SW_ACT_REQ", RadioCarrier) \in Elements(s)
  <2>1. Elements(<<About("SW_ACT_REQ", RadioCarrier)>>) = {About("SW_ACT_REQ", RadioCarrier)}
    BY DEF Elements
  <2>2. o = BasebTransc => s = <<About("SW_ACT_REQ", RadioCarrier)>>
    BY <1>3, ObjectsDiffer
  <2> QED BY <2>1, <2>2
<1>6. o = RadioCarrier => s = requests
  BY <1>3, ObjectsDiffer
<1>7. o = Bts => Waits(o) \in Elements(s)
  <2>1. Elements(<<Waits(Bts)>>) = {Waits(Bts)}
    BY DEF Elements
  <2>2. o = Bts => s = <<Waits(Bts)>>
    BY <1>3, ObjectsDiffer
  <2> QED BY <2>1, <2>2
<1>8. o \in ChannelObjects => Waits(o) \in Elements(s)
  <2>1. active \in Seq(ToBsc)
    <3>1. active \in [1 .. LastTs + 1 -> ToBsc]
      BY MessageTypes, ObjectTypes DEF ObjectReplies
    <3> QED BY <3>1, FamilyType
  <2> DEFINE u == IF o = Channel(LastTs) THEN active ELSE <<>>
  <2>2. u \in Seq(ToBsc)
    BY <2>1
  <2> HIDE DEF active, u
  <2>3. o \in ChannelObjects => s = <<Waits(o)>> \o u
    <3>1. o \in ChannelObjects => o \notin {SiteManager, Bts, BasebTransc, RadioCarrier}
      BY ObjectsDiffer DEF SingleObjects
    <3> QED BY <1>3, <3>1, Zenon DEF u
  <2>4. Waits(o) \in ToBsc
    BY MessageTypes DEF Waits, OpStates, AvailStates, AdminStates
  <2>5. Elements(<<Waits(o)>> \o u) = {Waits(o)} \cup Elements(u)
    BY <2>2, <2>4, Prepended
  <2> QED BY <2>3, <2>5
<1> HIDE DEF rest, requests
<1>9. ASSUME o = RadioCarrier, NEW c \in ChannelObjects
      PROVE  /\ About("SW_ACT_REQ", c) \in Elements(t)
             /\ c # Channel(LastTs) => /\ Leads(t, About("SW_ACT_REQ", c), last)
                                       /\ Trails(t, {About("SW_ACT_REQ", c)}, last)
  <2>1. a # last /\ a # About("SW_ACT_REQ", c)
    BY <1>1 DEF About
  <2> HIDE DEF last
  <2> QED BY <1>2, <1>6, <1>9, <2>1, ChannelRequests DEF requests, last
<1> QED BY <1>2, <1>4, <1>5, <1>7, <1>8, <1>9 DEF ActivateSwReply, t, s, a

\* A stream that begins with c and ends with d.
LEMMA FirstAndLast ==
    ASSUME NEW S, NEW s \in Seq(S), NEW c, NEW d, s # <<>>, s[1] = c, s[Len(s)] = d, c # d
    PROVE  Leads(s, c, d) /\ Trails(s, {c}, d)
<1> DEFINE n == Len(s)
<1>1. n \in Nat \ {0}
  BY EmptySeq, LenProperties
<1>2. ASSUME NEW i \in 1 .. n, s[i] = d PROVE 1 \in 1 .. i - 1
  <2>1. i # 1
    BY <1>2
  <2> QED BY <1>1, <1>2, <2>1
<1>3. ASSUME NEW i \in 1 .. n, s[i] = c PROVE n \in i + 1 .. n
  <2>1. i # n
    BY <1>3
  <2> HIDE DEF n
  <2> QED BY <1>1, <1>3, <2>1
<1> QED BY <1>2, <1>3 DEF Leads, Trails

\* The reports of the stored state that the start of the last timeslot causes.
LEMMA LastChannelContents ==
    ASSUME NEW op \in [Objects -> OpStates], NEW adm \in [Objects -> AdminStates]
    PROVE  LET s == LastChannelReport(op, adm)
               radio == About("SW_ACTIVATED_REP", RadioCarrier)
               baseb == About("SW_ACTIVATED_REP", BasebTransc)
           IN  /\ s \in Seq(ToBsc) /\ Leads(s, radio, baseb) /\ Trails(s, {radio}, baseb)
               /\ Elements(s) = {radio, baseb}
                    \cup {StoredReport(p, op, adm) : p \in {SiteManager, Bts} \cup ChannelObjects}
<1> DEFINE s == LastChannelReport(op, adm)
           Stored(p) == StateChg(p, op[p], "OK", adm[p])
           radio == About("SW_ACTIVATED_REP", RadioCarrier)
           baseb == About("SW_ACTIVATED_REP", BasebTransc)
           top == <<radio, Stored(SiteManager), Stored(Bts)>>
           end == <<baseb>>
           reports == [i \in 1 .. LastTs + 1 |-> Stored(Channel(i - 1))]
<1>1. s = top \o reports \o end
  BY DEF LastChannelReport, StoredReport, PerChannel
<1>2. \A p \in Objects : Stored(p) \in ToBsc
  BY MessageTypes DEF AvailStates
<1>3. radio \in ToBsc /\ baseb \in ToBsc /\ radio # baseb
  BY MessageTypes, ObjectTypes, ObjectsDiffer DEF ObjectReplies, About
<1>4. reports \in Seq(ToBsc) /\ Len(reports) = LastTs + 1
  <2>1. reports \in [1 .. LastTs + 1 -> ToBsc]
    BY <1>2, ObjectTypes
  <2> QED BY <2>1, FamilyType, LastTsAssumption
<1>5. Elements(reports) = {Stored(p) : p \in ChannelObjects}
  <2>1. ASSUME NEW i \in 1 .. LastTs + 1
        PROVE  reports[i] = Stored(Channel(i - 1)) /\ Channel(i - 1) \in ChannelObjects
    BY ObjectTypes
  <2>2. ASSUME NEW p \in ChannelObjects
        PROVE  \E i \in 1 .. LastTs + 1 : reports[i] = Stored(p)
    <3>1. PICK ts \in 0 .. LastTs : p = Channel(ts)
      BY DEF ChannelObjects, Channels
    <3>2. ts + 1 \in 1 .. LastTs + 1 /\ (ts + 1) - 1 = ts
      BY <3>1, LastTsAssumption
    <3> QED BY <2>1, <3>1, <3>2
  <2> HIDE DEF reports, Stored
  <2> QED BY <1>4, <2>1, <2>2 DEF Elements
<1> HIDE DEF reports, s
<1>6. /\ top \in Seq(ToBsc) /\ Len(top) = 3 /\ top[1] = radio
      /\ Elements(top) = {radio, Stored(SiteManager), Stored(Bts)}
  <2> HIDE DEF Stored, radio
  <2> QED BY <1>2, <1>3, ObjectTypes DEF Elements
<1>7. end \in Seq(ToBsc) /\ Len(end) = 1 /\ end[1] = baseb /\ Elements(end) = {baseb}
  <2> HIDE DEF baseb
  <2> QED BY <1>3 DEF Elements
<1> HIDE DEF top, end
<1> DEFINE front == top \o reports
<1>15. front \in Seq(ToBsc) /\ Len(front) = Len(top) + Len(reports)
       /\ \A i \in 1 .. Len(top) + Len(reports) :
             front[i] = IF i <= Len(top) THEN top[i] ELSE reports[i - Len(top)]
  BY <1>4, <1>6, ConcatProperties
<1>16. Elements(front) = Elements(top) \cup Elements(reports)
  BY <1>4, <1>6, ElementsConcat
<1>9. s = front \o end
  BY <1>1
<1> HIDE DEF front
<1>8. Len(front) = 3 + (LastTs + 1) /\ front[1] = radio
  BY <1>4, <1>6, <1>15, LastTsAssumption
<1>17. s \in Seq(ToBsc) /\ Elements(s) = Elements(front) \cup Elements(end)
  <2>1. s \in Seq(ToBsc)
    BY <1>7, <1>9, <1>15, ConcatProperties
  <2>2. Elements(s) = Elements(front) \cup Elements(end)
    BY <1>7, <1>9, <1>15, ElementsConcat
  <2> QED BY <2>1, <2>2
<1>10. Len(s) = (3 + (LastTs + 1)) + 1
  <2>1. Len(s) = Len(front) + Len(end)
    BY <1>7, <1>9, <1>15, ConcatProperties
  <2> QED BY <1>7, <1>8, <2>1
<1>11. \A i \in 1 .. Len(front) + Len(end) : s[i]
         = IF i <= Len(front) THEN front[i] ELSE end[i - Len(front)]
  <2>1. front \in Seq(ToBsc) /\ end \in Seq(ToBsc)
    BY <1>7, <1>15
  <2> QED BY <2>1, <1>9, ConcatProperties
<1>12. s[1] = radio /\ s[Len(s)] = baseb /\ s # <<>>
  <2> DEFINE n == Len(front)
             k == Len(s)
  <2>1. n \in Nat \ {0} /\ k = n + 1
    BY <1>8, <1>10, LastTsAssumption
  <2>2. Len(end) = 1 /\ end[1] = baseb
    BY <1>7
  <2> HIDE DEF n, k, s, end
  <2>3. \A i \in 1 .. n + 1 : s[i] = IF i <= n THEN front[i] ELSE end[i - n]
    BY <1>11, <2>2 DEF n
  <2>4. s[1] = radio
    BY <1>8, <2>1, <2>3
  <2>5. (n + 1) - n = 1 /\ n + 1 \in 1 .. n + 1 /\ ~(n + 1 <= n)
    BY <2>1
  <2>6. s[n + 1] = end[1]
    BY <2>3, <2>5
  <2>7. s # <<>>
    BY <1>17, <2>1, EmptySeq DEF k
  <2> QED BY <2>1, <2>2, <2>4, <2>6, <2>7 DEF k
<1>13. Leads(s, radio, baseb) /\ Trails(s, {radio}, baseb)
  BY <1>3, <1>17, <1>12, FirstAndLast
<1>14. Elements(s) = {radio, baseb}
         \cup {StoredReport(p, op, adm) : p \in {SiteManager, Bts} \cup ChannelObjects}
  BY <1>5, <1>6, <1>7, <1>16, <1>17 DEF StoredReport
<1> QED BY <1>17, <1>13, <1>14 DEF s, radio, baseb

LEMMA OpstartContents ==
    ASSUME NEW o \in Objects, NEW op \in [Objects -> OpStates],
           NEW adm \in [Objects -> AdminStates]
    PROVE  LET t == OpstartReply(o, op, adm)
               radio == About("SW_ACTIVATED_REP", RadioCarrier)
               baseb == About("SW_ACTIVATED_REP", BasebTransc)
           IN  /\ o = SiteManager => About("SW_ACT_REQ", Bts) \in Elements(t)
               /\ o = Bts => About("SW_ACT_REQ", BasebTransc) \in Elements(t)
               /\ o = Channel(LastTs) =>
                    /\ Leads(t, radio, baseb) /\ Trails(t, {radio}, baseb)
                    /\ {radio, baseb} \subseteq Elements(t)
                    /\ \A p \in {SiteManager, Bts} \cup ChannelObjects :
                          StoredReport(p, op, adm) \in Elements(t)
               /\ \A m \in Elements(t) : m.type = "STATECHG_EVENT_REP" =>
                    /\ o = Channel(LastTs) /\ m.obj \in {SiteManager, Bts} \cup ChannelObjects
                    /\ m = StoredReport(m.obj, op, adm)
<1> DEFINE a == About("OPSTART_ACK", o)
           s == AfterOpstart(o, op, adm)
           t == <<a>> \o s
           radio == About("SW_ACTIVATED_REP", RadioCarrier)
           baseb == About("SW_ACTIVATED_REP", BasebTransc)
           active == About("SW_ACTIVATED_REP", o)
           last == LastChannelReport(op, adm)
           upper == {SiteManager, Bts} \cup ChannelObjects
<1>1. a \in ToBsc /\ a.type = "OPSTART_ACK" /\ s \in Seq(ToBsc)
  <2>1. About("OPSTART", o) \in ToBts /\ o \in Named
    BY RequestTypes, NamedObjects DEF ObjectRequests
  <2>2. Consequences(About("OPSTART", o)) \subseteq ToBsc
    BY <2>1, CausedByType DEF Consequences
  <2>3. Seq(Consequences(About("OPSTART", o))) \subseteq Seq(ToBsc)
    BY <2>2, SeqMonotonic
  <2> QED BY <2>1, <2>3, AfterOpstartType, MessageTypes DEF ObjectReplies
<1> HIDE DEF a, t, s
<1>2. /\ Elements(t) = {a} \cup Elements(s)
      /\ \A c, d : Leads(s, c, d) /\ a # d => Leads(t, c, d)
      /\ \A C, d : Trails(s, C, d) /\ a \notin C => Trails(t, C, d)
  BY <1>1, Prepended DEF t
<1>3. /\ SiteManager # Channel(LastTs) /\ Bts # Channel(LastTs) /\ SiteManager # Bts
  BY ObjectTypes, ObjectsDiffer
<1>4. s = CASE o = SiteManager -> <<active, About("SW_ACT_REQ", Bts)>>
            [] o = Bts -> <<active, About("SW_ACT_REQ", BasebTransc)>>
            [] o = Channel(LastTs) -> last
            [] OTHER -> <<>>
  BY DEF AfterOpstart, s
<1> HIDE DEF last, active
<1>5. /\ o = SiteManager => s = <<active, About("SW_ACT_REQ", Bts)>>
      /\ o = Bts => s = <<active, About("SW_ACT_REQ", BasebTransc)>>
      /\ o = Channel(LastTs) => s = last
      /\ o \notin {SiteManager, Bts, Channel(LastTs)} => s = <<>>
  BY <1>3, <1>4
<1>6. active.type = "SW_ACTIVATED_REP" /\ \A p : About("SW_ACT_REQ", p).type = "SW_ACT_REQ"
  BY DEF About, active
<1>7. \A x, y : Elements(<<x, y>>) = {x, y}
  BY DEF Elements
<1>8. Elements(<<>>) = {}
  BY DEF Elements
<1>9. /\ o = SiteManager => Elements(s) = {active, About("SW_ACT_REQ", Bts)}
      /\ o = Bts => Elements(s) = {active, About("SW_ACT_REQ", BasebTransc)}
      /\ o \notin {SiteManager, Bts, Channel(LastTs)} => Elements(s) = {}
  BY <1>5, <1>7, <1>8
<1>10. /\ Leads(last, radio, baseb) /\ Trails(last, {radio}, baseb)
       /\ Elements(last) = {radio, baseb} \cup {StoredReport(p, op, adm) : p \in upper}
  BY LastChannelContents DEF last
<1>11. /\ radio.type = "SW_ACTIVATED_REP" /\ baseb.type = "SW_ACTIVATED_REP"
       /\ \A p \in Objects : StoredReport(p, op, adm).obj = p
  BY DEF About, StoredReport, StateChg
<1>12. upper \subseteq Objects
  BY ObjectTypes
<1> HIDE DEF radio, baseb, upper
<1>13. a # baseb /\ a \notin {radio}
  BY <1>1, <1>11
<1>14. o = Channel(LastTs) =>
         /\ Leads(t, radio, baseb) /\ Trails(t, {radio}, baseb)
         /\ {radio, baseb} \subseteq Elements(t)
         /\ \A p \in upper : StoredReport(p, op, adm) \in Elements(t)
  BY <1>2, <1>5, <1>10, <1>13
<1>15. ASSUME NEW m \in Elements(t), m.type = "STATECHG_EVENT_REP"
       PROVE  o = Channel(LastTs) /\ m.obj \in upper /\ m = StoredReport(m.obj, op, adm)
  <2>1. m \in Elements(s)
    BY <1>1, <1>2, <1>15
  <2>2. o = Channel(LastTs)
    BY <1>6, <1>9, <1>15, <2>1
  <2>3. \E p \in upper : m = StoredReport(p, op, adm)
    BY <1>5, <1>10, <1>11, <1>15, <2>1, <2>2
  <2> QED BY <1>11, <1>12, <2>2, <2>3
<1> QED BY <1>2, <1>9, <1>14, <1>15 DEF OpstartReply, t, s, a, radio, baseb, upper

\* What the answer of the BSC to message m contains.
LEMMA ReactionContents ==
    ASSUME NEW m \in ToBsc
    PROVE  /\ \A o \in Objects : m = About("SW_ACT_REQ", o) =>
                {About("SW_ACT_REQ_ACK", o), About("ACTIVATE_SW", o)}
                  \subseteq Elements(Reaction(m))
           /\ m = Managed => About("OPSTART", SiteManager) \in Elements(Reaction(m))
           /\ \A o \in {Bts} \cup ChannelObjects :
                m = Waits(o) => About("OPSTART", o) \in Elements(Reaction(m))
           /\ \A o \in {BasebTransc, RadioCarrier} :
                m = About("SW_ACTIVATED_REP", o) => About("OPSTART", o) \in Elements(Reaction(m))
           /\ m = About("SW_ACTIVATED_REP", BasebTransc)
                => Plain("RSL_CONNECT") \in Elements(Reaction(m))
<1>1. ASSUME NEW o \in Objects, m = About("SW_ACT_REQ", o)
      PROVE  {About("SW_ACT_REQ_ACK", o), About("ACTIVATE_SW", o)} \subseteq Elements(Reaction(m))
  <2>1. m.type = "SW_ACT_REQ" /\ m.obj = o
    BY <1>1 DEF About
  <2>2. Reaction(m) = <<About("SW_ACT_REQ_ACK", o), About("ACTIVATE_SW", o)>>
    BY <2>1, ReactionValue
  <2>3. \A x, y : Elements(<<x, y>>) = {x, y}
    BY DEF Elements
  <2> QED BY <2>2, <2>3
<1>2. m = Managed => About("OPSTART", SiteManager) \in Elements(Reaction(m))
  <2>1. \A x : Elements(<<x>>) = {x}
    BY DEF Elements
  <2> QED BY <2>1, ReactionValue
<1>3. ASSUME NEW o, NEW set PROVE About("OPSTART", o) \in Elements(SetAndStart(set, o))
  <2> DEFINE a == AdmRequest(o, "UNLOCKED")
             b == About("OPSTART", o)
  <2> HIDE DEF a, b
  <2>1. Elements(<<set, a, b>>) = {set, a, b}
    BY DEF Elements
  <2> QED BY <2>1 DEF SetAndStart, a, b
<1>4. m = Waits(Bts) => About("OPSTART", Bts) \in Elements(Reaction(m))
  BY <1>3, ReactionValue
<1>5. ASSUME NEW o \in ChannelObjects, m = Waits(o)
      PROVE  About("OPSTART", o) \in Elements(Reaction(m))
  <2>1. ReportsWaiting(m) /\ m.obj = o
    BY <1>5 DEF Waits, StateChg, ReportsWaiting
  <2> QED BY <1>3, <2>1, ReactionValue
<1>6. m = About("SW_ACTIVATED_REP", RadioCarrier)
        => About("OPSTART", RadioCarrier) \in Elements(Reaction(m))
  BY <1>3, ReactionValue
<1>7. m = About("SW_ACTIVATED_REP", BasebTransc)
        => {About("OPSTART", BasebTransc), Plain("RSL_CONNECT")} \subseteq Elements(Reaction(m))
  <2> DEFINE a == AdmRequest(BasebTransc, "UNLOCKED")
             b == About("OPSTART", BasebTransc)
             c == Plain("RSL_CONNECT")
  <2> HIDE DEF a, b, c
  <2>1. Elements(<<a, b, c>>) = {a, b, c}
    BY DEF Elements
  <2> QED BY <2>1, ReactionValue DEF a, b, c
<1> QED BY <1>1, <1>2, <1>4, <1>5, <1>6, <1>7
-----------------------------------------------------------------------------
(* The requests for the timeslots stay in order.                           *)

LastChannel == Channel(LastTs)

\* How far object o has come, with what is under way about it.
Ordered(o) == About("OPSTART", o) \in Elements(In) \/ Enabled(o)
Waiting(o) == Waits(o) \in Elements(Out) \/ Ordered(o)
Activating(o) == About("ACTIVATE_SW", o) \in Elements(In) \/ Waiting(o)

\* No timeslot falls behind the last: in each of the four crossings of the link
\* its message comes before that of the last, or it has come further.
InLine(c) ==
    /\ Activating(c) \/ Leads(Out, About("SW_ACT_REQ", c), About("SW_ACT_REQ", LastChannel))
    /\ Waiting(c) \/ Leads(In, About("ACTIVATE_SW", c), About("ACTIVATE_SW", LastChannel))
    /\ Ordered(c) \/ Leads(Out, Waits(c), Waits(LastChannel))
    /\ Enabled(c) \/ Leads(In, About("OPSTART", c), About("OPSTART", LastChannel))
    /\ Enabled(LastChannel) => Enabled(c)
ChannelsInLine == \A c \in ChannelObjects \ {LastChannel} : InLine(c)

\* What a step does with a message of the OML link.
LEMMA Consumed ==
    ASSUME TypeOK, OmlStep
    PROVE  /\ \A r \in Elements(In) :
                 \/ r \in Elements(In')
                 \/ \E t \in Seq(CausedBy(r)) : BtsAnswers(r, t)
           /\ \A m \in Elements(Out) : m \in Elements(Out') \/ BscAnswers(m)
<1>1. ASSUME NEW r \in asked, NEW t \in Seq(CausedBy(r)), BtsAnswers(r, t),
             NEW x \in Elements(In), x \notin Elements(In')
      PROVE  x = r
  BY <1>1 DEF BtsAnswers, Consumes
<1>2. ASSUME NEW m \in said, BscAnswers(m), NEW x \in Elements(Out), x \notin Elements(Out')
      PROVE  x = m
  BY <1>2 DEF BscAnswers, Consumes
<1>3. ASSUME NEW r \in asked, NEW t \in Seq(CausedBy(r)), BtsAnswers(r, t)
      PROVE  Elements(Out) \subseteq Elements(Out')
  BY <1>3 DEF BtsAnswers, Extends
<1>4. ASSUME NEW m \in said, BscAnswers(m)
      PROVE  Elements(In) \subseteq Elements(In')
  BY <1>4 DEF BscAnswers, Extends
<1>5. ASSUME NEW r \in ToBts, BscSpeaks(r)
      PROVE  Elements(In) \subseteq Elements(In') /\ Elements(Out) = Elements(Out')
  BY <1>5 DEF BscSpeaks, Extends
<1>6. ASSUME Elsewhere
      PROVE  Elements(In) \subseteq Elements(In') /\ Elements(Out) = Elements(Out')
  BY <1>6 DEF Elsewhere
<1> QED BY <1>1, <1>2, <1>3, <1>4, <1>5, <1>6 DEF OmlStep

\* What a step may add to the streams, and what it does not add stays in order.
LEMMA Added ==
    ASSUME TypeOK, OmlStep
    PROVE  /\ \A m \in Elements(Out') \ Elements(Out) :
                 \E r \in asked : \E t \in Seq(CausedBy(r)) : BtsAnswers(r, t) /\ m \in Elements(t)
           /\ \A r \in Elements(In') \ Elements(In) :
                 \/ \E m \in said : BscAnswers(m) /\ r \in Elements(Reaction(m))
                 \/ BscSpeaks(r)
<1>1. ASSUME NEW r \in asked, NEW t \in Seq(CausedBy(r)), BtsAnswers(r, t)
      PROVE  Elements(Out') = Elements(Out) \cup Elements(t) /\ Elements(In') \subseteq Elements(In)
  BY <1>1 DEF BtsAnswers, Extends, Consumes
<1>2. ASSUME NEW m \in said, BscAnswers(m)
      PROVE  Elements(In') = Elements(In) \cup Elements(Reaction(m))
             /\ Elements(Out') \subseteq Elements(Out)
  BY <1>2 DEF BscAnswers, Extends, Consumes
<1>3. ASSUME NEW r \in ToBts, BscSpeaks(r)
      PROVE  Elements(In') = Elements(In) \cup {r} /\ Out' = Out
  <2>1. Elements(<<r>>) = {r}
    BY DEF Elements
  <2> QED BY <1>3, <2>1 DEF BscSpeaks, Extends
<1>4. ASSUME Elsewhere
      PROVE  In' = In /\ Out' = Out
  BY <1>4 DEF Elsewhere
<1> QED BY <1>1, <1>2, <1>3, <1>4 DEF OmlStep

\* The streams are FIFO: what follows c is not read before c is, and c is still
\* ahead of d unless d was sent without it.
LEMMA OutOrder ==
    ASSUME TypeOK, OmlStep, NEW c, NEW d, c # d, Leads(Out, c, d)
    PROVE  /\ ~BscAnswers(d)
           /\ \/ BscAnswers(c)
              \/ Leads(Out', c, d)
              \/ \E r \in asked : \E t \in Seq(CausedBy(r)) :
                    BtsAnswers(r, t) /\ d \in Elements(t)
                    /\ c \notin Elements(Out) /\ ~Leads(t, c, d)
<1>1. ~BscAnswers(d)
  BY DEF BscAnswers, Consumes
<1>2. ASSUME NEW r \in asked, NEW t \in Seq(CausedBy(r)), BtsAnswers(r, t),
             d \in Elements(t) => c \in Elements(Out) \/ Leads(t, c, d)
      PROVE  Leads(Out', c, d)
  BY <1>2 DEF BtsAnswers, Extends
<1>3. ASSUME NEW m \in said, BscAnswers(m), m # c
      PROVE  Leads(Out', c, d)
  BY <1>3 DEF BscAnswers, Consumes
<1>4. ASSUME Out' = Out PROVE Leads(Out', c, d)
  BY <1>4
<1> QED BY <1>1, <1>2, <1>3, <1>4 DEF OmlStep, BscSpeaks, Elsewhere

LEMMA InOrder ==
    ASSUME TypeOK, OmlStep, NEW c, NEW d, c # d, Leads(In, c, d)
    PROVE  /\ \A t \in Seq(CausedBy(d)) : ~BtsAnswers(d, t)
           /\ \/ \E t \in Seq(CausedBy(c)) : BtsAnswers(c, t)
              \/ Leads(In', c, d)
              \/ \E m \in said : BscAnswers(m) /\ d \in Elements(Reaction(m))
                                 /\ c \notin Elements(In) /\ ~Leads(Reaction(m), c, d)
              \/ BscSpeaks(d)
<1>1. \A t \in Seq(CausedBy(d)) : ~BtsAnswers(d, t)
  BY DEF BtsAnswers, Consumes
<1>2. ASSUME NEW r \in asked, NEW t \in Seq(CausedBy(r)), BtsAnswers(r, t), r # c
      PROVE  Leads(In', c, d)
  BY <1>2 DEF BtsAnswers, Consumes
<1>3. ASSUME NEW m \in said, BscAnswers(m),
             d \in Elements(Reaction(m)) => c \in Elements(In) \/ Leads(Reaction(m), c, d)
      PROVE  Leads(In', c, d)
  BY <1>3 DEF BscAnswers, Extends
<1>4. ASSUME NEW r \in ToBts, BscSpeaks(r), r # d
      PROVE  Leads(In', c, d)
  <2>1. Elements(<<r>>) = {r}
    BY DEF Elements
  <2> QED BY <1>4, <2>1 DEF BscSpeaks, Extends
<1>5. ASSUME In' = In PROVE Leads(In', c, d)
  BY <1>5
<1> QED BY <1>1, <1>2, <1>3, <1>4, <1>5 DEF OmlStep, Elsewhere

\* What request r leaves in the streams, and message m.
LEMMA Answered ==
    ASSUME TypeOK, NEW r \in asked, NEW t \in Seq(CausedBy(r)), BtsAnswers(r, t)
    PROVE  /\ \A m \in Elements(t) : m \in Elements(Out') /\ m \in CausedBy(r)
           /\ \A o \in Objects : r = About("ACTIVATE_SW", o) => t = ActivateSwReply(o)
           /\ \A o \in Objects : r = About("OPSTART", o) =>
                Enabled(o)' /\ t = OpstartReply(o, opstate', admin_state')
<1>1. \A m \in Elements(t) : m \in Elements(Out') /\ m \in CausedBy(r)
  BY ElementsOf DEF BtsAnswers, Extends
<1>2. ASSUME NEW o \in Objects, r = About("ACTIVATE_SW", o) PROVE t = ActivateSwReply(o)
  <2>1. r.type = "ACTIVATE_SW" /\ r.obj = o
    BY <1>2 DEF About
  <2> QED BY <2>1 DEF BtsAnswers, Exactly
<1>3. ASSUME NEW o \in Objects, r = About("OPSTART", o)
      PROVE  Enabled(o)' /\ t = OpstartReply(o, opstate', admin_state')
  <2>1. r.type = "OPSTART" /\ r.obj = o
    BY <1>3 DEF About
  <2> QED BY <1>3, <2>1 DEF BtsAnswers, Exactly, Enabled
<1> QED BY <1>1, <1>2, <1>3

LEMMA Reacted ==
    ASSUME TypeOK, NEW m, BscAnswers(m)
    PROVE  /\ m \in said /\ m \in ToBsc
           /\ \A r \in Elements(Reaction(m)) : r \in Elements(In') /\ r \in ProvokedBy(m)
<1>1. m \in said /\ m \in ToBsc
  BY DEF BscAnswers, TypeOK
<1>2. Elements(Reaction(m)) \subseteq ProvokedBy(m)
  BY <1>1, ReactionType, ElementsOf
<1> QED BY <1>1, <1>2 DEF BscAnswers, Extends

\* An object does not fall back.
LEMMA NeverBack ==
    ASSUME TypeOK, OmlStep, NEW o \in Objects
    PROVE  /\ Enabled(o) => Enabled(o)'
           /\ Ordered(o) => Ordered(o)'
<1>1. Enabled(o) => Enabled(o)'
  BY EveryStepCaused DEF CausedStep
<1>2. About("OPSTART", o) \in Elements(In) => Ordered(o)'
  BY Consumed, Answered DEF Ordered, BtsAnswers
<1> QED BY <1>1, <1>2 DEF Ordered

LEMMA Progress ==
    ASSUME TypeOK, OmlStep, NEW o \in {Bts} \cup ChannelObjects
    PROVE  /\ Waiting(o) => Waiting(o)'
           /\ Activating(o) => Activating(o)'
<1>0. o \in Objects
  BY ObjectTypes
<1>3. Ordered(o) => Ordered(o)'
  BY <1>0, NeverBack
<1>4. Waits(o) \in Elements(Out) => Waiting(o)'
  <2>1. CASE Waits(o) \in Elements(Out')
    BY <2>1 DEF Waiting
  <2>2. CASE BscAnswers(Waits(o))
    BY <2>2, Reacted, ReactionContents DEF Waiting, Ordered
  <2> QED BY <2>1, <2>2, Consumed
<1>5. Waiting(o) => Waiting(o)'
  BY <1>3, <1>4 DEF Waiting
<1>6. About("ACTIVATE_SW", o) \in Elements(In) => Activating(o)'
  <2>1. CASE About("ACTIVATE_SW", o) \in Elements(In')
    BY <2>1 DEF Activating
  <2>2. ASSUME NEW t \in Seq(CausedBy(About("ACTIVATE_SW", o))),
               BtsAnswers(About("ACTIVATE_SW", o), t)
        PROVE  Activating(o)'
    <3>1. About("ACTIVATE_SW", o) \in asked
      BY <2>2 DEF BtsAnswers
    <3>2. t = ActivateSwReply(o)
      BY <1>0, <2>2, <3>1, Answered
    <3>3. Waits(o) \in Elements(t)
      BY <1>0, <3>2, ActivateSwContents
    <3> QED BY <2>2, <3>1, <3>3, Answered DEF Activating, Waiting
  <2> QED BY <2>1, <2>2, Consumed
<1>7. Activating(o) => Activating(o)'
  BY <1>5, <1>6 DEF Activating
<1> QED BY <1>5, <1>7

\* Everything said has a cause, everything asked a reason.
Provoked ==
    /\ \A m \in said : \E r \in asked : m \in CausedBy(r)
    /\ \A r \in asked : \/ r.type \in {"ID_GET", "PING"}
                        \/ \E m \in said : r \in ProvokedBy(m)

LEMMA ProvokedStep ==
    ASSUME TypeOK, Provoked, OmlStep
    PROVE  Provoked'
<1>1. CausedStep
  BY EveryStepCaused
<1>2. ASSUME NEW m \in said' PROVE \E r \in asked' : m \in CausedBy(r)
  BY <1>1 DEF CausedStep, Provoked
<1>3. ASSUME NEW r \in asked'
      PROVE  r.type \in {"ID_GET", "PING"} \/ \E m \in said' : r \in ProvokedBy(m)
  BY <1>1 DEF CausedStep, Provoked
<1> QED BY <1>2, <1>3 DEF Provoked

\* Only a request for its software makes the BSC activate an object, and only its
\* own report makes the BSC start it.
LEMMA Reasons ==
    ASSUME TypeOK, Provoked, NEW m \in said, NEW o \in Objects
    PROVE  /\ About("ACTIVATE_SW", o) \in ProvokedBy(m) => m = About("SW_ACT_REQ", o)
           /\ About("OPSTART", o) \in ProvokedBy(m) =>
                /\ o = SiteManager => m = Managed
                /\ o \in {Bts} \cup ChannelObjects => m = Waits(o)
                /\ o \in {BasebTransc, RadioCarrier} => m = About("SW_ACTIVATED_REP", o)
           /\ Plain("RSL_CONNECT") \in ProvokedBy(m) => m = About("SW_ACTIVATED_REP", BasebTransc)
<1>1. ReportsWaiting(m) => m = Waits(m.obj)
  BY DEF Provoked, CausedBy
<1>2. /\ About("OPSTART", o).type = "OPSTART" /\ About("OPSTART", o).obj = o
      /\ About("ACTIVATE_SW", o).type = "ACTIVATE_SW" /\ About("ACTIVATE_SW", o).obj = o
      /\ Plain("RSL_CONNECT").type = "RSL_CONNECT"
  BY DEF About, Plain
<1>3. /\ o = SiteManager => o \notin {Bts, BasebTransc, RadioCarrier} \cup ChannelObjects
      /\ o \in {Bts} \cup ChannelObjects => o \notin {SiteManager, BasebTransc, RadioCarrier}
      /\ o \in {BasebTransc, RadioCarrier} => o \notin {SiteManager, Bts} \cup ChannelObjects
  BY ObjectTypes, ObjectsDiffer
<1>4. About("ACTIVATE_SW", o) \in ProvokedBy(m) => m = About("SW_ACT_REQ", o)
  BY <1>2 DEF ProvokedBy
<1>5. Plain("RSL_CONNECT") \in ProvokedBy(m) => m = About("SW_ACTIVATED_REP", BasebTransc)
  BY <1>2 DEF ProvokedBy
<1>6. About("OPSTART", o) \in ProvokedBy(m) =>
                /\ o = SiteManager => m = Managed
                /\ o \in {Bts} \cup ChannelObjects => m = Waits(o)
                /\ o \in {BasebTransc, RadioCarrier} => m = About("SW_ACTIVATED_REP", o)
  BY <1>1, <1>2, <1>3 DEF ProvokedBy
<1> QED BY <1>4, <1>5, <1>6

\* Messages about different objects, and of different types, differ.
LEMMA MessagesDiffer ==
    /\ \A t, u, o, p : About(t, o) = About(u, p) => t = u /\ o = p
    /\ \A o, p : Waits(o) = Waits(p) => o = p
    /\ \A t, u, o : About(t, o) # Plain(u)
BY DEF About, Waits, StateChg, Plain

LEMMA LineStep ==
    ASSUME TypeOK, Provoked, OmlStep, NEW c \in ChannelObjects \ {LastChannel}, InLine(c)
    PROVE  InLine(c)'
<1> DEFINE L == LastChannel
           q(o) == About("SW_ACT_REQ", o)
           a(o) == About("ACTIVATE_SW", o)
           w(o) == Waits(o)
           s(o) == About("OPSTART", o)
<1>0. L \in ChannelObjects /\ c \in Objects /\ L \in Objects /\ L # SiteManager
      /\ RadioCarrier \in Objects
  BY ObjectTypes, ObjectsDiffer DEF LastChannel
<1>1. q(c) # q(L) /\ a(c) # a(L) /\ w(c) # w(L) /\ s(c) # s(L)
  BY MessagesDiffer
<1>2. /\ Enabled(c) => Enabled(c)'
      /\ Ordered(c) => Ordered(c)'
      /\ Waiting(c) => Waiting(c)'
      /\ Activating(c) => Activating(c)'
  BY <1>0, NeverBack, Progress
<1>3. Activating(c)' \/ Leads(Out', q(c), q(L))
  <2> SUFFICES ASSUME Leads(Out, q(c), q(L)) PROVE Activating(c)' \/ Leads(Out', q(c), q(L))
    BY <1>2 DEF InLine
  <2>1. ASSUME BscAnswers(q(c)) PROVE Activating(c)'
    <3>1. a(c) \in Elements(Reaction(q(c)))
      BY <1>0, <2>1, Reacted, ReactionContents
    <3> QED BY <2>1, <3>1, Reacted DEF Activating
  <2>2. ASSUME NEW r \in asked, NEW t \in Seq(CausedBy(r)), BtsAnswers(r, t),
               q(L) \in Elements(t)
        PROVE  Leads(t, q(c), q(L))
    <3>1. r = a(RadioCarrier)
      <4>1. q(L).type = "SW_ACT_REQ" /\ q(L).obj = L
        BY DEF About
      <4>2. q(L) \in CausedBy(r)
        BY <2>2, Answered
      <4>3. L \notin {SiteManager, Bts, BasebTransc, RadioCarrier}
        BY <1>0, ObjectTypes, ObjectsDiffer
      <4> QED BY <4>1, <4>2, <4>3 DEF CausedBy
    <3>2. t = ActivateSwReply(RadioCarrier)
      BY <1>0, <2>2, <3>1, Answered
    <3> QED BY <1>0, <3>2, ActivateSwContents DEF LastChannel
  <2> HIDE DEF q
  <2> QED BY <1>1, <2>1, <2>2, OutOrder
<1>4. Waiting(c)' \/ Leads(In', a(c), a(L))
  <2> SUFFICES ASSUME Leads(In, a(c), a(L)), ~Waiting(c)
               PROVE Waiting(c)' \/ Leads(In', a(c), a(L))
    BY <1>2 DEF InLine
  <2>1. ASSUME NEW t \in Seq(CausedBy(a(c))), BtsAnswers(a(c), t) PROVE Waiting(c)'
    <3>1. a(c) \in asked
      BY <2>1 DEF BtsAnswers
    <3>2. w(c) \in Elements(t)
      BY <1>0, <2>1, <3>1, Answered, ActivateSwContents
    <3> QED BY <2>1, <3>1, <3>2, Answered DEF Waiting
  <2>2. ASSUME NEW m \in said, BscAnswers(m), a(L) \in Elements(Reaction(m))
        PROVE  a(c) \in Elements(In)
    <3>1. m = q(L)
      BY <1>0, <2>2, Reacted, Reasons
    <3>2. ~Leads(Out, q(c), q(L))
      BY <1>1, <2>2, <3>1, OutOrder
    <3> QED BY <3>2 DEF InLine, Activating
  <2>3. ~BscSpeaks(a(L))
    BY DEF BscSpeaks, About
  <2> HIDE DEF a
  <2> QED BY <1>1, <2>1, <2>2, <2>3, InOrder
<1>5. Ordered(c)' \/ Leads(Out', w(c), w(L))
  <2> SUFFICES ASSUME Leads(Out, w(c), w(L)), ~Ordered(c)
               PROVE  Ordered(c)' \/ Leads(Out', w(c), w(L))
    BY <1>2 DEF InLine
  <2>1. ASSUME BscAnswers(w(c)) PROVE Ordered(c)'
    <3>1. s(c) \in Elements(Reaction(w(c)))
      BY <1>0, <2>1, Reacted, ReactionContents
    <3> QED BY <2>1, <3>1, Reacted DEF Ordered
  <2>2. ASSUME NEW r \in asked, NEW t \in Seq(CausedBy(r)), BtsAnswers(r, t),
               w(L) \in Elements(t)
        PROVE  w(c) \in Elements(Out)
    <3>1. r = a(L)
      <4>1. ReportsWaiting(w(L)) /\ w(L).obj = L
        BY DEF Waits, StateChg, ReportsWaiting
      <4>2. w(L) \in CausedBy(r)
        BY <2>2, Answered
      <4> QED BY <4>1, <4>2 DEF CausedBy
    <3>2. ~Leads(In, a(c), a(L))
      BY <1>1, <2>2, <3>1, InOrder
    <3> QED BY <3>2 DEF InLine, Waiting
  <2> HIDE DEF w
  <2> QED BY <1>1, <2>1, <2>2, OutOrder
<1>6. Enabled(c)' \/ Leads(In', s(c), s(L))
  <2> SUFFICES ASSUME Leads(In, s(c), s(L)), ~Enabled(c)
               PROVE  Enabled(c)' \/ Leads(In', s(c), s(L))
    BY <1>2 DEF InLine
  <2>1. ASSUME NEW t \in Seq(CausedBy(s(c))), BtsAnswers(s(c), t) PROVE Enabled(c)'
    <3>1. s(c) \in asked
      BY <2>1 DEF BtsAnswers
    <3> QED BY <1>0, <2>1, <3>1, Answered
  <2>2. ASSUME NEW m \in said, BscAnswers(m), s(L) \in Elements(Reaction(m))
        PROVE  s(c) \in Elements(In)
    <3>1. m = w(L)
      BY <1>0, <2>2, Reacted, Reasons
    <3>2. ~Leads(Out, w(c), w(L))
      BY <1>1, <2>2, <3>1, OutOrder
    <3> QED BY <3>2 DEF InLine, Ordered
  <2>3. ~BscSpeaks(s(L))
    BY <1>0 DEF BscSpeaks, About
  <2> HIDE DEF s
  <2> QED BY <1>1, <2>1, <2>2, <2>3, InOrder
<1>7. (Enabled(L) => Enabled(c))'
  <2> SUFFICES ASSUME Enabled(L)', ~Enabled(L), ~Enabled(c) PROVE FALSE
    BY <1>2 DEF InLine
  <2>1. \E t \in Seq(CausedBy(s(L))) : BtsAnswers(s(L), t)
    BY <1>0 DEF OmlStep, BtsAnswers, BscAnswers, BscSpeaks, Elsewhere, Enabled, objectVars
  <2>2. ~Leads(In, s(c), s(L))
    BY <1>1, <2>1, InOrder
  <2> QED BY <2>2 DEF InLine
<1> HIDE DEF q, a, w, s
<1> QED BY <1>3, <1>4, <1>5, <1>6, <1>7 DEF InLine, q, a, w, s

LEMMA ChannelsStep ==
    ASSUME TypeOK, Provoked, OmlStep, ChannelsInLine
    PROVE  ChannelsInLine'
<1>1. ASSUME NEW c \in ChannelObjects \ {LastChannel} PROVE InLine(c)'
  BY LineStep DEF ChannelsInLine
<1> QED BY <1>1 DEF ChannelsInLine
-----------------------------------------------------------------------------
(* The two halves of the transceiver and the RSL link.                     *)

\* The radio carrier is not behind the baseband transceiver, nor is either
\* behind the request that connects the RSL link.
TransceiverInLine ==
    /\ \/ Ordered(RadioCarrier)
       \/ Leads(Out, About("SW_ACTIVATED_REP", RadioCarrier),
            About("SW_ACTIVATED_REP", BasebTransc))
    /\ \A o \in {BasebTransc, RadioCarrier} :
          Enabled(o) \/ Leads(In, About("OPSTART", o), Plain("RSL_CONNECT"))
    /\ RslLast

LEMMA TransceiverStep ==
    ASSUME TypeOK, Provoked, OmlStep, TransceiverInLine, opstate' \in [Objects -> OpStates],
           admin_state' \in [Objects -> AdminStates]
    PROVE  TransceiverInLine'
<1> DEFINE radio == About("SW_ACTIVATED_REP", RadioCarrier)
           baseb == About("SW_ACTIVATED_REP", BasebTransc)
           connect == Plain("RSL_CONNECT")
           s(o) == About("OPSTART", o)
<1>0. /\ LastChannel \in Objects /\ BasebTransc \in Objects /\ RadioCarrier \in Objects
      /\ radio # baseb /\ SiteManager \notin {BasebTransc, RadioCarrier}
  BY ObjectTypes, ObjectsDiffer, MessagesDiffer DEF LastChannel
<1>1. /\ \A o \in {BasebTransc, RadioCarrier} : Enabled(o) => Enabled(o)'
      /\ Ordered(RadioCarrier) => Ordered(RadioCarrier)'
  BY <1>0, NeverBack
<1>2. Ordered(RadioCarrier)' \/ Leads(Out', radio, baseb)
  <2> SUFFICES ASSUME Leads(Out, radio, baseb)
               PROVE  Ordered(RadioCarrier)' \/ Leads(Out', radio, baseb)
    BY <1>1 DEF TransceiverInLine
  <2>1. ASSUME BscAnswers(radio) PROVE Ordered(RadioCarrier)'
    <3>1. s(RadioCarrier) \in Elements(Reaction(radio))
      BY <2>1, Reacted, ReactionContents
    <3> QED BY <2>1, <3>1, Reacted DEF Ordered
  <2>2. ASSUME NEW r \in asked, NEW t \in Seq(CausedBy(r)), BtsAnswers(r, t),
               baseb \in Elements(t)
        PROVE  Leads(t, radio, baseb)
    <3>1. r = s(LastChannel)
      <4>1. baseb.type = "SW_ACTIVATED_REP" /\ baseb.obj = BasebTransc
        BY DEF About
      <4>2. baseb \in CausedBy(r)
        BY <2>2, Answered
      <4> QED BY <4>1, <4>2 DEF CausedBy, LastChannel
    <3>2. t = OpstartReply(LastChannel, opstate', admin_state')
      BY <1>0, <2>2, <3>1, Answered
    <3> QED BY <1>0, <3>2, OpstartContents DEF LastChannel
  <2> HIDE DEF radio, baseb
  <2> QED BY <1>0, <2>1, <2>2, OutOrder
<1>3. ASSUME NEW o \in {BasebTransc, RadioCarrier}
      PROVE  Enabled(o)' \/ Leads(In', s(o), connect)
  <2> SUFFICES ASSUME Leads(In, s(o), connect), ~Enabled(o)
               PROVE  Enabled(o)' \/ Leads(In', s(o), connect)
    BY <1>1 DEF TransceiverInLine
  <2>1. ASSUME NEW t \in Seq(CausedBy(s(o))), BtsAnswers(s(o), t) PROVE Enabled(o)'
    <3>1. s(o) \in asked
      BY <2>1 DEF BtsAnswers
    <3> QED BY <1>0, <2>1, <3>1, Answered
  <2>2. ASSUME NEW m \in said, BscAnswers(m), connect \in Elements(Reaction(m))
        PROVE  s(o) \in Elements(In) \/ Leads(Reaction(m), s(o), connect)
    <3>1. m = baseb
      BY <1>0, <2>2, Reacted, Reasons
    <3>2. CASE o = BasebTransc
      BY <2>2, <3>2, Reacted, ReactionType
    <3>3. CASE o = RadioCarrier
      <4>1. ~Leads(Out, radio, baseb)
        BY <1>0, <2>2, <3>1, OutOrder
      <4> QED BY <3>3, <4>1 DEF TransceiverInLine, Ordered
    <3> QED BY <3>2, <3>3
  <2>3. ~BscSpeaks(connect) /\ s(o) # connect
    BY <1>0, MessagesDiffer DEF BscSpeaks, Plain
  <2> HIDE DEF s, connect
  <2> QED BY <2>1, <2>2, <2>3, InOrder
<1>4. RslLast'
  <2> SUFFICES ASSUME Plain("RSL_CONNECT_ACK") \in said' \ said,
        NEW o \in {BasebTransc, RadioCarrier}
               PROVE  Enabled(o)'
    BY <1>1 DEF TransceiverInLine, RslLast
  <2>1. PICK r \in asked : \E t \in Seq(CausedBy(r)) :
          BtsAnswers(r, t) /\ Plain("RSL_CONNECT_ACK") \in Elements(t)
    BY DEF OmlStep, BtsAnswers, BscAnswers, BscSpeaks, Elsewhere
  <2>2. r = connect
    BY <2>1, Answered DEF CausedBy
  <2>3. ~Leads(In, s(o), connect)
    <3>1. s(o) # connect
      BY MessagesDiffer
    <3> HIDE DEF s, connect
    <3> QED BY <2>1, <2>2, <3>1, InOrder
  <2> QED BY <1>1, <2>3 DEF TransceiverInLine
<1> HIDE DEF radio, baseb, s, connect
<1> QED BY <1>2, <1>3, <1>4 DEF TransceiverInLine, radio, baseb, s, connect
-----------------------------------------------------------------------------
(* Objects are unlocked before they are started.                           *)
UnlockedFirst ==
    /\ \A o \in Objects \ {SiteManager} :
          \/ admin_state[o] = "UNLOCKED"
          \/ Leads(In, AdmRequest(o, "UNLOCKED"), About("OPSTART", o))
    /\ EnabledIsUnlocked

LEMMA StaysUnlocked ==
    ASSUME TypeOK, Provoked, OmlStep, NEW o \in Objects, admin_state[o] = "UNLOCKED"
    PROVE  admin_state'[o] = "UNLOCKED"
<1>1. ASSUME NEW r \in asked, NEW t \in Seq(CausedBy(r)), BtsAnswers(r, t)
      PROVE  admin_state'[o] = "UNLOCKED"
  <2>1. r.type = "CHG_ADM_STATE" => r.adm = "UNLOCKED"
    BY DEF Provoked, ProvokedBy
  <2> QED BY <1>1, <2>1 DEF BtsAnswers, Administered
<1> QED BY <1>1 DEF OmlStep, BscAnswers, BscSpeaks, Elsewhere, objectVars

LEMMA UnlockedStep ==
    ASSUME TypeOK, Provoked, OmlStep, UnlockedFirst
    PROVE  UnlockedFirst'
<1> DEFINE u(o) == AdmRequest(o, "UNLOCKED")
           s(o) == About("OPSTART", o)
<1>0. ASSUME NEW o \in Objects
      PROVE  u(o) # s(o) /\ u(o).type = "CHG_ADM_STATE" /\ u(o).adm = "UNLOCKED" /\ u(o).obj = o
  BY DEF AdmRequest, About
<1>1. ASSUME NEW o \in Objects \ {SiteManager}
      PROVE  admin_state'[o] = "UNLOCKED" \/ Leads(In', u(o), s(o))
  <2> SUFFICES ASSUME Leads(In, u(o), s(o))
               PROVE  admin_state'[o] = "UNLOCKED" \/ Leads(In', u(o), s(o))
    BY StaysUnlocked DEF UnlockedFirst
  <2>1. ASSUME NEW t \in Seq(CausedBy(u(o))), BtsAnswers(u(o), t)
        PROVE  admin_state'[o] = "UNLOCKED"
    <3> HIDE DEF u
    <3> QED BY <1>0, <2>1 DEF BtsAnswers, Administered
  <2>2. ASSUME NEW m \in said, BscAnswers(m) PROVE Leads(Reaction(m), u(o), s(o))
    BY <2>2, Reacted, ReactionType
  <2>3. ~BscSpeaks(s(o))
    BY DEF BscSpeaks, About
  <2>4. u(o) # s(o)
    BY <1>0
  <2> HIDE DEF u, s
  <2> QED BY <2>1, <2>2, <2>3, <2>4, InOrder
<1>2. ASSUME NEW o \in Objects, Enabled(o)'
      PROVE  admin_state'[o] = "UNLOCKED"
  <2>1. CASE Enabled(o)
    BY <2>1, StaysUnlocked DEF UnlockedFirst, EnabledIsUnlocked
  <2>2. CASE ~Enabled(o)
    <3>1. \E t \in Seq(CausedBy(s(o))) : BtsAnswers(s(o), t)
      BY <1>2, <2>2 DEF OmlStep, BtsAnswers, BscAnswers, BscSpeaks, Elsewhere, Enabled, objectVars
    <3>2. CASE o = SiteManager
      BY <3>1, <3>2 DEF BtsAnswers, Administered
    <3>3. CASE o # SiteManager
      <4>1. u(o) # s(o)
        BY <1>0
      <4> HIDE DEF u, s
      <4>2. ~Leads(In, u(o), s(o))
        BY <3>1, <4>1, InOrder
      <4> QED BY <3>3, <4>2, StaysUnlocked DEF UnlockedFirst, u, s
    <3> QED BY <3>2, <3>3
  <2> QED BY <2>1, <2>2
<1> HIDE DEF u, s
<1> QED BY <1>1, <1>2 DEF UnlockedFirst, EnabledIsUnlocked, u, s
-----------------------------------------------------------------------------
\* Nothing of the start-up of the site manager happens before the first identity
\* request is answered.
NotBegun ==
    ~bts_id_resp =>
        /\ sw_site_manager = "FALSE"
        /\ About("SW_ACT_REQ", SiteManager) \notin said
        /\ {About("SW_ACT_REQ_ACK", SiteManager), About("ACTIVATE_SW", SiteManager)} \cap asked = {}

LEMMA NotBegunStep ==
    ASSUME TypeOK, OmlStep, NotBegun
    PROVE  NotBegun'
<1> SUFFICES ASSUME ~bts_id_resp' PROVE NotBegun'
  BY DEF NotBegun
<1>1. CausedStep
  BY EveryStepCaused
<1>2. ~bts_id_resp
  BY <1>1 DEF CausedStep
<1>3. sw_site_manager' = "FALSE"
  BY <1>1, <1>2 DEF CausedStep, NotBegun
<1>4. About("SW_ACT_REQ", SiteManager) \notin said'
  <2>1. \A r : About("SW_ACT_REQ", SiteManager) \in CausedBy(r) => r.type = "ID_GET"
    BY DEF CausedBy, Initial, Plain
  <2> QED BY <1>1, <1>2, <2>1 DEF CausedStep, NotBegun
<1>5. ASSUME NEW t \in {"SW_ACT_REQ_ACK", "ACTIVATE_SW"}
      PROVE  About(t, SiteManager) \notin asked'
  <2> DEFINE r == About(t, SiteManager)
  <2>1. r.type = t /\ r.obj = SiteManager
    BY DEF About
  <2> HIDE DEF r
  <2>2. \A m : r \in ProvokedBy(m) => m = About("SW_ACT_REQ", SiteManager)
    BY <1>5, <2>1 DEF ProvokedBy
  <2> QED BY <1>1, <1>2, <1>5, <2>1, <2>2 DEF CausedStep, NotBegun, r
<1> QED BY <1>3, <1>4, <1>5 DEF NotBegun
-----------------------------------------------------------------------------
(* The theorems.                                                           *)

\* What is known of the OML link in every state.
OmlLink == TypeOK /\ StreamsRemembered /\ Provoked

LEMMA InitEmpty ==
    ASSUME Init
    PROVE  /\ said = {} /\ asked = {} /\ In = <<>> /\ Out = <<>>
           /\ inbox["RSL"] = <<>> /\ Elements(<<>>) = {}
           /\ \A c, d : Leads(In, c, d) /\ Leads(Out, c, d)
           /\ \A C, d : Trails(In, C, d) /\ Trails(Out, C, d)
           /\ \A o \in Objects : ~Enabled(o)
           /\ ~bts_id_resp /\ sw_site_manager = "FALSE"
           /\ view = [o \in Objects |-> NoReport]
<1>1. said = {} /\ asked = {} /\ "OML" \in Links /\ "RSL" \in Links
  BY DEF Init, Links
<1>2. In = <<>> /\ inbox["RSL"] = <<>> /\ Out = <<>>
  BY <1>1 DEF Init, BtsInit, In, Out
<1>3. Elements(<<>>) = {} /\ Len(<<>>) = 0
  BY DEF Elements
<1>4. \A o \in Objects : ~Enabled(o)
  BY DEF Init, BtsInit, InitialState, Enabled
<1>5. \A c, d : Leads(<<>>, c, d)
  BY <1>3 DEF Leads
<1>6. \A C, d : Trails(<<>>, C, d)
  BY <1>3 DEF Trails
<1>7. ~bts_id_resp /\ sw_site_manager = "FALSE" /\ view = [o \in Objects |-> NoReport]
  BY DEF Init, BtsInit
<1> QED BY <1>1, <1>2, <1>3, <1>4, <1>5, <1>6, <1>7

LEMMA OmlLinkStep ==
    ASSUME OmlLink, [Next]_vars
    PROVE  OmlStep /\ OmlLink'
BY StepKinds, ProvokedStep, TypeStep DEF OmlLink

LEMMA OmlLinkAlways == Spec => []OmlLink
<1>1. Init => OmlLink
  <2> SUFFICES ASSUME Init PROVE OmlLink
    OBVIOUS
  <2>1. StreamsRemembered /\ Provoked
    BY InitEmpty DEF StreamsRemembered, Provoked, In, Out
  <2> QED BY <2>1, TypeInit DEF OmlLink
<1> QED BY <1>1, OmlLinkStep, PTL DEF Spec

LEMMA ChannelsAlways == Spec => []ChannelsInLine
<1>1. Init => ChannelsInLine
  BY InitEmpty, ObjectTypes DEF ChannelsInLine, InLine, LastChannel
<1>2. OmlLink /\ ChannelsInLine /\ [Next]_vars => ChannelsInLine'
  BY OmlLinkStep, ChannelsStep DEF OmlLink
<1> QED BY <1>1, <1>2, OmlLinkAlways, PTL DEF Spec

\* The transceiver is declared active only when every timeslot is started.
THEOREM TransceiverComesUpLast == Spec => []TransceiverLast
<1>1. CausalOrder /\ ChannelsInLine => TransceiverLast
  BY DEF CausalOrder, StartsInTurn, ChannelsInLine, InLine, TransceiverLast, LastChannel
<1> QED BY <1>1, MessagesAreCaused, ChannelsAlways, PTL

\* The RSL link is acknowledged only when both halves of the transceiver run.
THEOREM RslIsConnectedLast == Spec => []RslLast
<1>1. Init => TransceiverInLine
  BY InitEmpty DEF TransceiverInLine, RslLast
<1>2. OmlLink /\ TransceiverInLine /\ [Next]_vars => TransceiverInLine'
  <2> SUFFICES ASSUME OmlLink, TransceiverInLine, [Next]_vars PROVE TransceiverInLine'
    OBVIOUS
  <2>1. OmlStep /\ TypeOK'
    BY OmlLinkStep DEF OmlLink
  <2>2. opstate' \in [Objects -> OpStates] /\ admin_state' \in [Objects -> AdminStates]
    BY <2>1 DEF TypeOK, BtsTypeOK, StatesTypeOK
  <2> QED BY <2>1, <2>2, TransceiverStep DEF OmlLink
<1>3. TransceiverInLine => RslLast
  BY DEF TransceiverInLine
<1> QED BY <1>1, <1>2, <1>3, OmlLinkAlways, PTL DEF Spec

\* A started object has been unlocked, so no report shows it locked.
THEOREM StartedIsUnlocked == Spec => []EnabledIsUnlocked
<1>1. Init => UnlockedFirst
  BY InitEmpty DEF UnlockedFirst, EnabledIsUnlocked
<1>2. OmlLink /\ UnlockedFirst /\ [Next]_vars => UnlockedFirst'
  BY OmlLinkStep, UnlockedStep DEF OmlLink
<1>3. UnlockedFirst => EnabledIsUnlocked
  BY DEF UnlockedFirst
<1> QED BY <1>1, <1>2, <1>3, OmlLinkAlways, PTL DEF Spec

LEMMA NotBegunAlways == Spec => []NotBegun
<1>1. Init => NotBegun
  BY InitEmpty DEF NotBegun
<1>2. OmlLink /\ NotBegun /\ [Next]_vars => NotBegun'
  BY OmlLinkStep, NotBegunStep DEF OmlLink
<1> QED BY <1>1, <1>2, OmlLinkAlways, PTL DEF Spec

\* What does not add to a stream sends nothing.
LEMMA NothingSent ==
    ASSUME BtsTypeOK, NEW l \in Links,
           \/ outbox'[l] = outbox[l]
           \/ outbox'[l] = Tail(outbox[l]) /\ outbox[l] # <<>>
    PROVE  Len(Sent(l)) = 0
<1> DEFINE n == Len(outbox[l])
           k == Len(outbox'[l])
<1>1. n \in Nat /\ k \in Nat /\ k <= n /\ outbox'[l] \in Seq(ToBsc)
  <2>1. outbox[l] \in Seq(ToBsc) /\ n \in Nat
    BY LenProperties DEF BtsTypeOK, StatesTypeOK
  <2>2. CASE outbox'[l] = outbox[l]
    BY <2>1, <2>2
  <2>3. CASE outbox'[l] = Tail(outbox[l]) /\ outbox[l] # <<>>
    <3>1. Len(Tail(outbox[l])) = n - 1 /\ n # 0 /\ Tail(outbox[l]) \in Seq(ToBsc)
      BY <2>1, <2>3, HeadTailProperties, EmptySeq
    <3> QED BY <2>1, <2>3, <3>1
  <2> QED BY <2>2, <2>3
<1> HIDE DEF n, k
<1>2. Len(SubSeq(outbox'[l], n + 1, k)) = 0
  BY <1>1, SubSeqProperties
<1> QED BY <1>2 DEF Sent, n, k

\* The initial report and the request that starts everything leave the BTS once.
THEOREM StartsUpOnce == Spec => StartsOnce
<1> DEFINE Once ==
      \A l \in Links : \A i \in 1 .. Len(Sent(l)) :
         LET m == Sent(l)[i] IN
         \/ m = About("SW_ACT_REQ", SiteManager)
         \/ m.type = "STATECHG_EVENT_REP" /\ m.av = "NOT_INSTALLED"
         => sw_site_manager = "FALSE"
<1>1. OmlLink /\ NotBegun /\ [Next]_vars => [Once]_vars
  <2> SUFFICES ASSUME OmlLink, NotBegun, Next,
                      NEW k \in Links, NEW i \in 1 .. Len(Sent(k)), Initial(Sent(k)[i])
               PROVE  sw_site_manager = "FALSE"
    BY DEF Initial
  <2>1. BtsTypeOK
    BY DEF OmlLink, TypeOK
  <2>2. /\ outbox'[k] # outbox[k]
        /\ outbox[k] # <<>> => outbox'[k] # Tail(outbox[k])
    <3>1. Len(Sent(k)) # 0
      OBVIOUS
    <3> QED BY <2>1, <3>1, NothingSent
  <2>3. ASSUME NEW l \in Links, BtsHandles(l) PROVE sw_site_manager = "FALSE"
    <3> DEFINE r == Head(inbox[l])
    <3>1. Replies(l, r)
      BY <2>1, <2>3, HandlerStep DEF HandlerEffect, AnyEffect
    <3> HIDE DEF r
    <3>2. PICK reply \in [Links -> Seq(CausedBy(r))] :
            /\ outbox' = [j \in Links |-> outbox[j] \o reply[j]]
            /\ r.type \in {"ID_GET", "PING"} => \A j \in Links \ {l} : reply[j] = <<>>
            /\ Exactly(r, reply[l])
      BY <3>1 DEF Replies
    <3>3. Sent(k) = reply[k]
      <4>1. CausedBy(r) \subseteq ToBsc /\ outbox \in [Links -> Seq(ToBsc)]
        BY <2>1, <2>3, HandlerStep, CausedByType DEF HandlerEffect, BtsTypeOK, r
      <4> QED BY <3>2, <4>1, SentReply
    <3>4. reply[k][i] \in CausedBy(r) /\ Initial(reply[k][i])
      BY <3>2, <3>3, ElementOfSeq
    <3>5. r.type = "ID_GET"
      <4>1. \A m \in CausedBy(r) : Initial(m) => r = Plain("ID_GET")
        BY DEF CausedBy
      <4> QED BY <3>4, <4>1 DEF Plain
    <3>6. k = l
      <4>1. Len(reply[k]) # 0
        BY <3>3
      <4> QED BY <3>2, <3>5, <4>1
    <3>7. ~bts_id_resp
      <4> SUFFICES ASSUME bts_id_resp PROVE FALSE
        OBVIOUS
      <4>1. Sent(k) = <<Plain("ID_RESP")>>
        BY <3>2, <3>3, <3>5, <3>6 DEF Exactly
      <4>2. Sent(k)[i] = Plain("ID_RESP")
        BY <4>1
      <4> QED BY <4>2 DEF Initial, Plain, About
    <3> QED BY <3>7 DEF NotBegun
  <2>4. ASSUME NEW l \in Links, BtsStep(l) PROVE sw_site_manager = "FALSE"
    BY <2>3, <2>4 DEF BtsStep
  <2>5. ASSUME NEW l \in Links, outbox[l] # <<>>, outbox' = [outbox EXCEPT ![l] = Tail(@)]
        PROVE  FALSE
    <3>1. k # l => outbox'[k] = outbox[k]
      BY <2>1, <2>5 DEF BtsTypeOK, StatesTypeOK
    <3>2. outbox'[l] = Tail(outbox[l])
      BY <2>1, <2>5 DEF BtsTypeOK, StatesTypeOK
    <3> QED BY <2>2, <2>5, <3>1, <3>2
  <2>6. outbox' # outbox
    BY <2>2
  <2>7. ~BscReacts /\ ~BscReadsRsl
    BY <2>5 DEF BscReacts, BscReadsRsl, Links
  <2>8. ~BscRestarts /\ \A l \in Links : ~BscAsksId(l) /\ ~BscPings(l)
    BY <2>6 DEF BscRestarts, BscAsksId, BscPings, BscSends
  <2> QED BY <2>4, <2>7, <2>8 DEF Next
<1> QED BY <1>1, OmlLinkAlways, NotBegunAlways, PTL DEF Spec, StartsOnce
-----------------------------------------------------------------------------
(* The life cycle of ObjectStartup.                                        *)

Asked(o) == About("SW_ACT_REQ", o) \in said
Active(o) == About("ACTIVATE_SW_ACK", o) \in said

\* What an activation and a start cause is said in the same step as the
\* acknowledgement of it.
Acknowledged ==
    /\ \A o \in {Bts} \cup ChannelObjects : Waits(o) \in said => Active(o)
    /\ Managed \in said => Active(SiteManager)
    /\ \A o \in Objects : \A p \in OnActive[o] : Active(o) <=> Asked(p)
    /\ \A o \in Objects : \A p \in OnStart[o] : Enabled(o) => Asked(p)

LEMMA Successors ==
    /\ \A o \in Objects : OnActive[o] = IF o = BasebTransc THEN {RadioCarrier}
                                        ELSE IF o = RadioCarrier THEN ChannelObjects ELSE {}
    /\ \A o \in Objects : OnStart[o] = IF o = SiteManager THEN {Bts}
                                       ELSE IF o = Bts THEN {BasebTransc} ELSE {}
    /\ \A o \in Objects : NeedsStarted[o] =
          IF o \in {BasebTransc, RadioCarrier} THEN ChannelObjects
          ELSE IF o \in ChannelObjects THEN {Bts} ELSE {}
<1>1. ASSUME NEW o \in Objects
      PROVE  OnActive[o] = IF o = BasebTransc THEN {RadioCarrier}
                           ELSE IF o = RadioCarrier THEN ChannelObjects ELSE {}
  <2>1. OnActive[o] = CASE o = BasebTransc  -> {RadioCarrier}
                        [] o = RadioCarrier -> ChannelObjects
                        [] OTHER -> {}
    BY DEF OnActive
  <2> QED BY <2>1, ObjectsDiffer
<1>2. ASSUME NEW o \in Objects
      PROVE  OnStart[o] = IF o = SiteManager THEN {Bts}
                          ELSE IF o = Bts THEN {BasebTransc} ELSE {}
  <2>1. OnStart[o] = CASE o = SiteManager -> {Bts} [] o = Bts -> {BasebTransc} [] OTHER -> {}
    BY DEF OnStart
  <2> QED BY <2>1, ObjectsDiffer
<1>3. ASSUME NEW o \in Objects
      PROVE  NeedsStarted[o] =
                IF o \in {BasebTransc, RadioCarrier} THEN ChannelObjects
                ELSE IF o \in ChannelObjects THEN {Bts} ELSE {}
  <2>1. NeedsStarted[o] = CASE o \in {BasebTransc, RadioCarrier} -> ChannelObjects
                            [] o \in ChannelObjects -> {Bts}
                            [] OTHER -> {}
    BY DEF NeedsStarted
  <2>2. o \in {BasebTransc, RadioCarrier} => o \notin ChannelObjects
    BY ObjectTypes, ObjectsDiffer
  <2> QED BY <2>1, <2>2
<1> QED BY <1>1, <1>2, <1>3

\* Request r makes it the turn of object p.
Turn(r, p) ==
    \E o \in Objects : \/ r = About("ACTIVATE_SW", o) /\ p \in OnActive[o]
                       \/ r = About("OPSTART", o) /\ p \in OnStart[o]

\* How an answer of the BTS moves the objects.
LEMMA Moves ==
    ASSUME TypeOK, TypeOK', NEW r \in asked, NEW t \in Seq(CausedBy(r)), BtsAnswers(r, t),
           NEW p \in Objects
    PROVE  /\ Active(p)' <=> Active(p) \/ r = About("ACTIVATE_SW", p)
           /\ Enabled(p)' <=> Enabled(p) \/ r = About("OPSTART", p)
           /\ Asked(p) \/ Turn(r, p) => Asked(p)'
           /\ Asked(p)' => Asked(p) \/ Turn(r, p) \/ (p = SiteManager /\ r = Plain("ID_GET"))
<1> DEFINE q == About("SW_ACT_REQ", p)
           a == About("ACTIVATE_SW_ACK", p)
<1>1. said' = said \cup Elements(t) /\ \A m \in Elements(t) : m \in CausedBy(r)
  BY Answered DEF BtsAnswers
<1>2. q.type = "SW_ACT_REQ" /\ q.obj = p /\ a.type = "ACTIVATE_SW_ACK" /\ a.obj = p
      /\ (p = SiteManager => Initial(q))
  BY DEF About, Initial
<1>3. Asked(p) => Asked(p)'
  BY <1>1 DEF Asked
<1>4. Enabled(p)' <=> Enabled(p) \/ r = About("OPSTART", p)
  BY DEF BtsAnswers, Enabled
<1>5. Active(p)' <=> Active(p) \/ r = About("ACTIVATE_SW", p)
  <2>1. r = About("ACTIVATE_SW", p) => a \in Elements(t)
    BY Answered, ActivateSwContents
  <2>2. a \in Elements(t) => r = About("ACTIVATE_SW", p)
    <3> HIDE DEF a
    <3> QED BY <1>1, <1>2 DEF CausedBy
  <2> QED BY <1>1, <2>1, <2>2 DEF Active
<1>6. ASSUME q \in Elements(t)
      PROVE  Turn(r, p) \/ (p = SiteManager /\ r = Plain("ID_GET"))
  <2> HIDE DEF q
  <2>1. q \in CausedBy(r)
    BY <1>1, <1>6
  <2>2. \/ p = SiteManager /\ r = Plain("ID_GET")
        \/ p = Bts /\ r = About("OPSTART", SiteManager)
        \/ p = BasebTransc /\ r = About("OPSTART", Bts)
        \/ p = RadioCarrier /\ r = About("ACTIVATE_SW", BasebTransc)
        \/ p \in ChannelObjects /\ r = About("ACTIVATE_SW", RadioCarrier)
    BY <1>2, <2>1 DEF CausedBy
  <2>3. /\ Bts \in OnStart[SiteManager] /\ BasebTransc \in OnStart[Bts]
        /\ RadioCarrier \in OnActive[BasebTransc] /\ OnActive[RadioCarrier] = ChannelObjects
    BY Successors, ObjectTypes, ObjectsDiffer
  <2> QED BY <2>2, <2>3, ObjectTypes DEF Turn
<1>7. ASSUME NEW o \in Objects, r = About("ACTIVATE_SW", o), p \in OnActive[o]
      PROVE  Asked(p)'
  <2>1. t = ActivateSwReply(o)
    BY <1>7, Answered
  <2>2. \/ o = BasebTransc /\ p = RadioCarrier
        \/ o = RadioCarrier /\ p \in ChannelObjects
    BY <1>7, Successors
  <2>3. q \in Elements(t)
    BY <2>1, <2>2, ActivateSwContents
  <2> QED BY <1>1, <2>3 DEF Asked
<1>8. ASSUME NEW o \in Objects, r = About("OPSTART", o), p \in OnStart[o]
      PROVE  Asked(p)'
  <2>1. t = OpstartReply(o, opstate', admin_state')
    BY <1>8, Answered
  <2>2. \/ o = SiteManager /\ p = Bts
        \/ o = Bts /\ p = BasebTransc
    BY <1>8, Successors
  <2>3. opstate' \in [Objects -> OpStates] /\ admin_state' \in [Objects -> AdminStates]
    BY DEF TypeOK, BtsTypeOK, StatesTypeOK
  <2>4. q \in Elements(t)
    BY <2>1, <2>2, <2>3, OpstartContents
  <2> QED BY <1>1, <2>4 DEF Asked
<1>9. Asked(p)' => Asked(p) \/ q \in Elements(t)
  BY <1>1 DEF Asked
<1> HIDE DEF q, a
<1>10. Turn(r, p) => Asked(p)'
  BY <1>7, <1>8 DEF Turn
<1> QED BY <1>3, <1>4, <1>5, <1>6, <1>9, <1>10

\* Nothing else moves them.
LEMMA StandStill ==
    ASSUME TypeOK, OmlStep, \A r \in asked : \A t \in Seq(CausedBy(r)) : ~BtsAnswers(r, t)
    PROVE  /\ said' = said
           /\ \A p \in Objects : /\ Active(p)' <=> Active(p)
                                 /\ Enabled(p)' <=> Enabled(p)
                                 /\ Asked(p)' <=> Asked(p)
<1>1. said' = said /\ \A p \in Objects : opstate'[p] = opstate[p]
  BY DEF OmlStep, BscAnswers, BscSpeaks, Elsewhere, objectVars
<1> QED BY <1>1 DEF Active, Enabled, Asked

LEMMA AcknowledgedStep ==
    ASSUME TypeOK, TypeOK', OmlStep, Acknowledged, EnabledIsUnlocked'
    PROVE  Acknowledged'
<1>1. ASSUME \A r \in asked : \A t \in Seq(CausedBy(r)) : ~BtsAnswers(r, t)
      PROVE  Acknowledged'
  <2>1. /\ said' = said
        /\ \A p \in Objects : /\ Active(p)' <=> Active(p)
                              /\ Enabled(p)' <=> Enabled(p)
                              /\ Asked(p)' <=> Asked(p)
    BY <1>1, StandStill
  <2>2. \A o \in Objects : OnActive[o] \subseteq Objects /\ OnStart[o] \subseteq Objects
    BY Successors, ObjectTypes
  <2> QED BY <2>1, <2>2, ObjectTypes DEF Acknowledged
<1>2. ASSUME NEW r \in asked, NEW t \in Seq(CausedBy(r)), BtsAnswers(r, t)
      PROVE  Acknowledged'
  <2>1. said' = said \cup Elements(t) /\ \A m \in Elements(t) : m \in CausedBy(r)
    BY <1>2, Answered DEF BtsAnswers
  <2>2. \A o \in Objects : OnActive[o] \subseteq Objects /\ OnStart[o] \subseteq Objects
    BY Successors, ObjectTypes
  <2>3. ASSUME NEW o \in {Bts} \cup ChannelObjects, Waits(o) \in said'
        PROVE  Active(o)'
    <3>1. o \in Objects
      BY ObjectTypes
    <3>2. ReportsWaiting(Waits(o)) /\ Waits(o).obj = o
      BY DEF Waits, StateChg, ReportsWaiting
    <3>3. CASE Waits(o) \in said
      BY <1>2, <3>1, <3>3, Moves DEF Acknowledged
    <3>4. CASE Waits(o) \in Elements(t)
      <4>1. r = About("ACTIVATE_SW", o)
        BY <2>1, <3>2, <3>4 DEF CausedBy
      <4> QED BY <1>2, <3>1, <4>1, Moves
    <3> QED BY <2>1, <2>3, <3>3, <3>4
  <2>4. ASSUME Managed \in said' PROVE Active(SiteManager)'
    <3>1. /\ Managed.type = "STATECHG_EVENT_REP" /\ Managed.av = "OK"
          /\ Managed.obj = SiteManager
          /\ Managed.op = "ENABLED" /\ Managed.adm = "LOCKED" /\ SiteManager \in Objects
      BY ObjectTypes DEF Managed, StateChg
    <3>2. CASE Managed \in said
      BY <1>2, <3>1, <3>2, Moves DEF Acknowledged
    <3>3. CASE Managed \in Elements(t)
      <4>1. r.type \in {"OPSTART", "RSL_CONNECT"} \/ r = About("ACTIVATE_SW", SiteManager)
        BY <2>1, <3>1, <3>3 DEF CausedBy
      <4>2. Managed # StoredReport(SiteManager, opstate', admin_state')
        <5>1. /\ StoredReport(SiteManager, opstate', admin_state').op = opstate'[SiteManager]
              /\ StoredReport(SiteManager, opstate', admin_state').adm = admin_state'[SiteManager]
          BY DEF StoredReport, StateChg
        <5>2. opstate'[SiteManager] = "ENABLED" => admin_state'[SiteManager] = "UNLOCKED"
          BY <3>1 DEF EnabledIsUnlocked, Enabled
        <5> QED BY <3>1, <5>1, <5>2
      <4>3. r.type # "RSL_CONNECT"
        BY <1>2, <3>1, <3>3, <4>2 DEF BtsAnswers, Exactly
      <4>4. r.type # "OPSTART"
        <5> SUFFICES ASSUME r.type = "OPSTART" PROVE FALSE
          OBVIOUS
        <5>1. t = OpstartReply(r.obj, opstate', admin_state') /\ r \in ToBts
          BY <1>2 DEF BtsAnswers, Exactly, TypeOK
        <5>2. r.obj \in Objects
          BY <5>1, RequestShape DEF ObjectRequests
        <5>3. opstate' \in [Objects -> OpStates] /\ admin_state' \in [Objects -> AdminStates]
          BY DEF TypeOK, BtsTypeOK, StatesTypeOK
        <5> QED BY <3>1, <3>3, <4>2, <5>1, <5>2, <5>3, OpstartContents
      <4> QED BY <1>2, <3>1, <4>1, <4>3, <4>4, Moves
    <3> QED BY <2>1, <2>4, <3>2, <3>3
  <2>5. ASSUME NEW o \in Objects, NEW p \in OnActive[o]
        PROVE  Active(o)' <=> Asked(p)'
    <3>1. p \in Objects /\ p # SiteManager
      BY <2>2, Successors, ObjectTypes, ObjectsDiffer
    <3>2. \A x \in Objects : p \in OnActive[x] => x = o
      BY Successors, ObjectTypes, ObjectsDiffer
    <3>3. \A x \in Objects : p \notin OnStart[x]
      BY Successors, ObjectTypes, ObjectsDiffer
    <3>4. Active(o) <=> Asked(p)
      BY DEF Acknowledged
    <3>5. Active(o)' <=> Active(o) \/ r = About("ACTIVATE_SW", o)
      BY <1>2, Moves
    <3>6. Turn(r, p) <=> r = About("ACTIVATE_SW", o)
      BY <3>2, <3>3 DEF Turn
    <3>7. Asked(p) \/ Turn(r, p) => Asked(p)'
      BY <1>2, <3>1, Moves
    <3>8. Asked(p)' => Asked(p) \/ Turn(r, p) \/ p = SiteManager
      BY <1>2, <3>1, Moves
    <3> QED BY <3>1, <3>4, <3>5, <3>6, <3>7, <3>8
  <2>6. ASSUME NEW o \in Objects, NEW p \in OnStart[o], Enabled(o)'
        PROVE  Asked(p)'
    <3>1. p \in Objects
      BY <2>2
    <3>2. Enabled(o) => Asked(p)
      BY DEF Acknowledged
    <3>3. Enabled(o)' <=> Enabled(o) \/ r = About("OPSTART", o)
      BY <1>2, Moves
    <3>4. r = About("OPSTART", o) => Turn(r, p)
      BY <2>6 DEF Turn
    <3>5. Asked(p) \/ Turn(r, p) => Asked(p)'
      BY <1>2, <3>1, Moves
    <3> QED BY <2>6, <3>2, <3>3, <3>4, <3>5
  <2> QED BY <2>3, <2>4, <2>5, <2>6 DEF Acknowledged
<1> QED BY <1>1, <1>2

\* Software is acknowledged when it was asked for, and only an object with active
\* software is ordered to start.
LEMMA ActiveIsAsked ==
    ASSUME TypeOK, CausalOrder, Provoked, NEW o \in Objects
    PROVE  /\ Active(o) => Asked(o)
           /\ About("ACTIVATE_SW", o) \in asked => Asked(o)
<1>1. About("ACTIVATE_SW", o) \in asked => Asked(o)
  BY DEF CausalOrder, ActivationsInTurn, Asked
<1>2. Active(o) => About("ACTIVATE_SW", o) \in asked
  <2> DEFINE a == About("ACTIVATE_SW_ACK", o)
  <2>1. a.type = "ACTIVATE_SW_ACK" /\ a.obj = o
    BY DEF About
  <2> HIDE DEF a
  <2>2. a \in said => About("ACTIVATE_SW", o) \in asked
    BY <2>1 DEF Provoked, CausedBy
  <2> QED BY <2>2 DEF Active, a
<1> QED BY <1>1, <1>2

LEMMA StartIsActive ==
    ASSUME TypeOK, CausalOrder, Provoked, Acknowledged, NEW o \in Objects,
           About("OPSTART", o) \in asked
    PROVE  /\ Active(o)
           /\ o \in ChannelObjects => Enabled(Bts)
<1> DEFINE L == Channel(LastTs)
<1>0. /\ L \in ChannelObjects /\ Bts \in Objects /\ BasebTransc \in Objects
      /\ RadioCarrier \in Objects /\ ChannelObjects \subseteq Objects
  BY ObjectTypes
<1>1. ASSUME NEW p \in {SiteManager, Bts} \cup ChannelObjects, About("OPSTART", p) \in asked
      PROVE  Active(p)
  <2>0. p \in Objects
    BY ObjectTypes
  <2> DEFINE r == About("OPSTART", p)
  <2>1. r.type = "OPSTART"
    BY DEF About
  <2> HIDE DEF r
  <2>2. PICK m \in said : r \in ProvokedBy(m)
    BY <1>1, <2>1 DEF Provoked, r
  <2>3. IF p = SiteManager THEN m = Managed ELSE m = Waits(p)
    BY <2>0, <2>2, Reasons DEF r
  <2> QED BY <2>3 DEF Acknowledged
<1>2. ASSUME NEW c \in ChannelObjects, Active(c)
      PROVE  Active(RadioCarrier) /\ Active(BasebTransc) /\ Enabled(Bts)
  <2>1. OnActive[RadioCarrier] = ChannelObjects /\ RadioCarrier \in OnActive[BasebTransc]
    BY <1>0, Successors, ObjectsDiffer
  <2>2. Active(RadioCarrier)
    BY <1>0, <1>2, <2>1, ActiveIsAsked DEF Acknowledged
  <2>3. Active(BasebTransc)
    BY <1>0, <2>1, <2>2, ActiveIsAsked DEF Acknowledged
  <2>4. Asked(BasebTransc)
    BY <1>0, <2>3, ActiveIsAsked
  <2> QED BY <2>2, <2>3, <2>4 DEF CausalOrder, RequestsInTurn, Asked
<1>3. CASE o \in {SiteManager, Bts} \cup ChannelObjects
  BY <1>1, <1>2, <1>3
<1>4. CASE o \in {BasebTransc, RadioCarrier}
  <2>1. Enabled(L)
    BY <1>4 DEF CausalOrder, StartsInTurn
  <2>2. About("OPSTART", L) \in asked
    BY <1>0, <2>1 DEF CausalOrder, StartsInTurn
  <2>3. Active(L)
    BY <1>0, <1>1, <2>2
  <2> QED BY <1>0, <1>2, <1>4, <2>3, ObjectTypes, ObjectsDiffer
<1> QED BY <1>3, <1>4 DEF Objects, SingleObjects

LEMMA StageCases ==
    ASSUME NEW o \in Objects
    PROVE  /\ StageOf(o) = IF Enabled(o) THEN "started" ELSE IF Active(o) THEN "active"
                           ELSE IF Asked(o) THEN "requested" ELSE "idle"
           /\ (StageOf(o) = IF Enabled(o) THEN "started" ELSE IF Active(o) THEN "active"
                            ELSE IF Asked(o) THEN "requested" ELSE "idle")'
BY DEF StageOf, Active, Asked

\* Every step of the start-up is a step of the life cycle or none.
LEMMA LifeStep ==
    ASSUME TypeOK, TypeOK', CausalOrder, Provoked, TransceiverLast, Acknowledged, OmlStep
    PROVE  LifeCycle!Next \/ UNCHANGED [o \in Objects |-> StageOf(o)]
<1> DEFINE stage == [o \in Objects |-> StageOf(o)]
<1>0. ASSUME NEW p \in Objects
      PROVE  /\ Enabled(p) => Active(p)
             /\ Active(p) => Asked(p)
  <2>1. Enabled(p) => About("OPSTART", p) \in asked
    BY DEF CausalOrder, StartsInTurn
  <2> QED BY <2>1, StartIsActive, ActiveIsAsked
<1>1. ASSUME \A p \in Objects : /\ Active(p)' <=> Active(p)
                                /\ Enabled(p)' <=> Enabled(p)
                                /\ Asked(p)' <=> Asked(p)
      PROVE  UNCHANGED stage
  <2>1. ASSUME NEW p \in Objects PROVE StageOf(p)' = StageOf(p)
    BY <1>1, StageCases
  <2> QED BY <2>1
<1>2. ASSUME \A r \in asked : \A t \in Seq(CausedBy(r)) : ~BtsAnswers(r, t)
      PROVE  UNCHANGED stage
  BY <1>1, <1>2, StandStill
<1>3. ASSUME NEW r \in asked, NEW t \in Seq(CausedBy(r)), BtsAnswers(r, t)
      PROVE  LifeCycle!Next \/ UNCHANGED stage
  <2>1. ASSUME NEW p \in Objects
        PROVE  /\ Active(p)' <=> Active(p) \/ r = About("ACTIVATE_SW", p)
               /\ Enabled(p)' <=> Enabled(p) \/ r = About("OPSTART", p)
    BY <1>3, Moves
  <2>2. ASSUME NEW p \in Objects
        PROVE  /\ Asked(p) \/ Turn(r, p) => Asked(p)'
               /\ Asked(p)' => Asked(p) \/ Turn(r, p) \/ (p = SiteManager /\ r = Plain("ID_GET"))
    BY <1>3, Moves
  <2>3. \A x, y, o, p : /\ About(x, o) # Plain(y)
                        /\ About("ACTIVATE_SW", o) # About("OPSTART", p)
                        /\ About(x, o) = About(x, p) => o = p
    BY MessagesDiffer
  <2>4. ASSUME NEW o \in Objects, r = About("ACTIVATE_SW", o)
        PROVE  LifeCycle!Next \/ UNCHANGED stage
    <3>1. \A p \in Objects : Turn(r, p) <=> p \in OnActive[o]
      BY <2>3, <2>4 DEF Turn
    <3>2. ASSUME NEW p \in Objects
          PROVE  /\ Active(p)' <=> Active(p) \/ p = o
                 /\ Enabled(p)' <=> Enabled(p)
                 /\ Asked(p)' <=> Asked(p) \/ p \in OnActive[o]
      BY <2>1, <2>2, <2>3, <2>4, <3>1
    <3>3. CASE Active(o)
      <4>1. \A p \in OnActive[o] : Asked(p)
        BY <3>3 DEF Acknowledged
      <4>2. UNCHANGED stage
        BY <1>1, <3>2, <3>3, <4>1
      <4> QED BY <4>2
    <3>4. CASE ~Active(o)
      <4>1. Asked(o) /\ ~Enabled(o)
        BY <1>0, <2>4, <3>4, ActiveIsAsked
      <4>2. o \notin OnActive[o]
        BY Successors, ObjectTypes, ObjectsDiffer
      <4>3. ASSUME NEW p \in Objects
            PROVE  StageOf(p)' = IF p = o THEN "active"
                                 ELSE IF p \in OnActive[o] /\ StageOf(p) = "idle" THEN "requested"
                                 ELSE StageOf(p)
        <5>1. StageOf(p) = IF Enabled(p) THEN "started" ELSE IF Active(p) THEN "active"
                           ELSE IF Asked(p) THEN "requested" ELSE "idle"
          BY StageCases
        <5>2. StageOf(p)' = IF Enabled(p)' THEN "started" ELSE IF Active(p)' THEN "active"
                            ELSE IF Asked(p)' THEN "requested" ELSE "idle"
          BY StageCases
        <5> QED BY <3>2, <4>1, <5>1, <5>2
      <4>4. StageOf(o) = "requested"
        BY <3>4, <4>1, StageCases
      <4>5. LifeCycle!Activate(o)
        BY <4>3, <4>4 DEF LifeCycle!Activate, LifeCycle!Advance
      <4> QED BY <4>5 DEF LifeCycle!Next
    <3> QED BY <3>3, <3>4
  <2>5. ASSUME NEW o \in Objects, r = About("OPSTART", o)
        PROVE  LifeCycle!Next \/ UNCHANGED stage
    <3>1. \A p \in Objects : Turn(r, p) <=> p \in OnStart[o]
      BY <2>3, <2>5 DEF Turn
    <3>2. ASSUME NEW p \in Objects
          PROVE  /\ Active(p)' <=> Active(p)
                 /\ Enabled(p)' <=> Enabled(p) \/ p = o
                 /\ Asked(p)' <=> Asked(p) \/ p \in OnStart[o]
      BY <2>1, <2>2, <2>3, <2>5, <3>1
    <3>3. CASE Enabled(o)
      <4>1. \A p \in OnStart[o] : Asked(p)
        BY <3>3 DEF Acknowledged
      <4>2. UNCHANGED stage
        BY <1>1, <3>2, <3>3, <4>1
      <4> QED BY <4>2
    <3>4. CASE ~Enabled(o)
      <4>1. Active(o) /\ (o \in ChannelObjects => Enabled(Bts))
        BY <2>5, StartIsActive
      <4>2. o \in {BasebTransc, RadioCarrier} => \A c \in ChannelObjects : Enabled(c)
        BY <2>5 DEF CausalOrder, StartsInTurn, TransceiverLast
      <4>3. ASSUME NEW p \in Objects
            PROVE  StageOf(p)' = IF p = o THEN "started"
                                 ELSE IF p \in OnStart[o] /\ StageOf(p) = "idle" THEN "requested"
                                 ELSE StageOf(p)
        <5>1. StageOf(p) = IF Enabled(p) THEN "started" ELSE IF Active(p) THEN "active"
                           ELSE IF Asked(p) THEN "requested" ELSE "idle"
          BY StageCases
        <5>2. StageOf(p)' = IF Enabled(p)' THEN "started" ELSE IF Active(p)' THEN "active"
                            ELSE IF Asked(p)' THEN "requested" ELSE "idle"
          BY StageCases
        <5> QED BY <3>2, <5>1, <5>2
      <4>4. StageOf(o) = "active"
        BY <3>4, <4>1, StageCases
      <4>5. ASSUME NEW p \in NeedsStarted[o] PROVE stage[p] = "started"
        <5>1. p \in Objects /\ Enabled(p)
          BY <4>1, <4>2, <4>5, Successors, ObjectTypes
        <5> QED BY <5>1, StageCases
      <4>6. stage[o] = "active" /\ stage' = [p \in Objects |->
                IF p = o THEN "started"
                ELSE IF p \in OnStart[o] /\ stage[p] = "idle" THEN "requested" ELSE stage[p]]
        BY <4>3, <4>4
      <4> HIDE DEF stage
      <4>7. LifeCycle!Start(o)
        BY <4>5, <4>6 DEF LifeCycle!Start, LifeCycle!Advance, stage
      <4> QED BY <4>7 DEF LifeCycle!Next
    <3> QED BY <3>3, <3>4
  <2>6. ASSUME \A o \in Objects : r \notin {About("ACTIVATE_SW", o), About("OPSTART", o)}
        PROVE  LifeCycle!Next \/ UNCHANGED stage
    <3>1. ASSUME NEW p \in Objects
          PROVE  /\ Active(p)' <=> Active(p)
                 /\ Enabled(p)' <=> Enabled(p)
                 /\ Asked(p)' => Asked(p) \/ p = SiteManager
                 /\ Asked(p) => Asked(p)'
      BY <2>1, <2>2, <2>6 DEF Turn
    <3>2. CASE Asked(SiteManager)' <=> Asked(SiteManager)
      <4>1. UNCHANGED stage
        BY <1>1, <3>1, <3>2
      <4> QED BY <4>1
    <3>3. CASE ~(Asked(SiteManager)' <=> Asked(SiteManager))
      <4>1. SiteManager \in Objects
        BY ObjectTypes
      <4>2. Asked(SiteManager)' /\ ~Asked(SiteManager)
            /\ ~Active(SiteManager) /\ ~Enabled(SiteManager)
        BY <1>0, <3>1, <3>3, <4>1
      <4>3. ASSUME NEW p \in Objects
            PROVE  StageOf(p)' = IF p = SiteManager THEN "requested" ELSE StageOf(p)
        <5>1. StageOf(p) = IF Enabled(p) THEN "started" ELSE IF Active(p) THEN "active"
                           ELSE IF Asked(p) THEN "requested" ELSE "idle"
          BY StageCases
        <5>2. StageOf(p)' = IF Enabled(p)' THEN "started" ELSE IF Active(p)' THEN "active"
                            ELSE IF Asked(p)' THEN "requested" ELSE "idle"
          BY StageCases
        <5> QED BY <3>1, <4>2, <5>1, <5>2
      <4>4. StageOf(SiteManager) = "idle"
        BY <4>1, <4>2, StageCases
      <4>5. LifeCycle!Request
        BY <4>1, <4>3, <4>4 DEF LifeCycle!Request, LifeCycle!Advance
      <4> QED BY <4>5 DEF LifeCycle!Next
    <3> QED BY <3>2, <3>3
  <2> QED BY <2>4, <2>5, <2>6
<1> QED BY <1>2, <1>3

LEMMA LifeInit == Init => Acknowledged /\ LifeCycle!Init
<1> SUFFICES ASSUME Init PROVE Acknowledged /\ LifeCycle!Init
  OBVIOUS
<1>1. said = {} /\ \A o \in Objects : ~Enabled(o)
  BY InitEmpty
<1>2. Acknowledged
  BY <1>1 DEF Acknowledged, Active, Asked
<1>3. \A o \in Objects : StageOf(o) = "idle"
  BY <1>1, StageCases DEF Active, Asked
<1> QED BY <1>2, <1>3 DEF LifeCycle!Init

\* The start-up over the two links implements the life cycle: every object has
\* its software requested, activated and is started, in that order, once, when it
\* is its turn, however requests, answers and repeated starts interleave.
THEOREM StartsObjectsInTurn == Spec => ImplementsLifeCycle
<1>1. OmlLink /\ Acknowledged /\ EnabledIsUnlocked' /\ [Next]_vars => Acknowledged'
  BY OmlLinkStep, AcknowledgedStep DEF OmlLink
<1>2. Spec => []Acknowledged
  BY <1>1, LifeInit, OmlLinkAlways, StartedIsUnlocked, PTL DEF Spec
<1>3. OmlLink /\ CausalOrder /\ TransceiverLast /\ Acknowledged /\ [Next]_vars
        => [LifeCycle!Next]_([o \in Objects |-> StageOf(o)])
  BY OmlLinkStep, LifeStep DEF OmlLink
<1> QED BY <1>2, <1>3, LifeInit, OmlLinkAlways, MessagesAreCaused, TransceiverComesUpLast, PTL
        DEF Spec, ImplementsLifeCycle, LifeCycle!Spec
-----------------------------------------------------------------------------
(* What is behind a message in its stream.                                 *)

LEMMA BehindElement ==
    ASSUME NEW s, NEW c, NEW d, Trails(s, {c}, d), c \in Elements(s), Len(s) \in Nat
    PROVE  d \in Elements(s)
<1>1. PICK i \in 1 .. Len(s) : s[i] = c
  BY DEF Elements
<1>2. PICK j \in i + 1 .. Len(s) : s[j] = d
  BY <1>1 DEF Trails
<1>3. j \in 1 .. Len(s)
  BY <1>1, <1>2
<1> QED BY <1>2, <1>3 DEF Elements

\* A stream without messages of C has nothing to be followed.
LEMMA NoneToFollow ==
    ASSUME NEW s, NEW C, NEW d, \A x \in Elements(s) : x \notin C
    PROVE  Trails(s, C, d)
BY DEF Trails, Elements

\* When a message of C is read, d is still in the stream; and d stays behind the
\* messages of C unless one is sent without it.
LEMMA OutBehind ==
    ASSUME TypeOK, OmlStep, NEW C, NEW d, Trails(Out, C, d)
    PROVE  /\ \A e \in C : BscAnswers(e) => d \in Elements(Out')
           /\ \/ Trails(Out', C, d)
              \/ \E r \in asked : \E t \in Seq(CausedBy(r)) : BtsAnswers(r, t) /\ ~Trails(t, C, d)
<1>1. \A e \in C : BscAnswers(e) => d \in Elements(Out')
  BY DEF BscAnswers, Consumes
<1>2. ASSUME NEW r \in asked, NEW t \in Seq(CausedBy(r)), BtsAnswers(r, t), Trails(t, C, d)
      PROVE  Trails(Out', C, d)
  BY <1>2 DEF BtsAnswers, Extends
<1>3. ASSUME NEW m \in said, BscAnswers(m) PROVE Trails(Out', C, d)
  BY <1>3 DEF BscAnswers, Consumes
<1>4. ASSUME Out' = Out PROVE Trails(Out', C, d)
  BY <1>4
<1> QED BY <1>1, <1>2, <1>3, <1>4 DEF OmlStep, BscSpeaks, Elsewhere

LEMMA InBehind ==
    ASSUME TypeOK, OmlStep, NEW c, NEW d, Trails(In, {c}, d)
    PROVE  /\ \A t \in Seq(CausedBy(c)) : BtsAnswers(c, t) => d \in Elements(In')
           /\ \/ Trails(In', {c}, d)
              \/ \E m \in said : BscAnswers(m) /\ ~Trails(Reaction(m), {c}, d)
              \/ BscSpeaks(c)
<1>1. \A t \in Seq(CausedBy(c)) : BtsAnswers(c, t) => d \in Elements(In')
  BY DEF BtsAnswers, Consumes
<1>2. ASSUME NEW m \in said, BscAnswers(m), Trails(Reaction(m), {c}, d)
      PROVE  Trails(In', {c}, d)
  BY <1>2 DEF BscAnswers, Extends
<1>3. ASSUME NEW r \in asked, NEW t \in Seq(CausedBy(r)), BtsAnswers(r, t)
      PROVE  Trails(In', {c}, d)
  BY <1>3 DEF BtsAnswers, Consumes
<1>4. ASSUME NEW r \in ToBts, BscSpeaks(r), r # c PROVE Trails(In', {c}, d)
  <2>1. Elements(<<r>>) = {r}
    BY DEF Elements
  <2>2. Trails(<<r>>, {c}, d)
    BY <1>4, <2>1, NoneToFollow
  <2> QED BY <1>4, <2>2 DEF BscSpeaks, Extends
<1>5. ASSUME In' = In PROVE Trails(In', {c}, d)
  BY <1>5
<1> QED BY <1>1, <1>2, <1>3, <1>4, <1>5 DEF OmlStep, Elsewhere

\* What is sent together with its follower, is followed.
LEMMA SentTogether ==
    ASSUME NEW C, NEW d
    PROVE  /\ \A r \in asked : \A t \in Seq(CausedBy(r)) :
                BtsAnswers(r, t) /\ d \in Elements(t) /\ Trails(t, C, d) => Trails(Out', C, d)
           /\ \A m \in said :
                BscAnswers(m) /\ d \in Elements(Reaction(m)) /\ Trails(Reaction(m), C, d)
                  => Trails(In', C, d)
BY DEF BtsAnswers, BscAnswers, Extends

\* The last timeslot is behind timeslot c, in the same crossing of the link or in
\* an earlier one.
Behind(c) ==
    LET asking == About("SW_ACT_REQ", LastChannel) \in Elements(Out)
        activating == About("ACTIVATE_SW", LastChannel) \in Elements(In)
        waiting == Waits(LastChannel) \in Elements(Out)
    IN  /\ Trails(Out, {About("SW_ACT_REQ", c)}, About("SW_ACT_REQ", LastChannel))
        /\ \/ asking
           \/ Trails(In, {About("ACTIVATE_SW", c)}, About("ACTIVATE_SW", LastChannel))
        /\ asking \/ activating \/ Trails(Out, {Waits(c)}, Waits(LastChannel))
        /\ \/ asking \/ activating \/ waiting
           \/ Trails(In, {About("OPSTART", c)}, About("OPSTART", LastChannel))

LEMMA BehindStep ==
    ASSUME TypeOK, Provoked, OmlStep, NEW c \in ChannelObjects \ {LastChannel}, Behind(c)
    PROVE  Behind(c)'
<1> DEFINE L == LastChannel
           q(o) == About("SW_ACT_REQ", o)
           a(o) == About("ACTIVATE_SW", o)
           w(o) == Waits(o)
           s(o) == About("OPSTART", o)
           asking == q(L) \in Elements(Out)
           activating == a(L) \in Elements(In)
           waiting == w(L) \in Elements(Out)
<1>0. L \in ChannelObjects /\ c \in Objects /\ L \in Objects /\ c # SiteManager
      /\ RadioCarrier \in Objects
  BY ObjectTypes, ObjectsDiffer DEF LastChannel
<1>1. q(c) # q(L) /\ a(c) # a(L) /\ w(c) # w(L) /\ s(c) # s(L)
  BY MessagesDiffer
\* The last timeslot's message is read, and its next one sent.
<1>2. asking => asking' \/ BscAnswers(q(L))
  BY Consumed
<1>3. activating => activating' \/ \E t \in Seq(CausedBy(a(L))) : BtsAnswers(a(L), t)
  BY Consumed
<1>4. waiting => waiting' \/ BscAnswers(w(L))
  BY Consumed
<1>5. BscAnswers(q(L)) => /\ activating' /\ a(L) \in Elements(Reaction(q(L)))
                          /\ a(c) \notin Elements(Reaction(q(L)))
  <2> SUFFICES ASSUME BscAnswers(q(L))
               PROVE  /\ activating' /\ a(L) \in Elements(Reaction(q(L)))
                      /\ a(c) \notin Elements(Reaction(q(L)))
    OBVIOUS
  <2>1. q(L) \in said /\ q(L) \in ToBsc /\ \A r \in Elements(Reaction(q(L))) :
             r \in Elements(In') /\ r \in ProvokedBy(q(L))
    BY Reacted
  <2>2. a(L) \in Elements(Reaction(q(L)))
    BY <1>0, <2>1, ReactionContents
  <2>3. a(c) \notin ProvokedBy(q(L))
    BY <1>0, <1>1, <2>1, Reasons
  <2> QED BY <2>1, <2>2, <2>3
<1>6. ASSUME NEW t \in Seq(CausedBy(a(L))), BtsAnswers(a(L), t)
      PROVE  waiting' /\ w(L) \in Elements(t) /\ w(c) \notin Elements(t)
  <2>1. a(L) \in asked
    BY <1>6 DEF BtsAnswers
  <2>2. \A m \in Elements(t) : m \in Elements(Out') /\ m \in CausedBy(a(L))
    BY <1>6, <2>1, Answered
  <2>3. w(L) \in Elements(t)
    BY <1>0, <1>6, <2>1, Answered, ActivateSwContents
  <2>4. w(c) \notin CausedBy(a(L))
    <3>1. ReportsWaiting(w(c)) /\ w(c).obj = c
      BY DEF Waits, StateChg, ReportsWaiting
    <3> HIDE DEF w
    <3> QED BY <1>1, <3>1 DEF CausedBy
  <2> QED BY <2>2, <2>3, <2>4
<1>7. BscAnswers(w(L)) => s(L) \in Elements(Reaction(w(L))) /\ s(c) \notin Elements(Reaction(w(L)))
  <2> SUFFICES ASSUME BscAnswers(w(L))
               PROVE  s(L) \in Elements(Reaction(w(L))) /\ s(c) \notin Elements(Reaction(w(L)))
    OBVIOUS
  <2>1. w(L) \in said /\ w(L) \in ToBsc
        /\ \A r \in Elements(Reaction(w(L))) : r \in ProvokedBy(w(L))
    BY Reacted
  <2>2. s(L) \in Elements(Reaction(w(L)))
    BY <1>0, <2>1, ReactionContents
  <2>3. s(c) \notin ProvokedBy(w(L))
    BY <1>0, <1>1, <2>1, Reasons
  <2> QED BY <2>1, <2>2, <2>3
\* What timeslot c sends anew is behind what it has read.
<1>8. Trails(Out', {q(c)}, q(L))
  <2>1. ASSUME NEW r \in asked, NEW t \in Seq(CausedBy(r)), BtsAnswers(r, t)
        PROVE  Trails(t, {q(c)}, q(L))
    <3>1. CASE q(c) \notin Elements(t)
      BY <3>1, NoneToFollow
    <3>2. CASE q(c) \in Elements(t)
      <4>1. q(c).type = "SW_ACT_REQ" /\ q(c).obj = c
        BY DEF About
      <4>2. q(c) \in CausedBy(r)
        BY <2>1, <3>2, Answered
      <4>3. c \notin {SiteManager, Bts, BasebTransc, RadioCarrier}
        BY ObjectTypes, ObjectsDiffer
      <4>4. r = a(RadioCarrier)
        BY <4>1, <4>2, <4>3 DEF CausedBy
      <4>5. t = ActivateSwReply(RadioCarrier)
        BY <1>0, <2>1, <4>4, Answered
      <4> QED BY <1>0, <4>5, ActivateSwContents DEF LastChannel
    <3> QED BY <3>1, <3>2
  <2> HIDE DEF q
  <2>2. Trails(Out, {q(c)}, q(L))
    BY DEF Behind, q
  <2> QED BY <2>1, <2>2, OutBehind
<1>9. asking' \/ Trails(In', {a(c)}, a(L))
  <2>1. CASE asking
    <3>1. ASSUME BscAnswers(q(L)) PROVE Trails(In', {a(c)}, a(L))
      <4>1. Trails(Reaction(q(L)), {a(c)}, a(L)) /\ q(L) \in said
        BY <1>5, <3>1, NoneToFollow, Reacted
      <4> HIDE DEF a, q
      <4> QED BY <1>5, <3>1, <4>1, SentTogether
    <3> QED BY <1>2, <2>1, <3>1
  <2>2. CASE ~asking
    <3>1. Trails(In, {a(c)}, a(L))
      BY <2>2 DEF Behind
    <3>2. ASSUME NEW m \in said, BscAnswers(m), ~Trails(Reaction(m), {a(c)}, a(L))
          PROVE  asking'
      <4>1. a(c) \in Elements(Reaction(m))
        BY <3>2, NoneToFollow
      <4>2. m = q(c)
        BY <1>0, <3>2, <4>1, Reacted, Reasons
      <4> HIDE DEF q
      <4> QED BY <3>2, <4>2, OutBehind DEF Behind, q
    <3>3. ~BscSpeaks(a(c))
      BY DEF BscSpeaks, About
    <3> HIDE DEF a
    <3> QED BY <3>1, <3>2, <3>3, InBehind
  <2> QED BY <2>1, <2>2
<1>10. asking' \/ activating' \/ Trails(Out', {w(c)}, w(L))
  <2>1. CASE asking
    BY <1>2, <1>5, <2>1
  <2>2. CASE activating
    <3>1. ASSUME NEW t \in Seq(CausedBy(a(L))), BtsAnswers(a(L), t)
          PROVE  Trails(Out', {w(c)}, w(L))
      <4>1. Trails(t, {w(c)}, w(L)) /\ a(L) \in asked
        BY <1>6, <3>1, NoneToFollow DEF BtsAnswers
      <4> HIDE DEF a, w
      <4> QED BY <1>6, <3>1, <4>1, SentTogether
    <3> QED BY <1>3, <2>2, <3>1
  <2>3. CASE ~asking /\ ~activating
    <3>1. Trails(Out, {w(c)}, w(L))
      BY <2>3 DEF Behind
    <3>2. ASSUME NEW r \in asked, NEW t \in Seq(CausedBy(r)), BtsAnswers(r, t),
                 ~Trails(t, {w(c)}, w(L))
          PROVE  activating'
      <4>1. w(c) \in Elements(t)
        BY <3>2, NoneToFollow
      <4>2. ReportsWaiting(w(c)) /\ w(c).obj = c
        BY DEF Waits, StateChg, ReportsWaiting
      <4>3. w(c) \in CausedBy(r)
        BY <3>2, <4>1, Answered
      <4>4. r = a(c)
        BY <4>2, <4>3 DEF CausedBy
      <4>5. Trails(In, {a(c)}, a(L))
        BY <2>3 DEF Behind
      <4> HIDE DEF a
      <4> QED BY <3>2, <4>4, <4>5, InBehind
    <3> HIDE DEF w
    <3> QED BY <3>1, <3>2, OutBehind
  <2> QED BY <2>1, <2>2, <2>3
<1>11. asking' \/ activating' \/ waiting' \/ Trails(In', {s(c)}, s(L))
  <2>1. CASE asking
    BY <1>2, <1>5, <2>1
  <2>2. CASE activating
    BY <1>3, <1>6, <2>2
  <2>3. CASE waiting
    <3>1. ASSUME BscAnswers(w(L)) PROVE Trails(In', {s(c)}, s(L))
      <4>1. Trails(Reaction(w(L)), {s(c)}, s(L)) /\ w(L) \in said
        BY <1>7, <3>1, NoneToFollow, Reacted
      <4> HIDE DEF s, w
      <4> QED BY <1>7, <3>1, <4>1, SentTogether
    <3> QED BY <1>4, <2>3, <3>1
  <2>4. CASE ~asking /\ ~activating /\ ~waiting
    <3>1. Trails(In, {s(c)}, s(L)) /\ Trails(Out, {w(c)}, w(L))
      BY <2>4 DEF Behind
    <3>2. ASSUME NEW m \in said, BscAnswers(m), ~Trails(Reaction(m), {s(c)}, s(L))
          PROVE  waiting'
      <4>1. s(c) \in Elements(Reaction(m))
        BY <3>2, NoneToFollow
      <4>2. m = w(c)
        BY <1>0, <3>2, <4>1, Reacted, Reasons
      <4> HIDE DEF w
      <4> QED BY <3>1, <3>2, <4>2, OutBehind
    <3>3. ~BscSpeaks(s(c))
      BY <1>0 DEF BscSpeaks, About
    <3> HIDE DEF s
    <3> QED BY <3>1, <3>2, <3>3, InBehind
  <2> QED BY <2>1, <2>2, <2>3, <2>4
<1> QED BY <1>8, <1>9, <1>10, <1>11 DEF Behind
-----------------------------------------------------------------------------
\* The BSC starts an object behind unlocking it, and connects the RSL link behind
\* starting the transceiver.
LEMMA ReactionBehind ==
    ASSUME NEW m \in ToBsc
    PROVE  /\ \A o \in Objects :
                 Trails(Reaction(m), {AdmRequest(o, "UNLOCKED")}, About("OPSTART", o))
           /\ Trails(Reaction(m), {About("OPSTART", BasebTransc)}, Plain("RSL_CONNECT"))
<1> DEFINE Unlocks(R) == \A o \in Objects :
                            Trails(R, {AdmRequest(o, "UNLOCKED")}, About("OPSTART", o))
           Connects(R) == Trails(R, {About("OPSTART", BasebTransc)}, Plain("RSL_CONNECT"))
           Right(R) == Unlocks(R) /\ Connects(R)
<1>0. ASSUME NEW o \in Objects
      PROVE  /\ AdmRequest(o, "UNLOCKED").type = "CHG_ADM_STATE"
             /\ AdmRequest(o, "UNLOCKED").obj = o
             /\ About("OPSTART", o).type = "OPSTART" /\ About("OPSTART", o).obj = o
  BY DEF AdmRequest, About
<1>1. ASSUME NEW p \in Objects, NEW set \in AttrRequests(Objects), p # BasebTransc
      PROVE  Right(SetAndStart(set, p))
  <2> DEFINE a == set
             b == AdmRequest(p, "UNLOCKED")
             c == About("OPSTART", p)
             R == <<a, b, c>>
  <2>1. /\ a.type \in {"SET_BTS_ATTR", "SET_CHAN_ATTR", "SET_RADIO_ATTR"}
        /\ b.type = "CHG_ADM_STATE" /\ b.obj = p /\ c.type = "OPSTART" /\ c.obj = p
    BY <1>0, RequestTypes
  <2>2. Len(R) = 3 /\ R[3] = c
    OBVIOUS
  <2>3. ASSUME NEW o \in Objects, NEW i \in 1 .. 3, R[i] = AdmRequest(o, "UNLOCKED")
        PROVE  i = 2 /\ o = p
    BY <1>0, <2>1, <2>3
  <2>4. ASSUME NEW i \in 1 .. 3, R[i] = About("OPSTART", BasebTransc)
        PROVE  FALSE
    <3>1. About("OPSTART", BasebTransc).type = "OPSTART"
          /\ About("OPSTART", BasebTransc).obj = BasebTransc
      BY DEF About
    <3> QED BY <1>1, <2>1, <2>4, <3>1
  <2> HIDE DEF R
  <2>5. Unlocks(R)
    BY <2>2, <2>3 DEF Trails
  <2>6. Connects(R)
    BY <2>2, <2>4 DEF Trails
  <2> QED BY <2>5, <2>6 DEF R, SetAndStart
<1>2. ASSUME NEW p \in {Bts, RadioCarrier} \cup ChannelObjects
      PROVE  p \in Objects /\ p # BasebTransc
  BY ObjectTypes, ObjectsDiffer
<1>3. m.type = "SW_ACT_REQ" =>
        Right(<<About("SW_ACT_REQ_ACK", m.obj), About("ACTIVATE_SW", m.obj)>>)
  <2> DEFINE R == <<About("SW_ACT_REQ_ACK", m.obj), About("ACTIVATE_SW", m.obj)>>
  <2>1. Len(R) = 2 /\ \A i \in 1 .. 2 : R[i].type \in {"SW_ACT_REQ_ACK", "ACTIVATE_SW"}
    BY DEF About
  <2>2. About("OPSTART", BasebTransc).type = "OPSTART"
    BY DEF About
  <2> HIDE DEF R
  <2>3. Unlocks(R)
    BY <1>0, <2>1 DEF Trails
  <2>4. Connects(R)
    BY <2>1, <2>2 DEF Trails
  <2> QED BY <2>3, <2>4 DEF R
<1>4. Right(<<About("OPSTART", SiteManager)>>)
  <2> DEFINE R == <<About("OPSTART", SiteManager)>>
  <2>1. Len(R) = 1 /\ R[1].type = "OPSTART" /\ R[1].obj = SiteManager
    BY DEF About
  <2>2. About("OPSTART", BasebTransc).obj = BasebTransc /\ SiteManager # BasebTransc
    BY ObjectsDiffer DEF About
  <2> HIDE DEF R
  <2>3. Unlocks(R)
    BY <1>0, <2>1 DEF Trails
  <2>4. Connects(R)
    BY <2>1, <2>2 DEF Trails
  <2> QED BY <2>3, <2>4 DEF R
<1>5. Right(SetAndStart(About("SET_BTS_ATTR", Bts), Bts))
  BY <1>1, <1>2, RequestTypes
<1>6. ReportsWaiting(m) /\ m.obj \in ChannelObjects
        => Right(SetAndStart(About("SET_CHAN_ATTR", m.obj), m.obj))
  <2>1. m.obj \in ChannelObjects => Right(SetAndStart(About("SET_CHAN_ATTR", m.obj), m.obj))
    <3> SUFFICES ASSUME m.obj \in ChannelObjects
                 PROVE  Right(SetAndStart(About("SET_CHAN_ATTR", m.obj), m.obj))
      OBVIOUS
    <3>1. m.obj \in Objects /\ m.obj # BasebTransc
          /\ About("SET_CHAN_ATTR", m.obj) \in AttrRequests(Objects)
      BY <1>2, RequestTypes
    <3> QED BY <1>1, <3>1
  <2> QED BY <2>1
<1>7. Right(SetAndStart(About("SET_RADIO_ATTR", RadioCarrier), RadioCarrier))
  BY <1>1, <1>2, RequestTypes
<1>8. Right(<<AdmRequest(BasebTransc, "UNLOCKED"), About("OPSTART", BasebTransc),
              Plain("RSL_CONNECT")>>)
  <2> DEFINE a == AdmRequest(BasebTransc, "UNLOCKED")
             b == About("OPSTART", BasebTransc)
             c == Plain("RSL_CONNECT")
             R == <<a, b, c>>
  <2>0. BasebTransc \in Objects
    BY ObjectTypes
  <2>1. /\ a.type = "CHG_ADM_STATE" /\ a.obj = BasebTransc /\ b.type = "OPSTART"
        /\ c.type = "RSL_CONNECT"
    BY <1>0, <2>0 DEF Plain
  <2>2. Len(R) = 3 /\ R[2] = b /\ R[3] = c
    OBVIOUS
  <2>3. ASSUME NEW o \in Objects, NEW i \in 1 .. 3, R[i] = AdmRequest(o, "UNLOCKED")
        PROVE  i = 1 /\ o = BasebTransc
    BY <1>0, <2>1, <2>3
  <2>4. ASSUME NEW i \in 1 .. 3, R[i] = b
        PROVE  i = 2
    BY <2>1, <2>4
  <2> HIDE DEF R
  <2>5. Unlocks(R)
    BY <2>2, <2>3 DEF Trails
  <2>6. Connects(R)
    BY <2>2, <2>4 DEF Trails
  <2> QED BY <2>5, <2>6 DEF R
<1>9. Right(<<>>)
  BY EmptySeq DEF Trails
<1> HIDE DEF Right
<1>10. Right(Reaction(m))
  BY <1>3, <1>4, <1>5, <1>6, <1>7, <1>8, <1>9, ReactionValue
<1> QED BY <1>10 DEF Right

\* An object that is to be unlocked is to be started behind that.
UnlockBehind == \A o \in Objects : Trails(In, {AdmRequest(o, "UNLOCKED")}, About("OPSTART", o))

LEMMA UnlockBehindStep ==
    ASSUME TypeOK, OmlStep, UnlockBehind
    PROVE  UnlockBehind'
<1> SUFFICES ASSUME NEW o \in Objects
             PROVE  Trails(In', {AdmRequest(o, "UNLOCKED")}, About("OPSTART", o))
  BY DEF UnlockBehind
<1> DEFINE u == AdmRequest(o, "UNLOCKED")
           s == About("OPSTART", o)
<1>1. Trails(In, {u}, s)
  BY DEF UnlockBehind
<1>2. ASSUME NEW m \in said, BscAnswers(m) PROVE Trails(Reaction(m), {u}, s)
  BY <1>2, Reacted, ReactionBehind
<1>3. ~BscSpeaks(u)
  <2>1. u.type = "CHG_ADM_STATE" /\ About("OPSTART", SiteManager).type = "OPSTART"
    BY DEF AdmRequest, About
  <2> HIDE DEF u
  <2> QED BY <2>1 DEF BscSpeaks
<1> HIDE DEF u, s
<1> QED BY <1>1, <1>2, <1>3, InBehind DEF u, s

\* The RSL link is connected behind the start of each half of the transceiver.
HalvesBehind ==
    LET radio == About("SW_ACTIVATED_REP", RadioCarrier)
        baseb == About("SW_ACTIVATED_REP", BasebTransc)
        connect == Plain("RSL_CONNECT")
    IN  /\ Trails(Out, {radio}, baseb)
        /\ Trails(In, {About("OPSTART", BasebTransc)}, connect)
        /\ baseb \in Elements(Out) \/ Trails(In, {About("OPSTART", RadioCarrier)}, connect)

LEMMA HalvesBehindStep ==
    ASSUME TypeOK, Provoked, OmlStep, HalvesBehind, opstate' \in [Objects -> OpStates],
           admin_state' \in [Objects -> AdminStates]
    PROVE  HalvesBehind'
<1> DEFINE radio == About("SW_ACTIVATED_REP", RadioCarrier)
           baseb == About("SW_ACTIVATED_REP", BasebTransc)
           connect == Plain("RSL_CONNECT")
           s(o) == About("OPSTART", o)
<1>0. /\ LastChannel \in Objects /\ BasebTransc \in Objects /\ RadioCarrier \in Objects
      /\ radio # baseb /\ SiteManager \notin {BasebTransc, RadioCarrier}
  BY ObjectTypes, ObjectsDiffer, MessagesDiffer DEF LastChannel
<1>1. Trails(Out', {radio}, baseb)
  <2>1. ASSUME NEW r \in asked, NEW t \in Seq(CausedBy(r)), BtsAnswers(r, t)
        PROVE  Trails(t, {radio}, baseb)
    <3>1. CASE radio \notin Elements(t)
      BY <3>1, NoneToFollow
    <3>2. CASE radio \in Elements(t)
      <4>1. r = s(LastChannel)
        <5>1. radio.type = "SW_ACTIVATED_REP" /\ radio.obj = RadioCarrier
          BY DEF About
        <5>2. radio \in CausedBy(r)
          BY <2>1, <3>2, Answered
        <5> QED BY <5>1, <5>2 DEF CausedBy, LastChannel
      <4>2. t = OpstartReply(LastChannel, opstate', admin_state')
        BY <1>0, <2>1, <4>1, Answered
      <4> QED BY <1>0, <4>2, OpstartContents DEF LastChannel
    <3> QED BY <3>1, <3>2
  <2>2. Trails(Out, {radio}, baseb)
    BY DEF HalvesBehind
  <2> HIDE DEF radio, baseb
  <2> QED BY <2>1, <2>2, OutBehind
<1>2. Trails(In', {s(BasebTransc)}, connect)
  <2>1. ASSUME NEW m \in said, BscAnswers(m)
        PROVE  Trails(Reaction(m), {s(BasebTransc)}, connect)
    BY <2>1, Reacted, ReactionBehind
  <2>2. ~BscSpeaks(s(BasebTransc))
    BY <1>0 DEF BscSpeaks, About
  <2>3. Trails(In, {s(BasebTransc)}, connect)
    BY DEF HalvesBehind
  <2> HIDE DEF s, connect
  <2> QED BY <2>1, <2>2, <2>3, InBehind
<1>3. baseb \in Elements(Out') \/ Trails(In', {s(RadioCarrier)}, connect)
  <2>1. CASE baseb \in Elements(Out)
    <3>1. ASSUME BscAnswers(baseb) PROVE Trails(In', {s(RadioCarrier)}, connect)
      <4>1. baseb \in said /\ baseb \in ToBsc
            /\ \A r \in Elements(Reaction(baseb)) : r \in ProvokedBy(baseb)
        BY <3>1, Reacted
      <4>2. connect \in Elements(Reaction(baseb))
        BY <4>1, ReactionContents
      <4>3. s(RadioCarrier) \notin ProvokedBy(baseb)
        BY <1>0, <4>1, Reasons
      <4>4. s(RadioCarrier) \notin Elements(Reaction(baseb))
        BY <4>1, <4>3
      <4>5. Trails(Reaction(baseb), {s(RadioCarrier)}, connect)
        BY <4>4, NoneToFollow
      <4> HIDE DEF s, connect, baseb
      <4> QED BY <3>1, <4>1, <4>2, <4>5, SentTogether
    <3> QED BY <2>1, <3>1, Consumed
  <2>2. CASE baseb \notin Elements(Out)
    <3>1. Trails(In, {s(RadioCarrier)}, connect) /\ Trails(Out, {radio}, baseb)
      BY <2>2 DEF HalvesBehind
    <3>2. ASSUME NEW m \in said, BscAnswers(m), ~Trails(Reaction(m), {s(RadioCarrier)}, connect)
          PROVE  baseb \in Elements(Out')
      <4>1. s(RadioCarrier) \in Elements(Reaction(m))
        BY <3>2, NoneToFollow
      <4>2. m = radio
        BY <1>0, <3>2, <4>1, Reacted, Reasons
      <4> HIDE DEF radio, baseb
      <4> QED BY <3>1, <3>2, <4>2, OutBehind
    <3>3. ~BscSpeaks(s(RadioCarrier))
      BY <1>0 DEF BscSpeaks, About
    <3> HIDE DEF s, connect
    <3> QED BY <3>1, <3>2, <3>3, InBehind
  <2> QED BY <2>1, <2>2
<1> HIDE DEF radio, baseb, connect, s
<1> QED BY <1>1, <1>2, <1>3 DEF HalvesBehind, radio, baseb, connect, s
-----------------------------------------------------------------------------
(* How the BSC comes to know the state of an object: a start-up that is    *)
(* under way ends with a report of the stored states.                      *)

Halves == {BasebTransc, RadioCarrier}

\* An order or a report that the start-up of the objects goes on with, until the
\* last timeslot is started.
Orders ==
    {About("ACTIVATE_SW", o) : o \in SingleObjects \cup {LastChannel}}
    \cup {About("OPSTART", o) : o \in {SiteManager, Bts, LastChannel}}
Reports ==
    {About("SW_ACT_REQ", o) : o \in SingleObjects \cup {LastChannel}}
    \cup {Managed, Waits(Bts), Waits(LastChannel)}
Ascending ==
    \/ \E r \in Orders : r \in Elements(In)
    \/ \E m \in Reports : m \in Elements(Out)

\* The same for the two halves of the transceiver, until the RSL link is connected.
Rising(o) ==
    \/ Ascending
    \/ /\ o \in Halves
       /\ \/ About("SW_ACTIVATED_REP", BasebTransc) \in Elements(Out)
          \/ Plain("RSL_CONNECT") \in Elements(In)

LEMMA AscendingStep ==
    ASSUME TypeOK, OmlStep, Ascending,
           opstate' \in [Objects -> OpStates], admin_state' \in [Objects -> AdminStates]
    PROVE  \/ Ascending'
           \/ \E t \in Seq(CausedBy(About("OPSTART", LastChannel))) :
                 BtsAnswers(About("OPSTART", LastChannel), t)
<1> DEFINE q(o) == About("SW_ACT_REQ", o)
           a(o) == About("ACTIVATE_SW", o)
           s(o) == About("OPSTART", o)
           named == SingleObjects \cup {LastChannel}
<1>0. /\ LastChannel \in ChannelObjects /\ LastChannel \in Objects
      /\ named \subseteq Objects /\ {SiteManager, Bts, LastChannel} \subseteq Objects
      /\ BasebTransc \in named /\ RadioCarrier \in named /\ SiteManager \in named /\ Bts \in named
  BY ObjectTypes DEF LastChannel, Objects, SingleObjects
<1>1. /\ \A o \in named : a(o) \in Orders /\ q(o) \in Reports
      /\ \A o \in {SiteManager, Bts, LastChannel} : s(o) \in Orders
      /\ Managed \in Reports /\ Waits(Bts) \in Reports /\ Waits(LastChannel) \in Reports
  BY DEF Orders, Reports
<1>2. ASSUME NEW o \in named, NEW t \in Seq(CausedBy(a(o))), BtsAnswers(a(o), t)
      PROVE  Ascending'
  <2>1. a(o) \in asked
    BY <1>2 DEF BtsAnswers
  <2>2. t = ActivateSwReply(o) /\ \A m \in Elements(t) : m \in Elements(Out')
    BY <1>0, <1>2, <2>1, Answered
  <2>3. \E m \in Reports : m \in Elements(t)
    <3>1. CASE o = SiteManager
      BY <1>0, <1>1, <2>2, <3>1, ActivateSwContents
    <3>2. CASE o \in {Bts, LastChannel}
      BY <1>0, <1>1, <2>2, <3>2, ActivateSwContents
    <3>3. CASE o = BasebTransc
      BY <1>0, <1>1, <2>2, <3>3, ActivateSwContents
    <3>4. CASE o = RadioCarrier
      BY <1>0, <1>1, <2>2, <3>4, ActivateSwContents
    <3> QED BY <1>2, <3>1, <3>2, <3>3, <3>4 DEF SingleObjects
  <2> QED BY <2>2, <2>3 DEF Ascending, Orders, Reports
<1>3. ASSUME NEW o \in {SiteManager, Bts}, NEW t \in Seq(CausedBy(s(o))), BtsAnswers(s(o), t)
      PROVE  Ascending'
  <2>1. s(o) \in asked
    BY <1>3 DEF BtsAnswers
  <2>2. t = OpstartReply(o, opstate', admin_state') /\ \A m \in Elements(t) : m \in Elements(Out')
    BY <1>0, <1>3, <2>1, Answered
  <2>3. q(Bts) \in Elements(t) \/ q(BasebTransc) \in Elements(t)
    BY <1>0, <2>2, OpstartContents
  <2>4. \E m \in Reports : m \in Elements(Out')
    BY <1>0, <1>1, <2>2, <2>3
  <2> QED BY <2>4 DEF Ascending, Orders, Reports
<1>4. ASSUME NEW m \in Reports, BscAnswers(m) PROVE Ascending'
  <2>1. m \in said /\ m \in ToBsc /\ \A r \in Elements(Reaction(m)) : r \in Elements(In')
    BY <1>4, Reacted
  <2>2. \E r \in Orders : r \in Elements(Reaction(m))
    <3>1. CASE \E o \in named : m = q(o)
      BY <1>0, <1>1, <2>1, <3>1, ReactionContents
    <3>2. CASE m = Managed
      BY <1>0, <1>1, <2>1, <3>2, ReactionContents
    <3>3. CASE m = Waits(Bts) \/ m = Waits(LastChannel)
      BY <1>0, <1>1, <2>1, <3>3, ReactionContents
    <3> QED BY <1>4, <3>1, <3>2, <3>3 DEF Reports
  <2> QED BY <2>1, <2>2 DEF Ascending, Orders, Reports
<1>5. ASSUME NEW r \in Orders, r \in Elements(In)
      PROVE  \/ Ascending'
             \/ \E t \in Seq(CausedBy(s(LastChannel))) : BtsAnswers(s(LastChannel), t)
  <2>1. CASE r \in Elements(In')
    BY <2>1 DEF Ascending, Orders, Reports
  <2>2. CASE \E t \in Seq(CausedBy(r)) : BtsAnswers(r, t)
    BY <1>2, <1>3, <1>5, <2>2 DEF Orders
  <2> QED BY <1>5, <2>1, <2>2, Consumed
<1>6. ASSUME NEW m \in Reports, m \in Elements(Out)
      PROVE  Ascending'
  <2>1. CASE m \in Elements(Out')
    BY <2>1 DEF Ascending, Orders, Reports
  <2> QED BY <1>4, <1>6, <2>1, Consumed
<1> QED BY <1>5, <1>6 DEF Ascending
-----------------------------------------------------------------------------
\* The site manager, the BTS object and the timeslots are reported when the last
\* timeslot starts, the halves of the transceiver when the RSL link is connected.
Upper == {SiteManager, Bts} \cup ChannelObjects

LEMMA RisingStep ==
    ASSUME TypeOK, OmlStep, NEW o \in Objects, Rising(o),
           opstate' \in [Objects -> OpStates], admin_state' \in [Objects -> AdminStates]
    PROVE  \/ Rising(o)'
           \/ o \in Upper /\ \E t \in Seq(CausedBy(About("OPSTART", LastChannel))) :
                                BtsAnswers(About("OPSTART", LastChannel), t)
           \/ o \in Halves /\ \E t \in Seq(CausedBy(Plain("RSL_CONNECT"))) :
                                BtsAnswers(Plain("RSL_CONNECT"), t)
<1> DEFINE baseb == About("SW_ACTIVATED_REP", BasebTransc)
           connect == Plain("RSL_CONNECT")
           s == About("OPSTART", LastChannel)
<1>0. o \in Upper \/ o \in Halves
  BY DEF Upper, Halves, Objects, SingleObjects
<1>1. LastChannel \in Objects
  BY ObjectTypes DEF LastChannel
<1>2. CASE Ascending
  <2>1. ASSUME NEW t \in Seq(CausedBy(s)), BtsAnswers(s, t)
        PROVE  baseb \in Elements(Out')
    <3>1. s \in asked
      BY <2>1 DEF BtsAnswers
    <3>2. t = OpstartReply(LastChannel, opstate', admin_state')
          /\ \A m \in Elements(t) : m \in Elements(Out')
      BY <1>1, <2>1, <3>1, Answered
    <3> QED BY <1>1, <3>2, OpstartContents DEF LastChannel
  <2> QED BY <1>0, <1>2, <2>1, AscendingStep DEF Rising
<1>3. CASE o \in Halves /\ baseb \in Elements(Out)
  <2>1. ASSUME BscAnswers(baseb) PROVE connect \in Elements(In')
    BY <2>1, Reacted, ReactionContents
  <2> QED BY <1>3, <2>1, Consumed DEF Rising
<1>4. CASE o \in Halves /\ connect \in Elements(In)
  BY <1>4, Consumed DEF Rising
<1> QED BY <1>2, <1>3, <1>4 DEF Rising

\* When its start-up is not under way, no request about an object is.
LEMMA Standing ==
    ASSUME NEW o \in Objects, ~Rising(o), Len(In) \in Nat, Len(Out) \in Nat,
           \A c \in ChannelObjects \ {LastChannel} : Behind(c),
           UnlockBehind, HalvesBehind
    PROVE  /\ About("OPSTART", o) \notin Elements(In)
           /\ About("ACTIVATE_SW", o) \notin Elements(In)
           /\ AdmRequest(o, "UNLOCKED") \notin Elements(In)
           /\ About("OPSTART", LastChannel) \notin Elements(In)
           /\ About("SW_ACT_REQ", SiteManager) \notin Elements(Out)
           /\ o \in Halves => Plain("RSL_CONNECT") \notin Elements(In)
<1> DEFINE q(p) == About("SW_ACT_REQ", p)
           a(p) == About("ACTIVATE_SW", p)
           s(p) == About("OPSTART", p)
           named == SingleObjects \cup {LastChannel}
           baseb == About("SW_ACTIVATED_REP", BasebTransc)
           connect == Plain("RSL_CONNECT")
<1>0. \/ o \in {SiteManager, Bts, LastChannel}
      \/ o = BasebTransc \/ o = RadioCarrier
      \/ o \in ChannelObjects \ {LastChannel}
  BY DEF Objects, SingleObjects
<1>1. /\ \A p \in named : a(p) \notin Elements(In) /\ q(p) \notin Elements(Out)
      /\ \A p \in {SiteManager, Bts, LastChannel} : s(p) \notin Elements(In)
      /\ Waits(LastChannel) \notin Elements(Out)
  BY DEF Rising, Ascending, Orders, Reports
<1>2. o \in Halves => baseb \notin Elements(Out) /\ connect \notin Elements(In)
  BY DEF Rising
<1>3. s(o) \notin Elements(In) /\ a(o) \notin Elements(In)
  <2>1. CASE o \in {SiteManager, Bts, LastChannel}
    BY <1>1, <2>1 DEF SingleObjects
  <2>2. CASE o = BasebTransc
    <3>1. Trails(In, {s(o)}, connect) /\ connect \notin Elements(In)
      BY <1>2, <2>2 DEF HalvesBehind, Halves
    <3>2. s(o) \notin Elements(In)
      BY <3>1, BehindElement
    <3> QED BY <1>1, <2>2, <3>2 DEF SingleObjects
  <2>3. CASE o = RadioCarrier
    <3>1. Trails(In, {s(o)}, connect) /\ connect \notin Elements(In)
      BY <1>2, <2>3 DEF HalvesBehind, Halves
    <3>2. s(o) \notin Elements(In)
      BY <3>1, BehindElement
    <3> QED BY <1>1, <2>3, <3>2 DEF SingleObjects
  <2>4. CASE o \in ChannelObjects \ {LastChannel}
    <3>1. Trails(In, {a(o)}, a(LastChannel)) /\ Trails(In, {s(o)}, s(LastChannel))
      BY <1>1, <2>4 DEF Behind
    <3>2. a(LastChannel) \notin Elements(In) /\ s(LastChannel) \notin Elements(In)
      BY <1>1
    <3> QED BY <3>1, <3>2, BehindElement
  <2> QED BY <1>0, <2>1, <2>2, <2>3, <2>4
<1>4. AdmRequest(o, "UNLOCKED") \notin Elements(In)
  <2>1. Trails(In, {AdmRequest(o, "UNLOCKED")}, s(o))
    BY DEF UnlockBehind
  <2> QED BY <1>3, <2>1, BehindElement
<1>5. s(LastChannel) \notin Elements(In) /\ q(SiteManager) \notin Elements(Out)
  BY <1>1 DEF SingleObjects
<1> QED BY <1>2, <1>3, <1>4, <1>5

\* Where a report comes from.
LEMMA ReportSources ==
    ASSUME TypeOK, opstate' \in [Objects -> OpStates], admin_state' \in [Objects -> AdminStates],
           NEW r \in asked, NEW t \in Seq(CausedBy(r)), BtsAnswers(r, t),
           NEW m \in Elements(t), m.type = "STATECHG_EVENT_REP"
    PROVE  \/ m.av = "NOT_INSTALLED" /\ About("SW_ACT_REQ", SiteManager) \in Elements(t)
           \/ r = About("ACTIVATE_SW", m.obj) /\ m.adm = "LOCKED"
           \/ /\ r = About("OPSTART", LastChannel) /\ m.obj \in Upper
              /\ m = StoredReport(m.obj, opstate', admin_state')
           \/ /\ r = Plain("RSL_CONNECT") /\ m.obj \in Halves
              /\ m = StoredReport(m.obj, opstate', admin_state')
<1>1. m \in CausedBy(r) /\ m \in ToBsc /\ r \in ToBts /\ Exactly(r, t)
  BY Answered, CausedByType DEF TypeOK, BtsAnswers
<1>2. m.av \in AvailStates
  BY <1>1 DEF ToBsc, RepliesAbout, ObjectReplies
<1>3. CASE m.av = "NOT_INSTALLED"
  <2>1. r = Plain("ID_GET")
    BY <1>1, <1>3 DEF CausedBy, Initial
  <2>2. r.type = "ID_GET"
    BY <2>1 DEF Plain
  <2>3. ASSUME bts_id_resp PROVE FALSE
    <3>1. t = <<Plain("ID_RESP")>>
      BY <1>1, <2>2, <2>3 DEF Exactly
    <3>2. m = Plain("ID_RESP")
      BY <3>1 DEF Elements
    <3> QED BY <3>2 DEF Plain
  <2>4. About("SW_ACT_REQ", SiteManager) \in Elements(t)
    BY <1>1, <2>2, <2>3 DEF Exactly
  <2> QED BY <1>3, <2>4
<1>4. CASE m.av = "DEPENDENCY"
  <2>1. r = About("ACTIVATE_SW", m.obj) /\ m = Waits(m.obj)
    BY <1>1, <1>4 DEF CausedBy, ReportsWaiting
  <2>2. m.adm = "LOCKED"
    BY <2>1 DEF Waits, StateChg
  <2> QED BY <2>1, <2>2
<1>5. CASE m.av = "OK"
  <2>1. \/ r.type \in {"OPSTART", "RSL_CONNECT"}
        \/ r = About("ACTIVATE_SW", SiteManager) /\ m = Managed
    BY <1>1, <1>5 DEF CausedBy
  <2>2. CASE r = About("ACTIVATE_SW", SiteManager) /\ m = Managed
    <3>1. m.obj = SiteManager /\ m.adm = "LOCKED"
      BY <2>2 DEF Managed, StateChg
    <3> QED BY <2>2, <3>1
  <2>3. CASE r.type = "OPSTART"
    <3>1. r.obj \in Objects /\ r = About("OPSTART", r.obj)
      BY <1>1, <2>3, RequestShape DEF ObjectRequests
    <3>2. t = OpstartReply(r.obj, opstate', admin_state')
      BY <1>1, <2>3 DEF Exactly
    <3>3. r.obj = LastChannel /\ m.obj \in Upper /\ m = StoredReport(m.obj, opstate', admin_state')
      BY <3>1, <3>2, OpstartContents DEF LastChannel, Upper
    <3> QED BY <3>1, <3>3
  <2>4. CASE r.type = "RSL_CONNECT"
    <3>1. r = Plain("RSL_CONNECT")
      BY <1>1, <2>4 DEF ToBts, RequestsAbout, ObjectRequests, AttrRequests, About, Plain
    <3>2. m.obj \in Halves /\ m = StoredReport(m.obj, opstate', admin_state')
      BY <1>1, <2>4 DEF Exactly, Halves
    <3> QED BY <3>1, <3>2
  <2> QED BY <2>1, <2>2, <2>3, <2>4
<1> QED BY <1>2, <1>3, <1>4, <1>5 DEF AvailStates
-----------------------------------------------------------------------------
\* The last report about an object.
Stored(o) == [op |-> opstate[o], adm |-> admin_state[o]]
UpReport(o) == StateChg(o, "ENABLED", "OK", "UNLOCKED")
OtherReports(o) ==
    {m \in ToBsc : m.type = "STATECHG_EVENT_REP" /\ m.obj = o /\ m # UpReport(o)}

\* The BSC has the stored state, or will read it, behind every other report.
Agreeing(o) ==
    /\ view[o] \in {NoReport, Stored(o)} \/ UpReport(o) \in Elements(Out)
    /\ Trails(Out, OtherReports(o), UpReport(o))

\* A report that an object is up has been true ever since.
UpReportsTrue == \A o \in Objects : UpReport(o) \in said => Enabled(o)

LEMMA UpReportsStep ==
    ASSUME TypeOK, OmlStep, UpReportsTrue,
           opstate' \in [Objects -> OpStates], admin_state' \in [Objects -> AdminStates]
    PROVE  UpReportsTrue'
<1> SUFFICES ASSUME NEW o \in Objects, UpReport(o) \in said' PROVE Enabled(o)'
  BY DEF UpReportsTrue, UpReport
<1>1. CASE UpReport(o) \in said
  BY <1>1, NeverBack DEF UpReportsTrue
<1>2. CASE UpReport(o) \notin said
  <2> DEFINE m == UpReport(o)
  <2>1. PICK r \in asked : \E t \in Seq(CausedBy(r)) : BtsAnswers(r, t) /\ m \in Elements(t)
    BY <1>2 DEF OmlStep, BtsAnswers, BscAnswers, BscSpeaks, Elsewhere
  <2>2. PICK t \in Seq(CausedBy(r)) : BtsAnswers(r, t) /\ m \in Elements(t)
    BY <2>1
  <2>3. /\ m.type = "STATECHG_EVENT_REP" /\ m.av = "OK" /\ m.adm = "UNLOCKED"
        /\ m.obj = o /\ m.op = "ENABLED"
    BY DEF UpReport, StateChg
  <2> HIDE DEF m
  <2>4. m = StoredReport(o, opstate', admin_state')
    BY <2>2, <2>3, ReportSources
  <2>5. m.op = opstate'[o]
    BY <2>4 DEF StoredReport, StateChg
  <2> QED BY <2>3, <2>5 DEF Enabled
<1> QED BY <1>1, <1>2

\* While the stored state of an object stays, an agreement on it does.
LEMMA AgreeingStays ==
    ASSUME TypeOK, OmlStep, NEW o \in Objects, Agreeing(o), UpReportsTrue, EnabledIsUnlocked,
           opstate'[o] = opstate[o], admin_state'[o] = admin_state[o],
           \A r \in asked : \A t \in Seq(CausedBy(r)) : BtsAnswers(r, t) =>
              Trails(t, OtherReports(o), UpReport(o))
    PROVE  Agreeing(o)'
<1> DEFINE C == OtherReports(o)
           d == UpReport(o)
           V(v) == v \in {NoReport, Stored(o)}
<1>1. Stored(o)' = Stored(o)
  BY DEF Stored
<1>2. Trails(Out', C, d)
  <2>1. Trails(Out, C, d)
    BY DEF Agreeing
  <2> HIDE DEF C, d
  <2> QED BY <2>1, OutBehind DEF C, d
<1>3. V(view'[o]) \/ d \in Elements(Out')
  <2>1. ASSUME NEW m \in said, BscAnswers(m) PROVE V(view'[o]) \/ d \in Elements(Out')
    <3>1. m \in ToBsc
      BY <2>1, Reacted
    <3>2. CASE m = d
      <4>1. m.type = "STATECHG_EVENT_REP" /\ m.obj = o /\ m.op = "ENABLED" /\ m.adm = "UNLOCKED"
        BY <3>2 DEF UpReport, StateChg
      <4>2. opstate[o] = "ENABLED" /\ admin_state[o] = "UNLOCKED"
        BY <2>1, <3>2 DEF UpReportsTrue, EnabledIsUnlocked, Enabled
      <4>3. view'[o] = [op |-> m.op, adm |-> m.adm]
        BY <2>1, <4>1 DEF BscAnswers, TypeOK
      <4> QED BY <4>1, <4>2, <4>3 DEF Stored
    <3>3. CASE m \in C
      <4>1. Trails(Out, C, d)
        BY DEF Agreeing
      <4> HIDE DEF C, d
      <4> QED BY <2>1, <3>3, <4>1, OutBehind
    <3>4. CASE m # d /\ m \notin C
      <4>1. view'[o] = view[o]
        BY <2>1, <3>1, <3>4, ReportShape DEF BscAnswers, OtherReports, TypeOK
      <4>2. d \in Elements(Out) => d \in Elements(Out')
        BY <2>1, <3>4 DEF BscAnswers, Consumes
      <4> QED BY <4>1, <4>2 DEF Agreeing
    <3> QED BY <3>2, <3>3, <3>4
  <2>2. ASSUME NEW r \in asked, NEW t \in Seq(CausedBy(r)), BtsAnswers(r, t)
        PROVE  view' = view /\ Elements(Out) \subseteq Elements(Out')
    BY <2>2 DEF BtsAnswers, Extends
  <2>3. ASSUME view' = view, Elements(Out) \subseteq Elements(Out')
        PROVE  V(view'[o]) \/ d \in Elements(Out')
    BY <2>3 DEF Agreeing
  <2>4. ASSUME NEW r \in ToBts, BscSpeaks(r)
        PROVE  view' = view /\ Elements(Out) \subseteq Elements(Out')
    BY <2>4 DEF BscSpeaks
  <2>5. ASSUME Elsewhere
        PROVE  view' = view /\ Elements(Out) \subseteq Elements(Out')
    BY <2>5 DEF Elsewhere
  <2> HIDE DEF V, d
  <2> QED BY <2>1, <2>2, <2>3, <2>4, <2>5 DEF OmlStep
<1>4. OtherReports(o)' = C /\ UpReport(o)' = d
  BY DEF OtherReports, UpReport
<1> QED BY <1>1, <1>2, <1>3, <1>4 DEF Agreeing

\* A report of a state in which the object is up makes a new agreement.
LEMMA AgreeingFresh ==
    ASSUME TypeOK, NEW o \in Objects, NEW r \in asked, NEW t \in Seq(CausedBy(r)), BtsAnswers(r, t),
           StoredReport(o, opstate', admin_state') \in Elements(t),
           \A m \in Elements(t) : m.type = "STATECHG_EVENT_REP" /\ m.obj = o
              => m = StoredReport(o, opstate', admin_state'),
           opstate'[o] = "ENABLED", admin_state'[o] = "UNLOCKED"
    PROVE  Agreeing(o)'
<1> DEFINE C == OtherReports(o)
           d == UpReport(o)
<1>1. StoredReport(o, opstate', admin_state') = d
  BY DEF StoredReport, UpReport
<1>2. Trails(t, C, d)
  <2>1. \A x \in Elements(t) : x \notin C
    BY <1>1 DEF OtherReports
  <2> QED BY <2>1, NoneToFollow
<1>3. d \in Elements(t)
  BY <1>1
<1>4. OtherReports(o)' = C /\ UpReport(o)' = d
  BY DEF OtherReports, UpReport
<1> HIDE DEF C, d
<1>5. Trails(Out', C, d) /\ d \in Elements(Out')
  BY <1>2, <1>3, SentTogether, Answered
<1> QED BY <1>4, <1>5 DEF Agreeing

\* When the start-up of an object is not under way, its stored state stays, and
\* is reported truly or not at all.
LEMMA StateStands ==
    ASSUME TypeOK, Provoked, OmlStep, NEW o \in Objects, ~Rising(o), ~Rising(o)',
           opstate' \in [Objects -> OpStates], admin_state' \in [Objects -> AdminStates],
           \A c \in ChannelObjects \ {LastChannel} : Behind(c),
           UnlockBehind, HalvesBehind
    PROVE  /\ opstate'[o] = opstate[o] /\ admin_state'[o] = admin_state[o]
           /\ \A r \in asked : \A t \in Seq(CausedBy(r)) : BtsAnswers(r, t) =>
                 Trails(t, OtherReports(o), UpReport(o))
<1>1. Len(In) \in Nat /\ Len(Out) \in Nat
  BY LenProperties DEF TypeOK, BtsTypeOK, StatesTypeOK, In, Out, Links
<1>2. /\ About("OPSTART", o) \notin Elements(In)
      /\ About("ACTIVATE_SW", o) \notin Elements(In)
      /\ AdmRequest(o, "UNLOCKED") \notin Elements(In)
      /\ About("OPSTART", LastChannel) \notin Elements(In)
      /\ o \in Halves => Plain("RSL_CONNECT") \notin Elements(In)
  BY <1>1, Standing
<1>3. About("SW_ACT_REQ", SiteManager) \notin Elements(Out')
  BY DEF Rising, Ascending, Orders, Reports, SingleObjects
<1>4. ASSUME NEW r \in asked, NEW t \in Seq(CausedBy(r)), BtsAnswers(r, t)
      PROVE  /\ opstate'[o] = opstate[o] /\ admin_state'[o] = admin_state[o]
             /\ Trails(t, OtherReports(o), UpReport(o))
  <2>1. r \in Elements(In) /\ r \in ToBts
    BY <1>4 DEF BtsAnswers, Consumes, TypeOK
  <2>2. opstate'[o] = opstate[o]
    BY <1>2, <1>4, <2>1 DEF BtsAnswers
  <2>3. ASSUME r.type = "CHG_ADM_STATE", r.obj = o PROVE FALSE
    <3>1. r.adm = "UNLOCKED"
      BY <2>3 DEF Provoked, ProvokedBy
    <3>2. r = AdmRequest(o, "UNLOCKED")
      BY <2>1, <2>3, <3>1 DEF ToBts, RequestsAbout, AttrRequests, About, AdmRequest,
         LinkRequests, ObjectRequests
    <3> QED BY <1>2, <2>1, <3>2
  <2>4. admin_state'[o] = admin_state[o]
    BY <1>2, <1>4, <2>1, <2>3 DEF BtsAnswers, Administered
  <2>5. ASSUME NEW m \in Elements(t), m \in OtherReports(o) PROVE FALSE
    <3>1. m.type = "STATECHG_EVENT_REP" /\ m.obj = o
      BY <2>5 DEF OtherReports
    <3>2. About("SW_ACT_REQ", SiteManager) \notin Elements(t)
      BY <1>3, <1>4, Answered
    <3>3. o \in Upper => o \notin Halves
      BY ObjectTypes, ObjectsDiffer DEF Upper, Halves
    <3> QED BY <1>2, <1>4, <2>1, <3>1, <3>2, ReportSources
  <2>6. Trails(t, OtherReports(o), UpReport(o))
    BY <2>5, NoneToFollow
  <2> QED BY <2>2, <2>4, <2>6
<1>5. opstate'[o] = opstate[o] /\ admin_state'[o] = admin_state[o]
  BY <1>4 DEF OmlStep, BscAnswers, BscSpeaks, Elsewhere, objectVars
<1> QED BY <1>4, <1>5
-----------------------------------------------------------------------------
\* What is known of the streams when the BSC's view is compared with the state.
Following ==
    /\ \A c \in ChannelObjects \ {LastChannel} : Behind(c)
    /\ UnlockBehind /\ HalvesBehind /\ UpReportsTrue

\* Either the start-up of an object is under way, or the BSC agrees on it.
Informed == \A o \in Objects : Rising(o) \/ Agreeing(o)

\* What the theorems above say of every state.
OrderKnown == ChannelsInLine /\ StartupOrder /\ EnabledIsUnlocked /\ RslLast

LEMMA InformedStep ==
    ASSUME OmlLink, OmlStep, TypeOK', Following, Informed, EnabledIsUnlocked, OrderKnown'
    PROVE  Informed'
<1> SUFFICES ASSUME NEW o \in Objects, ~Rising(o)' PROVE Agreeing(o)'
  BY DEF Informed
<1>1. /\ TypeOK /\ Provoked
      /\ opstate' \in [Objects -> OpStates] /\ admin_state' \in [Objects -> AdminStates]
  BY DEF OmlLink, TypeOK, BtsTypeOK, StatesTypeOK
<1>2. CASE ~Rising(o)
  <2>1. Agreeing(o)
    BY <1>2 DEF Informed
  <2> QED BY <1>1, <1>2, <2>1, StateStands, AgreeingStays DEF Following
<1>3. CASE Rising(o)
  <2>1. ASSUME o \in Upper, NEW t \in Seq(CausedBy(About("OPSTART", LastChannel))),
               BtsAnswers(About("OPSTART", LastChannel), t)
        PROVE  Agreeing(o)'
    <3> DEFINE r == About("OPSTART", LastChannel)
    <3>1. r \in asked /\ LastChannel \in Objects /\ LastChannel \in ChannelObjects
      BY <2>1, ObjectTypes DEF BtsAnswers, LastChannel
    <3>2. Enabled(LastChannel)' /\ t = OpstartReply(LastChannel, opstate', admin_state')
      BY <1>1, <2>1, <3>1, Answered
    <3>3. Enabled(o)'
      <4>1. ChannelsInLine' /\ StartupOrder'
        BY DEF OrderKnown
      <4>2. \A c \in ChannelObjects : Enabled(c)'
        BY <3>2, <4>1 DEF ChannelsInLine, InLine
      <4>3. Enabled(Bts)' /\ Enabled(SiteManager)'
        BY <3>1, <3>2, <4>1 DEF StartupOrder
      <4> QED BY <2>1, <4>2, <4>3 DEF Upper
    <3>4. opstate'[o] = "ENABLED" /\ admin_state'[o] = "UNLOCKED"
      BY <3>3 DEF OrderKnown, EnabledIsUnlocked, Enabled
    <3>5. /\ StoredReport(o, opstate', admin_state') \in Elements(t)
          /\ \A m \in Elements(t) : m.type = "STATECHG_EVENT_REP" /\ m.obj = o
                => m = StoredReport(o, opstate', admin_state')
      BY <1>1, <2>1, <3>1, <3>2, OpstartContents DEF Upper, LastChannel
    <3> HIDE DEF r
    <3> QED BY <1>1, <2>1, <3>1, <3>4, <3>5, AgreeingFresh DEF r
  <2>2. ASSUME o \in Halves, NEW t \in Seq(CausedBy(Plain("RSL_CONNECT"))),
               BtsAnswers(Plain("RSL_CONNECT"), t)
        PROVE  Agreeing(o)'
    <3> DEFINE r == Plain("RSL_CONNECT")
    <3>1. r \in asked /\ r.type = "RSL_CONNECT" /\ Exactly(r, t) /\ said' = said \cup Elements(t)
      BY <2>2 DEF BtsAnswers, Plain
    <3> HIDE DEF r
    <3>2. /\ Plain("RSL_CONNECT_ACK") \in Elements(t)
          /\ StoredReport(o, opstate', admin_state') \in Elements(t)
          /\ \A m \in Elements(t) : m.type = "STATECHG_EVENT_REP" /\ m.obj = o
                => m = StoredReport(o, opstate', admin_state')
      BY <2>2, <3>1 DEF Exactly, Halves
    <3>3. opstate'[o] = "ENABLED" /\ admin_state'[o] = "UNLOCKED"
      BY <2>2, <3>1, <3>2 DEF OrderKnown, RslLast, EnabledIsUnlocked, Enabled, Halves
    <3> QED BY <1>1, <2>2, <3>1, <3>2, <3>3, AgreeingFresh DEF r
  <2> QED BY <1>1, <1>3, <2>1, <2>2, RisingStep
<1> QED BY <1>2, <1>3

LEMMA FollowingStep ==
    ASSUME OmlLink, OmlStep, TypeOK', Following
    PROVE  Following'
<1>1. /\ TypeOK /\ Provoked
      /\ opstate' \in [Objects -> OpStates] /\ admin_state' \in [Objects -> AdminStates]
  BY DEF OmlLink, TypeOK, BtsTypeOK, StatesTypeOK
<1>2. ASSUME NEW c \in ChannelObjects \ {LastChannel} PROVE Behind(c)'
  BY <1>1, BehindStep DEF Following
<1>3. UnlockBehind' /\ HalvesBehind' /\ UpReportsTrue'
  BY <1>1, UnlockBehindStep, HalvesBehindStep, UpReportsStep DEF Following
<1>4. (\A c \in ChannelObjects \ {LastChannel} : Behind(c))'
  BY <1>2 DEF ChannelObjects, LastChannel, Channels, Channel
<1> QED BY <1>3, <1>4 DEF Following

\* Whenever nothing is in flight the BSC's copy of an object's state is the state
\* the BTS holds.
THEOREM BscKnowsTheState == Spec => []ViewAgrees
<1>1. Init => Following /\ Informed
  <2> SUFFICES ASSUME Init PROVE Following /\ Informed
    OBVIOUS
  <2>1. Following
    BY InitEmpty DEF Following, Behind, UnlockBehind, HalvesBehind, UpReportsTrue
  <2>2. ASSUME NEW o \in Objects PROVE Agreeing(o)
    BY InitEmpty DEF Agreeing
  <2> QED BY <2>1, <2>2 DEF Informed
<1>2. OmlLink /\ Following /\ Informed /\ OrderKnown /\ OrderKnown' /\ [Next]_vars
        => (Following /\ Informed)'
  <2> SUFFICES ASSUME OmlLink, Following, Informed, OrderKnown, OrderKnown', [Next]_vars
               PROVE  (Following /\ Informed)'
    OBVIOUS
  <2>1. OmlStep /\ TypeOK'
    BY OmlLinkStep DEF OmlLink
  <2>2. EnabledIsUnlocked
    BY DEF OrderKnown
  <2> QED BY <2>1, <2>2, FollowingStep, InformedStep
<1>3. Informed => ViewAgrees
  <2> SUFFICES ASSUME Informed, Quiet, NEW o \in Objects, view[o] # NoReport
               PROVE  view[o] = Stored(o)
    BY DEF ViewAgrees, Stored
  <2>1. In = <<>> /\ Out = <<>>
    BY DEF Quiet, In, Out, Links
  <2>2. Elements(<<>>) = {}
    BY DEF Elements
  <2>3. ~Rising(o)
    BY <2>1, <2>2 DEF Rising, Ascending
  <2>4. Agreeing(o)
    BY <2>3 DEF Informed
  <2> QED BY <2>1, <2>2, <2>4 DEF Agreeing
<1>4. Spec => []OrderKnown
  BY ChannelsAlways, ComesUpInOrder, StartedIsUnlocked, RslIsConnectedLast, PTL DEF OrderKnown
<1> QED BY <1>1, <1>2, <1>3, <1>4, OmlLinkAlways, PTL DEF Spec
=============================================================================
