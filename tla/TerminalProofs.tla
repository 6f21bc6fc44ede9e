--------------------------- MODULE TerminalProofs ---------------------------
(***************************************************************************)
(* Theorems about the terminals, for any number of sessions and failures,  *)
(* and about the line a terminal edits, for any size of buffer and         *)
(* history.                                                                *)
(***************************************************************************)
EXTENDS VtySession, LineEditor, WellFoundedInduction, SequenceTheorems, FiniteSetTheorems, TLAPS

SessionInv == TypeOK /\ LockAgrees

(* A step does one of three things to the lock of s, which ends up in node m. *)
Leaves(s, m) == KeepsLock /\ (m \in ConfigNodes <=> config[s])

Takes(s, m) ==
    /\ vty_config = 0
    /\ vty_config' = 1
    /\ config' = [config EXCEPT ![s] = TRUE]
    /\ m \in ConfigNodes

Frees(s, m) ==
    /\ config[s]
    /\ vty_config' = 0
    /\ config' = [config EXCEPT ![s] = FALSE]
    /\ m \notin ConfigNodes

Moves(s, m) ==
    /\ node' = [node EXCEPT ![s] = m]
    /\ Leaves(s, m) \/ Takes(s, m) \/ Frees(s, m)

Places == Nodes \cup {"CLOSED"}

LEMMA SessionInit == Init => SessionInv
<1> SUFFICES ASSUME Init PROVE SessionInv
    OBVIOUS
<1>1. TypeOK
    <2>1. node \in [Sessions -> Nodes \cup {"CLOSED"}] /\ status \in [Sessions -> {"NORMAL", "CLOSE"}]
        BY DEF Init
    <2>2. config \in [Sessions -> BOOLEAN] /\ gone \in [Sessions -> BOOLEAN]
        BY DEF Init
    <2>3. fail \in [Sessions -> 0..MaxFail]
        BY MaxFailAssumption DEF Init
    <2>4. no_password_check \in BOOLEAN /\ advanced \in BOOLEAN
        BY DEF Init
    <2> QED
        BY <2>1, <2>2, <2>3, <2>4 DEF Init, TypeOK, Secrets
<1>2. LockAgrees
    BY DEF Init, LockAgrees, InConfigNode, ConfigNodes
<1> QED
    BY <1>1, <1>2 DEF SessionInv

-----------------------------------------------------------------------------
(* Every action moves its session.                                         *)

\* Leaving a configuration node with the lock given back, or keeping it in none.
LEMMA UnlockLeaves ==
    ASSUME SessionInv, NEW s \in Sessions, NEW m \in Places \ ConfigNodes, ConfigUnlock(s)
    PROVE  Leaves(s, m) \/ Frees(s, m)
<1>1. config[s] => vty_config = 1
    BY DEF SessionInv, LockAgrees
<1>2. CASE config[s]
    BY <1>1, <1>2 DEF ConfigUnlock, Frees
<1>3. CASE ~config[s]
    BY <1>3 DEF ConfigUnlock, Leaves, KeepsLock
<1> QED
    BY <1>2, <1>3

\* Locking takes a free lock, and changes nothing otherwise.
LEMMA LockTakes ==
    ASSUME SessionInv, NEW s \in Sessions, ConfigLock(s)
    PROVE  \/ vty_config = 0 /\ config'[s] /\ Takes(s, "CONFIG")
           \/ vty_config = 1 /\ KeepsLock /\ config'[s] = config[s]
<1>1. vty_config \in {0, 1} /\ config \in [Sessions -> BOOLEAN]
    BY DEF SessionInv, TypeOK
<1>2. CASE vty_config = 0
    BY <1>1, <1>2 DEF ConfigLock, Takes, ConfigNodes
<1>3. CASE vty_config = 1
    BY <1>3 DEF ConfigLock, KeepsLock
<1> QED
    BY <1>1, <1>2, <1>3

LEMMA CreateMoves ==
    ASSUME SessionInv, NEW s \in Sessions, VtyCreate(s)
    PROVE  \E m \in Places : Moves(s, m)
<1>1. node[s] = "CLOSED" /\ ~config[s] /\ KeepsLock
    BY DEF VtyCreate, SessionInv, LockAgrees, InConfigNode, ConfigNodes
<1>2. CASE UNCHANGED node
    <2>1. node' = [node EXCEPT ![s] = "CLOSED"]
        BY <1>1, <1>2 DEF SessionInv, TypeOK
    <2> QED
        BY <1>1, <2>1 DEF Moves, Leaves, Places, ConfigNodes
<1>3. CASE \E m \in {"AUTH", "ENABLE", "VIEW"} : node' = [node EXCEPT ![s] = m]
    BY <1>1, <1>3 DEF Moves, Leaves, Places, Nodes, AuthNodes, CommandNodes, ConfigNodes
<1> QED
    BY <1>2, <1>3 DEF VtyCreate

LEMMA EndMoves ==
    ASSUME SessionInv, NEW s \in Sessions, ReadEnds(s)
    PROVE  \E m \in Places : Moves(s, m)
<1>1. CASE status[s] = "CLOSE"
    BY <1>1, UnlockLeaves DEF ReadEnds, VtyClose, Moves, Places, ConfigNodes
<1>2. CASE status[s] # "CLOSE"
    <2>1. node' = [node EXCEPT ![s] = node[s]] /\ node[s] \in Places
        BY <1>2 DEF ReadEnds, SessionInv, TypeOK, Places
    <2>2. Leaves(s, node[s])
        BY <1>2 DEF ReadEnds, Leaves, SessionInv, LockAgrees, InConfigNode
    <2> QED
        BY <2>1, <2>2 DEF Moves
<1> QED
    BY <1>1, <1>2

LEMMA AuthMoves ==
    ASSUME SessionInv, NEW s \in Sessions, VtyAuth(s)
    PROVE  \E m \in Places : Moves(s, m)
<1>1. ~config[s] /\ KeepsLock
    BY DEF VtyAuth, SessionInv, LockAgrees, InConfigNode, ConfigNodes, AuthNodes
<1>2. node[s] \in AuthNodes /\ node = [node EXCEPT ![s] = node[s]]
    BY DEF VtyAuth, SessionInv, TypeOK
<1>3. \E m \in AuthNodes \cup {"VIEW", "ENABLE"} : node' = [node EXCEPT ![s] = m]
    <2>1. CASE RightPassword(s)
        BY <2>1 DEF RightPassword, AfterAuth
    <2>2. CASE WrongPassword(s)
        BY <2>2, <1>2 DEF WrongPassword
    <2> QED
        BY <2>1, <2>2 DEF VtyAuth
<1> QED
    BY <1>1, <1>3 DEF Moves, Leaves, Places, Nodes, AuthNodes, CommandNodes, ConfigNodes

\* A command of the node that the session is in.
LEMMA CommandMoves ==
    ASSUME SessionInv, NEW s \in Sessions, NEW m \in Nodes, node[s] \in CommandNodes,
           CmdExecuteReal(s, node[s], m)
    PROVE  Leaves(s, m) \/ Takes(s, m) \/ Frees(s, m)
<1> DEFINE n == node[s]
<1> USE DEF ConfigNodes
<1>1. n \in ConfigNodes <=> config[s]
    BY DEF SessionInv, LockAgrees, InConfigNode
<1>2. m \in Places
    BY DEF Places
<1>3. CASE ConfigExit(s, n, m)
    <2>1. CASE n = "CONFIG"
        BY <1>2, <1>3, <2>1, UnlockLeaves DEF ConfigExit
    <2>2. CASE n # "CONFIG"
        BY <1>1, <1>3, <2>2 DEF ConfigExit, Leaves
    <2> QED
        BY <2>1, <2>2
<1>4. CASE ConfigEnd(s, n, m)
    <2>1. CASE n \in ConfigNodes
        BY <1>2, <1>4, <2>1, UnlockLeaves DEF ConfigEnd
    <2>2. CASE n \notin ConfigNodes
        BY <1>1, <1>4, <2>2 DEF ConfigEnd, Leaves
    <2> QED
        BY <2>1, <2>2
<1>5. CASE Enable(s, n, m)
    BY <1>1, <1>5 DEF Enable, Leaves
<1>6. CASE Disable(s, n, m)
    BY <1>1, <1>6 DEF Disable, Leaves
<1>7. CASE ConfigTerminal(s, n, m)
    BY <1>1, <1>7, LockTakes DEF ConfigTerminal, Leaves
<1>8. CASE LineVty(s, n, m)
    BY <1>1, <1>8 DEF LineVty, Leaves
<1>9. CASE SetHost(s, n, m)
    BY <1>1, <1>9 DEF SetHost, Leaves
<1>10. CASE SetLogin(s, n, m)
    BY <1>1, <1>10 DEF SetLogin, Leaves
<1> QED
    BY <1>3, <1>4, <1>5, <1>6, <1>7, <1>8, <1>9, <1>10 DEF CmdExecuteReal, OfConfig

\* A command of the enable node after "do": whoever is in a configuration node keeps the lock.
LEMMA DoMoves ==
    ASSUME SessionInv, NEW s \in Sessions, NEW m \in Nodes, node[s] \in ConfigNodes,
           CmdExecuteReal(s, "ENABLE", m)
    PROVE  KeepsLock
<1>1. vty_config = 1
    BY DEF SessionInv, LockAgrees, InConfigNode
<1>2. CASE ConfigTerminal(s, "ENABLE", m)
    BY <1>1, <1>2, LockTakes DEF ConfigTerminal
<1> QED
    BY <1>2 DEF CmdExecuteReal, OfConfig, ConfigExit, ConfigEnd, Enable, Disable, LineVty, SetHost,
        SetLogin, ConfigNodes

LEMMA CmdExecuteMoves ==
    ASSUME SessionInv, NEW s \in Sessions, CmdExecute(s)
    PROVE  \E m \in Places : Moves(s, m)
<1>1. PICK m \in Nodes :
        \/ CmdExecuteReal(s, node[s], m) /\ node' = [node EXCEPT ![s] = m]
        \/ node[s] \in ConfigNodes /\ CmdExecuteReal(s, "ENABLE", m) /\ node' = node
        \/ node[s] = "VTY" /\ OfConfig(s, "CONFIG", m) /\ node' = [node EXCEPT ![s] = m]
    BY DEF CmdExecute
<1>2. node[s] \in CommandNodes /\ m \in Places
    BY DEF CmdExecute, Places
<1>3. CASE CmdExecuteReal(s, node[s], m) /\ node' = [node EXCEPT ![s] = m]
    BY <1>2, <1>3, CommandMoves DEF Moves
<1>4. CASE node[s] \in ConfigNodes /\ CmdExecuteReal(s, "ENABLE", m) /\ node' = node
    <2>1. KeepsLock /\ config[s]
        BY <1>4, DoMoves DEF SessionInv, LockAgrees, InConfigNode
    <2>2. node' = [node EXCEPT ![s] = node[s]] /\ node[s] \in Places
        BY <1>4 DEF SessionInv, TypeOK, Places
    <2> QED
        BY <1>4, <2>1, <2>2 DEF Moves, Leaves
<1>5. CASE node[s] = "VTY" /\ OfConfig(s, "CONFIG", m) /\ node' = [node EXCEPT ![s] = m]
    <2>1. KeepsLock /\ m \in ConfigNodes
        BY <1>5 DEF OfConfig, LineVty, SetHost, ConfigNodes
    <2>2. config[s]
        BY <1>5 DEF SessionInv, LockAgrees, InConfigNode, ConfigNodes
    <2> QED
        BY <1>2, <1>5, <2>1, <2>2 DEF Moves, Leaves
<1> QED
    BY <1>1, <1>3, <1>4, <1>5

LEMMA StepMoves ==
    ASSUME SessionInv, NEW s \in Sessions,
           VtyCreate(s) \/ Hangup(s) \/ VtyRead(s) \/ Input(s) \/ ReadEnds(s)
    PROVE  \E m \in Places : Moves(s, m)
<1>1. CASE UNCHANGED <<node, config, vty_config>>
    <2>1. node' = [node EXCEPT ![s] = node[s]] /\ node[s] \in Places
        BY <1>1 DEF SessionInv, TypeOK, Places
    <2>2. Leaves(s, node[s])
        BY <1>1 DEF Leaves, KeepsLock, SessionInv, LockAgrees, InConfigNode
    <2> QED
        BY <2>1, <2>2 DEF Moves
<1>2. CASE VtyCreate(s)
    BY <1>2, CreateMoves
<1>3. CASE Hangup(s)
    BY <1>1, <1>3 DEF Hangup, session
<1>4. CASE VtyRead(s)
    BY <1>1, <1>4 DEF VtyRead
<1>5. CASE Input(s)
    BY <1>5, AuthMoves, CmdExecuteMoves DEF Input
<1>6. CASE ReadEnds(s)
    BY <1>6, EndMoves
<1> QED
    BY <1>2, <1>3, <1>4, <1>5, <1>6

-----------------------------------------------------------------------------
(* Moves preserve the agreement.                                           *)

LEMMA MovesAgree ==
    ASSUME SessionInv, NEW s \in Sessions, NEW m \in Places, Moves(s, m)
    PROVE  /\ node' \in [Sessions -> Places]
           /\ config' \in [Sessions -> BOOLEAN]
           /\ vty_config' \in {0, 1}
           /\ LockAgrees'
<1>1. /\ node \in [Sessions -> Places] /\ config \in [Sessions -> BOOLEAN]
      /\ vty_config \in {0, 1}
    BY DEF SessionInv, TypeOK, Places
<1>2. node' = [node EXCEPT ![s] = m]
    BY DEF Moves
<1>3. CASE Leaves(s, m)
    BY <1>1, <1>2, <1>3 DEF Leaves, KeepsLock, SessionInv, LockAgrees, InConfigNode
<1>4. CASE Takes(s, m)
    <2>1. \A t \in Sessions : ~config[t]
        BY <1>4 DEF Takes, SessionInv, LockAgrees
    <2>2. \A t \in Sessions : config'[t] <=> t = s
        BY <1>1, <1>4, <2>1 DEF Takes
    <2> QED
        BY <1>1, <1>2, <1>4, <2>1, <2>2 DEF Takes, SessionInv, LockAgrees, InConfigNode
<1>5. CASE Frees(s, m)
    <2>1. \A t \in Sessions : ~config'[t]
        BY <1>1, <1>5 DEF Frees, SessionInv, LockAgrees
    <2>2. \A t \in Sessions \ {s} : ~config[t]
        BY <1>5 DEF Frees, SessionInv, LockAgrees
    <2> QED
        BY <1>1, <1>2, <1>5, <2>1, <2>2 DEF Frees, SessionInv, LockAgrees, InConfigNode
<1> QED
    BY <1>3, <1>4, <1>5 DEF Moves

\* What a step leaves of the sessions' other fields and of the settings has its type.
RestOK ==
    /\ status \in [Sessions -> {"NORMAL", "CLOSE"}]
    /\ fail \in [Sessions -> 0..MaxFail]
    /\ no_password_check \in BOOLEAN
    /\ advanced \in BOOLEAN
    /\ password \in Secrets
    /\ enable \in Secrets
    /\ reading \in Sessions \cup {Nobody}
    /\ gone \in [Sessions -> BOOLEAN]

LEMMA CommandType ==
    ASSUME RestOK, NEW s \in Sessions, NEW n \in Nodes, NEW m \in Nodes,
           CmdExecuteReal(s, n, m) \/ OfConfig(s, n, m)
    PROVE  /\ status' \in [Sessions -> {"NORMAL", "CLOSE"}]
           /\ no_password_check' \in BOOLEAN /\ advanced' \in BOOLEAN
           /\ password' \in Secrets /\ enable' \in Secrets
<1> USE DEF RestOK, settings
<1>1. CASE SetHost(s, n, m)
    BY <1>1 DEF SetHost, Secrets
<1>2. CASE SetLogin(s, n, m)
    BY <1>2 DEF SetLogin
<1>3. CASE ConfigExit(s, n, m)
    BY <1>3 DEF ConfigExit
<1> QED
    BY <1>1, <1>2, <1>3 DEF CmdExecuteReal, OfConfig, ConfigEnd, Enable, Disable, ConfigTerminal,
        LineVty

LEMMA StepType ==
    ASSUME SessionInv, NEW s \in Sessions,
           VtyCreate(s) \/ Hangup(s) \/ VtyRead(s) \/ Input(s) \/ ReadEnds(s)
    PROVE  RestOK'
<1>0. RestOK
    BY DEF SessionInv, TypeOK, RestOK
<1> USE MaxFailAssumption DEF settings, session
<1>1. CASE VtyCreate(s)
    <2>1. status' \in [Sessions -> {"NORMAL", "CLOSE"}] /\ fail' \in [Sessions -> 0..MaxFail]
        BY <1>0, <1>1 DEF VtyCreate, RestOK
    <2>2. gone' \in [Sessions -> BOOLEAN]
        BY <1>0, <1>1 DEF VtyCreate, RestOK
    <2> QED
        BY <1>0, <1>1, <2>1, <2>2 DEF VtyCreate, RestOK
<1>2. CASE Hangup(s)
    BY <1>0, <1>2 DEF Hangup, RestOK
<1>3. CASE VtyRead(s)
    BY <1>0, <1>3 DEF VtyRead, RestOK
<1>4. CASE ReadEnds(s)
    BY <1>0, <1>4 DEF ReadEnds, RestOK
<1>5. CASE Input(s) /\ VtyAuth(s)
    <2>1. fail' \in [Sessions -> 0..MaxFail] /\ status' \in [Sessions -> {"NORMAL", "CLOSE"}]
        BY <1>0, <1>5 DEF VtyAuth, RightPassword, WrongPassword, RestOK
    <2> QED
        BY <1>0, <1>5, <2>1 DEF Input, VtyAuth, RestOK
<1>6. CASE Input(s) /\ CmdExecute(s)
    <2>1. PICK n \in Nodes, m \in Nodes : CmdExecuteReal(s, n, m) \/ OfConfig(s, n, m)
        BY <1>6 DEF CmdExecute, Nodes, CommandNodes
    <2>2. /\ status' \in [Sessions -> {"NORMAL", "CLOSE"}]
          /\ no_password_check' \in BOOLEAN /\ advanced' \in BOOLEAN
          /\ password' \in Secrets /\ enable' \in Secrets
        BY <1>0, <2>1, CommandType
    <2> QED
        BY <1>0, <1>6, <2>2 DEF Input, CmdExecute, RestOK
<1> QED
    BY <1>1, <1>2, <1>3, <1>4, <1>5, <1>6 DEF Input

LEMMA SessionStep == SessionInv /\ [Next]_vars => SessionInv'
<1> SUFFICES ASSUME SessionInv, [Next]_vars PROVE SessionInv'
    OBVIOUS
<1>1. CASE UNCHANGED vars
    BY <1>1 DEF vars, session, settings, SessionInv, TypeOK, LockAgrees, InConfigNode
<1>2. CASE Next
    <2>1. PICK s \in Sessions : VtyCreate(s) \/ Hangup(s) \/ VtyRead(s) \/ Input(s) \/ ReadEnds(s)
        BY <1>2 DEF Next
    <2>2. PICK m \in Places : Moves(s, m)
        BY <2>1, StepMoves
    <2> QED
        BY <2>1, <2>2, MovesAgree, StepType DEF SessionInv, TypeOK, RestOK, Places
<1> QED
    BY <1>1, <1>2

\* The types of all variables (VtySession's TypeOK).
THEOREM SessionTypeCorrect == Spec => []TypeOK
<1>1. SessionInv => TypeOK
    BY DEF SessionInv
<1> QED
    BY SessionInit, SessionStep, <1>1, PTL DEF Spec

\* Lock, flags and nodes agree in any number of sessions: at most one configures (vty.c:254).
THEOREM LockAlwaysAgrees == Spec => []LockAgrees
<1>1. SessionInv => LockAgrees
    BY DEF SessionInv
<1> QED
    BY SessionInit, SessionStep, <1>1, PTL DEF Spec

-----------------------------------------------------------------------------
(* Failures.                                                               *)

\* FailuresOf, and what holds while the session is read from.
FailInvOf(s) ==
    /\ fail[s] > 0 => node[s] \in AuthNodes \cup {"CLOSED"}
    /\ (node[s] # "CLOSED" /\ status[s] = "NORMAL") => fail[s] < 3
    /\ (node[s] # "CLOSED" /\ reading # s) => status[s] = "NORMAL"

FailInv == \A s \in Sessions : FailInvOf(s)

\* A command is given in a command node, where there are no failures.
LEMMA CommandFails ==
    ASSUME TypeOK, NEW s \in Sessions, FailInvOf(s), CmdExecute(s), reading = s, reading' = s
    PROVE  FailInvOf(s)'
<1>1. fail[s] \in Nat /\ node[s] \in CommandNodes /\ fail'[s] = fail[s]
    BY MaxFailAssumption DEF TypeOK, CmdExecute
<1>2. fail[s] = 0
    BY <1>1 DEF FailInvOf, AuthNodes, CommandNodes
<1> QED
    BY <1>1, <1>2 DEF FailInvOf

LEMMA AuthFails ==
    ASSUME TypeOK, NEW s \in Sessions, FailInvOf(s), VtyAuth(s), reading = s, reading' = s
    PROVE  FailInvOf(s)'
<1>1. fail \in [Sessions -> Nat] /\ node[s] \in AuthNodes
    BY MaxFailAssumption DEF TypeOK, VtyAuth
<1>2. node \in [Sessions -> Nodes \cup {"CLOSED"}] /\ status \in [Sessions -> {"NORMAL", "CLOSE"}]
    BY DEF TypeOK
<1>3. CASE RightPassword(s)
    BY <1>1, <1>2, <1>3 DEF RightPassword, FailInvOf
<1>4. CASE WrongPassword(s)
    BY <1>1, <1>2, <1>4 DEF WrongPassword, FailInvOf
<1> QED
    BY <1>3, <1>4 DEF VtyAuth

LEMMA CommandStatus ==
    ASSUME NEW s \in Sessions, NEW n, NEW m, CmdExecuteReal(s, n, m) \/ OfConfig(s, n, m)
    PROVE  status' = status \/ status' = [status EXCEPT ![s] = "CLOSE"]
<1>1. CASE ConfigExit(s, n, m)
    BY <1>1 DEF ConfigExit
<1>2. CASE ~ConfigExit(s, n, m)
    BY <1>2 DEF CmdExecuteReal, OfConfig, ConfigEnd, Enable, Disable, ConfigTerminal, LineVty, SetHost,
        SetLogin
<1> QED
    BY <1>1, <1>2

\* A step of one session leaves the others as they are.
LEMMA OthersKept ==
    ASSUME SessionInv, NEW s \in Sessions, NEW t \in Sessions \ {s},
           VtyCreate(s) \/ Hangup(s) \/ VtyRead(s) \/ Input(s) \/ ReadEnds(s)
    PROVE  /\ node'[t] = node[t] /\ status'[t] = status[t] /\ fail'[t] = fail[t]
           /\ reading' # t => reading # t
<1>0. /\ node \in [Sessions -> Places] /\ status \in [Sessions -> {"NORMAL", "CLOSE"}]
      /\ fail \in [Sessions -> 0..MaxFail] /\ t # s /\ t # Nobody
    BY NobodyAssumption DEF SessionInv, TypeOK, Places
<1>1. node'[t] = node[t]
    BY <1>0, StepMoves DEF Moves
<1>2. CASE Input(s) /\ VtyAuth(s)
    BY <1>0, <1>1, <1>2 DEF Input, VtyAuth, RightPassword, WrongPassword
<1>3. CASE Input(s) /\ CmdExecute(s)
    <2>1. PICK n \in Nodes, m \in Nodes : CmdExecuteReal(s, n, m) \/ OfConfig(s, n, m)
        BY <1>3 DEF CmdExecute, Nodes, CommandNodes
    <2>2. status'[t] = status[t]
        BY <1>0, <2>1, CommandStatus
    <2> QED
        BY <1>0, <1>1, <1>3, <2>2 DEF Input, CmdExecute
<1>4. CASE VtyCreate(s)
    <2>1. status'[t] = status[t] /\ fail'[t] = fail[t]
        BY <1>0, <1>4 DEF VtyCreate
    <2> QED
        BY <1>0, <1>1, <1>4, <2>1 DEF VtyCreate
<1>5. CASE Hangup(s) \/ VtyRead(s) \/ ReadEnds(s)
    BY <1>0, <1>1, <1>5 DEF Hangup, VtyRead, ReadEnds, session
<1> QED
    BY <1>2, <1>3, <1>4, <1>5 DEF Input

\* What a session does to itself.
LEMMA OwnFailures ==
    ASSUME SessionInv, NEW s \in Sessions, FailInvOf(s),
           VtyCreate(s) \/ Hangup(s) \/ VtyRead(s) \/ Input(s) \/ ReadEnds(s)
    PROVE  FailInvOf(s)'
<1>0. /\ TypeOK /\ s # Nobody
      /\ node \in [Sessions -> Places] /\ status \in [Sessions -> {"NORMAL", "CLOSE"}]
      /\ fail \in [Sessions -> 0..MaxFail]
    BY NobodyAssumption DEF SessionInv, TypeOK, Places
<1>1. CASE VtyCreate(s)
    <2>1. CASE UNCHANGED <<node, status, fail>>
        BY <1>1, <2>1 DEF VtyCreate, FailInvOf
    <2>2. CASE fail'[s] = 0 /\ status'[s] = "NORMAL"
        BY <2>2 DEF FailInvOf
    <2> QED
        BY <1>0, <1>1, <2>1, <2>2 DEF VtyCreate
<1>2. CASE Hangup(s)
    BY <1>2 DEF Hangup, session, FailInvOf
<1>3. CASE VtyRead(s)
    BY <1>0, <1>3 DEF VtyRead, FailInvOf
<1>4. CASE Input(s)
    BY <1>0, <1>4, AuthFails, CommandFails DEF Input
<1>5. CASE ReadEnds(s)
    <2>1. CASE status[s] = "CLOSE"
        BY <1>0, <1>5, <2>1 DEF ReadEnds, VtyClose, FailInvOf
    <2>2. CASE status[s] # "CLOSE"
        BY <1>0, <1>5, <2>2 DEF ReadEnds, FailInvOf
    <2> QED
        BY <2>1, <2>2
<1> QED
    BY <1>1, <1>2, <1>3, <1>4, <1>5

LEMMA FailStep == SessionInv /\ FailInv /\ [Next]_vars => FailInv'
<1> SUFFICES ASSUME SessionInv, FailInv, [Next]_vars, NEW t \in Sessions PROVE FailInvOf(t)'
    BY DEF FailInv
<1>1. CASE UNCHANGED vars
    BY <1>1 DEF vars, session, FailInv, FailInvOf
<1>2. CASE Next
    <2>1. PICK s \in Sessions : VtyCreate(s) \/ Hangup(s) \/ VtyRead(s) \/ Input(s) \/ ReadEnds(s)
        BY <1>2 DEF Next
    <2>2. CASE t = s
        BY <2>1, <2>2, OwnFailures DEF FailInv
    <2>3. CASE t # s
        BY <2>1, <2>3, OthersKept DEF FailInv, FailInvOf
    <2> QED
        BY <2>2, <2>3
<1> QED
    BY <1>1, <1>2

\* For any number of sessions and failures: failures are counted for one password at a time and
\* no session outlives the read in which it was told to close (VtySession's FailuresAgree).
THEOREM FailuresAlwaysAgree == Spec => []FailuresAgree
<1>1. Init => FailInv
    BY DEF Init, FailInv, FailInvOf
<1>2. SessionInv /\ FailInv => FailuresAgree
    BY DEF FailInv, FailInvOf, FailuresAgree, FailuresOf
<1> QED
    BY SessionInit, SessionStep, FailStep, <1>1, <1>2, PTL DEF Spec

-----------------------------------------------------------------------------
(* The sessions implement mutual exclusion.                                *)

LEMMA HolderIs ==
    ASSUME LockAgrees
    PROVE  /\ \A s \in Sessions : config[s] => Holder = s
           /\ (\A s \in Sessions : ~config[s]) => Holder = Nobody
           /\ Holder \in Sessions => config[Holder]
BY NobodyAssumption DEF LockAgrees, Holder

LEMMA HolderIsNext ==
    ASSUME LockAgrees'
    PROVE  /\ \A s \in Sessions : config'[s] => Holder' = s
           /\ (\A s \in Sessions : ~config'[s]) => Holder' = Nobody
BY NobodyAssumption DEF LockAgrees, Holder

\* Who holds the lock after a step: it was free and is taken, or given back by its holder.
LEMMA HolderMoves ==
    ASSUME SessionInv, NEW s \in Sessions, NEW m \in Places, Moves(s, m)
    PROVE  \/ Holder' = Holder
           \/ Holder = Nobody /\ Holder' = s /\ Takes(s, m)
           \/ Holder = s /\ Holder' = Nobody
<1>1. LockAgrees /\ LockAgrees' /\ config \in [Sessions -> BOOLEAN]
    BY MovesAgree DEF SessionInv, TypeOK
<1>2. CASE Leaves(s, m)
    BY <1>2 DEF Leaves, KeepsLock, Holder
<1>3. CASE Takes(s, m)
    <2>1. (\A t \in Sessions : ~config[t]) /\ config'[s]
        BY <1>1, <1>3 DEF Takes, LockAgrees
    <2> QED
        BY <1>1, <1>3, <2>1, HolderIs, HolderIsNext
<1>4. CASE Frees(s, m)
    <2>1. config[s] /\ \A t \in Sessions : ~config'[t]
        BY <1>1, <1>4 DEF Frees, LockAgrees
    <2> QED
        BY <1>1, <2>1, HolderIs, HolderIsNext
<1> QED
    BY <1>2, <1>3, <1>4 DEF Moves

\* A setting is changed only from a configuration node, and then nothing about the lock is.
LEMMA SettingsByHolder ==
    ASSUME SessionInv, NEW s \in Sessions, CmdExecute(s)
    PROVE  UNCHANGED settings \/ (config[s] /\ KeepsLock)
<1>1. config[s] <=> node[s] \in ConfigNodes
    BY DEF SessionInv, LockAgrees, InConfigNode
<1>2. PICK n \in Nodes, m \in Nodes :
        /\ CmdExecuteReal(s, n, m) \/ OfConfig(s, n, m)
        /\ n \in ConfigNodes => node[s] \in ConfigNodes
    BY DEF CmdExecute, Nodes, CommandNodes, ConfigNodes
<1>3. CASE SetHost(s, n, m) \/ SetLogin(s, n, m)
    BY <1>1, <1>2, <1>3 DEF SetHost, SetLogin, ConfigNodes
<1>4. CASE ~(SetHost(s, n, m) \/ SetLogin(s, n, m))
    BY <1>2, <1>4 DEF CmdExecuteReal, OfConfig, ConfigExit, ConfigEnd, Enable, Disable, ConfigTerminal,
        LineVty
<1> QED
    BY <1>3, <1>4

LEMMA MutexInit == Init => Mutex!Init
<1> SUFFICES ASSUME Init PROVE Mutex!Init
    OBVIOUS
<1>1. Holder = Nobody
    BY DEF Init, Holder
<1> QED
    BY <1>1 DEF Init, Mutex!Init, settings, Secrets

LEMMA MutexStep ==
    ASSUME SessionInv, SessionInv', [Next]_vars
    PROVE  [Mutex!Next]_(Mutex!mutexVars)
<1> USE DEF Mutex!mutexVars
<1>1. CASE UNCHANGED vars
    BY <1>1 DEF vars, session, settings, Holder
<1>2. CASE Next
    <2>1. PICK s \in Sessions : VtyCreate(s) \/ Hangup(s) \/ VtyRead(s) \/ Input(s) \/ ReadEnds(s)
        BY <1>2 DEF Next
    <2>2. PICK m \in Places : Moves(s, m)
        BY <2>1, StepMoves
    <2>3. \/ Holder' = Holder
          \/ Holder = Nobody /\ Holder' = s
          \/ Holder = s /\ Holder' = Nobody
        BY <2>2, HolderMoves
    <2>4. s # Nobody
        BY NobodyAssumption
    <2>5. CASE VtyCreate(s)
        <3>1. Holder' = Holder
            BY <2>5 DEF VtyCreate, KeepsLock, Holder
        <3> QED
            BY <2>5, <3>1 DEF VtyCreate, settings
    <2>6. CASE Hangup(s)
        BY <2>6 DEF Hangup, session, settings, Holder
    <2>7. CASE VtyRead(s)
        <3>1. Holder' = Holder
            BY <2>7 DEF VtyRead, Holder
        <3> QED
            BY <2>7, <3>1 DEF VtyRead, settings, Mutex!Next, Mutex!Begin
    <2>8. CASE ReadEnds(s)
        <3>1. reading' = Nobody /\ UNCHANGED settings
            BY <2>8 DEF ReadEnds
        <3>2. reading = s /\ (Holder' = Holder \/ (Holder = s /\ Holder' = Nobody))
            <4>1. CASE Holder' = Holder
                BY <2>8, <4>1 DEF ReadEnds
            <4>2. CASE ~config[s]
                BY <2>8, <4>2 DEF ReadEnds, VtyClose, ConfigUnlock, KeepsLock, Holder
            <4>3. CASE config[s]
                BY <2>3, <2>4, <2>8, <4>3, HolderIs DEF ReadEnds, SessionInv
            <4> QED
                BY <4>2, <4>3
        <3> QED
            BY <3>1, <3>2 DEF settings, Mutex!Next, Mutex!End
    <2>9. CASE Input(s)
        <3>1. reading = s /\ reading' = s
            BY <2>9 DEF Input
        <3>2. settings' \in BOOLEAN \X BOOLEAN \X Secrets \X Secrets
            BY DEF SessionInv, TypeOK, settings
        <3>3. UNCHANGED settings \/ (Holder = s /\ Holder' = Holder)
            <4>1. CASE VtyAuth(s)
                BY <4>1 DEF VtyAuth
            <4>2. CASE CmdExecute(s)
                <5>1. UNCHANGED settings \/ (config[s] /\ KeepsLock)
                    BY <4>2, SettingsByHolder
                <5>2. config[s] => Holder = s
                    BY HolderIs DEF SessionInv
                <5>3. KeepsLock => Holder' = Holder
                    BY DEF KeepsLock, Holder
                <5> QED
                    BY <5>1, <5>2, <5>3
            <4> QED
                BY <2>9, <4>1, <4>2 DEF Input
        <3>4. CASE Holder = Nobody /\ Holder' = s
            BY <2>4, <3>1, <3>3, <3>4 DEF Mutex!Next, Mutex!Take, settings
        <3>5. CASE Holder = s /\ Holder' = Nobody
            BY <2>4, <3>1, <3>3, <3>5 DEF Mutex!Next, Mutex!Release, settings
        <3>6. CASE Holder' = Holder
            <4>1. CASE UNCHANGED settings
                BY <3>1, <3>6, <4>1 DEF settings
            <4>2. CASE Holder = s
                BY <2>4, <3>1, <3>2, <3>6, <4>2 DEF Mutex!Next, Mutex!Change, settings
            <4> QED
                BY <3>3, <4>1, <4>2
        <3> QED
            BY <2>3, <3>4, <3>5, <3>6
    <2> QED
        BY <2>1, <2>5, <2>6, <2>7, <2>8, <2>9
<1> QED
    BY <1>1, <1>2

\* For any number of sessions: the configuration passes from holder to holder by way of nobody,
\* in turns of their own, and settings are changed by the holder only (VtySession's
\* ImplementsMutex).
THEOREM SessionsExclude == Spec => ImplementsMutex
<1>1. SessionInv /\ SessionInv' /\ [Next]_vars => [Mutex!Next]_(Mutex!mutexVars)
    BY MutexStep
<1> QED
    BY SessionInit, SessionStep, MutexInit, <1>1, PTL DEF Spec, ImplementsMutex, Mutex!Spec
-----------------------------------------------------------------------------
(* Least and greatest numbers.                                             *)

LEMMA LeastOf ==
    ASSUME NEW S \in SUBSET Nat, S # {}
    PROVE  Min(S) \in S /\ \A y \in S : Min(S) <= y
<1>1. PICK x \in S : \A y \in S : ~ (<<y, x>> \in OpToRel(<, Nat))
    BY NatLessThanWellFounded, WFMin
<1>2. \A y \in S : x <= y
    <2>1. ASSUME NEW y \in S PROVE x <= y
        <3>1. ~ (y < x)
            BY <1>1 DEF OpToRel
        <3> QED
            BY <3>1
    <2> QED
        BY <2>1
<1> QED
    BY <1>1, <1>2 DEF Min

LEMMA GreatestOf ==
    ASSUME NEW n \in Nat, NEW S \in SUBSET (0..n), S # {}
    PROVE  Max(S) \in S /\ \A y \in S : Max(S) >= y
<1> DEFINE T == {n - y : y \in S}
<1>1. T \in SUBSET Nat /\ T # {}
    <2>1. \A y \in S : n - y \in Nat
        OBVIOUS
    <2>2. PICK y \in S : TRUE
        OBVIOUS
    <2>3. n - y \in T
        OBVIOUS
    <2> QED
        BY <2>1, <2>3
<1>2. Min(T) \in T /\ \A z \in T : Min(T) <= z
    BY <1>1, LeastOf
<1>3. PICK x \in S : Min(T) = n - x
    BY <1>2
<1>4. \A y \in S : x >= y
    <2>1. ASSUME NEW y \in S PROVE x >= y
        <3>1. n - y \in T /\ Min(T) <= n - y
            BY <1>2
        <3> QED
            BY <1>3, <3>1
    <2> QED
        BY <2>1
<1> QED
    BY <1>3, <1>4 DEF Max

-----------------------------------------------------------------------------
(* The invariant.                                                          *)

Lines == {l \in Seq(Chars) : Len(l) < BufSize}

LineOK(b, c, n) ==
    /\ b \in [Index -> Chars \cup {NUL}]
    /\ n \in 0..(BufSize - 1)
    /\ c \in 0..n
    /\ \A i \in Index : b[i] = NUL <=> i >= n

HistoryOK ==
    /\ hist \in [0..(MaxHist - 1) -> Lines \cup {NoLine}]
    /\ hp \in 0..(MaxHist - 1)
    /\ hindex \in 0..(MaxHist - 1)

EditorInv == LineOK(buf, cp, length) /\ HistoryOK

LEMMA EditorInit == EditInit => EditorInv
BY SizesAssumption DEF EditInit, EditorInv, LineOK, HistoryOK, Cleared, Index

LEMMA WordsAreInLine ==
    ASSUME LineOK(buf, cp, length)
    PROVE  /\ WordBefore \in 0..cp
           /\ WordAfter \in 0..length
<1> USE DEF LineOK
<1>1. \A k \in 0..length, p \in BOOLEAN : Back(k, p) \in 0..k
    <2> SUFFICES ASSUME NEW k \in 0..length, NEW p \in BOOLEAN PROVE Back(k, p) \in 0..k
        OBVIOUS
    <2> DEFINE S == {j \in 0..k : \A i \in j..(k - 1) : (buf[i] = Space) = p}
    <2>1. k \in S /\ S \in SUBSET Nat
        OBVIOUS
    <2>2. Min(S) \in S
        BY <2>1, LeastOf
    <2> QED
        BY <2>2 DEF Back
<1>2. \A k \in 0..length, p \in BOOLEAN : Ahead(k, p) \in 0..length
    <2> SUFFICES ASSUME NEW k \in 0..length, NEW p \in BOOLEAN PROVE Ahead(k, p) \in 0..length
        OBVIOUS
    <2> DEFINE S == {j \in k..length : \A i \in k..(j - 1) : (buf[i] = Space) = p}
    <2>1. k \in S /\ S \in SUBSET (0..length) /\ length \in Nat
        BY SizesAssumption
    <2>2. Max(S) \in S
        BY <2>1, GreatestOf
    <2> QED
        BY <2>1, <2>2 DEF Ahead
<1>3. cp \in 0..length /\ length \in Nat
    BY SizesAssumption
<1>4. \A k \in 0..length : Back(k, TRUE) \in 0..k /\ Back(k, FALSE) \in 0..k
    BY <1>1, Zenon
<1>5. \A k \in 0..length : Ahead(k, TRUE) \in 0..length /\ Ahead(k, FALSE) \in 0..length
    BY <1>2, Zenon
<1>6. WordAfter \in 0..length
    BY <1>3, <1>5, Zenon DEF WordAfter
<1>7. WordBefore \in 0..cp
    <2>0. \A c \in 0..cp : c \in 0..length
        BY <1>3
    <2>1. PICK b \in 0..cp : b = Back(cp, TRUE)
        BY <1>3, <1>4, Zenon
    <2>2. b \in 0..length
        BY <2>0
    <2>3. PICK w \in 0..b : w = Back(b, FALSE)
        BY <1>4, <2>2, Zenon
    <2>4. WordBefore = w
        BY <2>1, <2>3, Zenon DEF WordBefore
    <2>5. w \in 0..cp
        BY <1>3
    <2> QED
        BY <2>4, <2>5
<1> QED
    BY <1>6, <1>7

LEMMA CStringIsLine ==
    ASSUME LineOK(buf, cp, length)
    PROVE  CString \in Lines /\ CString = [i \in 1..length |-> buf[i - 1]]
<1> USE DEF LineOK
<1> DEFINE S == {i \in Index : buf[i] = NUL}
<1>1. S \in SUBSET Nat /\ length \in S
    BY SizesAssumption DEF Index
<1>2. Min(S) \in S /\ Min(S) <= length
    BY <1>1, LeastOf
<1>3. Min(S) = length
    BY <1>1, <1>2 DEF Index
<1>4. CString = [i \in 1..length |-> buf[i - 1]]
    BY <1>3 DEF CString
<1>5. \A i \in 1..length : buf[i - 1] \in Chars
    BY SizesAssumption DEF Index
<1>6. length \in Nat /\ length < BufSize
    BY SizesAssumption
<1> QED
    BY <1>4, <1>5, <1>6 DEF Lines

-----------------------------------------------------------------------------
(* What each kind of key does to the line.                                 *)

LEMMA MovedOK ==
    ASSUME EditorInv, UNCHANGED <<buf, length, history>>, cp' \in 0..length
    PROVE  EditorInv'
BY DEF EditorInv, LineOK, HistoryOK, history

LEMMA InsertedOK ==
    ASSUME EditorInv, NEW c \in Chars, SelfInsert(c)
    PROVE  EditorInv'
<1> USE DEF EditorInv, LineOK, Index
<1>1. buf' \in [Index -> Chars \cup {NUL}]
    BY SizesAssumption DEF SelfInsert
<1>2. length' \in 0..(BufSize - 1) /\ cp' \in 0..length'
    BY SizesAssumption DEF SelfInsert
<1>3. \A i \in Index : buf'[i] = NUL <=> i >= length'
    BY SizesAssumption, CharsAssumption DEF SelfInsert, Chars
<1> QED
    BY <1>1, <1>2, <1>3 DEF SelfInsert, HistoryOK, history

LEMMA TransposedOK ==
    ASSUME EditorInv, TransposeChars
    PROVE  EditorInv'
<1> USE DEF EditorInv, LineOK, Index, Swapped
<1>1. PICK k \in 0..(length - 2) : buf' = Swapped(k)
    BY SizesAssumption DEF TransposeChars
<1>2. buf' \in [Index -> Chars \cup {NUL}] /\ \A i \in Index : buf'[i] = NUL <=> i >= length
    BY <1>1, SizesAssumption
<1>3. length' = length /\ cp' \in 0..length
    BY SizesAssumption DEF TransposeChars
<1> QED
    BY <1>2, <1>3 DEF TransposeChars, HistoryOK, history

LEMMA CompletedOK ==
    ASSUME EditorInv, NEW c \in Chars, CompleteCommand(c)
    PROVE  EditorInv'
<1> USE DEF EditorInv, LineOK, Index
<1>1. buf' \in [Index -> Chars \cup {NUL}] /\ \A i \in Index : buf'[i] = NUL <=> i >= length'
    BY SizesAssumption, CharsAssumption DEF CompleteCommand, Chars
<1> QED
    BY <1>1, SizesAssumption DEF CompleteCommand, HistoryOK, history

\* n bytes are cut out at from.
LEMMA DeletedOK ==
    ASSUME LineOK(buf, cp, length), NEW from \in 0..length, NEW n \in 0..(length - from)
    PROVE  LineOK(Deleted(from, n), from, length - n)
<1> USE DEF LineOK, Index
<1> DEFINE b == Deleted(from, n)
<1>1. b \in [Index -> Chars \cup {NUL}]
    BY SizesAssumption DEF Deleted
<1>2. \A i \in Index : b[i] = NUL <=> i >= length - n
    BY SizesAssumption DEF Deleted
<1>3. length - n \in 0..(BufSize - 1) /\ from \in 0..(length - n)
    BY SizesAssumption
<1> QED
    BY <1>1, <1>2, <1>3

LEMMA DeleteNextOK ==
    ASSUME LineOK(buf, cp, length), DeleteNext
    PROVE  LineOK(buf, cp, length)'
<1>1. CASE auth \/ cp = length
    BY <1>1 DEF DeleteNext, line, LineOK
<1>2. CASE ~(auth \/ cp = length)
    <2>1. 1 \in 0..(length - cp) /\ cp \in 0..length
        BY <1>2, SizesAssumption DEF LineOK
    <2>2. LineOK(Deleted(cp, 1), cp, length - 1)
        BY <2>1, DeletedOK
    <2> QED
        BY <1>2, <2>2 DEF DeleteNext, LineOK
<1> QED
    BY <1>1, <1>2

LEMMA DeleteBackOK ==
    ASSUME EditorInv, NEW k \in 0..cp, DeleteBackTo(k), UNCHANGED history
    PROVE  EditorInv'
<1>1. cp \in 0..length /\ length \in Nat
    BY SizesAssumption DEF EditorInv, LineOK
<1>2. CASE auth
    BY <1>1, <1>2, MovedOK DEF DeleteBackTo
<1>3. CASE ~auth
    <2>1. k \in 0..length /\ cp - k \in 0..(length - k)
        BY <1>1
    <2>2. LineOK(Deleted(k, cp - k), k, length - (cp - k))
        BY <2>1, DeletedOK DEF EditorInv
    <2> QED
        BY <1>3, <2>2 DEF DeleteBackTo, EditorInv, LineOK, HistoryOK, history
<1> QED
    BY <1>2, <1>3

LEMMA KilledOK ==
    ASSUME EditorInv, KillLine \/ KillLineFromBeginning
    PROVE  EditorInv'
<1> USE DEF EditorInv, LineOK, Index
<1>1. buf' \in [Index -> Chars \cup {NUL}]
    BY SizesAssumption DEF KillLine, KillLineFromBeginning
<1>2. \A i \in Index : buf'[i] = NUL <=> i >= length'
    BY SizesAssumption DEF KillLine, KillLineFromBeginning
<1>3. length' \in 0..(BufSize - 1) /\ cp' \in 0..length'
    BY SizesAssumption DEF KillLine, KillLineFromBeginning
<1> QED
    BY <1>1, <1>2, <1>3 DEF KillLine, KillLineFromBeginning, HistoryOK, history

LEMMA ShownOK ==
    ASSUME EditorInv, NEW i \in 0..(MaxHist - 1), Show(i)
    PROVE  EditorInv'
<1> DEFINE l == hist[i]
<1> USE DEF EditorInv, LineOK, Index
<1>1. l \in Seq(Chars) /\ Len(l) < BufSize /\ Len(l) \in Nat
    BY DEF HistoryOK, Show, Lines
<1>2. buf' = [j \in Index |-> IF j < Len(l) THEN l[j + 1] ELSE IF j < length THEN NUL ELSE buf[j]]
    BY DEF Show, HistoryPrint
<1>3. \A j \in Index : j < Len(l) => l[j + 1] \in Chars
    BY <1>1, SizesAssumption
<1>4. NUL \notin Chars
    BY CharsAssumption DEF Chars
<1>5. buf' \in [Index -> Chars \cup {NUL}]
    BY <1>2, <1>3, SizesAssumption
<1>6. \A j \in Index : buf'[j] = NUL <=> j >= Len(l)
    BY <1>1, <1>2, <1>3, <1>4, SizesAssumption
<1>7. length' = Len(l) /\ cp' = Len(l)
    BY DEF Show, HistoryPrint
<1> QED
    BY <1>1, <1>5, <1>6, <1>7, SizesAssumption DEF Show, HistoryOK

LEMMA ClearedOK ==
    ASSUME buf' = Cleared, cp' = 0, length' = 0
    PROVE  LineOK(buf, cp, length)'
BY SizesAssumption DEF LineOK, Cleared, Index

LEMMA HistAddOK ==
    ASSUME EditorInv, HistAdd
    PROVE  HistoryOK'
<1>1. CString \in Lines
    BY CStringIsLine DEF EditorInv
<1>2. After(hindex) \in 0..(MaxHist - 1)
    BY SizesAssumption DEF EditorInv, HistoryOK, After
<1> QED
    BY <1>1, <1>2 DEF HistAdd, EditorInv, HistoryOK, history

-----------------------------------------------------------------------------
LEMMA EditorStep == EditorInv /\ [EditNext]_editVars => EditorInv'
<1> SUFFICES ASSUME EditorInv, [EditNext]_editVars PROVE EditorInv'
    OBVIOUS
<1>0. cp \in 0..length /\ length \in Nat /\ cp \in Nat
    BY SizesAssumption DEF EditorInv, LineOK
<1>1. CASE UNCHANGED editVars
    BY <1>1 DEF editVars, line, history, EditorInv, LineOK, HistoryOK
<1>2. CASE BackwardChar \/ ForwardChar \/ BeginningOfLine \/ EndOfLine
    <2>1. cp' \in 0..length
        BY <1>0, <1>2 DEF BackwardChar, ForwardChar, BeginningOfLine, EndOfLine
    <2> QED
        BY <1>2, <2>1, MovedOK DEF BackwardChar, ForwardChar, BeginningOfLine, EndOfLine, Keeps
<1>3. CASE BackwardWord \/ ForwardWord
    <2>1. cp' \in 0..length
        BY <1>0, <1>3, WordsAreInLine DEF BackwardWord, ForwardWord, EditorInv
    <2> QED
        BY <1>3, <2>1, MovedOK DEF BackwardWord, ForwardWord, Keeps
<1>4. CASE TransposeChars
    BY <1>4, TransposedOK
<1>5. CASE DeleteChar
    <2>1. CASE ~auth /\ length = 0
        BY <1>5, <2>1, MovedOK DEF DeleteChar
    <2>2. CASE ~(~auth /\ length = 0)
        BY <1>5, <2>2, DeleteNextOK DEF DeleteChar, EditorInv, HistoryOK, history
    <2> QED
        BY <2>1, <2>2
<1>6. CASE DeleteBackwardChar
    <2>1. cp - 1 \in 0..cp
        BY <1>0, <1>6 DEF DeleteBackwardChar
    <2> QED
        BY <1>6, <2>1, DeleteBackOK DEF DeleteBackwardChar
<1>7. CASE BackwardKillWord
    BY <1>7, WordsAreInLine, DeleteBackOK DEF BackwardKillWord, EditorInv
<1>8. CASE KillLine \/ KillLineFromBeginning
    BY <1>8, KilledOK
<1>9. CASE ForwardKillWord
    BY <1>9 DEF ForwardKillWord, line, history, EditorInv, LineOK, HistoryOK
<1>10. CASE PreviousLine
    <2>1. Before(hp) \in 0..(MaxHist - 1)
        BY SizesAssumption DEF Before, EditorInv, HistoryOK
    <2> QED
        BY <1>10, <2>1, ShownOK DEF PreviousLine
<1>11. CASE NextLine
    <2>1. After(hp) \in 0..(MaxHist - 1)
        BY SizesAssumption DEF After, EditorInv, HistoryOK
    <2> QED
        BY <1>11, <2>1, ShownOK DEF NextLine
<1>12. CASE Execute
    <2>1. HistoryOK'
        BY <1>12, HistAddOK DEF Execute, EditorInv, HistoryOK, history
    <2> QED
        BY <1>12, <2>1, ClearedOK DEF Execute, EditorInv
<1>13. CASE StopInput
    BY <1>13, ClearedOK DEF StopInput, EditorInv, HistoryOK
<1>14. CASE \E c \in Chars : SelfInsert(c) \/ CompleteCommand(c)
    BY <1>14, InsertedOK, CompletedOK
<1>15. CASE KillRound
    <2>1. LineOK(buf, cp, length)'
        BY <1>15, DeleteNextOK DEF KillRound, EditorInv, line, LineOK
    <2> QED
        BY <1>15, <2>1 DEF KillRound, EditorInv, HistoryOK, history
<1> QED
    BY <1>1, <1>2, <1>3, <1>4, <1>5, <1>6, <1>7, <1>8, <1>9, <1>10, <1>11, <1>12, <1>13, <1>14, <1>15
    DEF EditNext, Key

\* For any sizes of buffer and history: whatever keys are pressed, the buffer holds a C string of
\* the length that is kept beside it, and the cursor is in it (LineEditor's BufIsLine).
THEOREM BufIsAlwaysLine == EditSpec => []BufIsLine
<1>1. EditorInv => BufIsLine
    BY SizesAssumption DEF EditorInv, LineOK, BufIsLine
<1> QED
    BY EditorInit, EditorStep, <1>1, PTL DEF EditSpec

-----------------------------------------------------------------------------
(* The array as a text with a cursor.                                      *)

LeftOf(b, c) == [i \in 1..c |-> b[i - 1]]
RightOf(b, c, n) == [i \in 1..(n - c) |-> b[c + i - 1]]

\* The bytes before n are characters, the cursor is among them.
IsText(b, c, n) == n \in Nat /\ c \in 0..n /\ \A i \in 0..(n - 1) : b[i] \in Chars

LEMMA TextOfLine ==
    ASSUME NEW b, NEW c, NEW n, LineOK(b, c, n)
    PROVE  IsText(b, c, n)
BY SizesAssumption DEF LineOK, IsText, Index

LEMMA SidesOf ==
    ASSUME NEW b, NEW c, NEW n, IsText(b, c, n)
    PROVE  /\ LeftOf(b, c) \in Seq(Chars) /\ Len(LeftOf(b, c)) = c
           /\ \A i \in 1..c : LeftOf(b, c)[i] = b[i - 1]
           /\ RightOf(b, c, n) \in Seq(Chars) /\ Len(RightOf(b, c, n)) = n - c
           /\ \A i \in 1..(n - c) : RightOf(b, c, n)[i] = b[c + i - 1]
<1> USE DEF IsText
<1>1. \A i \in 1..c : b[i - 1] \in Chars
    OBVIOUS
<1>2. \A i \in 1..(n - c) : b[c + i - 1] \in Chars
    OBVIOUS
<1>3. c \in Nat /\ n - c \in Nat
    OBVIOUS
<1> HIDE DEF IsText
<1>4. LeftOf(b, c) \in Seq(Chars) /\ Len(LeftOf(b, c)) = c
    BY <1>1, <1>3 DEF LeftOf
<1>5. RightOf(b, c, n) \in Seq(Chars) /\ Len(RightOf(b, c, n)) = n - c
    BY <1>2, <1>3 DEF RightOf
<1> QED
    BY <1>3, <1>4, <1>5 DEF LeftOf, RightOf

\* The two sides of the cursor are the whole of the line.
LEMMA SidesMeet ==
    ASSUME NEW b, NEW c, NEW n, IsText(b, c, n)
    PROVE  /\ LeftOf(b, c) \o RightOf(b, c, n) = LeftOf(b, n)
           /\ LeftOf(b, n) \in Seq(Chars) /\ Len(LeftOf(b, n)) = n
           /\ \A i \in 1..n : LeftOf(b, n)[i] = b[i - 1]
<1> DEFINE l == LeftOf(b, c)
           r == RightOf(b, c, n)
           t == LeftOf(b, n)
<1>0. /\ l \in Seq(Chars) /\ Len(l) = c
      /\ r \in Seq(Chars) /\ Len(r) = n - c
    BY SidesOf
<1>1. (\A i \in 1..c : l[i] = b[i - 1]) /\ \A i \in 1..(n - c) : r[i] = b[c + i - 1]
    BY SidesOf
<1>2. IsText(b, n, n)
    BY DEF IsText
<1>3. t \in Seq(Chars) /\ Len(t) = n /\ \A i \in 1..n : t[i] = b[i - 1]
    BY <1>2, SidesOf
<1>4. n \in Nat /\ c \in 0..n
    BY DEF IsText
<1> HIDE DEF l, r, t
<1>5. l \o r \in Seq(Chars) /\ Len(l \o r) = n
    <2>1. l \in Seq(Chars) /\ r \in Seq(Chars) /\ Len(l) + Len(r) = n
        BY <1>0, <1>4
    <2> QED
        BY <2>1, ConcatProperties
<1>6. ASSUME NEW i \in 1..n PROVE (l \o r)[i] = t[i]
    <2>1. (l \o r)[i] = IF i <= c THEN l[i] ELSE r[i - c]
        <3>1. l \in Seq(Chars) /\ r \in Seq(Chars) /\ i \in 1..(Len(l) + Len(r)) /\ Len(l) = c
            BY <1>0, <1>4
        <3> QED
            BY <3>1, ConcatProperties
    <2>2. CASE i <= c
        <3>1. i \in 1..c
            BY <1>4, <2>2
        <3> QED
            BY <1>1, <1>3, <2>1, <2>2, <3>1, Zenon
    <2>3. CASE i > c
        <3>1. i - c \in 1..(n - c) /\ c + (i - c) - 1 = i - 1
            BY <1>4, <2>3
        <3>2. r[i - c] = b[i - 1]
            BY <1>1, <3>1
        <3> QED
            BY <1>3, <1>4, <2>1, <2>3, <3>2
    <2>4. i <= c \/ i > c
        BY <1>4
    <2> QED
        BY <2>2, <2>3, <2>4, Zenon
<1>7. l \o r = t
    BY <1>3, <1>5, <1>6, SeqEqual
<1> QED
    BY <1>3, <1>7 DEF l, r, t

-----------------------------------------------------------------------------
(* What each kind of key does to the text: b, c and n are the bytes, the   *)
(* cursor and the length after it.                                         *)

\* A sequence that agrees with the beginning of another is the beginning of it.
LEMMA IsBeginning ==
    ASSUME NEW A, NEW s \in Seq(A), NEW t \in Seq(A), Len(t) <= Len(s),
           \A i \in 1..Len(t) : t[i] = s[i]
    PROVE  t = SubSeq(s, 1, Len(t))
<1> DEFINE u == SubSeq(s, 1, Len(t))
<1>1. 1 \in Int /\ Len(t) \in Int /\ \A i \in 1..Len(t) : s[i] \in A
    OBVIOUS
<1>2. /\ u \in Seq(A) /\ Len(u) = IF 1 <= Len(t) THEN Len(t) - 1 + 1 ELSE 0
      /\ \A i \in 1..(Len(t) - 1 + 1) : u[i] = s[1 + i - 1]
    BY <1>1, SubSeqProperties
<1> HIDE DEF u
<1>3. Len(u) = Len(t) /\ \A i \in 1..Len(t) : t[i] = u[i]
    BY <1>2
<1>4. t = u
    BY <1>2, <1>3, SeqEqual
<1> QED
    BY <1>4 DEF u

\* The same for the end.
LEMMA IsEnd ==
    ASSUME NEW A, NEW s \in Seq(A), NEW t \in Seq(A), Len(t) <= Len(s),
           \A i \in 1..Len(t) : t[i] = s[Len(s) - Len(t) + i]
    PROVE  t = SubSeq(s, Len(s) - Len(t) + 1, Len(s))
<1> DEFINE m == Len(s) - Len(t) + 1
           u == SubSeq(s, m, Len(s))
<1>1. m \in Int /\ Len(s) \in Int /\ \A i \in m..Len(s) : s[i] \in A
    OBVIOUS
<1>2. /\ u \in Seq(A) /\ Len(u) = IF m <= Len(s) THEN Len(s) - m + 1 ELSE 0
      /\ \A i \in 1..(Len(s) - m + 1) : u[i] = s[m + i - 1]
    BY <1>1, SubSeqProperties
<1> HIDE DEF u
<1>3. Len(u) = Len(t) /\ \A i \in 1..Len(t) : t[i] = u[i]
    BY <1>2
<1>4. t = u
    BY <1>2, <1>3, SeqEqual
<1> QED
    BY <1>4 DEF u

\* The bytes of b before its cursor begin those of a, and the bytes behind it end those of a.
Shortened(a, k, m, b, c, n) ==
    /\ IsText(a, k, m) /\ IsText(b, c, n)
    /\ c <= k /\ n - c <= m - k
    /\ \A i \in 0..(c - 1) : b[i] = a[i]
    /\ \A i \in 0..(n - c - 1) : b[c + i] = a[m - (n - c) + i]

\* What is cut out is beside the cursor, on one side and the other.
LEMMA CutSides ==
    ASSUME NEW a, NEW k, NEW m, NEW b, NEW c, NEW n, Shortened(a, k, m, b, c, n)
    PROVE  /\ Len(LeftOf(b, c)) <= Len(LeftOf(a, k))
           /\ LeftOf(b, c) = SubSeq(LeftOf(a, k), 1, Len(LeftOf(b, c)))
           /\ Len(RightOf(b, c, n)) <= Len(RightOf(a, k, m))
           /\ RightOf(b, c, n) = SubSeq(RightOf(a, k, m),
                 Len(RightOf(a, k, m)) - Len(RightOf(b, c, n)) + 1, Len(RightOf(a, k, m)))
<1> DEFINE l == LeftOf(a, k)
           r == RightOf(a, k, m)
           ll == LeftOf(b, c)
           rr == RightOf(b, c, n)
<1>0. IsText(a, k, m) /\ IsText(b, c, n) /\ c <= k /\ n - c <= m - k
    BY DEF Shortened
<1>1. l \in Seq(Chars) /\ Len(l) = k /\ r \in Seq(Chars) /\ Len(r) = m - k
    BY <1>0, SidesOf
<1>2. (\A i \in 1..k : l[i] = a[i - 1]) /\ \A i \in 1..(m - k) : r[i] = a[k + i - 1]
    BY <1>0, SidesOf
<1>3. ll \in Seq(Chars) /\ Len(ll) = c /\ rr \in Seq(Chars) /\ Len(rr) = n - c
    BY <1>0, SidesOf
<1>4. (\A i \in 1..c : ll[i] = b[i - 1]) /\ \A i \in 1..(n - c) : rr[i] = b[c + i - 1]
    BY <1>0, SidesOf
<1>5. k \in Nat /\ m \in Nat /\ k <= m /\ c \in Nat /\ n \in Nat /\ c <= n
    BY <1>0 DEF IsText
<1> HIDE DEF l, r, ll, rr
<1>6. ASSUME NEW i \in 1..Len(ll) PROVE ll[i] = l[i]
    <2>1. i \in 1..k /\ i \in 1..c /\ i - 1 \in 0..(c - 1)
        BY <1>0, <1>3, <1>5
    <2>2. b[i - 1] = a[i - 1]
        BY <2>1 DEF Shortened
    <2> QED
        BY <1>2, <1>4, <2>1, <2>2
<1>7. ASSUME NEW i \in 1..Len(rr) PROVE rr[i] = r[Len(r) - Len(rr) + i]
    <2> DEFINE j == Len(r) - Len(rr) + i
    <2>1. i \in 1..(n - c) /\ i - 1 \in 0..(n - c - 1) /\ j \in 1..(m - k)
        BY <1>0, <1>1, <1>3, <1>5
    <2>2. c + i - 1 = c + (i - 1) /\ k + j - 1 = m - (n - c) + (i - 1)
        BY <1>1, <1>3, <1>5, <2>1
    <2>3. b[c + (i - 1)] = a[m - (n - c) + (i - 1)]
        BY <2>1 DEF Shortened
    <2>4. rr[i] = b[c + i - 1] /\ r[j] = a[k + j - 1]
        BY <1>2, <1>4, <2>1
    <2> QED
        BY <2>2, <2>3, <2>4, Zenon
<1>8. Len(ll) <= Len(l) /\ Len(rr) <= Len(r)
    BY <1>0, <1>1, <1>3
<1>9. ll = SubSeq(l, 1, Len(ll)) /\ rr = SubSeq(r, Len(r) - Len(rr) + 1, Len(r))
    BY <1>1, <1>3, <1>6, <1>7, <1>8, IsBeginning, IsEnd
<1> QED
    BY <1>8, <1>9 DEF l, r, ll, rr

LEMMA CutsText ==
    ASSUME Shortened(buf, cp, length, buf', cp', length')
    PROVE  Typed!Cut
<1>1. /\ Len(LeftOf(buf', cp')) <= Len(LeftOf(buf, cp))
      /\ LeftOf(buf', cp') = SubSeq(LeftOf(buf, cp), 1, Len(LeftOf(buf', cp')))
      /\ Len(RightOf(buf', cp', length')) <= Len(RightOf(buf, cp, length))
      /\ RightOf(buf', cp', length') = SubSeq(RightOf(buf, cp, length),
            Len(RightOf(buf, cp, length)) - Len(RightOf(buf', cp', length')) + 1,
            Len(RightOf(buf, cp, length)))
    BY CutSides
<1> QED
    BY <1>1 DEF Typed!Cut, LeftOf, RightOf

\* The cursor is somewhere else in the same text.
LEMMA MovesText ==
    ASSUME LineOK(buf, cp, length), UNCHANGED <<buf, length>>, cp' \in 0..length
    PROVE  Typed!Move
<1>1. IsText(buf, cp, length) /\ IsText(buf, cp', length)
    BY TextOfLine DEF IsText
<1>2. LeftOf(buf, cp) \o RightOf(buf, cp, length) = LeftOf(buf, length)
    BY <1>1, SidesMeet
<1>3. LeftOf(buf, cp') \o RightOf(buf, cp', length) = LeftOf(buf, length)
    BY <1>1, SidesMeet
<1>4. LeftOf(buf', cp') \o RightOf(buf', cp', length') = LeftOf(buf, cp) \o RightOf(buf, cp, length)
    BY <1>2, <1>3
<1> QED
    BY <1>4 DEF Typed!Move, Typed!Text, LeftOf, RightOf

\* b is a with x before the cursor.
Grown(a, k, m, b, c, n, x) ==
    /\ IsText(a, k, m) /\ IsText(b, c, n)
    /\ c = k + 1 /\ n = m + 1 /\ x \in Chars
    /\ \A i \in 0..m : b[i] = IF i = k THEN x ELSE IF i < k THEN a[i] ELSE a[i - 1]

LEMMA GrownSides ==
    ASSUME NEW a, NEW k, NEW m, NEW b, NEW c, NEW n, NEW x, Grown(a, k, m, b, c, n, x)
    PROVE  LeftOf(b, c) = Append(LeftOf(a, k), x) /\ RightOf(b, c, n) = RightOf(a, k, m)
<1> DEFINE l == LeftOf(a, k)
           r == RightOf(a, k, m)
           ll == LeftOf(b, c)
           rr == RightOf(b, c, n)
<1>a. IsText(a, k, m) /\ IsText(b, c, n) /\ x \in Chars
    BY DEF Grown
<1>0. k \in Nat /\ m \in Nat /\ k <= m /\ c = k + 1 /\ n - c = m - k
    BY DEF IsText, Grown
<1>1. l \in Seq(Chars) /\ Len(l) = k /\ r \in Seq(Chars) /\ Len(r) = m - k
    BY <1>a, SidesOf
<1>2. (\A i \in 1..k : l[i] = a[i - 1]) /\ \A i \in 1..(m - k) : r[i] = a[k + i - 1]
    BY <1>a, SidesOf
<1>3. ll \in Seq(Chars) /\ Len(ll) = c /\ rr \in Seq(Chars) /\ Len(rr) = n - c
    BY <1>a, SidesOf
<1>4. (\A i \in 1..c : ll[i] = b[i - 1]) /\ \A i \in 1..(n - c) : rr[i] = b[c + i - 1]
    BY <1>a, SidesOf
<1>b. \A i \in 0..m : b[i] = IF i = k THEN x ELSE IF i < k THEN a[i] ELSE a[i - 1]
    BY DEF Grown
<1> HIDE DEF l, r, ll, rr
<1>5. ll = Append(l, x)
    <2>1. /\ Append(l, x) \in Seq(Chars) /\ Len(Append(l, x)) = k + 1
          /\ \A i \in 1..(k + 1) : Append(l, x)[i] = IF i <= k THEN l[i] ELSE x
        BY <1>0, <1>1, <1>a, AppendProperties
    <2>2. ASSUME NEW i \in 1..(k + 1) PROVE ll[i] = Append(l, x)[i]
        <3>1. ll[i] = b[i - 1] /\ i - 1 \in 0..m
            <4>1. i - 1 \in 0..m /\ i \in 1..c
                BY <1>0
            <4> QED
                BY <1>4, <4>1
        <3>2. CASE i <= k
            <4>1. i \in 1..k /\ i - 1 < k /\ i - 1 # k
                BY <1>0, <3>2
            <4>2. l[i] = a[i - 1] /\ b[i - 1] = a[i - 1]
                BY <1>2, <1>b, <3>1, <4>1
            <4> QED
                BY <2>1, <3>1, <3>2, <4>2
        <3>3. CASE i = k + 1
            <4>1. i - 1 = k /\ ~(i <= k)
                BY <1>0, <3>3
            <4>2. b[i - 1] = x
                BY <1>b, <3>1, <4>1
            <4> QED
                BY <2>1, <3>1, <4>1, <4>2
        <3>4. i <= k \/ i = k + 1
            BY <1>0
        <3> QED
            BY <3>2, <3>3, <3>4, Zenon
    <2> QED
        BY <1>0, <1>3, <2>1, <2>2, SeqEqual
<1>6. rr = r
    <2>1. ASSUME NEW i \in 1..(m - k) PROVE rr[i] = r[i]
        <3>1. PICK j \in 0..m : j = c + i - 1 /\ j - 1 = k + i - 1 /\ j # k /\ ~(j < k)
            BY <1>0
        <3>2. b[j] = a[j - 1]
            BY <1>b, <3>1
        <3>3. rr[i] = b[c + i - 1] /\ r[i] = a[k + i - 1]
            BY <1>0, <1>2, <1>4
        <3> QED
            BY <3>1, <3>2, <3>3, Zenon
    <2> QED
        BY <1>0, <1>1, <1>3, <2>1, SeqEqual
<1> QED
    BY <1>5, <1>6 DEF l, r, ll, rr

LEMMA TypesText ==
    ASSUME EditorInv, EditorInv', NEW x \in Chars, SelfInsert(x)
    PROVE  Typed!Type
<1>1. IsText(buf, cp, length) /\ IsText(buf', cp', length')
    BY TextOfLine DEF LineOK, EditorInv
<1>2. cp' = cp + 1 /\ length' = length + 1
    BY DEF SelfInsert
<1>3. \A i \in 0..length : buf'[i] = IF i = cp THEN x ELSE IF i < cp THEN buf[i] ELSE buf[i - 1]
    BY <1>1, SizesAssumption DEF SelfInsert, Index, IsText
<1>4. Grown(buf, cp, length, buf', cp', length', x)
    BY <1>1, <1>2, <1>3 DEF Grown
<1>5. LeftOf(buf', cp') = Append(LeftOf(buf, cp), x) /\ RightOf(buf', cp', length') = RightOf(buf, cp, length)
    BY <1>4, GrownSides
<1> QED
    BY <1>5 DEF Typed!Type, LeftOf, RightOf

\* n bytes beside the cursor are cut out at from.
LEMMA DeletedShortens ==
    ASSUME LineOK(buf, cp, length), NEW from \in 0..cp, NEW n \in 0..(length - from), from + n >= cp
    PROVE  Shortened(buf, cp, length, Deleted(from, n), from, length - n)
<1> DEFINE b == Deleted(from, n)
<1>0. IsText(buf, cp, length)
    BY TextOfLine
<1>1. cp \in Nat /\ length \in Nat /\ cp <= length /\ length < BufSize /\ from \in 0..length
    BY SizesAssumption DEF LineOK
<1>2. IsText(b, from, length - n)
    <2>1. LineOK(b, from, length - n)
        BY <1>1, DeletedOK
    <2> QED
        BY <2>1, TextOfLine
<1>3. \A i \in Index : i < length - n => b[i] = IF i < from THEN buf[i] ELSE buf[i + n]
    BY <1>1 DEF Deleted, Index
<1> HIDE DEF b
<1>4. ASSUME NEW i \in 0..(from - 1) PROVE b[i] = buf[i]
    <2>1. i \in Index /\ i < length - n /\ i < from
        BY <1>1, SizesAssumption DEF Index
    <2> QED
        BY <1>3, <2>1
<1>5. ASSUME NEW i \in 0..(length - n - from - 1)
      PROVE  b[from + i] = buf[length - (length - n - from) + i]
    <2>1. PICK j \in Index : j = from + i
        BY <1>1, SizesAssumption DEF Index
    <2>2. j < length - n /\ ~(j < from) /\ j + n = length - (length - n - from) + i
        BY <1>1, <2>1
    <2>3. b[j] = buf[j + n]
        BY <1>3, <2>2
    <2> QED
        BY <2>1, <2>2, <2>3, Zenon
<1>6. from <= cp /\ length - n - from <= length - cp
    BY <1>1
<1>7. Shortened(buf, cp, length, b, from, length - n)
    BY <1>0, <1>2, <1>4, <1>5, <1>6, Zenon DEF Shortened
<1> QED
    BY <1>7 DEF b

\* Nothing is left of the line, or nothing behind the cursor.
LEMMA EndsText ==
    ASSUME LineOK(buf, cp, length), LineOK(buf, cp, length)', cp' <= cp, length' = cp',
           \A i \in 0..(cp' - 1) : buf'[i] = buf[i]
    PROVE  Typed!Cut
<1>1. IsText(buf, cp, length) /\ IsText(buf', cp', length')
    BY TextOfLine DEF LineOK
<1>2. \A k, c, m, n \in Nat : c = n /\ k <= m => n - c <= m - k /\ \A i \in 0..(n - c - 1) : FALSE
    OBVIOUS
<1>3. cp \in Nat /\ length \in Nat /\ cp' \in Nat /\ length' \in Nat /\ cp <= length
    BY <1>1 DEF IsText
<1>4. length' - cp' <= length - cp /\ \A i \in 0..(length' - cp' - 1) : FALSE
    BY <1>2, <1>3, Zenon
<1>5. Shortened(buf, cp, length, buf', cp', length')
    BY <1>1, <1>4, Zenon DEF Shortened
<1> QED
    BY <1>5, CutsText

LEMMA StaysText ==
    ASSUME LineOK(buf, cp, length), UNCHANGED line
    PROVE  Typed!Move
<1>1. cp' \in 0..length
    BY DEF line, LineOK
<1> QED
    BY <1>1, MovesText DEF line

LEMMA DeletesNextText ==
    ASSUME LineOK(buf, cp, length), DeleteNext
    PROVE  Typed!Move \/ Typed!Cut
<1>1. CASE auth \/ cp = length
    BY <1>1, StaysText DEF DeleteNext
<1>2. CASE ~(auth \/ cp = length)
    <2>1. cp \in 0..cp /\ 1 \in 0..(length - cp) /\ cp + 1 >= cp
        BY <1>2, SizesAssumption DEF LineOK
    <2>2. Shortened(buf, cp, length, Deleted(cp, 1), cp, length - 1)
        BY <2>1, DeletedShortens
    <2>3. Shortened(buf, cp, length, buf', cp', length')
        BY <1>2, <2>2 DEF DeleteNext
    <2> QED
        BY <2>3, CutsText
<1> QED
    BY <1>1, <1>2

LEMMA DeletesBackText ==
    ASSUME LineOK(buf, cp, length), NEW k \in 0..cp, DeleteBackTo(k)
    PROVE  Typed!Move \/ Typed!Cut
<1>1. cp \in 0..length /\ length \in Nat
    BY SizesAssumption DEF LineOK
<1>2. CASE auth
    <2>1. cp' \in 0..length
        BY <1>1, <1>2 DEF DeleteBackTo
    <2> QED
        BY <1>2, <2>1, MovesText DEF DeleteBackTo
<1>3. CASE ~auth
    <2>1. cp - k \in 0..(length - k) /\ k + (cp - k) >= cp
        BY <1>1
    <2>2. Shortened(buf, cp, length, Deleted(k, cp - k), k, length - (cp - k))
        BY <2>1, DeletedShortens
    <2>3. Shortened(buf, cp, length, buf', cp', length')
        BY <1>3, <2>2 DEF DeleteBackTo
    <2> QED
        BY <2>3, CutsText
<1> QED
    BY <1>2, <1>3

LEMMA KillsText ==
    ASSUME EditorInv, EditorInv', KillLine \/ KillLineFromBeginning
    PROVE  Typed!Cut
<1>1. cp \in Nat /\ length \in Nat /\ cp <= length /\ length < BufSize
    BY SizesAssumption DEF EditorInv, LineOK
<1>2. cp' <= cp /\ length' = cp' /\ (cp' = cp \/ cp' = 0)
    BY <1>1 DEF KillLine, KillLineFromBeginning
<1>3. ASSUME NEW i \in 0..(cp' - 1) PROVE buf'[i] = buf[i]
    <2>1. CASE KillLine
        <3>1. i \in 0..(cp - 1)
            BY <2>1 DEF KillLine
        <3>2. i \in Index /\ i \notin cp..(length - 1)
            BY <1>1, <3>1, SizesAssumption DEF Index
        <3> QED
            BY <2>1, <3>2 DEF KillLine
    <2>2. CASE KillLineFromBeginning
        BY <2>2 DEF KillLineFromBeginning
    <2> QED
        BY <2>1, <2>2
<1> QED
    BY <1>2, <1>3, EndsText DEF EditorInv

\* The text grows at its end, and the cursor is there.
LEMMA CompletesText ==
    ASSUME EditorInv, EditorInv', NEW x \in Chars, CompleteCommand(x)
    PROVE  Typed!Complete
<1> DEFINE t == LeftOf(buf, length)
           ll == LeftOf(buf', cp')
           rr == RightOf(buf', cp', length')
<1>1. IsText(buf, cp, length) /\ IsText(buf', cp', length')
    BY TextOfLine DEF LineOK, EditorInv
<1>2. length \in Nat /\ length < BufSize - 1 /\ cp' = length + 1 /\ length' = length + 1
    BY <1>1, SizesAssumption DEF IsText, CompleteCommand
<1>3. LeftOf(buf, cp) \o RightOf(buf, cp, length) = t
    BY <1>1, SidesMeet
<1>4. t \in Seq(Chars) /\ Len(t) = length /\ \A i \in 1..length : t[i] = buf[i - 1]
    BY <1>1, SidesMeet
<1>5. ll \in Seq(Chars) /\ Len(ll) = cp' /\ \A i \in 1..cp' : ll[i] = buf'[i - 1]
    BY <1>1, SidesOf
<1>6. rr = <<>>
    <2>1. rr \in Seq(Chars) /\ Len(rr) = length' - cp'
        BY <1>1, SidesOf
    <2>2. Len(rr) = 0
        BY <1>2, <2>1
    <2> QED
        BY <2>1, <2>2, EmptySeq
<1>7. \A i \in 0..(length - 1) : buf'[i] = buf[i]
    BY <1>2, SizesAssumption DEF CompleteCommand, Index
<1> HIDE DEF t, ll, rr
<1>8. Len(ll) = length + 1
    BY <1>2, <1>5
<1>9. ASSUME NEW i \in 1..Len(t) PROVE t[i] = ll[i]
    <2>1. i \in 1..length /\ i \in 1..(length + 1) /\ i - 1 \in 0..(length - 1)
        BY <1>2, <1>4
    <2>2. i \in 1..cp'
        BY <1>2, <2>1
    <2> QED
        BY <1>4, <1>5, <1>7, <2>1, <2>2
<1>10. t = SubSeq(ll, 1, Len(t)) /\ Len(ll) >= Len(t)
    <2>1. Len(t) <= Len(ll)
        BY <1>2, <1>4, <1>8
    <2> QED
        BY <1>4, <1>5, <1>9, <2>1, IsBeginning
<1>11. /\ rr = <<>>
       /\ Len(ll) >= Len(LeftOf(buf, cp) \o RightOf(buf, cp, length))
       /\ SubSeq(ll, 1, Len(LeftOf(buf, cp) \o RightOf(buf, cp, length)))
             = LeftOf(buf, cp) \o RightOf(buf, cp, length)
    BY <1>3, <1>6, <1>10
<1> QED
    BY <1>11 DEF Typed!Complete, Typed!Text, LeftOf, RightOf, ll, rr

\* b is a with its characters j and j + 1, counted from one, in each other's place.
Exchanged(a, m, b, j) ==
    /\ IsText(a, m, m) /\ IsText(b, j + 1, m)
    /\ j \in 1..(m - 1)
    /\ b[j - 1] = a[j] /\ b[j] = a[j - 1]
    /\ \A i \in 0..(m - 1) : i # j /\ i # j - 1 => b[i] = a[i]

LEMMA ExchangedSides ==
    ASSUME NEW a, NEW m, NEW b, NEW j, Exchanged(a, m, b, j)
    PROVE  /\ LeftOf(b, j + 1)
                 = SubSeq(LeftOf(a, m), 1, j - 1) \o <<LeftOf(a, m)[j + 1], LeftOf(a, m)[j]>>
           /\ RightOf(b, j + 1, m) = SubSeq(LeftOf(a, m), j + 2, m)
<1> DEFINE t == LeftOf(a, m)
           ll == LeftOf(b, j + 1)
           rr == RightOf(b, j + 1, m)
           u == SubSeq(t, 1, j - 1)
           v == SubSeq(t, j + 2, m)
<1>0. m \in Nat /\ j \in 1..(m - 1) /\ IsText(a, m, m) /\ IsText(b, j + 1, m)
    BY DEF Exchanged, IsText
<1>1. t \in Seq(Chars) /\ Len(t) = m /\ \A i \in 1..m : t[i] = a[i - 1]
    BY <1>0, SidesOf
<1>c. PICK c \in Nat : c = j + 1
    BY <1>0
<1>2. ll \in Seq(Chars) /\ Len(ll) = j + 1 /\ \A i \in 1..(j + 1) : ll[i] = b[i - 1]
    <2>1. IsText(b, c, m)
        BY <1>0, <1>c
    <2>2. LeftOf(b, c) \in Seq(Chars) /\ Len(LeftOf(b, c)) = c /\ \A i \in 1..c : LeftOf(b, c)[i] = b[i - 1]
        BY <2>1, SidesOf
    <2> QED
        BY <1>c, <2>2
<1>3. /\ rr \in Seq(Chars) /\ Len(rr) = m - (j + 1)
      /\ \A i \in 1..(m - (j + 1)) : rr[i] = b[j + 1 + i - 1]
    <2>1. IsText(b, c, m)
        BY <1>0, <1>c
    <2>2. RightOf(b, c, m) \in Seq(Chars) /\ Len(RightOf(b, c, m)) = m - c
        BY <2>1, SidesOf
    <2>3. \A i \in 1..(m - c) : RightOf(b, c, m)[i] = b[c + i - 1]
        BY <2>1, SidesOf
    <2> QED
        BY <1>c, <2>2, <2>3
<1>4. b[j - 1] = a[j] /\ b[j] = a[j - 1] /\ \A i \in 0..(m - 1) : i # j /\ i # j - 1 => b[i] = a[i]
    BY DEF Exchanged
<1> HIDE DEF t, ll, rr
<1>5. ll = u \o <<t[j + 1], t[j]>>
    <2> DEFINE p == <<t[j + 1], t[j]>>
    <2>1. t[j + 1] = a[j] /\ t[j] = a[j - 1] /\ t[j + 1] \in Chars /\ t[j] \in Chars
        <3>1. j \in 1..m /\ j + 1 \in 1..m /\ j + 1 - 1 = j
            BY <1>0
        <3> QED
            BY <1>1, <3>1
    <2>2. u \in Seq(Chars) /\ Len(u) = j - 1 /\ \A i \in 1..(j - 1) : u[i] = t[i]
        <3>1. 1 \in Int /\ j - 1 \in Int /\ \A i \in 1..(j - 1) : t[i] \in Chars
            BY <1>0, <1>1
        <3>2. /\ u \in Seq(Chars) /\ Len(u) = IF 1 <= j - 1 THEN j - 1 - 1 + 1 ELSE 0
              /\ \A i \in 1..(j - 1 - 1 + 1) : u[i] = t[1 + i - 1]
            BY <3>1, SubSeqProperties
        <3> HIDE DEF u
        <3> QED
            BY <1>0, <3>2
    <2>3. p \in Seq(Chars) /\ Len(p) = 2 /\ p[1] = a[j] /\ p[2] = a[j - 1]
        BY <2>1
    <2> HIDE DEF u, p
    <2>4. /\ u \o p \in Seq(Chars) /\ Len(u \o p) = j + 1
          /\ \A i \in 1..(j + 1) : (u \o p)[i] = IF i <= j - 1 THEN u[i] ELSE p[i - (j - 1)]
        <3>1. u \in Seq(Chars) /\ p \in Seq(Chars) /\ Len(u) + Len(p) = j + 1
            BY <1>0, <2>2, <2>3
        <3>2. /\ u \o p \in Seq(Chars) /\ Len(u \o p) = Len(u) + Len(p)
              /\ \A i \in 1..(Len(u) + Len(p)) : (u \o p)[i] = IF i <= Len(u) THEN u[i] ELSE p[i - Len(u)]
            BY <3>1, ConcatProperties
        <3> QED
            BY <2>2, <3>1, <3>2
    <2>5. ASSUME NEW i \in 1..(j + 1) PROVE ll[i] = (u \o p)[i]
        <3>1. ll[i] = b[i - 1]
            BY <1>2
        <3>2. CASE i <= j - 1
            <4>1. i \in 1..(j - 1) /\ i \in 1..m /\ i - 1 \in 0..(m - 1) /\ i - 1 # j /\ i - 1 # j - 1
                BY <1>0, <3>2
            <4>2. b[i - 1] = a[i - 1] /\ u[i] = t[i] /\ t[i] = a[i - 1]
                BY <1>1, <1>4, <2>2, <4>1
            <4> QED
                BY <2>4, <3>1, <3>2, <4>2
        <3>3. CASE i = j
            <4>1. ~(i <= j - 1) /\ i - (j - 1) = 1
                BY <1>0, <3>3
            <4>2. (u \o p)[i] = p[1]
                BY <2>4, <4>1
            <4> QED
                BY <1>4, <2>3, <3>1, <3>3, <4>2
        <3>4. CASE i = j + 1
            <4>1. ~(i <= j - 1) /\ i - (j - 1) = 2 /\ i - 1 = j
                BY <1>0, <3>4
            <4>2. (u \o p)[i] = p[2]
                BY <2>4, <4>1
            <4> QED
                BY <1>4, <2>3, <3>1, <4>1, <4>2
        <3>5. i <= j - 1 \/ i = j \/ i = j + 1
            BY <1>0
        <3> QED
            BY <3>2, <3>3, <3>4, <3>5, Zenon
    <2>6. ll = u \o p
        BY <1>2, <2>4, <2>5, SeqEqual
    <2> QED
        BY <2>6 DEF u, p
<1>6. rr = v
    <2>1. /\ v \in Seq(Chars) /\ Len(v) = m - (j + 1)
          /\ \A i \in 1..(m - (j + 1)) : v[i] = t[j + 2 + i - 1]
        <3>1. j + 2 \in Int /\ m \in Int /\ \A i \in (j + 2)..m : t[i] \in Chars
            BY <1>0, <1>1
        <3>2. /\ v \in Seq(Chars) /\ Len(v) = IF j + 2 <= m THEN m - (j + 2) + 1 ELSE 0
              /\ \A i \in 1..(m - (j + 2) + 1) : v[i] = t[j + 2 + i - 1]
            BY <3>1, SubSeqProperties
        <3> HIDE DEF v
        <3> QED
            BY <1>0, <3>2
    <2> HIDE DEF v
    <2>2. ASSUME NEW i \in 1..(m - (j + 1)) PROVE rr[i] = v[i]
        <3>1. PICK k \in 1..m : /\ k = j + 2 + i - 1 /\ k - 1 = j + 1 + i - 1
                                /\ k - 1 \in 0..(m - 1) /\ k - 1 # j /\ k - 1 # j - 1
            BY <1>0
        <3>2. b[k - 1] = a[k - 1] /\ t[k] = a[k - 1]
            BY <1>1, <1>4, <3>1
        <3>3. rr[i] = b[j + 1 + i - 1] /\ v[i] = t[j + 2 + i - 1]
            BY <1>3, <2>1
        <3> QED
            BY <3>1, <3>2, <3>3, Zenon
    <2> QED
        BY <1>3, <2>1, <2>2, SeqEqual
<1> QED
    BY <1>5, <1>6 DEF t, ll, rr

LEMMA TransposesText ==
    ASSUME EditorInv, EditorInv', TransposeChars
    PROVE  Typed!Swap
<1> DEFINE t == LeftOf(buf, length)
           l == LeftOf(buf, cp)
           r == RightOf(buf, cp, length)
<1>1. IsText(buf, cp, length) /\ IsText(buf', cp', length')
    BY TextOfLine DEF LineOK, EditorInv
<1>2. cp \in 0..length /\ length \in 0..(BufSize - 1) /\ length >= 2 /\ cp >= 1 /\ length' = length
    BY SizesAssumption DEF TransposeChars, EditorInv, LineOK
<1>3. PICK j \in 1..(length - 1) : /\ j \in {cp, cp - 1} /\ (j = cp \/ cp = length)
                                   /\ cp' = j + 1 /\ buf' = Swapped(j - 1)
    <2>1. CASE cp = length
        <3>1. cp - 1 \in 1..(length - 1) /\ cp - 1 + 1 = cp /\ cp - 1 - 1 = cp - 2
            BY <1>2, <2>1
        <3>2. cp' = cp /\ buf' = Swapped(cp - 2)
            BY <2>1 DEF TransposeChars
        <3> QED
            BY <2>1, <3>1, <3>2
    <2>2. CASE cp # length
        <3>1. cp \in 1..(length - 1)
            BY <1>2, <2>2
        <3>2. cp' = cp + 1 /\ buf' = Swapped(cp - 1)
            BY <2>2 DEF TransposeChars
        <3> QED
            BY <3>1, <3>2
    <2> QED
        BY <2>1, <2>2
<1>4. /\ buf'[j - 1] = buf[j] /\ buf'[j] = buf[j - 1]
      /\ \A i \in 0..(length - 1) : i # j /\ i # j - 1 => buf'[i] = buf[i]
    <2>1. buf \in [Index -> Chars \cup {NUL}]
        BY DEF EditorInv, LineOK
    <2>2. j \in Index /\ j - 1 \in Index /\ j - 1 + 1 = j /\ j # j - 1 /\ 0..(length - 1) \subseteq Index
        BY <1>2, SizesAssumption DEF Index
    <2>3. buf' = [buf EXCEPT ![j - 1] = buf[j], ![j] = buf[j - 1]]
        BY <1>3, <2>2 DEF Swapped
    <2> QED
        BY <2>1, <2>2, <2>3
<1>5. Exchanged(buf, length, buf', j)
    <2>1. IsText(buf, length, length) /\ IsText(buf', j + 1, length)
        BY <1>1, <1>2, <1>3 DEF IsText
    <2> QED
        BY <1>4, <2>1 DEF Exchanged
<1>6. /\ LeftOf(buf', j + 1) = SubSeq(t, 1, j - 1) \o <<t[j + 1], t[j]>>
      /\ RightOf(buf', j + 1, length) = SubSeq(t, j + 2, length)
    BY <1>5, ExchangedSides
<1>7. l \o r = t /\ Len(t) = length /\ Len(l) = cp /\ (cp = length => r = <<>>)
    <2>1. l \o r = t /\ Len(t) = length
        BY <1>1, SidesMeet
    <2>2. Len(l) = cp /\ r \in Seq(Chars) /\ Len(r) = length - cp
        BY <1>1, SidesOf
    <2>3. cp = length => Len(r) = 0
        BY <1>2, <2>2
    <2> QED
        BY <2>1, <2>2, <2>3, EmptySeq
<1>8. /\ j \in {Len(l), Len(l) - 1} /\ j \in 1..(Len(l \o r) - 1)
      /\ LeftOf(buf', cp') = SubSeq(l \o r, 1, j - 1) \o <<(l \o r)[j + 1], (l \o r)[j]>>
      /\ RightOf(buf', cp', length') = SubSeq(l \o r, j + 2, Len(l \o r))
      /\ j = Len(l) \/ r = <<>>
    BY <1>2, <1>3, <1>6, <1>7, Zenon
<1> QED
    BY <1>8, Zenon DEF Typed!Swap, Typed!Text, LeftOf, RightOf, l, r

-----------------------------------------------------------------------------
(* The ring as the last lines.                                             *)

Slots == 0..(MaxHist - 1)

\* The ring is filled from its first slot on, and when it has gone round no slot is free.
RingOf(h, x) ==
    /\ h \in [Slots -> Lines \cup {NoLine}]
    /\ x \in Slots
    /\ (\A i \in Slots : h[i] # NoLine) \/ (\A i \in Slots : h[i] # NoLine <=> i < x)

FilledOf(h, x) == IF \A i \in Slots : h[i] # NoLine THEN MaxHist ELSE x
SlotOf(h, x, k) ==
    LET j == x - FilledOf(h, x) + k - 1 IN IF j < 0 THEN j + MaxHist ELSE j

RememberedOf(h, x) ==
    LET n == Cardinality({i \in DOMAIN h : h[i] # NoLine})
    IN  [k \in 1..n |-> h[(x - n + k - 1) % MaxHist]]

LEMMA NoLineIsNoLine == NoLine \notin Lines
BY HistoryAssumption DEF Lines

LEMMA CountTo == ASSUME NEW n \in Nat PROVE Cardinality(0..(n - 1)) = n
<1> DEFINE m == n - 1
<1>1. 0 \in Int /\ m \in Int /\ (IF 0 > m THEN 0 ELSE m - 0 + 1) = n
    OBVIOUS
<1> HIDE DEF m
<1>2. Cardinality(0..m) = IF 0 > m THEN 0 ELSE m - 0 + 1
    BY <1>1, FS_Interval
<1> QED
    BY <1>1, <1>2 DEF m

LEMMA FilledIs ==
    ASSUME NEW h, NEW x, RingOf(h, x)
    PROVE  /\ FilledOf(h, x) \in 0..MaxHist
           /\ Cardinality({i \in DOMAIN h : h[i] # NoLine}) = FilledOf(h, x)
           /\ \A k \in 1..FilledOf(h, x) :
                 SlotOf(h, x, k) \in Slots /\ h[SlotOf(h, x, k)] # NoLine
           /\ \A i \in Slots : h[i] # NoLine => \E k \in 1..FilledOf(h, x) : i = SlotOf(h, x, k)
           /\ FilledOf(h, x) = 0 => \A i \in Slots : h[i] = NoLine
<1> DEFINE S == {i \in DOMAIN h : h[i] # NoLine}
           n == FilledOf(h, x)
<1>1. DOMAIN h = Slots /\ x \in 0..(MaxHist - 1) /\ MaxHist \in Nat /\ MaxHist > 1
    BY SizesAssumption DEF RingOf, Slots
<1>2. CASE \A i \in Slots : h[i] # NoLine
    <2>1. n = MaxHist
        BY <1>2 DEF FilledOf
    <2>2. S = 0..(MaxHist - 1)
        BY <1>1, <1>2 DEF Slots
    <2>3. Cardinality(S) = MaxHist
        BY <1>1, <2>2, CountTo
    <2>4. \A k \in 1..n : SlotOf(h, x, k) \in Slots
        BY <1>1, <2>1 DEF SlotOf, Slots
    <2>5. \A i \in Slots : \E k \in 1..n : i = SlotOf(h, x, k)
        <3> SUFFICES ASSUME NEW i \in Slots PROVE \E k \in 1..n : i = SlotOf(h, x, k)
            OBVIOUS
        <3> DEFINE k == IF i >= x THEN i - x + 1 ELSE i - x + MaxHist + 1
        <3>1. k \in 1..n /\ i = SlotOf(h, x, k)
            BY <1>1, <2>1 DEF SlotOf, Slots
        <3> QED
            BY <3>1
    <2> QED
        BY <1>1, <1>2, <2>1, <2>3, <2>4, <2>5
<1>3. CASE ~ \A i \in Slots : h[i] # NoLine
    <2>1. n = x /\ \A i \in Slots : h[i] # NoLine <=> i < x
        BY <1>3 DEF FilledOf, RingOf
    <2>2. S = 0..(x - 1)
        BY <1>1, <2>1 DEF Slots
    <2>3. Cardinality(S) = x
        <3>1. x \in Nat
            BY <1>1
        <3>2. Cardinality(0..(x - 1)) = x
            BY <3>1, CountTo
        <3> QED
            BY <2>2, <3>2
    <2>4. \A k \in 1..n : SlotOf(h, x, k) = k - 1
        BY <1>1, <2>1 DEF SlotOf
    <2>5. \A k \in 1..n : k - 1 \in Slots /\ k - 1 < x
        BY <1>1, <2>1 DEF Slots
    <2>6. \A i \in Slots : i < x => i + 1 \in 1..n /\ i = i + 1 - 1
        BY <1>1, <2>1 DEF Slots
    <2>7. \A i \in Slots : h[i] # NoLine => \E k \in 1..n : i = SlotOf(h, x, k)
        <3> SUFFICES ASSUME NEW i \in Slots, h[i] # NoLine
                     PROVE  \E k \in 1..n : i = SlotOf(h, x, k)
            OBVIOUS
        <3>1. i < x
            BY <2>1
        <3>2. i + 1 \in 1..n /\ i = i + 1 - 1
            BY <2>6, <3>1
        <3>3. PICK k \in 1..n : k = i + 1
            BY <3>2, Zenon
        <3>4. i = k - 1
            BY <1>1, <3>3 DEF Slots
        <3>5. SlotOf(h, x, k) = k - 1
            BY <2>4
        <3> QED
            BY <3>4, <3>5
    <2>8. n = 0 => \A i \in Slots : h[i] = NoLine
        BY <1>1, <2>1 DEF Slots
    <2> QED
        BY <1>1, <2>1, <2>3, <2>4, <2>5, <2>7, <2>8
<1> QED
    BY <1>2, <1>3

LEMMA RecentIs ==
    ASSUME NEW h, NEW x, RingOf(h, x)
    PROVE  /\ RememberedOf(h, x) = [k \in 1..FilledOf(h, x) |-> h[SlotOf(h, x, k)]]
           /\ RememberedOf(h, x) \in Seq(Lines)
           /\ Len(RememberedOf(h, x)) = FilledOf(h, x)
<1> DEFINE n == FilledOf(h, x)
<1>1. n \in 0..MaxHist /\ Cardinality({i \in DOMAIN h : h[i] # NoLine}) = n
    BY FilledIs
<1>2. \A k \in 1..n : SlotOf(h, x, k) \in Slots /\ h[SlotOf(h, x, k)] # NoLine
    BY FilledIs
<1>3. \A k \in 1..n : h[SlotOf(h, x, k)] \in Lines
    BY <1>2 DEF RingOf
<1>4. x \in 0..(MaxHist - 1) /\ MaxHist \in Nat /\ MaxHist > 1
    BY SizesAssumption DEF RingOf, Slots
<1>5. ASSUME NEW k \in 1..n PROVE (x - n + k - 1) % MaxHist = SlotOf(h, x, k)
    <2> DEFINE j == x - n + k - 1
    <2>1. j \in (-MaxHist)..(MaxHist - 1)
        BY <1>1, <1>4
    <2> HIDE DEF j
    <2>2. j \in 0..(MaxHist - 1) => j % MaxHist = j
        BY <1>4, SMTT(30)
    <2>3. j \in (-MaxHist)..(-1) => j % MaxHist = j + MaxHist
        BY <1>4, SMTT(30)
    <2>4. j % MaxHist = IF j < 0 THEN j + MaxHist ELSE j
        BY <1>4, <2>1, <2>2, <2>3
    <2> QED
        BY <2>4 DEF SlotOf, j
<1>6. RememberedOf(h, x) = [k \in 1..n |-> h[SlotOf(h, x, k)]]
    BY <1>1, <1>5, Zenon DEF RememberedOf
<1> QED
    BY <1>1, <1>3, <1>6

\* All but the first.
LEMMA DropFirst ==
    ASSUME NEW A, NEW u \in Seq(A), NEW n \in Nat, Len(u) = n + 1
    PROVE  /\ SubSeq(u, 2, n + 1) \in Seq(A) /\ Len(SubSeq(u, 2, n + 1)) = n
           /\ \A k \in 1..n : SubSeq(u, 2, n + 1)[k] = u[k + 1]
<1> DEFINE v == SubSeq(u, 2, n + 1)
<1>1. 2 \in Int /\ n + 1 \in Int /\ \A k \in 2..(n + 1) : u[k] \in A
    OBVIOUS
<1>2. /\ v \in Seq(A) /\ Len(v) = IF 2 <= n + 1 THEN n + 1 - 2 + 1 ELSE 0
      /\ \A k \in 1..(n + 1 - 2 + 1) : v[k] = u[2 + k - 1]
    BY <1>1, SubSeqProperties
<1> HIDE DEF v
<1>3. ASSUME NEW k \in 1..n PROVE v[k] = u[k + 1]
    <2>1. k \in 1..(n + 1 - 2 + 1) /\ 2 + k - 1 = k + 1
        OBVIOUS
    <2> QED
        BY <1>2, <2>1
<1>4. Len(v) = n
    BY <1>2
<1> QED
    BY <1>2, <1>3, <1>4 DEF v

Adds(h, x, t, g, y) == g = [h EXCEPT ![x] = t] /\ y = After(x)

\* A line goes into the ring as it goes to the end of the lines remembered; the first one falls
\* out when there are too many.
LEMMA RingAdds ==
    ASSUME NEW h, NEW x, RingOf(h, x), NEW t \in Lines,
           NEW g, NEW y, Adds(h, x, t, g, y)
    PROVE  RingOf(g, y) /\ RememberedOf(g, y) = Typed!Latest(Append(RememberedOf(h, x), t))
<1> DEFINE n == FilledOf(h, x)
           r == RememberedOf(h, x)
           m == FilledOf(g, y)
           q == RememberedOf(g, y)
           u == Append(r, t)
<1>1. /\ x \in 0..(MaxHist - 1) /\ MaxHist \in Nat /\ MaxHist > 1
      /\ y = IF x = MaxHist - 1 THEN 0 ELSE x + 1
    BY SizesAssumption DEF RingOf, Slots, Adds, After
<1>2. g \in [Slots -> Lines \cup {NoLine}] /\ \A i \in Slots : g[i] = IF i = x THEN t ELSE h[i]
    BY DEF RingOf, Adds
<1>3. t # NoLine
    BY NoLineIsNoLine
<1>4. r = [k \in 1..n |-> h[SlotOf(h, x, k)]] /\ r \in Seq(Lines) /\ Len(r) = n
    BY RecentIs
<1>5. n \in 0..MaxHist
    BY FilledIs
<1>6. /\ u \in Seq(Lines) /\ Len(u) = n + 1
      /\ \A k \in 1..(n + 1) : u[k] = IF k <= n THEN r[k] ELSE t
    <2> HIDE DEF r, n
    <2> QED
        BY <1>4, <1>5, AppendProperties
<1>7. \A k \in 1..n : r[k] = h[SlotOf(h, x, k)]
    BY <1>4
<1>8. y \in Slots
    BY <1>1 DEF Slots
<1>9. CASE \A i \in Slots : h[i] # NoLine
    <2>1. \A i \in Slots : g[i] # NoLine
        BY <1>2, <1>3, <1>9
    <2>2. RingOf(g, y) /\ n = MaxHist /\ m = MaxHist
        BY <1>2, <1>8, <1>9, <2>1 DEF RingOf, FilledOf
    <2>3. q = [k \in 1..m |-> g[SlotOf(g, y, k)]] /\ q \in Seq(Lines) /\ Len(q) = m
        BY <2>2, RecentIs
    <2>4. \A k \in 1..MaxHist : q[k] = g[SlotOf(g, y, k)]
        BY <2>2, <2>3
    <2>5. \A k \in 1..MaxHist :
              SlotOf(h, x, k) = IF x + k - 1 < MaxHist THEN x + k - 1 ELSE x + k - 1 - MaxHist
        BY <1>1, <2>2 DEF SlotOf
    <2>6. \A k \in 1..MaxHist :
              SlotOf(g, y, k) = IF y + k - 1 < MaxHist THEN y + k - 1 ELSE y + k - 1 - MaxHist
        BY <1>1, <2>2 DEF SlotOf
    <2> DEFINE v == SubSeq(u, 2, MaxHist + 1)
    <2>7. v \in Seq(Lines) /\ Len(v) = MaxHist /\ \A k \in 1..MaxHist : v[k] = u[k + 1]
        <3>1. u \in Seq(Lines) /\ Len(u) = MaxHist + 1 /\ MaxHist \in Nat
            BY <1>1, <1>6, <2>2
        <3> HIDE DEF u
        <3> QED
            BY <3>1, DropFirst
    <2> HIDE DEF r, n, m, q, u, v
    <2>8. ASSUME NEW k \in 1..MaxHist PROVE q[k] = v[k]
        <3>1. CASE k < MaxHist
            <4>1. PICK j \in 1..MaxHist : j = k + 1
                BY <1>1, <3>1
            <4>a. SlotOf(h, x, j) = IF x + j - 1 < MaxHist THEN x + j - 1 ELSE x + j - 1 - MaxHist
                BY <2>5
            <4>b. SlotOf(g, y, k) = IF y + k - 1 < MaxHist THEN y + k - 1 ELSE y + k - 1 - MaxHist
                BY <2>6
            <4>2. SlotOf(g, y, k) = SlotOf(h, x, j) /\ SlotOf(h, x, j) \in Slots /\ SlotOf(h, x, j) # x
                BY <1>1, <3>1, <4>1, <4>a, <4>b DEF Slots
            <4>3. q[k] = h[SlotOf(h, x, j)]
                BY <1>2, <2>4, <4>2
            <4>4. u[j] = r[j] /\ r[j] = h[SlotOf(h, x, j)]
                BY <1>1, <1>6, <1>7, <2>2
            <4> QED
                BY <2>7, <4>1, <4>3, <4>4
        <3>2. CASE k = MaxHist
            <4>0. SlotOf(g, y, k) = IF y + k - 1 < MaxHist THEN y + k - 1 ELSE y + k - 1 - MaxHist
                BY <2>6
            <4>1. SlotOf(g, y, k) = x /\ x \in Slots
                BY <1>1, <3>2, <4>0 DEF Slots
            <4>2. q[k] = t
                BY <1>2, <2>4, <4>1
            <4>3. k + 1 \in 1..(n + 1) /\ ~(k + 1 <= n)
                BY <1>1, <2>2, <3>2
            <4>4. u[k + 1] = t
                BY <1>6, <4>3
            <4> QED
                BY <2>7, <4>2, <4>4
        <3>3. k < MaxHist \/ k = MaxHist
            BY <1>1
        <3> QED
            BY <3>1, <3>2, <3>3
    <2>9. q = v
        BY <2>2, <2>3, <2>7, <2>8, SeqEqual
    <2>10. Typed!Latest(u) = v
        <3>1. Len(u) = MaxHist + 1 /\ ~(Len(u) <= MaxHist) /\ Len(u) - MaxHist + 1 = 2
            BY <1>1, <1>6, <2>2
        <3> QED
            BY <3>1 DEF Typed!Latest, v
    <2> QED
        BY <2>2, <2>9, <2>10 DEF q, u, r
<1>10. CASE ~ \A i \in Slots : h[i] # NoLine
    <2>1. n = x /\ \A i \in Slots : h[i] # NoLine <=> i < x
        BY <1>10 DEF FilledOf, RingOf
    <2>2. \A i \in Slots : g[i] # NoLine <=> i < x + 1
        BY <1>1, <1>2, <1>3, <2>1 DEF Slots
    <2>3. /\ x = MaxHist - 1 => \A i \in Slots : g[i] # NoLine
          /\ x # MaxHist - 1 => ~ \A i \in Slots : g[i] # NoLine
        <3>1. x = MaxHist - 1 => \A i \in Slots : i < x + 1
            BY <1>1 DEF Slots
        <3>2. x # MaxHist - 1 => x + 1 \in Slots /\ ~(x + 1 < x + 1)
            BY <1>1 DEF Slots
        <3> QED
            BY <2>2, <3>1, <3>2
    <2>4. RingOf(g, y) /\ m = x + 1
        <3>1. CASE x = MaxHist - 1
            BY <1>1, <1>2, <1>8, <2>3, <3>1 DEF RingOf, FilledOf
        <3>2. CASE x # MaxHist - 1
            BY <1>1, <1>2, <1>8, <2>2, <2>3, <3>2 DEF RingOf, FilledOf
        <3> QED
            BY <3>1, <3>2
    <2>5. q = [k \in 1..m |-> g[SlotOf(g, y, k)]] /\ q \in Seq(Lines) /\ Len(q) = m
        BY <2>4, RecentIs
    <2>6. \A k \in 1..(x + 1) : q[k] = g[SlotOf(g, y, k)]
        BY <2>4, <2>5
    <2>7. \A k \in 1..(x + 1) : SlotOf(g, y, k) = k - 1
        BY <1>1, <2>4 DEF SlotOf
    <2>8. \A k \in 1..x : SlotOf(h, x, k) = k - 1
        BY <1>1, <2>1 DEF SlotOf
    <2> HIDE DEF r, n, m, q, u
    <2>9. ASSUME NEW k \in 1..(x + 1) PROVE q[k] = u[k]
        <3>0. q[k] = g[k - 1]
            BY <2>6, <2>7
        <3>1. k - 1 \in Slots /\ (k <= x => k - 1 # x) /\ (k > x => k - 1 = x)
            BY <1>1 DEF Slots
        <3>2. CASE k <= x
            <4>1. k \in 1..x
                BY <1>1, <3>2
            <4>2. r[k] = h[k - 1]
                BY <1>7, <2>1, <2>8, <4>1
            <4>3. u[k] = r[k]
                BY <1>6, <2>1, <3>2
            <4> QED
                BY <1>2, <3>0, <3>1, <3>2, <4>2, <4>3
        <3>3. CASE ~(k <= x)
            <4>1. k - 1 = x
                BY <1>1, <3>1, <3>3
            <4>2. u[k] = t
                BY <1>6, <2>1, <3>3
            <4> QED
                BY <1>2, <3>0, <3>1, <4>1, <4>2
        <3> QED
            BY <3>2, <3>3
    <2>10. q = u
        <3>1. Len(q) = x + 1 /\ Len(u) = x + 1 /\ q \in Seq(Lines) /\ u \in Seq(Lines)
            BY <1>6, <2>1, <2>4, <2>5
        <3> QED
            BY <2>9, <3>1, SeqEqual
    <2>11. Typed!Latest(u) = u
        <3>1. Len(u) <= MaxHist
            BY <1>1, <1>6, <2>1
        <3> QED
            BY <3>1 DEF Typed!Latest
    <2> QED
        BY <2>4, <2>10, <2>11 DEF q, u, r
<1> QED
    BY <1>9, <1>10

LEMMA RememberedIs == Remembered = RememberedOf(hist, hindex)
BY DEF Remembered, RememberedOf

RingInv == RingOf(hist, hindex)

\* The slot before the one to be written has the last line, if there is one.
LEMMA LastIs ==
    ASSUME NEW h, NEW x, RingOf(h, x)
    PROVE  /\ RememberedOf(h, x) = <<>> => h[Before(x)] = NoLine
           /\ RememberedOf(h, x) # <<>> =>
                 RememberedOf(h, x)[Len(RememberedOf(h, x))] = h[Before(x)]
<1> DEFINE n == FilledOf(h, x)
           r == RememberedOf(h, x)
<1>1. x \in 0..(MaxHist - 1) /\ MaxHist \in Nat /\ MaxHist > 1
    BY SizesAssumption DEF RingOf, Slots
<1>2. r = [k \in 1..n |-> h[SlotOf(h, x, k)]] /\ r \in Seq(Lines) /\ Len(r) = n
    BY RecentIs
<1>3. n \in 0..MaxHist /\ (n = 0 => \A i \in Slots : h[i] = NoLine)
    BY FilledIs
<1>4. Before(x) \in Slots /\ Before(x) = IF x - 1 < 0 THEN x - 1 + MaxHist ELSE x - 1
    BY <1>1 DEF Before, Slots
<1>5. SlotOf(h, x, n) = Before(x)
    <2>1. x - n + n - 1 = x - 1
        BY <1>1, <1>3
    <2> QED
        BY <1>4, <2>1 DEF SlotOf
<1>6. \A k \in 1..n : r[k] = h[SlotOf(h, x, k)]
    BY <1>2
<1> HIDE DEF n, r
<1>7. CASE n = 0
    <2>1. r = <<>> /\ h[Before(x)] = NoLine
        BY <1>2, <1>3, <1>4, <1>7, EmptySeq
    <2> QED
        BY <2>1 DEF r
<1>8. CASE n # 0
    <2>1. n \in 1..n
        BY <1>1, <1>3, <1>8
    <2>2. r[Len(r)] = h[Before(x)] /\ r # <<>>
        BY <1>2, <1>5, <1>6, <1>8, <2>1
    <2> QED
        BY <2>2 DEF r
<1> QED
    BY <1>7, <1>8

\* The line that is given goes to the history.
LEMMA EntersText ==
    ASSUME EditorInv, EditorInv', RingInv, HistAdd, length # 0, cp' = 0, length' = 0
    PROVE  RingInv' /\ Typed!Enter
<1> DEFINE t == LeftOf(buf, length)
           r == RememberedOf(hist, hindex)
           q == RememberedOf(hist', hindex')
<1>1. IsText(buf, cp, length) /\ IsText(buf', cp', length')
    BY TextOfLine DEF LineOK, EditorInv
<1>2. CString = t /\ t \in Lines
    BY CStringIsLine DEF LeftOf, EditorInv
<1>3. LeftOf(buf, cp) \o RightOf(buf, cp, length) = t /\ Len(t) = length
    BY <1>1, SidesMeet
<1>4. LeftOf(buf', cp') = <<>> /\ RightOf(buf', cp', length') = <<>>
    <2>1. /\ LeftOf(buf', cp') \in Seq(Chars) /\ Len(LeftOf(buf', cp')) = cp'
          /\ RightOf(buf', cp', length') \in Seq(Chars)
          /\ Len(RightOf(buf', cp', length')) = length' - cp'
        BY <1>1, SidesOf
    <2> QED
        BY <2>1, EmptySeq
<1>5. t # <<>>
    BY <1>3
<1>6. /\ r = <<>> => hist[Before(hindex)] = NoLine
      /\ r # <<>> => r[Len(r)] = hist[Before(hindex)]
    BY LastIs DEF RingInv
<1>7. t # NoLine
    BY <1>2, NoLineIsNoLine
<1> HIDE DEF t, r, q
<1>8. /\ RingInv'
      /\ q = IF t = <<>> \/ (r # <<>> /\ r[Len(r)] = t) THEN r ELSE Typed!Latest(Append(r, t))
    <2>1. CASE hist[Before(hindex)] = CString
        <3>1. r # <<>> /\ r[Len(r)] = t
            BY <1>2, <1>6, <1>7, <2>1
        <3>2. UNCHANGED <<hist, hindex>>
            BY <2>1 DEF HistAdd
        <3> QED
            BY <3>1, <3>2 DEF RingInv, q, r
    <2>2. CASE hist[Before(hindex)] # CString
        <3>1. ~(r # <<>> /\ r[Len(r)] = t)
            BY <1>2, <1>6, <2>2
        <3>2. Adds(hist, hindex, t, hist', hindex')
            BY <1>2, <2>2 DEF HistAdd, Adds
        <3>3. RingOf(hist', hindex') /\ q = Typed!Latest(Append(r, t))
            BY <1>2, <3>2, RingAdds DEF RingInv, q, r
        <3> QED
            BY <1>5, <3>1, <3>3 DEF RingInv
    <2> QED
        BY <2>1, <2>2
<1>9. Remembered = r /\ Remembered' = q
    BY DEF Remembered, RememberedOf, r, q
<1>10. /\ RightOf(buf', cp', length') = <<>> /\ LeftOf(buf', cp') = <<>>
       /\ Remembered' = IF LeftOf(buf, cp) \o RightOf(buf, cp, length) = <<>>
                           \/ (Remembered # <<>>
                               /\ Remembered[Len(Remembered)] = LeftOf(buf, cp) \o RightOf(buf, cp, length))
                        THEN Remembered
                        ELSE Typed!Latest(Append(Remembered, LeftOf(buf, cp) \o RightOf(buf, cp, length)))
    BY <1>3, <1>4, <1>8, <1>9, Zenon
<1> QED
    BY <1>8, <1>10, Zenon DEF Typed!Enter, Typed!Text, LeftOf, RightOf

\* A remembered line is shown, the cursor behind it.
LEMMA ShowsText ==
    ASSUME EditorInv, EditorInv', RingInv, NEW i \in Slots, Show(i)
    PROVE  Typed!Recall
<1> DEFINE l == hist[i]
           r == RememberedOf(hist, hindex)
           n == FilledOf(hist, hindex)
<1>1. l \in Lines /\ l # NoLine
    BY DEF Show, RingInv, RingOf
<1>2. l \in Seq(Chars) /\ Len(l) \in Nat /\ Len(l) < BufSize
    BY <1>1 DEF Lines
<1>3. cp' = Len(l) /\ length' = Len(l)
    BY DEF Show, HistoryPrint
<1>4. \A j \in 0..(Len(l) - 1) : buf'[j] = l[j + 1]
    BY <1>2, SizesAssumption DEF Show, HistoryPrint, Index
<1>5. IsText(buf', cp', length')
    BY TextOfLine DEF LineOK, EditorInv
<1>6. LeftOf(buf', cp') = l /\ RightOf(buf', cp', length') = <<>>
    <2> DEFINE ll == LeftOf(buf', cp')
               rr == RightOf(buf', cp', length')
    <2>1. ll \in Seq(Chars) /\ Len(ll) = cp' /\ \A j \in 1..cp' : ll[j] = buf'[j - 1]
        BY <1>5, SidesOf
    <2>2. rr \in Seq(Chars) /\ Len(rr) = length' - cp'
        BY <1>5, SidesOf
    <2> HIDE DEF ll, rr, l
    <2>3. rr = <<>>
        BY <1>2, <1>3, <2>2, EmptySeq
    <2>4. ASSUME NEW j \in 1..Len(l) PROVE ll[j] = l[j]
        <3>1. j - 1 \in 0..(Len(l) - 1) /\ j - 1 + 1 = j
            BY <1>2
        <3>2. ll[j] = buf'[j - 1]
            BY <1>3, <2>1
        <3> QED
            BY <1>4, <3>1, <3>2
    <2>5. ll = l
        BY <1>2, <1>3, <2>1, <2>4, SeqEqual
    <2> QED
        BY <2>3, <2>5 DEF ll, rr
<1>7. PICK k \in 1..n : i = SlotOf(hist, hindex, k)
    BY <1>1, FilledIs DEF RingInv
<1>8. r = [j \in 1..n |-> hist[SlotOf(hist, hindex, j)]] /\ Len(r) = n
    BY RecentIs DEF RingInv
<1>9. k \in 1..Len(r) /\ r[k] = l
    BY <1>7, <1>8
<1>10. Remembered = r
    BY RememberedIs
<1>11. RightOf(buf', cp', length') = <<>> /\ \E j \in 1..Len(Remembered) : LeftOf(buf', cp') = Remembered[j]
    BY <1>6, <1>9, <1>10, Zenon
<1> QED
    BY <1>11, Zenon DEF Typed!Recall, LeftOf, RightOf

\* Everything but a line given and a line shown leaves the history as it is.
LEMMA RecentKept ==
    ASSUME RingInv, UNCHANGED <<hist, hindex>>
    PROVE  RingInv' /\ UNCHANGED Remembered
BY DEF RingInv, Remembered

-----------------------------------------------------------------------------
(* Every key is a step of the text with a cursor, or none.                 *)

LEMMA RingInit == EditInit => RingInv
<1> SUFFICES ASSUME EditInit PROVE RingInv
    OBVIOUS
<1>1. \A i \in Slots : hist[i] = NoLine /\ ~ (i < hindex)
    BY DEF EditInit, Slots
<1>2. hist \in [Slots -> Lines \cup {NoLine}] /\ hindex \in Slots
    BY SizesAssumption DEF EditInit, Slots
<1> QED
    BY <1>1, <1>2 DEF RingInv, RingOf

LEMMA TypedInit == EditInit => Typed!Init
<1> SUFFICES ASSUME EditInit PROVE Typed!Init
    OBVIOUS
<1>1. [i \in 1..cp |-> buf[i - 1]] = <<>> /\ [i \in 1..(length - cp) |-> buf[cp + i - 1]] = <<>>
    BY DEF EditInit
<1>2. {i \in DOMAIN hist : hist[i] # NoLine} = {}
    BY DEF EditInit
<1>3. Cardinality({i \in DOMAIN hist : hist[i] # NoLine}) = 0
    BY <1>2, FS_EmptySet
<1>4. Remembered = <<>>
    <2> DEFINE n == Cardinality({i \in DOMAIN hist : hist[i] # NoLine})
    <2>1. Remembered = [k \in 1..n |-> hist[(hindex - n + k - 1) % MaxHist]]
        BY DEF Remembered
    <2>2. n = 0
        BY <1>3
    <2> HIDE DEF n
    <2>3. 1..n = {}
        BY <2>2
    <2> QED
        BY <2>1, <2>3
<1> QED
    BY <1>1, <1>4 DEF Typed!Init

LEMMA TypedStep ==
    EditorInv /\ EditorInv' /\ RingInv /\ [EditNext]_editVars
        => RingInv' /\ [Typed!Next]_(Typed!lineVars)
<1> SUFFICES ASSUME EditorInv, EditorInv', RingInv, [EditNext]_editVars
             PROVE  RingInv' /\ [Typed!Next]_(Typed!lineVars)
    OBVIOUS
<1> DEFINE Does == RingInv' /\ Typed!Next
<1>0. LineOK(buf, cp, length) /\ cp \in 0..length /\ length \in Nat /\ cp \in Nat
    BY SizesAssumption DEF EditorInv, LineOK
<1>a. ASSUME UNCHANGED <<hist, hindex>>, Typed!Edit PROVE Does
    BY <1>a, RecentKept DEF Typed!Next
<1>1. CASE UNCHANGED editVars
    <2>1. UNCHANGED <<buf, cp, length, hist, hindex>>
        BY <1>1 DEF editVars, line, history
    <2>2. RingInv' /\ UNCHANGED Remembered
        BY <2>1, RecentKept
    <2>3. UNCHANGED Typed!lineVars
        BY <2>1, <2>2 DEF Typed!lineVars
    <2> QED
        BY <2>2, <2>3
<1>2. CASE BackwardChar \/ ForwardChar \/ BeginningOfLine \/ EndOfLine
    <2>1. cp' \in 0..length
        BY <1>0, <1>2 DEF BackwardChar, ForwardChar, BeginningOfLine, EndOfLine
    <2>2. UNCHANGED <<buf, length, hist, hindex>>
        BY <1>2 DEF BackwardChar, ForwardChar, BeginningOfLine, EndOfLine, Keeps, history
    <2> QED
        BY <1>0, <1>a, <2>1, <2>2, MovesText DEF Typed!Edit
<1>3. CASE BackwardWord \/ ForwardWord
    <2>1. cp' \in 0..length
        BY <1>0, <1>3, WordsAreInLine DEF BackwardWord, ForwardWord
    <2>2. UNCHANGED <<buf, length, hist, hindex>>
        BY <1>3 DEF BackwardWord, ForwardWord, Keeps, history
    <2> QED
        BY <1>0, <1>a, <2>1, <2>2, MovesText DEF Typed!Edit
<1>4. CASE TransposeChars
    BY <1>4, <1>a, TransposesText DEF Typed!Edit, TransposeChars, history
<1>5. CASE DeleteChar
    <2>1. UNCHANGED <<hist, hindex>>
        BY <1>5 DEF DeleteChar, history
    <2>2. Typed!Move \/ Typed!Cut
        <3>1. CASE ~auth /\ length = 0
            BY <1>0, <1>5, <3>1, MovesText DEF DeleteChar
        <3>2. CASE ~ (~auth /\ length = 0)
            BY <1>0, <1>5, <3>2, DeletesNextText DEF DeleteChar
        <3> QED
            BY <3>1, <3>2
    <2> QED
        BY <1>a, <2>1, <2>2 DEF Typed!Edit
<1>6. CASE DeleteBackwardChar
    <2>1. cp - 1 \in 0..cp
        BY <1>0, <1>6 DEF DeleteBackwardChar
    <2>2. Typed!Move \/ Typed!Cut
        BY <1>0, <1>6, <2>1, DeletesBackText DEF DeleteBackwardChar
    <2> QED
        BY <1>6, <1>a, <2>2 DEF Typed!Edit, DeleteBackwardChar, history
<1>7. CASE BackwardKillWord
    <2>1. Typed!Move \/ Typed!Cut
        BY <1>0, <1>7, WordsAreInLine, DeletesBackText DEF BackwardKillWord
    <2> QED
        BY <1>7, <1>a, <2>1 DEF Typed!Edit, BackwardKillWord, history
<1>8. CASE KillLine \/ KillLineFromBeginning
    BY <1>8, <1>a, KillsText DEF Typed!Edit, KillLine, KillLineFromBeginning, history
<1>9. CASE ForwardKillWord
    BY <1>0, <1>9, <1>a, StaysText DEF Typed!Edit, ForwardKillWord, history
<1>10. CASE PreviousLine
    <2>1. Before(hp) \in Slots
        BY SizesAssumption DEF Before, EditorInv, HistoryOK, Slots
    <2> QED
        BY <1>10, <1>a, <2>1, ShowsText DEF Typed!Edit, PreviousLine, Show
<1>11. CASE NextLine
    <2>1. After(hp) \in Slots
        BY SizesAssumption DEF After, EditorInv, HistoryOK, Slots
    <2> QED
        BY <1>11, <1>a, <2>1, ShowsText DEF Typed!Edit, NextLine, Show
<1>b. ASSUME cp' = 0, length' = 0 PROVE Typed!Cut
    BY <1>0, <1>b, EndsText DEF EditorInv
<1>12. CASE Execute
    <2>1. CASE auth \/ length = 0
        <3>1. UNCHANGED <<hist, hindex>>
            BY <1>12, <2>1 DEF Execute, HistAdd, history
        <3> QED
            BY <1>12, <1>a, <1>b, <3>1 DEF Typed!Edit, Execute
    <2>2. CASE ~ (auth \/ length = 0)
        BY <1>12, <2>2, EntersText DEF Execute, Typed!Next
    <2> QED
        BY <2>1, <2>2
<1>13. CASE StopInput
    BY <1>13, <1>a, <1>b DEF Typed!Edit, StopInput
<1>14. CASE \E c \in Chars : SelfInsert(c) \/ CompleteCommand(c)
    <2>1. PICK c \in Chars : SelfInsert(c) \/ CompleteCommand(c)
        BY <1>14
    <2>2. CASE SelfInsert(c)
        BY <1>a, <2>2, TypesText DEF Typed!Edit, SelfInsert, history
    <2>3. CASE CompleteCommand(c)
        BY <1>a, <2>3, CompletesText DEF Typed!Edit, CompleteCommand, history
    <2> QED
        BY <2>1, <2>2, <2>3
<1>15. CASE KillRound
    <2>1. Typed!Move \/ Typed!Cut
        BY <1>0, <1>15, StaysText, DeletesNextText DEF KillRound
    <2> QED
        BY <1>15, <1>a, <2>1 DEF Typed!Edit, KillRound, history
<1> QED
    BY <1>1, <1>2, <1>3, <1>4, <1>5, <1>6, <1>7, <1>8, <1>9, <1>10, <1>11, <1>12, <1>13, <1>14, <1>15
    DEF EditNext, Key

\* For any sizes of buffer and history: the array with its cursor, under any keys, is a text edited
\* as EditedLine says, and the ring of lines holds the last ones given, oldest first, without a
\* line that repeats the one before it (LineEditor's ImplementsEditedLine).
THEOREM LineIsEdited == EditSpec => ImplementsEditedLine
BY EditorInit, EditorStep, RingInit, TypedInit, TypedStep, PTL DEF EditSpec, ImplementsEditedLine, Typed!Spec
=============================================================================
