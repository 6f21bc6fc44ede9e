----------------------------- MODULE VtySession -----------------------------
(***************************************************************************)
(* Operators' terminals (src/lib/vty/telnet_interface.c, vty.c and the     *)
(* commands of command.c that change a session or what sessions share).    *)
(*                                                                         *)
(* The program has one thread: vty_read handles all that one read()        *)
(* returned, line by line and key by key, before another session is        *)
(* served.  reading is the session being served; each line or key is a     *)
(* step.  Text is abstracted to the command it selects and to whether a    *)
(* password typed is the right one; commands that only print are left out. *)
(* VTY_CRYPT_PW is not defined in any build, so a hidden password (type 8) *)
(* is stored and never compared with.                                      *)
(***************************************************************************)
EXTENDS Integers

CONSTANTS
    Sessions,   \* terminals; a struct vty is created and freed for each again and again
    Nobody,
    MaxFail     \* no password is typed beyond so many failures

ASSUME NobodyAssumption == Nobody \notin Sessions
ASSUME MaxFailAssumption == MaxFail \in Nat

VARIABLES
    node,       \* vty->node, "CLOSED" when there is no session
    config,     \* vty->config
    status,     \* vty->status: "NORMAL" or "CLOSE"
    fail,       \* vty->fail
    vty_config, \* the lock
    no_password_check, advanced, password, enable,  \* settings shared by all
    reading,    \* the session in vty_read, or Nobody
    gone        \* external: the peer closed the connection, and all it sent is read

settings == <<no_password_check, advanced, password, enable>>
session == <<node, config, status, fail>>
vars == <<session, vty_config, settings, reading, gone>>

AuthNodes == {"AUTH", "AUTH_ENABLE"}
CommandNodes == {"VIEW", "ENABLE", "CONFIG", "VTY"}
ConfigNodes == {"CONFIG", "VTY"}
Nodes == AuthNodes \cup CommandNodes
Secrets == {"unset", "plain", "hidden"}

Init ==
    /\ node = [s \in Sessions |-> "CLOSED"]
    /\ config = [s \in Sessions |-> FALSE]
    /\ status = [s \in Sessions |-> "NORMAL"]
    /\ fail = [s \in Sessions |-> 0]
    /\ vty_config = 0
    /\ no_password_check = TRUE
    /\ advanced = FALSE
    /\ password = "unset"
    /\ enable = "unset"
    /\ reading = Nobody
    /\ gone = [s \in Sessions |-> FALSE]
-----------------------------------------------------------------------------
(* The lock.                                                               *)

ConfigLock(s) ==
    IF vty_config = 0
    THEN vty_config' = 1 /\ config' = [config EXCEPT ![s] = TRUE]
    ELSE UNCHANGED <<vty_config, config>>

ConfigUnlock(s) ==
    IF vty_config = 1 /\ config[s]
    THEN vty_config' = 0 /\ config' = [config EXCEPT ![s] = FALSE]
    ELSE UNCHANGED <<vty_config, config>>

KeepsLock == UNCHANGED <<vty_config, config>>
-----------------------------------------------------------------------------
(* Sessions begin and end.                                                 *)

\* vty_create; without a password to ask for, the session is closed at once.
VtyCreate(s) ==
    /\ reading = Nobody
    /\ node[s] = "CLOSED"
    /\ \/ /\ ~no_password_check /\ password = "unset"
          /\ UNCHANGED <<node, status, fail, gone>>
       \/ /\ no_password_check \/ password # "unset"
          /\ node' = [node EXCEPT ![s] =
                 IF ~no_password_check THEN "AUTH" ELSE IF advanced THEN "ENABLE" ELSE "VIEW"]
          /\ status' = [status EXCEPT ![s] = "NORMAL"]
          /\ fail' = [fail EXCEPT ![s] = 0]
          /\ gone' = [gone EXCEPT ![s] = FALSE]
    /\ KeepsLock
    /\ UNCHANGED <<settings, reading>>

\* The operator's side ends.
Hangup(s) ==
    /\ node[s] # "CLOSED"
    /\ reading # s
    /\ gone' = [gone EXCEPT ![s] = TRUE]
    /\ UNCHANGED <<session, vty_config, settings, reading>>

\* A variant: end of file is not told from a read to be tried again.
ReadAgain(s) ==
    /\ reading = Nobody
    /\ node[s] # "CLOSED"
    /\ reading' = s
    /\ UNCHANGED <<session, vty_config, settings, gone>>

\* read() in vty_read.
VtyRead(s) ==
    /\ reading = Nobody
    /\ node[s] # "CLOSED"
    /\ reading' = s
    /\ status' = IF gone[s] THEN [status EXCEPT ![s] = "CLOSE"] ELSE status
    /\ UNCHANGED <<node, config, fail, vty_config, settings, gone>>

VtyClose(s) ==
    /\ node' = [node EXCEPT ![s] = "CLOSED"]
    /\ ConfigUnlock(s)

\* The end of vty_read; what was received is handled, in a session to be closed too.
ReadEnds(s) ==
    /\ reading = s
    /\ reading' = Nobody
    /\ IF status[s] = "CLOSE" THEN VtyClose(s) ELSE KeepsLock /\ node' = node
    /\ UNCHANGED <<status, fail, settings, gone>>
-----------------------------------------------------------------------------
(* Passwords.                                                              *)

Secret(n) == IF n = "AUTH" THEN password ELSE enable

AfterAuth(n) ==
    IF n = "AUTH_ENABLE" \/ (advanced /\ enable # "plain") THEN "ENABLE" ELSE "VIEW"

\* A variant: failures are not forgotten after a success.
RightPasswordRemembers(s) ==
    /\ Secret(node[s]) = "plain"
    /\ node' = [node EXCEPT ![s] = AfterAuth(node[s])]
    /\ UNCHANGED <<fail, status>>

RightPassword(s) ==
    /\ Secret(node[s]) = "plain"
    /\ node' = [node EXCEPT ![s] = AfterAuth(node[s])]
    /\ fail' = [fail EXCEPT ![s] = 0]
    /\ status' = status

WrongPassword(s) ==
    /\ fail[s] < MaxFail
    /\ IF fail[s] < 2
       THEN fail' = [fail EXCEPT ![s] = @ + 1] /\ UNCHANGED <<node, status>>
       ELSE \/ /\ node[s] = "AUTH"
               /\ fail' = [fail EXCEPT ![s] = @ + 1]
               /\ status' = [status EXCEPT ![s] = "CLOSE"]
               /\ node' = node
            \/ /\ node[s] = "AUTH_ENABLE"
               /\ fail' = [fail EXCEPT ![s] = 0]
               /\ node' = [node EXCEPT ![s] = "VIEW"]
               /\ status' = status

VtyAuth(s) ==
    /\ node[s] \in AuthNodes
    /\ RightPassword(s) \/ WrongPassword(s)
    /\ KeepsLock
    /\ UNCHANGED settings
-----------------------------------------------------------------------------
(* Commands: executed by s in node n they leave it in node m.              *)

\* exit, quit, and ^D on an empty line.
ConfigExit(s, n, m) ==
    /\ m = CASE n = "VTY" -> "CONFIG" [] n = "CONFIG" -> "ENABLE" [] OTHER -> n
    /\ status' = IF n \in {"VIEW", "ENABLE"} THEN [status EXCEPT ![s] = "CLOSE"] ELSE status
    /\ IF n = "CONFIG" THEN ConfigUnlock(s) ELSE KeepsLock
    /\ UNCHANGED settings

\* A variant: the sub-node is left without the lock being given back.
EndOfConfigOnly(s, n, m) ==
    /\ m = IF n \in ConfigNodes THEN "ENABLE" ELSE n
    /\ IF n = "CONFIG" THEN ConfigUnlock(s) ELSE KeepsLock
    /\ UNCHANGED <<status, settings>>

\* end, ^C and ^Z.
ConfigEnd(s, n, m) ==
    /\ m = IF n \in ConfigNodes THEN "ENABLE" ELSE n
    /\ IF n \in ConfigNodes THEN ConfigUnlock(s) ELSE KeepsLock
    /\ UNCHANGED <<status, settings>>

Enable(s, n, m) ==
    /\ n = "VIEW"
    /\ m = IF enable = "unset" THEN "ENABLE" ELSE "AUTH_ENABLE"
    /\ KeepsLock
    /\ UNCHANGED <<status, settings>>

Disable(s, n, m) ==
    /\ n = "ENABLE"
    /\ m = "VIEW"
    /\ KeepsLock
    /\ UNCHANGED <<status, settings>>

\* A variant: the node is entered whatever the lock says.
ConfigTerminalAnyway(s, n, m) ==
    /\ n = "ENABLE"
    /\ m = "CONFIG"
    /\ ConfigLock(s)
    /\ UNCHANGED <<status, settings>>

ConfigTerminal(s, n, m) ==
    /\ n = "ENABLE"
    /\ ConfigLock(s)
    /\ m = IF config'[s] THEN "CONFIG" ELSE n
    /\ UNCHANGED <<status, settings>>

LineVty(s, n, m) ==
    /\ n = "CONFIG"
    /\ m = "VTY"
    /\ KeepsLock
    /\ UNCHANGED <<status, settings>>

\* password, enable password, no enable password, service advanced-vty and its no form; one
\* that is refused with a warning, too.
SetHost(s, n, m) ==
    /\ n = "CONFIG"
    /\ m = n
    /\ \/ password' \in {"plain", "hidden"} /\ UNCHANGED <<enable, advanced>>
       \/ enable' \in Secrets /\ UNCHANGED <<password, advanced>>
       \/ advanced' \in BOOLEAN /\ UNCHANGED <<password, enable>>
    /\ no_password_check' = no_password_check
    /\ KeepsLock
    /\ status' = status

\* login, no login.
SetLogin(s, n, m) ==
    /\ n = "VTY"
    /\ m = n
    /\ no_password_check' \in BOOLEAN
    /\ KeepsLock
    /\ UNCHANGED <<status, advanced, password, enable>>

OfConfig(s, n, m) == LineVty(s, n, m) \/ SetHost(s, n, m)

CmdExecuteReal(s, n, m) ==
    \/ ConfigExit(s, n, m) \/ ConfigEnd(s, n, m)
    \/ Enable(s, n, m) \/ Disable(s, n, m) \/ ConfigTerminal(s, n, m)
    \/ OfConfig(s, n, m) \/ SetLogin(s, n, m)

\* A command of the node; "do" with one of the enable node, back in the old node after it; one
\* that only the parent node knows, which stays in the parent node.
CmdExecute(s) ==
    /\ node[s] \in CommandNodes
    /\ \E m \in Nodes :
        \/ CmdExecuteReal(s, node[s], m) /\ node' = [node EXCEPT ![s] = m]
        \/ node[s] \in ConfigNodes /\ CmdExecuteReal(s, "ENABLE", m) /\ node' = node
        \/ node[s] = "VTY" /\ OfConfig(s, "CONFIG", m) /\ node' = [node EXCEPT ![s] = m]
    /\ fail' = fail
-----------------------------------------------------------------------------
\* A line or a key that s handles in vty_read.
Input(s) ==
    /\ reading = s
    /\ ~gone[s]
    /\ VtyAuth(s) \/ CmdExecute(s)
    /\ UNCHANGED <<reading, gone>>

Next ==
    \E s \in Sessions : VtyCreate(s) \/ Hangup(s) \/ VtyRead(s) \/ Input(s) \/ ReadEnds(s)

Spec == Init /\ [][Next]_vars

\* A read returns at most VTY_READ_BUFSIZ bytes, so it ends; socket_select_main serves every
\* descriptor that is ready in each pass, and one at its end is ready from then on.
FairSpec ==
    /\ Spec
    /\ \A s \in Sessions : WF_vars(ReadEnds(s)) /\ SF_vars(VtyRead(s))
-----------------------------------------------------------------------------
(* Properties.                                                             *)

\* Every variable has its type.
TypeOK ==
    /\ node \in [Sessions -> Nodes \cup {"CLOSED"}]
    /\ config \in [Sessions -> BOOLEAN]
    /\ status \in [Sessions -> {"NORMAL", "CLOSE"}]
    /\ fail \in [Sessions -> 0..MaxFail]
    /\ vty_config \in {0, 1}
    /\ no_password_check \in BOOLEAN
    /\ advanced \in BOOLEAN
    /\ password \in Secrets
    /\ enable \in Secrets
    /\ reading \in Sessions \cup {Nobody}
    /\ gone \in [Sessions -> BOOLEAN]

InConfigNode(s) == node[s] \in ConfigNodes <=> config[s]

\* The lock, the flags of the sessions and their nodes tell the same: exactly the session that
\* holds the lock is in a configuration node, on every way in and out (vty.c:254).
LockAgrees ==
    /\ \A s \in Sessions : InConfigNode(s)
    /\ vty_config = 1 <=> \E s \in Sessions : config[s]
    /\ \A s, t \in Sessions : config[s] /\ config[t] => s = t

FailuresOf(s) ==
    /\ fail[s] > 0 => node[s] \in AuthNodes \cup {"CLOSED"}
    /\ (reading # s /\ node[s] # "CLOSED") => (status[s] = "NORMAL" /\ fail[s] < 3)

\* Failures are counted for one password at a time, and a session that failed three times, or
\* was told to close, does not outlive the read in which it happened (vty.c:78, vty.c:1345).
FailuresAgree == \A s \in Sessions : FailuresOf(s)

Holder ==
    IF \E s \in Sessions : config[s] THEN CHOOSE s \in Sessions : config[s] ELSE Nobody

Mutex == INSTANCE ConfigMutex WITH
    Settings <- BOOLEAN \X BOOLEAN \X Secrets \X Secrets,
    actor <- reading,
    holder <- Holder

\* The sessions implement mutual exclusion of configuration: the lock goes from hand to hand by
\* way of nobody, settings are changed by its holder only, and nobody takes it from another.
ImplementsMutex == Mutex!Spec

\* A session whose connection is lost gives the lock back.
LockComesBack == \A s \in Sessions : (gone[s] /\ config[s]) ~> ~config[s]
=============================================================================
