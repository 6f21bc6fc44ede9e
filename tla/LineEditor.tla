----------------------------- MODULE LineEditor -----------------------------
(***************************************************************************)
(* The line a terminal is typing and its history (src/lib/vty/vty.c).  The *)
(* line is a C string in an array: buf holds NUL behind its length, and    *)
(* every key moves bytes about in it.  One action is one key, except that  *)
(* ESC d is followed byte by byte, since its loop need not end.            *)
(*                                                                         *)
(* Echoes to the terminal are left out, and lines are kept shorter than    *)
(* the first size of the buffer, so that vty_ensure has nothing to do.     *)
(***************************************************************************)
EXTENDS Integers, Sequences, FiniteSetsExt

CONSTANTS
    Letters,    \* printable characters but the space
    Space, NUL,
    BufSize,    \* VTY_BUFSIZ
    MaxHist,    \* VTY_MAXHIST
    MaxEntered, \* longer lines are not given to execute
    NoLine      \* a NULL pointer in the history

ASSUME SizesAssumption == BufSize \in Nat \ {0} /\ MaxHist \in Nat \ {0, 1} /\ MaxEntered \in Nat
ASSUME CharsAssumption == NUL \notin Letters \cup {Space}

Chars == Letters \cup {Space}

ASSUME HistoryAssumption == NoLine \notin Seq(Chars)

VARIABLES
    buf, cp, length,    \* the line and the cursor
    hist, hp, hindex,   \* ring of lines, the one looked at, the next one to write
    auth,               \* the session is in one of the two password nodes
    killing             \* where vty_forward_kill_word is: "no", "spaces", "word"

line == <<buf, cp, length>>
history == <<hist, hp, hindex>>
editVars == <<line, history, auth, killing>>

Index == 0..(BufSize - 1)
Cleared == [i \in Index |-> NUL]

EditInit ==
    /\ buf = Cleared
    /\ cp = 0
    /\ length = 0
    /\ hist = [i \in 0..(MaxHist - 1) |-> NoLine]
    /\ hp = 0
    /\ hindex = 0
    /\ auth \in BOOLEAN
    /\ killing = "no"

\* The string in buf, as strcmp and talloc_strdup see it.
CString ==
    LET end == Min({i \in Index : buf[i] = NUL})
    IN  [i \in 1..end |-> buf[i - 1]]
-----------------------------------------------------------------------------
(* Moving the cursor.                                                      *)

Keeps == UNCHANGED <<buf, length, history, auth, killing>>

BackwardChar == killing = "no" /\ cp' = (IF cp > 0 THEN cp - 1 ELSE cp) /\ Keeps
ForwardChar == killing = "no" /\ cp' = (IF cp < length THEN cp + 1 ELSE cp) /\ Keeps

\* Also what ^Z does to the line: its text stays.
BeginningOfLine == killing = "no" /\ cp' = 0 /\ Keeps

\* End of line, and what ends with the line drawn anew: a description, a completion that is
\* ambiguous or finds nothing.
EndOfLine == killing = "no" /\ cp' = length /\ Keeps

\* How far one gets from k over spaces, or over anything else.
Back(k, spaces) == Min({j \in 0..k : \A i \in j..(k - 1) : (buf[i] = Space) = spaces})
Ahead(k, spaces) == Max({j \in k..length : \A i \in k..(j - 1) : (buf[i] = Space) = spaces})

WordBefore == Back(Back(cp, TRUE), FALSE)
WordAfter == Ahead(Ahead(cp, FALSE), TRUE)

BackwardWord == killing = "no" /\ cp' = WordBefore /\ Keeps
ForwardWord == killing = "no" /\ cp' = WordAfter /\ Keeps
-----------------------------------------------------------------------------
(* Inserting.                                                              *)

SelfInsert(c) ==
    /\ killing = "no"
    /\ length < BufSize - 1
    /\ buf' = [i \in Index |->
          IF i = cp THEN c ELSE IF i \in (cp + 1)..length THEN buf[i - 1] ELSE buf[i]]
    /\ cp' = cp + 1
    /\ length' = length + 1
    /\ UNCHANGED <<history, auth, killing>>

\* The two characters at k and k + 1 change places.
Swapped(k) == [buf EXCEPT ![k] = buf[k + 1], ![k + 1] = buf[k]]

TransposeChars ==
    /\ killing = "no"
    /\ length >= 2 /\ cp >= 1
    /\ IF cp = length
       THEN buf' = Swapped(cp - 2) /\ cp' = cp
       ELSE buf' = Swapped(cp - 1) /\ cp' = cp + 1
    /\ UNCHANGED <<length, history, auth, killing>>

\* A command was found that the last word begins: the word is written again and goes on with c.
CompleteCommand(c) ==
    /\ killing = "no"
    /\ ~auth
    /\ length \in 1..(BufSize - 2)
    /\ buf' = [buf EXCEPT ![length] = c]
    /\ cp' = length + 1
    /\ length' = length + 1
    /\ UNCHANGED <<history, auth, killing>>
-----------------------------------------------------------------------------
(* Deleting.                                                               *)

\* A variant: the last byte is moved and stays where it was, too.
DeletedStale(from, n) ==
    [i \in Index |-> IF i >= from /\ i + n < length THEN buf[i + n] ELSE buf[i]]

\* The line without the n bytes at from.
Deleted(from, n) ==
    [i \in Index |->
        IF i < from THEN buf[i] ELSE IF i + n < length THEN buf[i + n]
        ELSE IF i < length THEN NUL ELSE buf[i]]

\* vty_delete_char on a line that is not empty; a password is left as it is.
DeleteNext ==
    IF auth \/ cp = length
    THEN UNCHANGED line
    ELSE buf' = Deleted(cp, 1) /\ length' = length - 1 /\ cp' = cp

\* ^D; on an empty line of commands the session goes down a level.
DeleteChar ==
    /\ killing = "no"
    /\ IF ~auth /\ length = 0 THEN cp' = 0 /\ UNCHANGED <<buf, length>> ELSE DeleteNext
    /\ UNCHANGED <<history, auth, killing>>

\* Going back from cp to k, deleting a byte at each step.
DeleteBackTo(k) ==
    /\ cp' = k
    /\ IF auth THEN UNCHANGED <<buf, length>>
       ELSE buf' = Deleted(k, cp - k) /\ length' = length - (cp - k)

DeleteBackwardChar ==
    /\ killing = "no"
    /\ cp > 0
    /\ DeleteBackTo(cp - 1)
    /\ UNCHANGED <<history, auth, killing>>

BackwardKillWord ==
    /\ killing = "no"
    /\ DeleteBackTo(WordBefore)
    /\ UNCHANGED <<history, auth, killing>>

KillLine ==
    /\ killing = "no"
    /\ buf' = [i \in Index |-> IF i \in cp..(length - 1) THEN NUL ELSE buf[i]]
    /\ length' = cp
    /\ UNCHANGED <<cp, history, auth, killing>>

KillLineFromBeginning ==
    /\ killing = "no"
    /\ buf' = [i \in Index |-> IF i < length THEN NUL ELSE buf[i]]
    /\ length' = 0
    /\ cp' = 0
    /\ UNCHANGED <<history, auth, killing>>

\* ESC d
ForwardKillWord ==
    /\ killing = "no"
    /\ killing' = "spaces"
    /\ UNCHANGED <<line, history, auth>>

\* A round of its two loops.
KillRound ==
    /\ killing # "no"
    /\ IF cp # length /\ (buf[cp] = Space) = (killing = "spaces")
       THEN DeleteNext /\ killing' = killing
       ELSE killing' = (IF killing = "spaces" THEN "word" ELSE "no") /\ UNCHANGED line
    /\ UNCHANGED <<history, auth>>
-----------------------------------------------------------------------------
(* The history.                                                            *)

Before(i) == IF i = 0 THEN MaxHist - 1 ELSE i - 1

\* A variant: the last slot is written again and again.
AfterStuck(i) == IF i = MaxHist - 1 THEN i ELSE i + 1

After(i) == IF i = MaxHist - 1 THEN 0 ELSE i + 1

HistAdd ==
    IF length = 0 THEN UNCHANGED history
    ELSE IF hist[Before(hindex)] = CString
    THEN hp' = hindex /\ UNCHANGED <<hist, hindex>>
    ELSE /\ hist' = [hist EXCEPT ![hindex] = CString]
         /\ hindex' = After(hindex)
         /\ hp' = hindex'

\* vty_history_print: the line is cleared and the remembered one copied into it.
HistoryPrint(i) ==
    /\ buf' = [j \in Index |->
          IF j < Len(hist[i]) THEN hist[i][j + 1] ELSE IF j < length THEN NUL ELSE buf[j]]
    /\ length' = Len(hist[i])
    /\ cp' = length'

Show(i) ==
    /\ killing = "no"
    /\ hist[i] # NoLine
    /\ hp' = i
    /\ HistoryPrint(i)
    /\ UNCHANGED <<hist, hindex, auth, killing>>

PreviousLine == Show(Before(hp))
NextLine == hp # hindex /\ Show(After(hp))
-----------------------------------------------------------------------------
(* The end of a line.                                                      *)

\* Enter: a command may lead to a password, and a password to commands.
Execute ==
    /\ killing = "no"
    /\ length <= MaxEntered
    /\ IF auth THEN UNCHANGED history ELSE HistAdd
    /\ auth' \in BOOLEAN
    /\ buf' = Cleared
    /\ cp' = 0
    /\ length' = 0
    /\ killing' = killing

\* ^C
StopInput ==
    /\ killing = "no"
    /\ buf' = Cleared
    /\ cp' = 0
    /\ length' = 0
    /\ hp' = hindex
    /\ UNCHANGED <<hist, hindex, auth, killing>>

Key ==
    \/ BackwardChar \/ ForwardChar \/ BeginningOfLine \/ EndOfLine \/ BackwardWord \/ ForwardWord
    \/ TransposeChars \/ DeleteChar \/ DeleteBackwardChar \/ BackwardKillWord
    \/ KillLine \/ KillLineFromBeginning \/ ForwardKillWord
    \/ PreviousLine \/ NextLine \/ Execute \/ StopInput
    \/ \E c \in Chars : SelfInsert(c) \/ CompleteCommand(c)

EditNext == Key \/ KillRound

EditSpec == EditInit /\ [][EditNext]_editVars

\* The one thread goes on.
FairEditSpec == EditSpec /\ WF_editVars(KillRound)
-----------------------------------------------------------------------------
(* Properties.                                                             *)

\* Every variable has its type.
EditTypeOK ==
    /\ buf \in [Index -> Chars \cup {NUL}]
    /\ cp \in Nat /\ length \in Nat
    /\ DOMAIN hist = 0..(MaxHist - 1)
    /\ hp \in 0..(MaxHist - 1) /\ hindex \in 0..(MaxHist - 1)
    /\ auth \in BOOLEAN
    /\ killing \in {"no", "spaces", "word"}

\* After any keys buf is the C string of length bytes that the commands, the history and strlen
\* take it for, with nothing left over behind it, and the cursor is in it (vty.c:341-879).
BufIsLine ==
    /\ cp <= length /\ length < BufSize
    /\ \A i \in Index : buf[i] = NUL <=> i >= length

\* The remembered lines, oldest first.
Remembered ==
    LET n == Cardinality({i \in DOMAIN hist : hist[i] # NoLine})
    IN  [k \in 1..n |-> hist[(hindex - n + k - 1) % MaxHist]]

Typed == INSTANCE EditedLine WITH
    Depth <- MaxHist,
    left <- [i \in 1..cp |-> buf[i - 1]],
    right <- [i \in 1..(length - cp) |-> buf[cp + i - 1]],
    recent <- Remembered

\* The array and the ring implement a text with a cursor and a list of the last lines.
ImplementsEditedLine == Typed!Spec

\* ESC d deletes a word and comes to an end (vty.c:834).
KillEnds == (killing # "no") ~> (killing = "no")
=============================================================================
