---------------------------- MODULE DaemonProofs ----------------------------
(***************************************************************************)
(* Theorems about the lock file, for any number of processes and any       *)
(* process numbers.                                                        *)
(***************************************************************************)
EXTENDS Daemon, SequenceTheorems, TLAPS

Inodes == Procs \cup {None}

Text == Seq(0..9)

Places == Starting \cup Stopping \cup {"new", "run", "ended", "killed"}

(* What always holds.                                                      *)

TypeOK ==
    /\ path \in Inodes
    /\ data \in [Procs -> Text]
    /\ lock \in [Procs -> Inodes]
    /\ pc \in [Procs -> Places]
    /\ fd \in [Procs -> Inodes]
    /\ daemon \in SUBSET Procs
    /\ pid \in [Procs -> Text]

\* Whoever is about to use a file has one open.
Opened ==
    \A p \in Procs :
        pc[p] \in {"lockf", "write", "fscanf", "unlock", "remove", "kill", "fclose"} =>
            fd[p] \in Procs

\* A BTS that has recorded its number: it runs or has been killed.
Recorded(r) == r \in daemon \/ pc[r] = "killed"

\* A file holds no more digits than the number of a BTS that has recorded it.
LengthsKnown ==
    \A i \in Procs :
        data[i] # << >> => \E r \in Procs : Recorded(r) /\ Len(data[i]) <= Len(Pid[r])

AlwaysInv == TypeOK /\ Opened /\ LengthsKnown

(* What holds as long as everything is calm.                               *)

\* Nobody starts while somebody stops.
Apart == \A p, q \in Procs : pc[p] \in Stopping => pc[q] \notin Starting

\* A daemon is about its work, or about to stop itself.
DaemonsRun ==
    \A q \in Procs :
        /\ pc[q] = "run" => q \in daemon
        /\ q \in daemon => pc[q] \in {"run", "fopen", "fscanf", "unlock", "remove", "kill"}

\* Whoever has begun to start has the file open that the name leads to; and who is
\* to write into it has its lock.
StartersOpen ==
    \A p \in Procs :
        /\ pc[p] \in {"lockf", "write"} => path # None /\ fd[p] = path
        /\ pc[p] = "write" => lock[path] = p

\* A daemon's number stands first in the file the name leads to, and it has the lock of that
\* file until it gives it back itself; the name is gone only under the eyes of a stop.
DaemonOwns ==
    \A q \in daemon :
        /\ path = None => \E p \in Procs : pc[p] = "kill"
        /\ path # None => /\ StartsWith(data[path], Pid[q])
                          /\ pc[q] \notin {"remove", "kill"} => lock[path] = q

\* Who stops reads a file in which the number of any daemon stands first.
StopperReads ==
    \A p \in Procs : pc[p] = "fscanf" => \A q \in daemon : StartsWith(data[fd[p]], Pid[q])

OneRuns == \A p, q \in daemon : p = q

CalmInv == Apart /\ OneRuns /\ DaemonsRun /\ StartersOpen /\ DaemonOwns /\ StopperReads

DaemonInv == AlwaysInv /\ (calm => CalmInv)
-----------------------------------------------------------------------------
\* The number goes over what is there: it stands first, and what follows was there before.
LEMMA OverFacts ==
    ASSUME NEW s \in Text, NEW t \in Text, t # << >>
    PROVE  /\ Over(s, t) \in Text
           /\ Over(s, t) # << >>
           /\ StartsWith(Over(s, t), t)
           /\ Len(Over(s, t)) = IF Len(s) <= Len(t) THEN Len(t) ELSE Len(s)
<1> DEFINE u == SubSeq(s, Len(t) + 1, Len(s))
<1>1. Len(s) \in Nat /\ Len(t) \in Nat /\ Len(t) # 0
    BY EmptySeq DEF Text
<1>2. u \in Text /\ Len(u) = IF Len(s) <= Len(t) THEN 0 ELSE Len(s) - Len(t)
    BY <1>1 DEF Text
<1> HIDE DEF u
<1>3. t \o u \in Text /\ Len(t \o u) = Len(t) + Len(u)
    BY <1>2, ConcatProperties DEF Text
<1>4. Over(s, t) = t \o u
    BY DEF Over, u
<1>5. SubSeq(t \o u, 1, Len(t)) = t
    <2>1. \A k \in 1..Len(t) : k <= Len(t) /\ k \in 1..(Len(t) + Len(u))
        BY <1>1, <1>2
    <2>2. \A k \in 1..Len(t) : (t \o u)[k] = t[k] /\ t[k] \in 0..9
        BY <1>2, <2>1, ConcatProperties DEF Text
    <2> DEFINE w == t \o u
               v == SubSeq(w, 1, Len(t))
    <2> HIDE DEF w
    <2>3. \A k \in 1..Len(t) : w[k] = t[k] /\ w[k] \in 0..9
        BY <2>2 DEF w
    <2>4. v \in Seq(0..9) /\ Len(v) = Len(t) /\ \A k \in 1..Len(t) : v[k] = t[k]
        BY <1>1, <2>3, SubSeqProperties
    <2> HIDE DEF v
    <2>5. v = t
        BY <2>4, SeqEqual DEF Text
    <2> QED
        BY <2>5 DEF v, w
<1>6. Len(t \o u) = IF Len(s) <= Len(t) THEN Len(t) ELSE Len(s)
    BY <1>1, <1>2, <1>3
<1>7. Len(t \o u) # 0 /\ Len(t) <= Len(t \o u)
    BY <1>1, <1>6
<1>8. t \o u # << >>
    BY <1>7
<1> QED
    BY <1>3, <1>4, <1>5, <1>6, <1>7, <1>8 DEF StartsWith

LEMMA WholeNumber ==
    ASSUME NEW s \in Text
    PROVE  SubSeq(s, 1, Len(s)) = s
<1> DEFINE u == SubSeq(s, 1, Len(s))
<1>1. Len(s) \in Nat /\ \A k \in 1..Len(s) : s[k] \in 0..9
    BY DEF Text
<1>2. u \in Seq(0..9) /\ Len(u) = Len(s) /\ \A k \in 1..Len(s) : u[k] = s[k]
    BY <1>1, SubSeqProperties
<1> HIDE DEF u
<1>3. u = s
    BY <1>2, SeqEqual DEF Text
<1> QED
    BY <1>3 DEF u

\* A number has digits, so that nothing empty starts with one.
LEMMA NumbersHaveDigits ==
    ASSUME NEW p \in Procs
    PROVE  Pid[p] \in Text /\ Pid[p] # << >> /\ Len(Pid[p]) \in Nat /\ ~ StartsWith(<< >>, Pid[p])
<1>1. Pid[p] \in Text /\ Pid[p] # << >>
    BY PidAssumption DEF Text
<1>2. Len(Pid[p]) \in Nat /\ Len(Pid[p]) # 0 /\ Len(<< >>) = 0
    BY <1>1, EmptySeq DEF Text
<1> QED
    BY <1>1, <1>2 DEF StartsWith

LEMMA DaemonInit == Init => DaemonInv
<1> SUFFICES ASSUME Init PROVE DaemonInv
    OBVIOUS
<1>1. << >> \in Text
    BY DEF Text
<1>2. TypeOK
    BY <1>1 DEF Init, TypeOK, Inodes, Places
<1>3. Opened /\ LengthsKnown
    BY DEF Init, Opened, LengthsKnown
<1>4. CalmInv
    BY DEF Init, CalmInv, Apart, OneRuns, DaemonsRun, StartersOpen, DaemonOwns, StopperReads,
           Starting, Stopping
<1> QED
    BY <1>2, <1>3, <1>4 DEF DaemonInv, AlwaysInv

\* Files that are not written to keep their digits known, as long as daemons end by being
\* killed.
LEMMA LengthsStay ==
    ASSUME LengthsKnown, data' = data,
           \A r \in Procs : Recorded(r) => Recorded(r)'
    PROVE  LengthsKnown'
BY DEF LengthsKnown
-----------------------------------------------------------------------------
(* main() and daemonize().                                                 *)

LEMMA StartKeeps ==
    ASSUME AlwaysInv, NEW p \in Procs, Start(p)
    PROVE  AlwaysInv' /\ (calm' /\ CalmInv => CalmInv')
<1>1. /\ pc[p] = "new" /\ pc' = [pc EXCEPT ![p] = "open"]
      /\ path' = path /\ data' = data /\ lock' = lock /\ fd' = fd /\ daemon' = daemon
      /\ pid' = pid
    BY DEF Start, Goes, files
<1>2. \A q \in Procs : pc'[q] = IF q = p THEN "open" ELSE pc[q]
    BY <1>1 DEF AlwaysInv, TypeOK
<1>3. TypeOK'
    BY <1>1 DEF AlwaysInv, TypeOK, Places, Starting
<1>4. Opened'
    BY <1>1, <1>2 DEF AlwaysInv, Opened
<1>5. LengthsKnown'
    BY <1>1, <1>2, LengthsStay DEF AlwaysInv, Recorded
<1>6. ASSUME calm', CalmInv PROVE CalmInv'
    <2>1. \A q \in Procs : pc[q] \notin Stopping
        BY <1>6 DEF Start, NobodyIn
    <2>2. Apart' /\ StopperReads'
        BY <1>2, <2>1 DEF Apart, StopperReads, Stopping
    <2>3. OneRuns' /\ DaemonsRun' /\ StartersOpen'
        BY <1>1, <1>2, <1>6 DEF OneRuns, DaemonsRun, StartersOpen, CalmInv
    <2>4. DaemonOwns'
        BY <1>1, <1>2, <1>6 DEF DaemonOwns, CalmInv, AlwaysInv, TypeOK
    <2> QED
        BY <2>2, <2>3, <2>4 DEF CalmInv
<1> QED
    BY <1>3, <1>4, <1>5, <1>6 DEF AlwaysInv

LEMMA OpenKeeps ==
    ASSUME AlwaysInv, NEW p \in Procs, Open(p)
    PROVE  AlwaysInv' /\ (CalmInv => CalmInv')
<1>1. /\ pc[p] = "open" /\ pc' = [pc EXCEPT ![p] = "lockf"]
      /\ path' \in Procs /\ (path # None => path' = path)
      /\ fd' = [fd EXCEPT ![p] = path']
      /\ data' = data /\ lock' = lock /\ daemon' = daemon /\ pid' = pid
    BY NoneAssumption DEF Open, Goes, AlwaysInv, TypeOK, Inodes
<1>2. \A q \in Procs : /\ pc'[q] = IF q = p THEN "lockf" ELSE pc[q]
                       /\ fd'[q] = IF q = p THEN path' ELSE fd[q]
    BY <1>1 DEF AlwaysInv, TypeOK
<1>3. TypeOK'
    BY <1>1 DEF AlwaysInv, TypeOK, Places, Starting, Inodes
<1>4. Opened'
    BY <1>1, <1>2 DEF AlwaysInv, Opened
<1>5. LengthsKnown'
    BY <1>1, <1>2, LengthsStay DEF AlwaysInv, Recorded
<1>6. ASSUME CalmInv PROVE CalmInv'
    <2>1. \A q \in Procs : pc[q] \notin Stopping /\ pc'[q] \notin Stopping
        BY <1>1, <1>2, <1>6 DEF Apart, CalmInv, Starting, Stopping
    <2>2. Apart' /\ StopperReads'
        BY <2>1 DEF Apart, StopperReads, Stopping
    <2>3. OneRuns' /\ DaemonsRun'
        BY <1>1, <1>2, <1>6 DEF OneRuns, DaemonsRun, CalmInv
    <2>4. StartersOpen'
        BY <1>1, <1>2, <1>6, NoneAssumption DEF StartersOpen, CalmInv
    <2>5. DaemonOwns'
        <3>1. \A q \in Procs : pc[q] # "kill"
            BY <2>1 DEF Stopping
        <3>2. daemon # {} => path # None
            BY <1>6, <3>1 DEF DaemonOwns, CalmInv
        <3>3. daemon \subseteq Procs
            BY DEF AlwaysInv, TypeOK
        <3> QED
            BY <1>1, <1>2, <1>6, <3>2, <3>3, NoneAssumption DEF DaemonOwns, CalmInv
    <2> QED
        BY <2>2, <2>3, <2>4, <2>5 DEF CalmInv
<1> QED
    BY <1>3, <1>4, <1>5, <1>6 DEF AlwaysInv

LEMMA LockKeeps ==
    ASSUME AlwaysInv, NEW p \in Procs, Lock(p)
    PROVE  AlwaysInv' /\ (CalmInv => CalmInv')
<1>1. /\ pc[p] = "lockf" /\ fd[p] \in Procs
      /\ path' = path /\ data' = data /\ fd' = fd /\ daemon' = daemon /\ pid' = pid
      /\ \/ /\ lock[fd[p]] = None /\ lock' = [lock EXCEPT ![fd[p]] = p]
            /\ pc' = [pc EXCEPT ![p] = "write"]
         \/ lock' = lock /\ pc' = [pc EXCEPT ![p] = "ended"]
    BY DEF Lock, Goes, AlwaysInv, Opened
<1>2. /\ \A q \in Procs : q # p => pc'[q] = pc[q]
      /\ pc'[p] \in {"write", "ended"}
      /\ \A i \in Procs : lock[i] # None => lock'[i] = lock[i]
      /\ pc'[p] = "write" => lock[fd[p]] = None /\ lock'[fd[p]] = p
    BY <1>1 DEF AlwaysInv, TypeOK
<1>3. TypeOK'
    BY <1>1 DEF AlwaysInv, TypeOK, Places, Starting, Inodes
<1>4. Opened'
    BY <1>1, <1>2 DEF AlwaysInv, Opened
<1>5. LengthsKnown'
    BY <1>1, <1>2, LengthsStay DEF AlwaysInv, Recorded
<1>6. ASSUME CalmInv PROVE CalmInv'
    <2>1. \A q \in Procs : pc[q] \notin Stopping /\ pc'[q] \notin Stopping
        BY <1>1, <1>2, <1>6 DEF Apart, CalmInv, Starting, Stopping
    <2>2. Apart' /\ StopperReads'
        BY <2>1 DEF Apart, StopperReads, Stopping
    <2>3. OneRuns' /\ DaemonsRun'
        BY <1>1, <1>2, <1>6 DEF OneRuns, DaemonsRun, CalmInv
    <2>4. path \in Procs /\ fd[p] = path
        BY <1>1, <1>6 DEF StartersOpen, CalmInv
    <2>5. StartersOpen'
        BY <1>1, <1>2, <1>6, <2>4, NoneAssumption DEF StartersOpen, CalmInv
    <2>6. DaemonOwns'
        <3>1. \A q \in daemon : q \in Procs /\ q # p
            BY <1>1, <1>6 DEF DaemonsRun, CalmInv, AlwaysInv, TypeOK
        <3>2. \A q \in daemon : StartsWith(data[path], Pid[q])
                             /\ (pc[q] \notin {"remove", "kill"} => lock[path] = q)
            BY <1>6, <2>4, NoneAssumption DEF DaemonOwns, CalmInv
        <3> QED
            BY <1>1, <1>2, <2>4, <3>1, <3>2, NoneAssumption DEF DaemonOwns
    <2> QED
        BY <2>2, <2>3, <2>5, <2>6 DEF CalmInv
<1> QED
    BY <1>3, <1>4, <1>5, <1>6 DEF AlwaysInv

LEMMA RecordKeeps ==
    ASSUME AlwaysInv, NEW p \in Procs, Record(p)
    PROVE  AlwaysInv' /\ (CalmInv => CalmInv')
<1> DEFINE i == fd[p]
           s == data[i]
           t == Over(s, Pid[p])
<1>1. /\ pc[p] = "write" /\ i \in Procs /\ pc' = [pc EXCEPT ![p] = "run"]
      /\ data' = [data EXCEPT ![i] = t] /\ daemon' = daemon \cup {p}
      /\ path' = path /\ lock' = lock /\ fd' = fd /\ pid' = pid
    BY DEF Record, Goes, AlwaysInv, Opened
<1>2. s \in Text /\ Pid[p] \in Text /\ Pid[p] # << >>
    BY <1>1, NumbersHaveDigits DEF AlwaysInv, TypeOK
<1>3. /\ t \in Text /\ t # << >> /\ StartsWith(t, Pid[p])
      /\ Len(t) = IF Len(s) <= Len(Pid[p]) THEN Len(Pid[p]) ELSE Len(s)
    BY <1>2, OverFacts
<1>4. Len(s) \in Nat /\ Len(Pid[p]) \in Nat
    BY <1>2 DEF Text
<1> HIDE DEF t
<1>5. /\ \A q \in Procs : pc'[q] = IF q = p THEN "run" ELSE pc[q]
      /\ \A j \in Procs : data'[j] = IF j = i THEN t ELSE data[j]
    BY <1>1 DEF AlwaysInv, TypeOK
<1>6. TypeOK'
    BY <1>1, <1>3 DEF AlwaysInv, TypeOK, Places
<1>7. Opened'
    BY <1>1, <1>5 DEF AlwaysInv, Opened
<1>8. LengthsKnown'
    <2>1. Recorded(p)' /\ \A r \in Procs : Recorded(r) => Recorded(r)'
        BY <1>1, <1>5 DEF Recorded
    <2>2. ASSUME NEW j \in Procs, data'[j] # << >>
          PROVE  \E r \in Procs : Recorded(r)' /\ Len(data'[j]) <= Len(Pid[r])
        <3>1. CASE j # i
            <4>1. data'[j] = data[j]
                BY <1>5, <3>1
            <4>2. PICK r \in Procs : Recorded(r) /\ Len(data[j]) <= Len(Pid[r])
                BY <2>2, <4>1 DEF AlwaysInv, LengthsKnown
            <4> QED
                BY <2>1, <4>1, <4>2
        <3>2. CASE j = i /\ Len(s) <= Len(Pid[p])
            BY <1>3, <1>4, <1>5, <2>1, <3>2
        <3>3. CASE j = i /\ ~ (Len(s) <= Len(Pid[p]))
            <4>1. data'[j] = t /\ Len(t) = Len(s)
                BY <1>3, <1>5, <3>3
            <4>2. s # << >>
                BY <1>4, <3>3, EmptySeq
            <4>3. PICK r \in Procs : Recorded(r) /\ Len(s) <= Len(Pid[r])
                BY <1>1, <4>2 DEF AlwaysInv, LengthsKnown
            <4> QED
                BY <2>1, <4>1, <4>3
        <3> QED
            BY <3>1, <3>2, <3>3
    <2> QED
        BY <2>2 DEF LengthsKnown
<1>9. ASSUME CalmInv PROVE CalmInv'
    <2>1. \A q \in Procs : pc[q] \notin Stopping /\ pc'[q] \notin Stopping
        BY <1>1, <1>5, <1>9 DEF Apart, CalmInv, Starting, Stopping
    <2>2. Apart' /\ StopperReads'
        BY <2>1 DEF Apart, StopperReads, Stopping
    <2>3. path \in Procs /\ i = path /\ lock[path] = p
        BY <1>1, <1>9 DEF StartersOpen, CalmInv
    <2>4. daemon = {}
        <3>1. \A q \in daemon : q \in Procs /\ q # p /\ pc[q] \notin {"remove", "kill"}
            BY <1>1, <1>9, <2>1 DEF DaemonsRun, CalmInv, AlwaysInv, TypeOK, Stopping
        <3>2. \A q \in daemon : lock[path] = q
            BY <1>9, <2>3, <3>1, NoneAssumption DEF DaemonOwns, CalmInv
        <3> QED
            BY <2>3, <3>1, <3>2
    <2>5. OneRuns' /\ DaemonsRun'
        BY <1>1, <1>5, <1>9, <2>4 DEF OneRuns, DaemonsRun, CalmInv
    <2>6. StartersOpen'
        BY <1>1, <1>5, <1>9 DEF StartersOpen, CalmInv
    <2>7. DaemonOwns'
        BY <1>1, <1>3, <1>5, <2>3, <2>4, NoneAssumption DEF DaemonOwns
    <2> QED
        BY <2>2, <2>5, <2>6, <2>7 DEF CalmInv
<1> QED
    BY <1>6, <1>7, <1>8, <1>9 DEF AlwaysInv

LEMMA DiesKeeps ==
    ASSUME AlwaysInv, NEW p \in Procs, Dies(p)
    PROVE  AlwaysInv' /\ (calm' /\ CalmInv => CalmInv')
<1>1. /\ pc' = [pc EXCEPT ![p] = "killed"] /\ daemon' = daemon \ {p}
      /\ path' = path /\ data' = data /\ fd' = fd /\ pid' = pid
      /\ lock' = [i \in Procs |-> IF lock[i] = p THEN None ELSE lock[i]]
    BY DEF Dies, Goes, Released
<1>2. /\ \A q \in Procs : pc'[q] = IF q = p THEN "killed" ELSE pc[q]
      /\ \A i \in Procs : lock'[i] = IF lock[i] = p THEN None ELSE lock[i]
    BY <1>1 DEF AlwaysInv, TypeOK
<1>3. TypeOK'
    BY <1>1 DEF AlwaysInv, TypeOK, Places, Inodes
<1>4. Opened'
    BY <1>1, <1>2 DEF AlwaysInv, Opened
<1>5. LengthsKnown'
    BY <1>1, <1>2, LengthsStay DEF AlwaysInv, Recorded
<1>6. ASSUME calm', CalmInv PROVE CalmInv'
    <2>1. pc[p] \notin Stopping
        BY <1>6 DEF Dies
    <2>2. Apart' /\ OneRuns' /\ DaemonsRun' /\ StopperReads'
        BY <1>1, <1>2, <1>6 DEF Apart, OneRuns, DaemonsRun, StopperReads, CalmInv, Starting,
                                Stopping
    <2>3. StartersOpen'
        BY <1>1, <1>2, <1>6 DEF StartersOpen, CalmInv, AlwaysInv, TypeOK, Inodes
    <2>4. DaemonOwns'
        BY <1>1, <1>2, <1>6, <2>1 DEF DaemonOwns, CalmInv, AlwaysInv, TypeOK, Inodes, Stopping
    <2> QED
        BY <2>2, <2>3, <2>4 DEF CalmInv
<1> QED
    BY <1>3, <1>4, <1>5, <1>6 DEF AlwaysInv
-----------------------------------------------------------------------------
(* kill_background().                                                      *)

LEMMA KillBackgroundKeeps ==
    ASSUME AlwaysInv, NEW p \in Procs, KillBackground(p)
    PROVE  AlwaysInv' /\ (calm' /\ CalmInv => CalmInv')
<1>1. /\ pc[p] \in {"new", "run"} /\ pc' = [pc EXCEPT ![p] = "fopen"]
      /\ path' = path /\ data' = data /\ lock' = lock /\ fd' = fd /\ daemon' = daemon
      /\ pid' = pid
    BY DEF KillBackground, Goes, files
<1>2. \A q \in Procs : pc'[q] = IF q = p THEN "fopen" ELSE pc[q]
    BY <1>1 DEF AlwaysInv, TypeOK
<1>3. TypeOK'
    BY <1>1 DEF AlwaysInv, TypeOK, Places, Stopping
<1>4. Opened'
    BY <1>1, <1>2 DEF AlwaysInv, Opened
<1>5. LengthsKnown'
    BY <1>1, <1>2, LengthsStay DEF AlwaysInv, Recorded
<1>6. ASSUME calm', CalmInv PROVE CalmInv'
    <2>1. \A q \in Procs : pc[q] \notin Starting /\ pc'[q] \notin Starting
        BY <1>2, <1>6 DEF KillBackground, NobodyIn, Starting
    <2>2. Apart' /\ StartersOpen'
        BY <2>1 DEF Apart, StartersOpen, Starting
    <2>3. OneRuns' /\ DaemonsRun' /\ StopperReads'
        BY <1>1, <1>2, <1>6 DEF OneRuns, DaemonsRun, StopperReads, CalmInv
    <2>4. DaemonOwns'
        BY <1>1, <1>2, <1>6 DEF DaemonOwns, CalmInv, AlwaysInv, TypeOK
    <2> QED
        BY <2>2, <2>3, <2>4 DEF CalmInv
<1> QED
    BY <1>3, <1>4, <1>5, <1>6 DEF AlwaysInv

\* A step of a stop leaves nobody starting.
LEMMA StillApart ==
    ASSUME TypeOK, CalmInv, NEW p \in Procs, pc[p] \in Stopping,
           NEW place \in Stopping \cup {"run", "ended"}, pc' = [pc EXCEPT ![p] = place]
    PROVE  Apart' /\ StartersOpen'
<1>1. \A q \in Procs : pc'[q] \notin Starting
    BY DEF Apart, CalmInv, TypeOK, Starting, Stopping
<1> QED
    BY <1>1 DEF Apart, StartersOpen, Starting

LEMMA FopenKeeps ==
    ASSUME AlwaysInv, NEW p \in Procs, Fopen(p)
    PROVE  AlwaysInv' /\ (CalmInv => CalmInv')
<1> DEFINE place == IF path # None THEN "fscanf" ELSE IF p \in daemon THEN "run" ELSE "ended"
<1>1. /\ pc[p] = "fopen" /\ pc' = [pc EXCEPT ![p] = place]
      /\ place \in Stopping \cup {"run", "ended"}
      /\ path' = path /\ data' = data /\ lock' = lock /\ daemon' = daemon /\ pid' = pid
      /\ \A q \in Procs : fd'[q] = IF q = p /\ path # None THEN path ELSE fd[q]
      /\ fd' \in [Procs -> Inodes]
    BY DEF Fopen, Goes, Returns, files, AlwaysInv, TypeOK, Stopping, Inodes
<1>2. \A q \in Procs : pc'[q] = IF q = p THEN place ELSE pc[q]
    BY <1>1 DEF AlwaysInv, TypeOK
<1>3. TypeOK'
    BY <1>1 DEF AlwaysInv, TypeOK, Places
<1>4. Opened'
    BY <1>1, <1>2 DEF AlwaysInv, Opened, TypeOK, Inodes
<1>5. LengthsKnown'
    BY <1>1, <1>2, LengthsStay DEF AlwaysInv, Recorded
<1>6. ASSUME CalmInv PROVE CalmInv'
    <2>1. Apart' /\ StartersOpen'
        BY <1>1, <1>6, StillApart DEF AlwaysInv, Stopping
    <2>2. OneRuns' /\ DaemonsRun'
        BY <1>1, <1>2, <1>6 DEF OneRuns, DaemonsRun, CalmInv
    <2>3. DaemonOwns'
        BY <1>1, <1>2, <1>6 DEF DaemonOwns, CalmInv, AlwaysInv, TypeOK
    <2>4. StopperReads'
        BY <1>1, <1>2, <1>6 DEF StopperReads, DaemonOwns, CalmInv
    <2> QED
        BY <2>1, <2>2, <2>3, <2>4 DEF CalmInv
<1> QED
    BY <1>3, <1>4, <1>5, <1>6 DEF AlwaysInv

LEMMA FscanfKeeps ==
    ASSUME AlwaysInv, NEW p \in Procs, Fscanf(p)
    PROVE  AlwaysInv' /\ (CalmInv => CalmInv')
<1> DEFINE s == data[fd[p]]
           place == IF s = << >> THEN "fclose" ELSE "unlock"
<1>1. pc[p] = "fscanf" /\ fd[p] \in Procs /\ s \in Text
    BY DEF Fscanf, AlwaysInv, Opened, TypeOK
<1>2. /\ pc' = [pc EXCEPT ![p] = place] /\ place \in {"fclose", "unlock"}
      /\ path' = path /\ data' = data /\ lock' = lock /\ daemon' = daemon /\ fd' = fd
      /\ pid' = [pid EXCEPT ![p] = s]
    <2>1. pid' = [pid EXCEPT ![p] = s] /\ pid'[p] = s
        BY DEF Fscanf, AlwaysInv, TypeOK
    <2> QED
        BY <2>1 DEF Fscanf, Goes, files
<1>3. \A q \in Procs : pc'[q] = IF q = p THEN place ELSE pc[q]
    BY <1>2 DEF AlwaysInv, TypeOK
<1>4. s = << >> => place = "fclose"
    OBVIOUS
<1>5. s # << >> => place = "unlock"
    OBVIOUS
<1> HIDE DEF s, place
<1>6. TypeOK'
    BY <1>1, <1>2 DEF AlwaysInv, TypeOK, Places, Stopping
<1>7. Opened'
    BY <1>1, <1>2, <1>3 DEF AlwaysInv, Opened
<1>8. LengthsKnown'
    BY <1>1, <1>2, <1>3, LengthsStay DEF AlwaysInv, Recorded
<1>9. ASSUME CalmInv PROVE CalmInv'
    <2>1. Apart' /\ StartersOpen'
        BY <1>1, <1>2, <1>9, StillApart DEF AlwaysInv, Stopping
    <2>2. p \in daemon => s # << >>
        BY <1>1, <1>9, NumbersHaveDigits DEF StopperReads, CalmInv, s
    <2>3. OneRuns' /\ DaemonsRun'
        BY <1>2, <1>3, <1>5, <1>9, <2>2 DEF OneRuns, DaemonsRun, CalmInv
    <2>4. DaemonOwns'
        BY <1>1, <1>2, <1>3, <1>9 DEF DaemonOwns, CalmInv, AlwaysInv, TypeOK
    <2>5. StopperReads'
        BY <1>2, <1>3, <1>9 DEF StopperReads, CalmInv
    <2> QED
        BY <2>1, <2>3, <2>4, <2>5 DEF CalmInv
<1> QED
    BY <1>6, <1>7, <1>8, <1>9 DEF AlwaysInv

\* A process gives back its own lock only.
LEMMA FreedOwn ==
    ASSUME TypeOK, NEW p \in Procs
    PROVE  /\ Freed(p) \in [Procs -> Inodes]
           /\ \A i \in Procs : lock[i] # p => Freed(p)[i] = lock[i]
BY DEF Freed, TypeOK, Inodes

LEMMA UnlockKeeps ==
    ASSUME AlwaysInv, NEW p \in Procs, Unlock(p)
    PROVE  AlwaysInv' /\ (CalmInv => CalmInv')
<1>1. /\ pc[p] = "unlock" /\ pc' = [pc EXCEPT ![p] = "remove"] /\ lock' = Freed(p)
      /\ path' = path /\ data' = data /\ daemon' = daemon /\ fd' = fd /\ pid' = pid
    BY DEF Unlock, Goes
<1>2. \A q \in Procs : pc'[q] = IF q = p THEN "remove" ELSE pc[q]
    BY <1>1 DEF AlwaysInv, TypeOK
<1>3. TypeOK'
    BY <1>1, FreedOwn DEF AlwaysInv, TypeOK, Places, Stopping
<1>4. Opened'
    BY <1>1, <1>2 DEF AlwaysInv, Opened
<1>5. LengthsKnown'
    BY <1>1, <1>2, LengthsStay DEF AlwaysInv, Recorded
<1>6. ASSUME CalmInv PROVE CalmInv'
    <2>1. Apart' /\ StartersOpen'
        BY <1>1, <1>6, StillApart DEF AlwaysInv, Stopping
    <2>2. OneRuns' /\ DaemonsRun' /\ StopperReads'
        BY <1>1, <1>2, <1>6 DEF OneRuns, DaemonsRun, StopperReads, CalmInv
    <2>3. \A i \in Procs : lock[i] # p => lock'[i] = lock[i]
        BY <1>1, FreedOwn DEF AlwaysInv
    <2>4. DaemonOwns'
        BY <1>1, <1>2, <1>6, <2>3 DEF DaemonOwns, CalmInv, AlwaysInv, TypeOK, Inodes
    <2> QED
        BY <2>1, <2>2, <2>4 DEF CalmInv
<1> QED
    BY <1>3, <1>4, <1>5, <1>6 DEF AlwaysInv

LEMMA RemoveKeeps ==
    ASSUME AlwaysInv, NEW p \in Procs, Remove(p)
    PROVE  AlwaysInv' /\ (CalmInv => CalmInv')
<1>1. /\ pc[p] = "remove" /\ pc' = [pc EXCEPT ![p] = "kill"] /\ path' = None
      /\ lock' = lock /\ data' = data /\ daemon' = daemon /\ fd' = fd /\ pid' = pid
    BY DEF Remove, Goes
<1>2. \A q \in Procs : pc'[q] = IF q = p THEN "kill" ELSE pc[q]
    BY <1>1 DEF AlwaysInv, TypeOK
<1>3. TypeOK'
    BY <1>1 DEF AlwaysInv, TypeOK, Places, Stopping, Inodes
<1>4. Opened'
    BY <1>1, <1>2 DEF AlwaysInv, Opened
<1>5. LengthsKnown'
    BY <1>1, <1>2, LengthsStay DEF AlwaysInv, Recorded
<1>6. ASSUME CalmInv PROVE CalmInv'
    <2>1. Apart' /\ StartersOpen'
        BY <1>1, <1>6, StillApart DEF AlwaysInv, Stopping
    <2>2. OneRuns' /\ DaemonsRun' /\ StopperReads'
        BY <1>1, <1>2, <1>6 DEF OneRuns, DaemonsRun, StopperReads, CalmInv
    <2>3. DaemonOwns'
        BY <1>1, <1>2 DEF DaemonOwns
    <2> QED
        BY <2>1, <2>2, <2>3 DEF CalmInv
<1> QED
    BY <1>3, <1>4, <1>5, <1>6 DEF AlwaysInv

\* Whoever has the number is hit; it stays calm only where no BTS is left.
LEMMA KillKeeps ==
    ASSUME AlwaysInv, NEW p \in Procs, Kill(p)
    PROVE  AlwaysInv' /\ (calm' /\ CalmInv => CalmInv')
<1> DEFINE hit == {q \in Procs : Alive(q) /\ Pid[q] = pid[p]}
<1>1. /\ pc[p] = "kill" /\ data' = data /\ path' = path /\ daemon' = daemon \ hit
      /\ fd' = fd /\ pid' = pid
      /\ pc' = [q \in Procs |-> IF q \in hit THEN "killed" ELSE IF q = p THEN "fclose" ELSE pc[q]]
      /\ lock' = [i \in Procs |-> IF lock[i] \in hit THEN None ELSE lock[i]]
    BY DEF Kill
<1> HIDE DEF hit
<1>2. \A q \in Procs : pc'[q] = IF q \in hit THEN "killed" ELSE IF q = p THEN "fclose" ELSE pc[q]
    BY <1>1
<1>3. TypeOK'
    BY <1>1 DEF AlwaysInv, TypeOK, Places, Stopping, Inodes
<1>4. Opened'
    BY <1>1, <1>2 DEF AlwaysInv, Opened
<1>5. LengthsKnown'
    BY <1>1, <1>2, LengthsStay DEF AlwaysInv, Recorded
<1>6. ASSUME calm', CalmInv PROVE CalmInv'
    <2>1. daemon' = {}
        BY <1>6 DEF Kill
    <2>2. \A q \in Procs : pc'[q] \notin Starting /\ pc'[q] # "run"
        <3>1. \A q \in Procs : pc[q] \notin Starting
            BY <1>1, <1>6 DEF Apart, CalmInv, Stopping
        <3>2. \A q \in Procs : pc[q] = "run" => q \in hit
            BY <1>1, <1>6, <2>1 DEF DaemonsRun, CalmInv
        <3> QED
            BY <1>2, <3>1, <3>2 DEF Starting
    <2>3. Apart' /\ StartersOpen'
        BY <2>2 DEF Apart, StartersOpen, Starting
    <2>4. OneRuns' /\ DaemonsRun' /\ DaemonOwns' /\ StopperReads'
        BY <2>1, <2>2 DEF OneRuns, DaemonsRun, DaemonOwns, StopperReads
    <2> QED
        BY <2>3, <2>4 DEF CalmInv
<1> QED
    BY <1>3, <1>4, <1>5, <1>6 DEF AlwaysInv

LEMMA FcloseKeeps ==
    ASSUME AlwaysInv, NEW p \in Procs, Fclose(p)
    PROVE  AlwaysInv' /\ (CalmInv => CalmInv')
<1> DEFINE place == IF p \in daemon THEN "run" ELSE "ended"
<1>1. /\ pc[p] = "fclose" /\ pc' = [pc EXCEPT ![p] = place] /\ lock' = Freed(p)
      /\ place \in {"run", "ended"}
      /\ path' = path /\ data' = data /\ daemon' = daemon /\ fd' = fd /\ pid' = pid
    BY DEF Fclose, Goes, Returns
<1>2. \A q \in Procs : pc'[q] = IF q = p THEN place ELSE pc[q]
    BY <1>1 DEF AlwaysInv, TypeOK
<1>3. TypeOK'
    BY <1>1, FreedOwn DEF AlwaysInv, TypeOK, Places
<1>4. Opened'
    BY <1>1, <1>2 DEF AlwaysInv, Opened
<1>5. LengthsKnown'
    BY <1>1, <1>2, LengthsStay DEF AlwaysInv, Recorded
<1>6. ASSUME CalmInv PROVE CalmInv'
    <2>1. p \notin daemon /\ place = "ended"
        BY <1>1, <1>6 DEF DaemonsRun, CalmInv
    <2>2. Apart' /\ StartersOpen'
        BY <1>1, <1>6, StillApart DEF AlwaysInv, Stopping
    <2>3. OneRuns' /\ DaemonsRun' /\ StopperReads'
        BY <1>1, <1>2, <1>6, <2>1 DEF OneRuns, DaemonsRun, StopperReads, CalmInv
    <2>4. \A i \in Procs : lock[i] # p => lock'[i] = lock[i]
        BY <1>1, FreedOwn DEF AlwaysInv
    <2>5. DaemonOwns'
        BY <1>1, <1>2, <1>6, <2>1, <2>4 DEF DaemonOwns, CalmInv, AlwaysInv, TypeOK, Inodes
    <2> QED
        BY <2>2, <2>3, <2>5 DEF CalmInv
<1> QED
    BY <1>3, <1>4, <1>5, <1>6 DEF AlwaysInv
-----------------------------------------------------------------------------
\* What was not calm never is again.
LEMMA CalmEnds ==
    ASSUME NEW p \in Procs, Start(p) \/ Dies(p) \/ KillBackground(p) \/ Call(p)
    PROVE  calm' => calm
BY DEF Start, Dies, KillBackground, Call, Open, Lock, Record, Fopen, Fscanf, Unlock, Remove, Kill,
       Fclose

LEMMA DaemonStep == DaemonInv /\ [Next]_vars => DaemonInv'
<1> SUFFICES ASSUME DaemonInv, [Next]_vars PROVE DaemonInv'
    OBVIOUS
<1>1. CASE UNCHANGED vars
    BY <1>1 DEF vars, files, DaemonInv, AlwaysInv, TypeOK, Opened, LengthsKnown, Recorded, CalmInv,
                Apart, OneRuns, DaemonsRun, StartersOpen, DaemonOwns, StopperReads
<1>2. CASE Next
    <2>1. AlwaysInv /\ (calm => CalmInv)
        BY DEF DaemonInv
    <2>2. PICK p \in Procs : Start(p) \/ Dies(p) \/ KillBackground(p) \/ Call(p)
        BY <1>2 DEF Next
    <2>3. calm' => calm
        BY <2>2, CalmEnds
    <2>4. CASE Start(p) \/ Dies(p) \/ KillBackground(p)
        BY <2>1, <2>3, <2>4, StartKeeps, DiesKeeps, KillBackgroundKeeps DEF DaemonInv
    <2>5. CASE Open(p) \/ Lock(p) \/ Record(p)
        BY <2>1, <2>3, <2>5, OpenKeeps, LockKeeps, RecordKeeps DEF DaemonInv
    <2>6. CASE Fopen(p) \/ Fscanf(p) \/ Unlock(p)
        BY <2>1, <2>3, <2>6, FopenKeeps, FscanfKeeps, UnlockKeeps DEF DaemonInv
    <2>7. CASE Remove(p) \/ Kill(p) \/ Fclose(p)
        BY <2>1, <2>3, <2>7, RemoveKeeps, KillKeeps, FcloseKeeps DEF DaemonInv
    <2> QED
        BY <2>2, <2>4, <2>5, <2>6, <2>7 DEF Call
<1> QED
    BY <1>1, <1>2

\* Until a start has overlapped with a stop, or a stop was cut short or has missed the BTS,
\* the name leads to the file that the running BTS has locked and whose first digits are its
\* number, from daemonize() to the unlink of whoever stops it.
THEOREM FileIsOwned == Spec => []DaemonInv
BY DaemonInit, DaemonStep, PTL DEF Spec

\* On those conditions no second BTS runs (daemonize(): "BTS already running"), however many
\* are started at once, whatever died and left its file, whatever lengths the numbers have
\* and however many stops overlap.
THEOREM NoSecondDaemon == Spec => []OneDaemon
<1>1. DaemonInv => OneDaemon
    BY DEF DaemonInv, CalmInv, OneRuns, OneDaemon
<1> QED
    BY <1>1, FileIsOwned, PTL

\* On those conditions, and unless a stop has removed the file and is about to kill, the
\* number of the BTS that runs stands first in the file its name leads to, and stands there
\* alone if no BTS with a longer number has been killed.
THEOREM StopFindsDaemon == Spec => []FileNamesDaemon
<1>1. DaemonInv => FileNamesDaemon
    <2> SUFFICES ASSUME DaemonInv, calm, NobodyIn({"kill"}), NEW q \in daemon
                 PROVE  /\ path # None
                        /\ StartsWith(data[path], Pid[q])
                        /\ ~ LongerDied(q) => data[path] = Pid[q]
        BY DEF FileNamesDaemon
    <2>1. CalmInv /\ AlwaysInv /\ q \in Procs
        BY DEF DaemonInv, AlwaysInv, TypeOK
    <2>2. path \in Procs /\ StartsWith(data[path], Pid[q])
        BY <2>1 DEF CalmInv, DaemonOwns, NobodyIn, AlwaysInv, TypeOK, Inodes
    <2>3. ASSUME ~ LongerDied(q) PROVE data[path] = Pid[q]
        <3>1. data[path] # << >>
            BY <2>1, <2>2, NumbersHaveDigits
        <3>2. PICK r \in Procs : Recorded(r) /\ Len(data[path]) <= Len(Pid[r])
            BY <2>1, <2>2, <3>1 DEF AlwaysInv, LengthsKnown
        <3>3. r = q \/ pc[r] = "killed"
            BY <2>1, <3>2 DEF Recorded, CalmInv, OneRuns
        <3>4. data[path] \in Text /\ Len(data[path]) \in Nat
            BY <2>1, <2>2 DEF AlwaysInv, TypeOK, Text
        <3>5. Len(Pid[r]) \in Nat /\ Len(Pid[q]) \in Nat
            BY <2>1, NumbersHaveDigits
        <3>6. Len(Pid[r]) <= Len(Pid[q])
            BY <2>3, <3>3, <3>5 DEF LongerDied
        <3>7. Len(Pid[q]) <= Len(data[path]) /\ SubSeq(data[path], 1, Len(Pid[q])) = Pid[q]
            BY <2>2 DEF StartsWith
        <3>8. Len(data[path]) = Len(Pid[q])
            BY <3>2, <3>4, <3>5, <3>6, <3>7
        <3>9. SubSeq(data[path], 1, Len(data[path])) = data[path]
            BY <3>4, WholeNumber
        <3> QED
            BY <3>7, <3>8, <3>9
    <2> QED
        BY <2>2, <2>3, NoneAssumption
<1> QED
    BY <1>1, FileIsOwned, PTL
=============================================================================
