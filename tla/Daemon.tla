------------------------------- MODULE Daemon -------------------------------
(***************************************************************************)
(* Starting and stopping softBTS (src/src/softbts.c): the lock file, the   *)
(* pid in it, and kill_background, which softbts -s runs and which the     *)
(* daemon runs on itself when it cannot go on.                             *)
(*                                                                         *)
(* Processes run concurrently, a step being a system call that touches the *)
(* file or another process.  The forks and the signal handler are folded   *)
(* into the steps that follow: a signal that arrives earlier ends the      *)
(* process too.  An open file is an inode, named after the process that    *)
(* created it; removing the file takes its name away.                      *)
(***************************************************************************)
EXTENDS Integers, Sequences

CONSTANTS
    Procs,      \* processes that are ever started
    Pid,        \* their process numbers, as strings of digits
    None        \* no process, no inode

ASSUME NoneAssumption == None \notin Procs
ASSUME PidAssumption ==
    /\ DOMAIN Pid = Procs
    /\ \A p \in Procs : Pid[p] \in Seq(0..9) \ {<<>>}
    /\ \A p, q \in Procs : Pid[p] = Pid[q] => p = q

VARIABLES
    path,       \* inode the lock file's name leads to
    data,       \* what is written in each inode
    lock,       \* who holds the lock of each inode
    pc,         \* where each process is
    fd,         \* inode each process has open
    daemon,     \* processes past daemonize()
    pid,        \* the number each process has read
    calm        \* external: so far no start has overlapped with a stop, no stop was cut short
                \* by a death, and none has missed the BTS that ran

files == <<path, data, lock>>
vars == <<files, pc, fd, daemon, pid, calm>>
-----------------------------------------------------------------------------
Init ==
    /\ path = None
    /\ data = [i \in Procs |-> <<>>]
    /\ lock = [i \in Procs |-> None]
    /\ pc = [p \in Procs |-> "new"]
    /\ fd = [p \in Procs |-> None]
    /\ daemon = {}
    /\ pid = [p \in Procs |-> <<>>]
    /\ calm = TRUE

Starting == {"open", "lockf", "write"}
Stopping == {"fopen", "fscanf", "unlock", "remove", "kill", "fclose"}

NobodyIn(places) == \A q \in Procs : pc[q] \notin places

Goes(p, place) == pc' = [pc EXCEPT ![p] = place]

Alive(q) == pc[q] \notin {"new", "ended", "killed"}

\* Locks held by a process that ends are released.
Released(p) == [i \in Procs |-> IF lock[i] = p THEN None ELSE lock[i]]
-----------------------------------------------------------------------------
(* main() and daemonize().                                                 *)

Start(p) ==
    /\ pc[p] = "new"
    /\ Goes(p, "open")
    /\ calm' = (calm /\ NobodyIn(Stopping))
    /\ UNCHANGED <<files, fd, daemon, pid>>

\* A variant: the number is recorded before the lock is tested.
OpenRecords(p) ==
    /\ pc[p] = "open"
    /\ path' = IF path = None THEN p ELSE path
    /\ data' = [data EXCEPT ![path'] = Pid[p]]
    /\ fd' = [fd EXCEPT ![p] = path']
    /\ Goes(p, "lockf")
    /\ UNCHANGED <<lock, daemon, pid, calm>>

\* O_CREAT, but no O_TRUNC.
Open(p) ==
    /\ pc[p] = "open"
    /\ path' = IF path = None THEN p ELSE path
    /\ fd' = [fd EXCEPT ![p] = path']
    /\ Goes(p, "lockf")
    /\ UNCHANGED <<data, lock, daemon, pid, calm>>

\* A variant: a lock that is not free is waited for no longer, and gone without.
LockAnyway(p) ==
    /\ pc[p] = "lockf"
    /\ lock' = IF lock[fd[p]] = None THEN [lock EXCEPT ![fd[p]] = p] ELSE lock
    /\ Goes(p, "write")
    /\ UNCHANGED <<path, data, fd, daemon, pid, calm>>

\* F_TLOCK: another BTS is running, or this one goes on.
Lock(p) ==
    /\ pc[p] = "lockf"
    /\ IF lock[fd[p]] = None
       THEN lock' = [lock EXCEPT ![fd[p]] = p] /\ Goes(p, "write")
       ELSE lock' = lock /\ Goes(p, "ended")
    /\ UNCHANGED <<path, data, fd, daemon, pid, calm>>

\* The number goes over what the file holds.
Over(s, t) == t \o SubSeq(s, Len(t) + 1, Len(s))

Record(p) ==
    /\ pc[p] = "write"
    /\ data' = [data EXCEPT ![fd[p]] = Over(@, Pid[p])]
    /\ daemon' = daemon \cup {p}
    /\ Goes(p, "run")
    /\ UNCHANGED <<path, lock, fd, pid, calm>>

\* A process is killed, or socket() fails: a daemon's file is not removed.
Dies(p) ==
    /\ Alive(p)
    /\ lock' = Released(p)
    /\ Goes(p, "killed")
    /\ daemon' = daemon \ {p}
    /\ calm' = (calm /\ pc[p] \notin Stopping)
    /\ UNCHANGED <<path, data, fd, pid>>
-----------------------------------------------------------------------------
(* kill_background().                                                      *)

\* softbts -s, or a daemon without a BSC.
KillBackground(p) ==
    /\ pc[p] \in {"new", "run"}
    /\ Goes(p, "fopen")
    /\ calm' = (calm /\ NobodyIn(Starting))
    /\ UNCHANGED <<files, fd, daemon, pid>>

\* Back to main(), which ends, or to what the daemon was about.
Returns(p) == Goes(p, IF p \in daemon THEN "run" ELSE "ended")

\* A daemon keeps the descriptor it has locked; fd is now the one it reads.
Fopen(p) ==
    /\ pc[p] = "fopen"
    /\ IF path = None
       THEN Returns(p) /\ fd' = fd
       ELSE Goes(p, "fscanf") /\ fd' = [fd EXCEPT ![p] = path]
    /\ UNCHANGED <<files, daemon, pid, calm>>

Fscanf(p) ==
    /\ pc[p] = "fscanf"
    /\ pid' = [pid EXCEPT ![p] = data[fd[p]]]
    /\ Goes(p, IF pid'[p] = <<>> THEN "fclose" ELSE "unlock")
    /\ UNCHANGED <<files, fd, daemon, calm>>

Freed(p) == IF lock[fd[p]] = p THEN [lock EXCEPT ![fd[p]] = None] ELSE lock

\* F_ULOCK gives back one's own lock only.
Unlock(p) ==
    /\ pc[p] = "unlock"
    /\ lock' = Freed(p)
    /\ Goes(p, "remove")
    /\ UNCHANGED <<path, data, fd, daemon, pid, calm>>

\* Whatever file has the name now.
Remove(p) ==
    /\ pc[p] = "remove"
    /\ path' = None
    /\ Goes(p, "kill")
    /\ UNCHANGED <<data, lock, fd, daemon, pid, calm>>

\* A variant: the number is looked up again in the file that has the name.
KillNamed(p) ==
    /\ pc[p] = "kill"
    /\ LET hit == {q \in Procs : Alive(q) /\ path # None /\ Pid[q] = data[path]} IN
       /\ pc' = [q \in Procs |-> IF q \in hit THEN "killed" ELSE IF q = p THEN "fclose" ELSE pc[q]]
       /\ lock' = [i \in Procs |-> IF lock[i] \in hit THEN None ELSE lock[i]]
       /\ daemon' = daemon \ hit
    /\ calm' = (calm /\ daemon' = {})
    /\ UNCHANGED <<path, data, fd, pid>>

\* SIGTERM to whoever has that number.
Kill(p) ==
    /\ pc[p] = "kill"
    /\ LET hit == {q \in Procs : Alive(q) /\ Pid[q] = pid[p]} IN
       /\ pc' = [q \in Procs |-> IF q \in hit THEN "killed" ELSE IF q = p THEN "fclose" ELSE pc[q]]
       /\ lock' = [i \in Procs |-> IF lock[i] \in hit THEN None ELSE lock[i]]
       /\ daemon' = daemon \ hit
    /\ calm' = (calm /\ daemon' = {})
    /\ UNCHANGED <<path, data, fd, pid>>

\* Closing gives back one's own lock of that inode too.
Fclose(p) ==
    /\ pc[p] = "fclose"
    /\ lock' = Freed(p)
    /\ Returns(p)
    /\ UNCHANGED <<path, data, fd, daemon, pid, calm>>
-----------------------------------------------------------------------------
Call(p) ==
    \/ Open(p) \/ Lock(p) \/ Record(p)
    \/ Fopen(p) \/ Fscanf(p) \/ Unlock(p) \/ Remove(p) \/ Kill(p) \/ Fclose(p)

Next == \E p \in Procs : Start(p) \/ Dies(p) \/ KillBackground(p) \/ Call(p)

Spec == Init /\ [][Next]_vars

\* A system call that was begun comes to an end.
FairSpec == Spec /\ \A p \in Procs : WF_vars(Call(p))
-----------------------------------------------------------------------------
\* The first digits in the file are q's number.
StartsWith(s, t) == Len(t) <= Len(s) /\ SubSeq(s, 1, Len(t)) = t

\* A BTS that has come to a violent end, with a number longer than q's.
LongerDied(q) == \E r \in Procs : pc[r] = "killed" /\ Len(Pid[r]) > Len(Pid[q])

\* Until a start has overlapped with a stop, a stop has been cut short or has missed the
\* BTS that ran, no second BTS runs ("BTS already running", softbts.c:417): however many
\* starts race for the lock, whatever died, and however many stops overlap.
OneDaemon == calm => \A p, q \in daemon : p = q

\* On the same conditions, and but for the moment between remove() and kill(), the name
\* leads to the file of the BTS that runs and its number stands first in it, though starts
\* that are refused open the file too.  The file is not truncated (softbts.c:409): digits
\* follow the number only where a BTS with a longer one has been killed.
FileNamesDaemon ==
    calm /\ NobodyIn({"kill"}) =>
        \A q \in daemon :
            /\ path # None
            /\ StartsWith(data[path], Pid[q])
            /\ ~ LongerDied(q) => data[path] = Pid[q]

\* The BTS whose lock and whose number alone the file has.
NamedAlone(q) == q \in daemon /\ path # None /\ lock[path] = q /\ data[path] = Pid[q]

\* A stop that begins while the file has the lock and the number of a BTS, and no digits
\* more, ends that BTS, whatever starts, refusals and deaths fall between its steps; unless
\* it is killed itself or overlaps with another stop (softbts.c:253).
StopEnds ==
    \A p, q \in Procs :
        pc[p] = "fopen" /\ NamedAlone(q) ~>
            \/ q \notin daemon
            \/ pc[p] = "killed"
            \/ \E r \in Procs \ {p} : pc[r] \in Stopping
=============================================================================
