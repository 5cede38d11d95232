---------------------------- MODULE InstanceLock ----------------------------
(***************************************************************************)
(* The lockfile of mfh.py: every start of the program opens LOCKFILE,      *)
(* takes a non-blocking flock on it, writes its pid and keeps the file     *)
(* open; an orderly end unlocks, closes and unlinks it.                    *)
(*                                                                         *)
(* A flock belongs to the open file description.  The children of an       *)
(* instance are forked with the description open, so a lock outlives a     *)
(* parent that dies without releasing it for as long as a child runs.      *)
(* A file is named here by the start that created it.                      *)
(***************************************************************************)
CONSTANTS
  Starts,        \* the times the program is started
  NoFile         \* no such file, or nothing open

LockAssumption == NoFile \notin Starts

VARIABLES
  pc,            \* how far each start has come
  path,          \* the file LOCKFILE names now
  fd,            \* the file each start has open as _lock_fd
  locked,        \* starts whose description holds the flock
  children,      \* starts whose child processes run
  written        \* the pid each file holds

vars == <<pc, path, fd, locked, children, written>>

Steps == {"new", "opened", "owner", "up", "releasing", "unlocked", "closed",
          "ended", "refused", "gone"}

TypeOK ==
  /\ pc \in [Starts -> Steps]
  /\ path \in Starts \cup {NoFile}
  /\ fd \in [Starts -> Starts \cup {NoFile}]
  /\ locked \subseteq Starts
  /\ children \subseteq Starts
  /\ written \in [Starts -> Starts \cup {NoFile}]
  /\ \A s \in locked : fd[s] # NoFile

Init ==
  /\ pc = [s \in Starts |-> "new"]
  /\ path = NoFile
  /\ fd = [s \in Starts |-> NoFile]
  /\ locked = {}
  /\ children = {}
  /\ written = [s \in Starts |-> NoFile]

Goto(s, step) == pc' = [pc EXCEPT ![s] = step]

\* open(LOCKFILE, 'w'): creates the file or truncates the one that is there.
Open(s) ==
  LET file == IF path = NoFile THEN s ELSE path IN
  /\ pc[s] = "new"
  /\ path' = file
  /\ fd' = [fd EXCEPT ![s] = file]
  /\ written' = [written EXCEPT ![file] = NoFile]
  /\ Goto(s, "opened")
  /\ UNCHANGED <<locked, children>>

\* A flock taken without LOCK_EX would not exclude another start.
FreeIfShared(f) == TRUE
Free(f) == \A t \in locked : fd[t] # f

Flock(s) ==
  /\ pc[s] = "opened"
  /\ Free(fd[s])
  /\ locked' = locked \cup {s}
  /\ Goto(s, "owner")
  /\ UNCHANGED <<path, fd, children, written>>

\* EAGAIN: 'Another instance is already running', sys.exit(1).
Refuse(s) ==
  /\ pc[s] = "opened"
  /\ ~Free(fd[s])
  /\ fd' = [fd EXCEPT ![s] = NoFile]
  /\ Goto(s, "refused")
  /\ UNCHANGED <<path, locked, children, written>>

\* The pid is flushed and the file deliberately stays open.
WritePid(s) ==
  /\ pc[s] = "owner"
  /\ written' = [written EXCEPT ![fd[s]] = s]
  /\ Goto(s, "up")
  /\ UNCHANGED <<path, fd, locked, children>>

StartChildren(s) ==
  /\ pc[s] = "up"
  /\ s \notin children
  /\ children' = children \cup {s}
  /\ UNCHANGED <<pc, path, fd, locked, written>>

\* The finally block: every child is terminated and joined, then
\* _release_lockfile unlocks, closes and unlinks.
StopChildren(s) ==
  /\ pc[s] = "up"
  /\ children' = children \ {s}
  /\ Goto(s, "releasing")
  /\ UNCHANGED <<path, fd, locked, written>>

Unlock(s) ==
  /\ pc[s] = "releasing"
  /\ locked' = locked \ {s}
  /\ Goto(s, "unlocked")
  /\ UNCHANGED <<path, fd, children, written>>

Close(s) ==
  /\ pc[s] = "unlocked"
  /\ fd' = [fd EXCEPT ![s] = NoFile]
  /\ Goto(s, "closed")
  /\ UNCHANGED <<path, locked, children, written>>

\* os.unlink by name, whatever file the name stands for by now; a missing
\* file is swallowed.
Unlink(s) ==
  /\ pc[s] = "closed"
  /\ path' = NoFile
  /\ Goto(s, "ended")
  /\ UNCHANGED <<fd, locked, children, written>>

Process == {"opened", "owner", "up", "releasing", "unlocked", "closed"}

\* What stays locked when the parent s dies: the children's copies of the
\* descriptor keep the description open.  A descriptor the children do not get
\* would lose the lock; a lock that is a mere file would stay behind for good.
KeptIfNotInherited(s) == locked \ {s}
KeptForever(s) == locked
Kept(s) == IF s \in children THEN locked ELSE locked \ {s}

\* SIGTERM (no handler is installed), SIGKILL or a crash of the parent.
Die(s) ==
  /\ pc[s] \in Process
  /\ locked' = Kept(s)
  /\ fd' = [fd EXCEPT ![s] = IF s \in children THEN @ ELSE NoFile]
  /\ Goto(s, "gone")
  /\ UNCHANGED <<path, children, written>>

\* The orphans end: the last copy of the description is closed.
OrphansEnd(s) ==
  /\ pc[s] = "gone"
  /\ s \in children
  /\ children' = children \ {s}
  /\ locked' = locked \ {s}
  /\ fd' = [fd EXCEPT ![s] = NoFile]
  /\ UNCHANGED <<pc, path, written>>

Done ==
  /\ \A s \in Starts : pc[s] \in {"ended", "refused", "gone"} /\ s \notin children
  /\ UNCHANGED vars

Next ==
  \/ \E s \in Starts :
       \/ Open(s) \/ Flock(s) \/ Refuse(s) \/ WritePid(s) \/ StartChildren(s)
       \/ StopChildren(s) \/ Unlock(s) \/ Close(s) \/ Unlink(s)
       \/ Die(s) \/ OrphansEnd(s)
  \/ Done

Spec == Init /\ [][Next]_vars

-----------------------------------------------------------------------------
\* The supervisor of s runs, or children it left behind do.
Active(s) == pc[s] = "up" \/ s \in children

\* No instance has unlinked the lockfile: not even one that was killed while
\* it released the lock.
NoneUnlinked == \A s \in Starts : pc[s] # "ended"

(***************************************************************************)
(* Until some instance ends in the orderly way, no two of them have        *)
(* processes at work, whichever parents are killed and however long their  *)
(* orphaned children hold the ports and the database: the children's       *)
(* copies of _lock_fd keep new starts out.  The last step of that end, the *)
(* unlink, is the only one that can let a second instance in.              *)
(***************************************************************************)
OneActive ==
  NoneUnlinked => \A s, t \in Starts : Active(s) /\ Active(t) => s = t

(***************************************************************************)
(* However starts and orderly ends interleave, two owners never share a    *)
(* file, and the pid in a running instance's file is its own: a start that *)
(* was refused may have emptied the file but has not signed it.            *)
(***************************************************************************)
OwnFile ==
  /\ \A s, t \in locked : fd[s] = fd[t] => s = t
  /\ \A s \in Starts : pc[s] = "up" => written[fd[s]] \in {s, NoFile}

(***************************************************************************)
(* "Acquire an exclusive lockfile to prevent multiple instances"           *)
(* (mfh.py:36): no two supervisors run at once.                            *)
(***************************************************************************)
OneInstance == \A s, t \in Starts : pc[s] = "up" /\ pc[t] = "up" => s = t

=============================================================================
