---------------------------- MODULE ServiceProofs ----------------------------
(***************************************************************************)
(* Proofs about the lockfile, the supervision loop and the retention of    *)
(* old rows, and the proof that every part of MCService keeps, in the      *)
(* whole, what it keeps alone: for any number of starts, children,         *)
(* threads, workers, ports, rows, processes, ranges and viewers.           *)
(***************************************************************************)
EXTENDS MCService, WellFoundedInduction, TLAPS

QueueP == INSTANCE ReportQueueProofs WITH pc <- threadPc
BoardP == INSTANCE DashboardProofs WITH stage <- refresher, open <- listening, pc <- viewer

-----------------------------------------------------------------------------
(* The lockfile.                                                           *)

(***************************************************************************)
(* Why the lock excludes: an instance owns the lock from Flock to Unlock,  *)
(* and after its death for as long as its children run; no file has two    *)
(* owners; and until the first unlink every open descriptor is of the file *)
(* that LOCKFILE names, so that there is one file to own.                  *)
(***************************************************************************)
Owning == {"owner", "up", "releasing"}

OwnerInv ==
  \A s \in Starts :
    /\ pc[s] \in Owning => s \in locked
    /\ s \in locked => pc[s] \in Owning \/ s \in children
    /\ s \in children => s \in locked /\ pc[s] \in {"up", "gone"}

OpenInv ==
  \A s \in Starts :
    /\ pc[s] = "opened" => fd[s] # NoFile
    /\ Lock!NoneUnlinked => fd[s] \in {NoFile, path}

LockInv == Lock!TypeOK /\ OwnerInv /\ OpenInv /\ Lock!OwnFile

(***************************************************************************)
(* It holds before anything is started,                                    *)
(***************************************************************************)
LEMMA InitLock ==
  ASSUME Lock!LockAssumption, Lock!Init
  PROVE  LockInv
BY DEF Lock!LockAssumption, Lock!Init, LockInv, Lock!TypeOK, OwnerInv, OpenInv, Lock!OwnFile,
       Lock!Steps, Owning, Lock!NoneUnlinked

(***************************************************************************)
(* is kept by the steps that take the lock, one by one,                              *)
(***************************************************************************)
LEMMA TakingKeepsLock ==
  ASSUME Lock!LockAssumption, LockInv, NEW s \in Starts,
         Lock!Open(s) \/ Lock!Flock(s) \/ Lock!Refuse(s) \/ Lock!WritePid(s) \/ Lock!StartChildren(s)
  PROVE  LockInv'
<1> USE DEF Lock!LockAssumption, LockInv, Lock!Steps, Owning, Lock!Goto
<1>1. CASE Lock!Open(s)
  <2>1. Lock!TypeOK'
    BY <1>1 DEF Lock!Open, Lock!TypeOK, OwnerInv
  <2>2. OwnerInv'
    BY <1>1 DEF Lock!Open, Lock!TypeOK, OwnerInv
  <2>3. OpenInv'
    BY <1>1 DEF Lock!Open, Lock!TypeOK, OpenInv, Lock!NoneUnlinked
  <2>4. Lock!OwnFile'
    BY <1>1 DEF Lock!Open, Lock!TypeOK, OwnerInv, Lock!OwnFile
  <2> QED BY <2>1, <2>2, <2>3, <2>4
<1>2. CASE Lock!Flock(s)
  <2>1. Lock!TypeOK' /\ OwnerInv' /\ OpenInv'
    BY <1>2 DEF Lock!Flock, Lock!TypeOK, OwnerInv, OpenInv, Lock!NoneUnlinked
  <2>2. Lock!OwnFile'
    BY <1>2 DEF Lock!Flock, Lock!Free, Lock!TypeOK, Lock!OwnFile
  <2> QED BY <2>1, <2>2
<1>3. CASE Lock!Refuse(s)
  BY <1>3 DEF Lock!Refuse, Lock!TypeOK, OwnerInv, OpenInv, Lock!NoneUnlinked, Lock!OwnFile
<1>4. CASE Lock!WritePid(s)
  <2>1. Lock!TypeOK' /\ OwnerInv' /\ OpenInv'
    BY <1>4 DEF Lock!WritePid, Lock!TypeOK, OwnerInv, OpenInv, Lock!NoneUnlinked
  <2>2. Lock!OwnFile'
    BY <1>4 DEF Lock!WritePid, Lock!TypeOK, OwnerInv, Lock!OwnFile
  <2> QED BY <2>1, <2>2
<1>5. CASE Lock!StartChildren(s)
  BY <1>5 DEF Lock!StartChildren, Lock!TypeOK, OwnerInv, OpenInv, Lock!NoneUnlinked, Lock!OwnFile
<1> QED BY <1>1, <1>2, <1>3, <1>4, <1>5

(***************************************************************************)
(* The steps that give it up, in order or by dying.                        *)
(***************************************************************************)
LEMMA ReleasingKeepsLock ==
  ASSUME Lock!LockAssumption, LockInv, NEW s \in Starts,
         \/ Lock!StopChildren(s) \/ Lock!Unlock(s) \/ Lock!Close(s) \/ Lock!Unlink(s)
         \/ Lock!Die(s) \/ Lock!OrphansEnd(s)
  PROVE  LockInv'
<1> USE DEF Lock!LockAssumption, LockInv, Lock!Steps, Owning, Lock!Goto
<1>1. CASE Lock!StopChildren(s)
  BY <1>1 DEF Lock!StopChildren, Lock!TypeOK, OwnerInv, OpenInv, Lock!NoneUnlinked, Lock!OwnFile
<1>2. CASE Lock!Unlock(s)
  BY <1>2 DEF Lock!Unlock, Lock!TypeOK, OwnerInv, OpenInv, Lock!NoneUnlinked, Lock!OwnFile
<1>3. CASE Lock!Close(s)
  BY <1>3 DEF Lock!Close, Lock!TypeOK, OwnerInv, OpenInv, Lock!NoneUnlinked, Lock!OwnFile
<1>4. CASE Lock!Unlink(s)
  BY <1>4 DEF Lock!Unlink, Lock!TypeOK, OwnerInv, OpenInv, Lock!NoneUnlinked, Lock!OwnFile
<1>5. CASE Lock!Die(s)
  <2>1. Lock!TypeOK' /\ OwnerInv'
    BY <1>5 DEF Lock!Die, Lock!Kept, Lock!Process, Lock!TypeOK, OwnerInv
  <2>2. OpenInv'
    BY <1>5 DEF Lock!Die, Lock!Kept, Lock!Process, Lock!TypeOK, OpenInv, Lock!NoneUnlinked
  <2>3. Lock!OwnFile'
    BY <1>5 DEF Lock!Die, Lock!Kept, Lock!Process, Lock!TypeOK, Lock!OwnFile
  <2> QED BY <2>1, <2>2, <2>3
<1>6. CASE Lock!OrphansEnd(s)
  BY <1>6 DEF Lock!OrphansEnd, Lock!TypeOK, OwnerInv, OpenInv, Lock!NoneUnlinked, Lock!OwnFile
<1> QED BY <1>1, <1>2, <1>3, <1>4, <1>5, <1>6

(***************************************************************************)
(* So it always holds.                                                     *)
(***************************************************************************)
LEMMA LockInvHolds ==
  ASSUME Lock!LockAssumption
  PROVE  Lock!Spec => []LockInv
<1>1. Lock!Init => LockInv
  BY InitLock
<1>2. LockInv /\ [Lock!Next]_(Lock!vars) => LockInv'
  <2> SUFFICES ASSUME LockInv, [Lock!Next]_(Lock!vars)
               PROVE  LockInv'
    OBVIOUS
  <2>1. CASE UNCHANGED Lock!vars
    BY <2>1 DEF Lock!vars, LockInv, Lock!TypeOK, OwnerInv, OpenInv, Lock!NoneUnlinked, Lock!OwnFile
  <2>2. CASE Lock!Next
    BY <2>1, <2>2, TakingKeepsLock, ReleasingKeepsLock DEF Lock!Next, Lock!Done
  <2> QED BY <2>1, <2>2
<1> QED BY <1>1, <1>2, PTL DEF Lock!Spec

(***************************************************************************)
(* Whatever starts are refused, killed or end, a file has one owner and    *)
(* holds no other pid than a running owner's.                              *)
(***************************************************************************)
THEOREM OwnFileHolds ==
  ASSUME Lock!LockAssumption
  PROVE  Lock!Spec => []Lock!OwnFile
<1>1. LockInv => Lock!OwnFile
  BY DEF LockInv
<1> QED BY <1>1, LockInvHolds, PTL

(***************************************************************************)
(* Until the first unlink, at most one instance has processes at work.     *)
(***************************************************************************)
THEOREM OneActiveHolds ==
  ASSUME Lock!LockAssumption
  PROVE  Lock!Spec => []Lock!OneActive
<1>1. LockInv => Lock!OneActive
  <2> SUFFICES ASSUME LockInv, Lock!NoneUnlinked,
                      NEW s \in Starts, NEW t \in Starts, Lock!Active(s), Lock!Active(t)
               PROVE  s = t
    BY DEF Lock!OneActive
  <2>1. s \in locked /\ t \in locked
    BY DEF LockInv, OwnerInv, Owning, Lock!Active
  <2>2. fd[s] = path /\ fd[t] = path
    BY <2>1 DEF LockInv, Lock!TypeOK, OpenInv
  <2> QED BY <2>1, <2>2 DEF LockInv, Lock!OwnFile
<1> QED BY <1>1, LockInvHolds, PTL

-----------------------------------------------------------------------------
(* The supervision loop.                                                   *)

(***************************************************************************)
(* The loop has looked at c in this pass.                                  *)
(***************************************************************************)
Polled(c) == \E i \in 1 .. Len(Order) : i < at /\ Order[i] = c

(***************************************************************************)
(* Why the outage is bounded: a child that was alive when last looked at   *)
(* is at most a pass unseen, one restarted a times has spent at most       *)
(* BackoffMax passes on each of the restarts before the last, and since    *)
(* that one the passes that "since" counts; and a child the loop leaves in *)
(* its cooldown has some of it left, so that "since" is never at its cap   *)
(* when a pass ends.                                                       *)
(***************************************************************************)
Spent(a) == 1 + a * BackoffMax

OutageInv ==
  stage = "loop" => \A c \in Children :
    /\ since[c] = Never => silent[c] <= IF Polled(c) THEN 0 ELSE 1
    /\ since[c] # Never => /\ attempts[c] >= 1
                           /\ silent[c] <= Spent(attempts[c] - 1) + since[c]
                           /\ Polled(c) => since[c] < BackoffMax

(***************************************************************************)
(* A child just started is the one the loop is at, and what called for its *)
(* restart still holds of it.                                              *)
(***************************************************************************)
KeepInv ==
  stage = "loop" => \A c \in started :
    at <= Len(Order) /\ c = Order[at] /\ attempts[c] < MaxRestarts /\ ~Cooling(c)

(***************************************************************************)
(* Why no other child is left: the finally block does not restart the      *)
(* children it has terminated.                                             *)
(***************************************************************************)
EndInv ==
  /\ stage = "finally" => \A c \in Children : Polled(c) /\ c \in alive => c \in started
  /\ stage = "over" => alive \subseteq started

LoopInv == TypeOK /\ OutageInv /\ KeepInv /\ EndInv

\* The numbers that SupervisorAssumption fixes.
LEMMA Numbers ==
  ASSUME SupervisorAssumption
  PROVE  /\ Len(Order) \in Nat
         /\ MaxRestarts \in Nat \ {0} /\ BackoffMax \in Nat \ {0}
         /\ Never \notin 0 .. BackoffMax
         /\ OutageMax \in Nat /\ OutageMax >= 1
         /\ SilentCap = OutageMax + 1
<1>1. Len(Order) \in Nat
  BY DEF SupervisorAssumption
<1>2. /\ MaxRestarts \in Nat \ {0} /\ BackoffMax \in Nat \ {0}
      /\ Never \notin 0 .. BackoffMax
  BY DEF SupervisorAssumption
<1>3. OutageMax \in Nat /\ OutageMax >= 1
  BY <1>2 DEF OutageMax
<1> QED BY <1>1, <1>2, <1>3 DEF SilentCap

(***************************************************************************)
(* A set of naturals that is not empty has a least element,                *)
(***************************************************************************)
LEMMA Smallest ==
  ASSUME NEW S, S \subseteq Nat, S # {}
  PROVE  \E x \in S : \A y \in S : x <= y
<1>1. PICK x \in S : \A y \in S : ~ (<<y, x>> \in OpToRel(<, Nat))
  BY NatLessThanWellFounded, WFMin, Zenon
<1>2. \A y \in S : ~ (y < x)
  BY <1>1 DEF OpToRel
<1>3. \A y \in S : x <= y
  BY <1>2
<1> QED BY <1>3

(***************************************************************************)
(* so that a set that goes on from 0 has them all.                         *)
(***************************************************************************)
LEMMA Induction ==
  ASSUME NEW S, 0 \in S, \A n \in Nat : n \in S => n + 1 \in S, NEW N \in Nat
  PROVE  N \in S
<1>1. ASSUME Nat \ S # {}
      PROVE  FALSE
  <2>1. PICK n \in Nat \ S : \A m \in Nat \ S : n <= m
    BY <1>1, Smallest
  <2>2. n # 0
    BY <2>1
  <2>3. n - 1 \in Nat /\ n - 1 \in S /\ (n - 1) + 1 = n
    BY <2>1, <2>2
  <2> QED BY <2>1, <2>3
<1> QED BY <1>1

(***************************************************************************)
(* f is defined up to n by recursion from start.                           *)
(***************************************************************************)
Recursive(f, n, start, next) ==
  f = [a \in 0 .. n |-> IF a = 0 THEN start ELSE next[<<f[a - 1], a>>]]

(***************************************************************************)
(* A recursion can be followed up to any number,                           *)
(***************************************************************************)
LEMMA RecursiveExists ==
  ASSUME NEW N \in Nat, NEW start \in Nat, NEW next \in [Nat \X Nat -> Nat]
  PROVE  \E f \in [0 .. N -> Nat] : Recursive(f, N, start, next)
<1> DEFINE Found(n) == \E f \in [0 .. n -> Nat] : Recursive(f, n, start, next)
<1>1. Found(0)
  <2>1. PICK f : f = [a \in 0 .. 0 |-> start]
    OBVIOUS
  <2>2. f \in [0 .. 0 -> Nat] /\ Recursive(f, 0, start, next)
    BY <2>1 DEF Recursive
  <2> QED BY <2>2
<1>2. ASSUME NEW n \in Nat, Found(n)
      PROVE  Found(n + 1)
  <2>1. PICK f \in [0 .. n -> Nat] : Recursive(f, n, start, next)
    BY <1>2
  <2>2. PICK g : g = [a \in 0 .. n + 1 |-> IF a = n + 1 THEN next[<<f[n], n + 1>>] ELSE f[a]]
    OBVIOUS
  <2>3. n \in 0 .. n /\ f[n] \in Nat
    OBVIOUS
  <2>4. next[<<f[n], n + 1>>] \in Nat
    BY <2>3
  <2>5. g \in [0 .. n + 1 -> Nat]
    BY <2>2, <2>4
  <2>6. \A a \in 0 .. n : g[a] = f[a]
    BY <2>2
  <2>7. ASSUME NEW a \in 0 .. n + 1
        PROVE  g[a] = IF a = 0 THEN start ELSE next[<<g[a - 1], a>>]
    <3>1. CASE a = n + 1
      <4>1. a # 0 /\ a - 1 = n /\ g[a - 1] = f[n]
        BY <2>3, <2>6, <3>1
      <4>2. g[a] = next[<<f[n], n + 1>>]
        BY <2>2, <3>1
      <4> QED BY <3>1, <4>1, <4>2
    <3>2. CASE a \in 0 .. n
      <4>1. f[a] = IF a = 0 THEN start ELSE next[<<f[a - 1], a>>]
        BY <2>1, <3>2 DEF Recursive
      <4>2. CASE a = 0
        BY <2>6, <3>2, <4>1, <4>2
      <4>3. CASE a # 0
        <5>1. a - 1 \in 0 .. n
          BY <3>2, <4>3
        <5> QED BY <2>6, <3>2, <4>1, <4>3, <5>1
      <4> QED BY <4>2, <4>3
    <3> QED BY <3>1, <3>2
  <2>8. Recursive(g, n + 1, start, next)
    BY <2>5, <2>7 DEF Recursive
  <2> QED BY <2>5, <2>8
<1> HIDE DEF Found
<1>3. PICK S : S = {n \in Nat : Found(n)}
  OBVIOUS
<1>4. 0 \in S /\ \A n \in Nat : n \in S => n + 1 \in S
  BY <1>1, <1>2, <1>3
<1>5. N \in S
  BY <1>4, Induction
<1> QED BY <1>3, <1>5 DEF Found

(***************************************************************************)
(* and what it gives does not depend on how far it is followed,            *)
(***************************************************************************)
LEMMA RecursiveAgree ==
  ASSUME NEW M \in Nat, NEW N \in Nat, NEW start, NEW next, NEW f, NEW g,
         Recursive(f, M, start, next), Recursive(g, N, start, next),
         NEW k \in Nat, k <= M, k <= N
  PROVE  f[k] = g[k]
<1>1. PICK S : S = {n \in Nat : n <= M /\ n <= N => f[n] = g[n]}
  OBVIOUS
<1>2. \A n \in Nat : n <= M => f[n] = IF n = 0 THEN start ELSE next[<<f[n - 1], n>>]
  BY DEF Recursive
<1>3. \A n \in Nat : n <= N => g[n] = IF n = 0 THEN start ELSE next[<<g[n - 1], n>>]
  BY DEF Recursive
<1>4. 0 \in S
  BY <1>1, <1>2, <1>3
<1>5. ASSUME NEW n \in Nat, n \in S, n + 1 <= M, n + 1 <= N
      PROVE  f[n + 1] = g[n + 1]
  <2>1. n <= M /\ n <= N /\ n + 1 # 0 /\ (n + 1) - 1 = n /\ n + 1 \in Nat
    BY <1>5
  <2>2. f[n] = g[n]
    BY <1>1, <1>5, <2>1
  <2>3. f[n + 1] = next[<<f[n], n + 1>>]
    BY <1>2, <1>5, <2>1
  <2>4. g[n + 1] = next[<<g[n], n + 1>>]
    BY <1>3, <1>5, <2>1
  <2> QED BY <2>2, <2>3, <2>4
<1>6. \A n \in Nat : n \in S => n + 1 \in S
  BY <1>1, <1>5
<1>7. k \in S
  BY <1>4, <1>6, Induction
<1> QED BY <1>1, <1>7

(***************************************************************************)
(* so that there is a function on the naturals that follows it all the way.*)
(***************************************************************************)
LEMMA Recursion ==
  ASSUME NEW start \in Nat, NEW next \in [Nat \X Nat -> Nat]
  PROVE  \E f : f = [a \in Nat |-> IF a = 0 THEN start ELSE next[<<f[a - 1], a>>]]
<1> DEFINE Upto(n) == CHOOSE h \in [0 .. n -> Nat] : Recursive(h, n, start, next)
<1>1. ASSUME NEW n \in Nat
      PROVE  Upto(n) \in [0 .. n -> Nat] /\ Recursive(Upto(n), n, start, next)
  BY RecursiveExists
<1> HIDE DEF Upto
<1>2. PICK f : f = [n \in Nat |-> Upto(n)[n]]
  OBVIOUS
<1>3. ASSUME NEW a \in Nat
      PROVE  f[a] = IF a = 0 THEN start ELSE next[<<f[a - 1], a>>]
  <2>1. Upto(a)[a] = IF a = 0 THEN start ELSE next[<<Upto(a)[a - 1], a>>]
    <3>1. Recursive(Upto(a), a, start, next)
      BY <1>1
    <3>2. a \in 0 .. a
      OBVIOUS
    <3> QED BY <3>1, <3>2 DEF Recursive
  <2>2. CASE a = 0
    BY <1>2, <2>1, <2>2
  <2>3. CASE a # 0
    <3>1. a - 1 \in Nat /\ a - 1 <= a /\ a - 1 <= a - 1
      BY <2>3
    <3>2. Upto(a)[a - 1] = Upto(a - 1)[a - 1]
      BY <1>1, <3>1, RecursiveAgree
    <3> QED BY <1>2, <2>1, <2>3, <3>1, <3>2
  <2> QED BY <2>2, <2>3
<1> QED BY <1>2, <1>3

(***************************************************************************)
(* The powers of two of the backoff are what their definition says.        *)
(***************************************************************************)
LEMMA TwoToRecursive ==
  /\ \A n \in Nat : TwoTo[n] \in Nat \ {0}
  /\ TwoTo = [n \in Nat |-> IF n = 0 THEN 1 ELSE 2 * TwoTo[n - 1]]
<1>1. PICK next : next = [p \in Nat \X Nat |-> 2 * p[1]]
  OBVIOUS
<1>2. next \in [Nat \X Nat -> Nat] /\ 1 \in Nat
  BY <1>1
<1>3. PICK f : f = [a \in Nat |-> IF a = 0 THEN 1 ELSE next[<<f[a - 1], a>>]]
  BY ONLY <1>2, Recursion
<1>4. PICK S : S = {n \in Nat : f[n] \in Nat \ {0}}
  OBVIOUS
<1>5. 0 \in S
  BY <1>3, <1>4
<1>6. ASSUME NEW n \in Nat, n \in S
      PROVE  n + 1 \in S
  <2>1. n + 1 # 0 /\ (n + 1) - 1 = n /\ n + 1 \in Nat
    OBVIOUS
  <2>2. f[n + 1] = next[<<f[n], n + 1>>]
    BY <1>3, <2>1
  <2>3. next[<<f[n], n + 1>>] = 2 * f[n]
    BY <1>1, <1>4, <1>6
  <2> QED BY <1>4, <1>6, <2>1, <2>2, <2>3
<1>7. \A n \in Nat : f[n] \in Nat \ {0}
  BY <1>4, <1>5, <1>6, Induction
<1>8. f = [a \in Nat |-> IF a = 0 THEN 1 ELSE 2 * f[a - 1]]
  <2>1. ASSUME NEW a \in Nat, a # 0
        PROVE  next[<<f[a - 1], a>>] = 2 * f[a - 1]
    BY <1>1, <1>7, <2>1
  <2> QED BY <1>3, <2>1
<1>9. TwoTo = CHOOSE h : h = [n \in Nat |-> IF n = 0 THEN 1 ELSE 2 * h[n - 1]]
  BY DEF TwoTo
<1>10. TwoTo = [n \in Nat |-> IF n = 0 THEN 1 ELSE 2 * TwoTo[n - 1]]
  BY <1>8, <1>9, Zenon
<1>11. PICK R : R = {n \in Nat : TwoTo[n] \in Nat \ {0}}
  OBVIOUS
<1>12. 0 \in R /\ \A n \in Nat : n \in R => n + 1 \in R
  <2>1. \A n \in Nat : n + 1 # 0 /\ (n + 1) - 1 = n /\ n + 1 \in Nat
    OBVIOUS
  <2> QED BY <1>10, <1>11, <2>1
<1>13. \A n \in Nat : n \in R
  BY <1>12, Induction
<1> QED BY <1>10, <1>11, <1>13

\* A cooldown takes at least a pass and at most BackoffMax.
LEMMA BackoffBounds ==
  ASSUME SupervisorAssumption, NEW n \in Nat
  PROVE  Backoff(n) \in Nat /\ Backoff(n) >= 1 /\ Backoff(n) <= BackoffMax
<1>1. BackoffBase \in Nat \ {0} /\ BackoffMax \in Nat \ {0}
  BY DEF SupervisorAssumption
<1>2. PICK t \in Nat \ {0} : t = TwoTo[n]
  BY TwoToRecursive
<1>3. BackoffBase * t \in Nat \ {0}
  BY <1>1, <1>2
<1> QED BY <1>1, <1>2, <1>3 DEF Backoff

\* The cooldowns add up.
LEMMA CooldownsAddUp ==
  ASSUME SupervisorAssumption
  PROVE  /\ \A n \in Nat : CooldownsUpTo[n] \in Nat
         /\ CooldownsUpTo[0] = 0
         /\ \A n \in Nat : CooldownsUpTo[n + 1] = CooldownsUpTo[n] + Backoff(n + 1)
<1>0. \A n \in Nat : Backoff(n) \in Nat
  BY BackoffBounds
<1>1. PICK next : next = [p \in Nat \X Nat |-> p[1] + Backoff(p[2])]
  OBVIOUS
<1>2. next \in [Nat \X Nat -> Nat] /\ 0 \in Nat
  BY <1>0, <1>1
<1>3. PICK f : f = [a \in Nat |-> IF a = 0 THEN 0 ELSE next[<<f[a - 1], a>>]]
  BY ONLY <1>2, Recursion
<1>4. PICK S : S = {n \in Nat : f[n] \in Nat}
  OBVIOUS
<1>5. 0 \in S
  BY <1>3, <1>4
<1>6. ASSUME NEW n \in Nat, n \in S
      PROVE  n + 1 \in S
  <2>1. n + 1 # 0 /\ (n + 1) - 1 = n /\ n + 1 \in Nat
    OBVIOUS
  <2>2. f[n + 1] = next[<<f[n], n + 1>>]
    BY <1>3, <2>1
  <2> QED BY <1>2, <1>4, <1>6, <2>1, <2>2
<1>7. \A n \in Nat : f[n] \in Nat
  BY <1>4, <1>5, <1>6, Induction
<1>8. f = [a \in Nat |-> IF a = 0 THEN 0 ELSE f[a - 1] + Backoff(a)]
  <2>1. ASSUME NEW a \in Nat, a # 0
        PROVE  next[<<f[a - 1], a>>] = f[a - 1] + Backoff(a)
    BY <1>1, <1>7, <2>1
  <2> QED BY <1>3, <2>1
<1>9. CooldownsUpTo = CHOOSE h : h = [n \in Nat |-> IF n = 0 THEN 0 ELSE h[n - 1] + Backoff(n)]
  BY DEF CooldownsUpTo
<1>10. CooldownsUpTo
         = [n \in Nat |-> IF n = 0 THEN 0 ELSE CooldownsUpTo[n - 1] + Backoff(n)]
  BY <1>8, <1>9, Zenon
<1>11. ASSUME NEW n \in Nat
       PROVE  CooldownsUpTo[n + 1] = CooldownsUpTo[n] + Backoff(n + 1)
  <2>1. n + 1 # 0 /\ (n + 1) - 1 = n /\ n + 1 \in Nat
    OBVIOUS
  <2> QED BY <1>10, <2>1
<1>12. CooldownsUpTo[0] = 0
  BY <1>10
<1>13. PICK R : R = {n \in Nat : CooldownsUpTo[n] \in Nat}
  OBVIOUS
<1>14. \A n \in Nat : Backoff(n + 1) \in Nat
  BY <1>0
<1>15. 0 \in R /\ \A n \in Nat : n \in R => n + 1 \in R
  BY <1>11, <1>12, <1>13, <1>14
<1>16. \A n \in Nat : n \in R
  BY <1>15, Induction
<1> QED BY <1>11, <1>12, <1>13, <1>16

\* What the restarts used up so far may have cost is within OutageMax.
LEMMA SpentGrows ==
  ASSUME SupervisorAssumption, NEW a \in Nat
  PROVE  /\ Spent(a) \in Nat /\ Spent(a) >= 1
         /\ Spent(a + 1) = Spent(a) + BackoffMax
         /\ a <= MaxRestarts => Spent(a) <= OutageMax
<1>1. BackoffMax \in Nat /\ MaxRestarts \in Nat
  BY Numbers
<1>2. Spent(a) \in Nat /\ Spent(a) >= 1 /\ Spent(a + 1) = Spent(a) + BackoffMax
  BY <1>1 DEF Spent
<1>3. a <= MaxRestarts => Spent(a) <= OutageMax
  BY <1>1 DEF Spent, OutageMax
<1> QED BY <1>2, <1>3

\* The loop starts with every child alive.
LEMMA InitLoop ==
  ASSUME SupervisorAssumption, Init
  PROVE  LoopInv
<1> USE Numbers DEF Init
<1>1. TypeOK
  BY DEF TypeOK
<1>2. OutageInv
  BY DEF OutageInv
<1>3. EndInv /\ KeepInv
  BY DEF EndInv, KeepInv
<1> QED BY <1>1, <1>2, <1>3 DEF LoopInv

(***************************************************************************)
(* Looking at c moves the loop past it.                                    *)
(***************************************************************************)
LEMMA Passing ==
  ASSUME SupervisorAssumption, TypeOK, NEW c \in Children,
         at <= Len(Order), c = Order[at], at' = at + 1
  PROVE  /\ at' \in 1 .. Len(Order) + 1
         /\ \A d \in Children : Polled(d)' <=> Polled(d) \/ d = c
<1>1. at \in 1 .. Len(Order) /\ Len(Order) \in Nat
  BY Numbers DEF TypeOK
<1>2. ASSUME NEW d \in Children
      PROVE  Polled(d)' <=> Polled(d) \/ d = c
  BY <1>1 DEF Polled
<1> QED BY <1>1, <1>2

\* Whatever the loop finds of a child, LoopInv is kept.
LEMMA LookingKeepsLoop ==
  ASSUME SupervisorAssumption, LoopInv, NEW c \in Children, LookAt(c)
  PROVE  LoopInv'
<1> USE DEF LoopInv
<1>1. CASE SeenAlive(c)
  <2>1. /\ at' \in 1 .. Len(Order) + 1
        /\ \A d \in Children : Polled(d)' <=> Polled(d) \/ d = c
    BY <1>1, Passing DEF SeenAlive, LooksAt
  <2>2. TypeOK'
    BY <1>1, <2>1, Numbers DEF SeenAlive, TypeOK
  <2>3. OutageInv'
    BY <1>1, <2>1, Numbers DEF SeenAlive, TypeOK, OutageInv
  <2>4. EndInv' /\ KeepInv'
    BY <1>1 DEF SeenAlive, LooksAt, EndInv, KeepInv
  <2> QED BY <2>2, <2>3, <2>4
<1>2. CASE CoolDown(c)
  <2>1. /\ at' \in 1 .. Len(Order) + 1
        /\ \A d \in Children : Polled(d)' <=> Polled(d) \/ d = c
    BY <1>2, Passing DEF CoolDown, LooksAt
  <2>2. TypeOK'
    BY <1>2, <2>1 DEF CoolDown, TypeOK
  <2>3. since[c] # Never /\ since[c] < BackoffMax
    <3>1. since[c] # Never /\ since[c] < Backoff(attempts[c])
      BY <1>2 DEF CoolDown, Cooling
    <3>2. since[c] \in Nat /\ attempts[c] \in Nat
      BY <3>1, Numbers DEF TypeOK
    <3>3. Backoff(attempts[c]) \in Nat /\ Backoff(attempts[c]) <= BackoffMax
      BY <3>2, BackoffBounds
    <3> QED BY <3>1, <3>2, <3>3, Numbers
  <2>4. OutageInv'
    BY <1>2, <2>1, <2>3 DEF CoolDown, OutageInv
  <2>5. EndInv' /\ KeepInv'
    BY <1>2 DEF CoolDown, LooksAt, EndInv, KeepInv
  <2> QED BY <2>2, <2>4, <2>5
<1>5. CASE Respawn(c)
  <2>1. /\ stage = "loop" /\ at <= Len(Order) /\ c = Order[at] /\ ~Cooling(c)
        /\ attempts[c] < MaxRestarts
        /\ alive' = alive \cup {c} /\ started' = {c}
        /\ UNCHANGED <<stage, at, attempts, since, silent>>
    BY <1>5, Numbers DEF Respawn, LooksAt, Exhausted, TypeOK
  <2>2. TypeOK'
    BY <2>1 DEF TypeOK
  <2>3. OutageInv'
    BY <2>1 DEF OutageInv, Polled, Spent
  <2>4. KeepInv' /\ EndInv'
    BY <2>1 DEF KeepInv, EndInv, Cooling, Backoff
  <2> QED BY <2>2, <2>3, <2>4
<1>3. CASE Keep(c)
  <2>0. at <= Len(Order) /\ c = Order[at] /\ attempts[c] < MaxRestarts
    BY <1>3 DEF Keep, KeepInv
  <2>1. /\ at' \in 1 .. Len(Order) + 1
        /\ \A d \in Children : Polled(d)' <=> Polled(d) \/ d = c
    BY <1>3, <2>0, Passing DEF Keep
  <2>2. /\ attempts[c] < MaxRestarts
        /\ stage = "loop" /\ stage' = "loop"
        /\ attempts' = [attempts EXCEPT ![c] = attempts[c] + 1]
        /\ since' = [since EXCEPT ![c] = 0]
        /\ alive' = alive /\ started' = {}
        /\ silent' = silent
    BY <1>3, <2>0 DEF Keep
  <2>3. TypeOK'
    BY <2>1, <2>2, Numbers DEF TypeOK
  <2>4. silent[c] <= Spent(attempts[c])
    <3>1. CASE since[c] = Never
      <4>1. silent[c] <= 1 /\ silent[c] \in Nat /\ attempts[c] \in Nat
        BY <2>2, <3>1, Numbers DEF OutageInv, TypeOK
      <4> QED BY <4>1, SpentGrows
    <3>2. CASE since[c] # Never
      <4>1. /\ attempts[c] - 1 \in Nat /\ since[c] \in 0 .. BackoffMax
            /\ silent[c] <= Spent(attempts[c] - 1) + since[c]
        BY <2>2, <3>2, Numbers DEF OutageInv, TypeOK
      <4>2. Spent(attempts[c] - 1) \in Nat
            /\ Spent(attempts[c] - 1) + BackoffMax = Spent(attempts[c])
        <5>1. attempts[c] \in Nat /\ (attempts[c] - 1) + 1 = attempts[c]
          BY Numbers DEF TypeOK
        <5> QED BY <4>1, <5>1, SpentGrows
      <4>3. silent[c] \in Nat
        BY Numbers DEF TypeOK
      <4> QED BY <4>1, <4>2, <4>3, Numbers
    <3> QED BY <3>1, <3>2
  <2>5. OutageInv'
    <3> SUFFICES ASSUME NEW d \in Children
        PROVE /\ since'[d] = Never => silent'[d] <= IF Polled(d)' THEN 0 ELSE 1
              /\ since'[d] # Never =>
                   /\ attempts'[d] >= 1
                   /\ silent'[d] <= Spent(attempts'[d] - 1) + since'[d]
                   /\ Polled(d)' => since'[d] < BackoffMax
      BY <2>2 DEF OutageInv, Spent
    <3>1. CASE d = c
      <4>1. since'[d] = 0 /\ attempts'[d] = attempts[c] + 1 /\ silent'[d] = silent[c]
        BY <2>2, <3>1 DEF TypeOK
      <4>2. attempts[c] \in Nat
        BY Numbers DEF TypeOK
      <4>3. attempts'[d] - 1 = attempts[c] /\ attempts'[d] >= 1
        BY <4>1, <4>2
      <4>4. Spent(attempts[c]) + 0 = Spent(attempts[c])
        BY <4>2, SpentGrows
      <4>5. 0 # Never /\ 0 < BackoffMax
        BY Numbers
      <4> QED BY <2>4, <4>1, <4>3, <4>4, <4>5
    <3>2. CASE d # c
      BY <2>1, <2>2, <3>2 DEF OutageInv, TypeOK
    <3> QED BY <3>1, <3>2
  <2>6. EndInv' /\ KeepInv'
    BY <2>2 DEF EndInv, KeepInv
  <2> QED BY <2>3, <2>5, <2>6
<1>4. CASE GiveUp(c)
  BY <1>4, Numbers DEF GiveUp, TypeOK, OutageInv, EndInv, KeepInv, Polled
<1> QED BY <1>1, <1>2, <1>3, <1>4, <1>5 DEF LookAt

(***************************************************************************)
(* A pass ends only when every child has been looked at.                   *)
(***************************************************************************)
LEMMA SleepKeepsLoop ==
  ASSUME SupervisorAssumption, LoopInv, Sleep
  PROVE  LoopInv'
<1> USE DEF LoopInv
<1>1. /\ stage = "loop" /\ stage' = "loop" /\ at' = 1
      /\ UNCHANGED <<alive, started, attempts>>
      /\ since' = [c \in Children |-> Later(since[c])]
      /\ silent' = [c \in Children |->
                      IF silent[c] < SilentCap THEN silent[c] + 1 ELSE silent[c]]
  BY DEF Sleep
<1>2. \A c \in Children : Polled(c) /\ ~Polled(c)'
  BY Numbers DEF Sleep, Polled, Children
<1>3. TypeOK'
  BY <1>1, Numbers DEF Later, TypeOK
<1>4. OutageInv'
  <2> SUFFICES ASSUME NEW c \in Children
      PROVE /\ since'[c] = Never => silent'[c] <= IF Polled(c)' THEN 0 ELSE 1
            /\ since'[c] # Never =>
                 /\ attempts'[c] >= 1
                 /\ silent'[c] <= Spent(attempts'[c] - 1) + since'[c]
                 /\ Polled(c)' => since'[c] < BackoffMax
    BY DEF OutageInv
  <2>1. silent[c] \in Nat /\ silent'[c] \in Nat /\ silent'[c] <= silent[c] + 1
    BY <1>1, Numbers DEF TypeOK
  <2>2. CASE since[c] = Never
    <3>1. silent[c] <= 0 /\ since'[c] = Never
      BY <1>1, <1>2, <2>2 DEF OutageInv, Later
    <3> QED BY <1>2, <2>1, <3>1
  <2>3. CASE since[c] # Never
    <3>1. /\ since[c] \in Nat /\ since[c] < BackoffMax
          /\ attempts[c] - 1 \in Nat
          /\ silent[c] <= Spent(attempts[c] - 1) + since[c]
      BY <1>1, <1>2, <2>3, Numbers DEF OutageInv, TypeOK
    <3>2. since'[c] = since[c] + 1
      BY <1>1, <2>3, <3>1 DEF Later
    <3>3. since'[c] # Never
      BY <1>3, <3>1, <3>2, Numbers DEF TypeOK
    <3>4. Spent(attempts[c] - 1) \in Nat
      BY <3>1, SpentGrows
    <3>5. silent'[c] <= Spent(attempts[c] - 1) + since'[c]
      BY <2>1, <3>1, <3>2, <3>4
    <3>6. attempts'[c] = attempts[c] /\ attempts[c] >= 1
      BY <1>1, <2>3 DEF OutageInv
    <3> QED BY <1>2, <3>3, <3>5, <3>6
  <2> QED BY <2>2, <2>3
<1>5. EndInv'
  BY <1>1 DEF EndInv
<1>6. KeepInv'
  <2>1. at = Len(Order) + 1 /\ Len(Order) \in Nat
    BY Numbers DEF Sleep
  <2>2. started = {}
    BY <1>1, <2>1 DEF KeepInv
  <2> QED BY <1>1, <2>2 DEF KeepInv
<1> QED BY <1>3, <1>4, <1>5, <1>6

(***************************************************************************)
(* The finally block, an interrupt and a child's death.                    *)
(***************************************************************************)
LEMMA EndingKeepsLoop ==
  ASSUME SupervisorAssumption, LoopInv,
         Terminate \/ Return \/ Interrupt \/ \E c \in Children : Die(c)
  PROVE  LoopInv'
<1> USE DEF LoopInv
<1>1. CASE Terminate
  <2>1. /\ at \in 1 .. Len(Order) /\ at' = at + 1
        /\ stage = "finally" /\ stage' = "finally"
        /\ alive' = alive \ ({Order[at]} \ started)
        /\ UNCHANGED <<started, attempts, since, silent>>
    BY <1>1, Numbers DEF Terminate, Terminated, TypeOK
  <2>2. TypeOK'
    BY <2>1, Numbers DEF TypeOK
  <2>3. ASSUME NEW c \in Children, Polled(c)', c \in alive'
        PROVE  c \in started'
    <3>1. Order[at] \in Children
      BY <2>1 DEF Children
    <3>2. Polled(c) \/ c = Order[at]
      BY <2>1, <2>3, <3>1, Numbers, Passing DEF TypeOK
    <3> QED BY <2>1, <2>3, <3>2 DEF EndInv
  <2> QED BY <2>1, <2>2, <2>3 DEF OutageInv, EndInv, KeepInv
<1>2. CASE Return
  <2>1. /\ at = Len(Order) + 1 /\ stage = "finally" /\ stage' = "over"
        /\ UNCHANGED <<at, alive, started, attempts, since, silent>>
    BY <1>2 DEF Return
  <2>2. \A c \in Children : Polled(c)
    BY <2>1, Numbers DEF Polled, Children
  <2>3. alive \subseteq started
    BY <2>1, <2>2 DEF EndInv, TypeOK
  <2> QED BY <2>1, <2>3 DEF TypeOK, OutageInv, KeepInv, EndInv
<1>3. CASE Interrupt
  BY <1>3, Numbers DEF Interrupt, TypeOK, OutageInv, KeepInv, EndInv, Polled
<1>4. CASE \E c \in Children : Die(c)
  BY <1>4 DEF Die, TypeOK, OutageInv, KeepInv, EndInv, Polled, Cooling, Backoff
<1> QED BY <1>1, <1>2, <1>3, <1>4

\* So LoopInv is invariant.
LEMMA LoopInvHolds ==
  ASSUME SupervisorAssumption
  PROVE  Spec => []LoopInv
<1>1. Init => LoopInv
  BY InitLoop
<1>2. LoopInv /\ [Next]_vars => LoopInv'
  <2> SUFFICES ASSUME LoopInv, [Next]_vars
               PROVE  LoopInv'
    OBVIOUS
  <2>1. CASE UNCHANGED vars
    BY <2>1 DEF vars, LoopInv, TypeOK, OutageInv, KeepInv, EndInv, Polled, Cooling, Backoff
  <2>2. CASE Next
    BY <2>1, <2>2, LookingKeepsLoop, SleepKeepsLoop, EndingKeepsLoop
       DEF Next, Step, Over
  <2> QED BY <2>1, <2>2
<1> QED BY <1>1, <1>2, PTL DEF Spec

(***************************************************************************)
(* Whatever the children do, none is unseen for longer than all of its     *)
(* backoffs together while the loop runs.                                  *)
(***************************************************************************)
THEOREM OutageBoundedHolds ==
  ASSUME SupervisorAssumption
  PROVE  Spec => []OutageBounded
<1>1. LoopInv => OutageBounded
  <2> SUFFICES ASSUME LoopInv, stage = "loop", NEW c \in Children
               PROVE  silent[c] <= OutageMax
    BY DEF OutageBounded
  <2>1. silent[c] \in Nat /\ attempts[c] \in 0 .. MaxRestarts
    BY Numbers DEF LoopInv, TypeOK
  <2>2. CASE since[c] = Never
    <3>1. silent[c] <= 1
      BY <2>1, <2>2 DEF LoopInv, OutageInv
    <3> QED BY <2>1, <3>1, Numbers
  <2>3. CASE since[c] # Never
    <3>1. /\ since[c] \in 0 .. BackoffMax /\ attempts[c] - 1 \in Nat
          /\ silent[c] <= Spent(attempts[c] - 1) + since[c]
      BY <2>1, <2>3, Numbers DEF LoopInv, TypeOK, OutageInv
    <3>2. /\ Spent(attempts[c] - 1) \in Nat
          /\ Spent((attempts[c] - 1) + 1) = Spent(attempts[c] - 1) + BackoffMax
      BY <3>1, SpentGrows
    <3>3. (attempts[c] - 1) + 1 = attempts[c] /\ attempts[c] \in Nat
      BY <2>1, <3>1
    <3>4. Spent(attempts[c]) <= OutageMax /\ Spent(attempts[c]) \in Nat
      <4>1. attempts[c] <= MaxRestarts
        BY <2>1, Numbers
      <4> QED BY <3>3, <4>1, SpentGrows
    <3> QED BY <2>1, <3>1, <3>2, <3>3, <3>4, Numbers
  <2> QED BY <2>2, <2>3
<1> QED BY <1>1, LoopInvHolds, PTL

(***************************************************************************)
(* Why the guard trips when it does: a child that is down has been silent  *)
(* for exactly the cooldowns of its earlier restarts and the passes since  *)
(* the last one, and for the pass that found it dead if that came before   *)
(* the first of them; it is restarted in the pass that ends its cooldown,  *)
(* never later; and attempts counts the restarts since it was last seen    *)
(* alive.                                                                  *)
(***************************************************************************)
Silence(c) == CooldownsUpTo[attempts[c] - 1] + since[c]

ExactInv ==
  stage = "loop" => \A c \in Children :
    /\ since[c] = Never => attempts[c] = 0
    /\ since[c] # Never => /\ attempts[c] >= 1
                           /\ since[c] <= Backoff(attempts[c])
                           /\ silent[c] \in {Silence(c), Silence(c) + 1}
                           /\ Polled(c) => since[c] < Backoff(attempts[c])

(***************************************************************************)
(* A child whose cooldown is over has had every cooldown up to its last.   *)
(***************************************************************************)
LEMMA CooldownOver ==
  ASSUME SupervisorAssumption, LoopInv, ExactInv, NEW c \in Children,
         stage = "loop", ~Cooling(c), since[c] # Never
  PROVE  silent[c] \in {CooldownsUpTo[attempts[c]], CooldownsUpTo[attempts[c]] + 1}
<1>1. /\ attempts[c] \in Nat /\ attempts[c] >= 1 /\ since[c] \in Nat /\ silent[c] \in Nat
  BY Numbers DEF LoopInv, TypeOK, ExactInv
<1>2. Backoff(attempts[c]) \in Nat
  BY <1>1, BackoffBounds
<1>3. since[c] = Backoff(attempts[c])
  BY <1>1, <1>2 DEF ExactInv, Cooling
<1>4. attempts[c] - 1 \in Nat /\ (attempts[c] - 1) + 1 = attempts[c]
  BY <1>1
<1>5. CooldownsUpTo[attempts[c]] = CooldownsUpTo[attempts[c] - 1] + Backoff(attempts[c])
  BY <1>4, CooldownsAddUp
<1> QED BY <1>3, <1>5 DEF ExactInv, Silence

\* Whatever the loop finds of a child,
LEMMA LookingKeepsExact ==
  ASSUME SupervisorAssumption, LoopInv, ExactInv, NEW c \in Children, LookAt(c)
  PROVE  ExactInv'
<1>1. CASE SeenAlive(c)
  <2>1. \A d \in Children : Polled(d)' <=> Polled(d) \/ d = c
    BY <1>1, Passing DEF SeenAlive, LooksAt, LoopInv
  <2>2. stage = "loop" /\ stage' = "loop"
    BY <1>1 DEF SeenAlive, LooksAt
  <2>3. ASSUME NEW d \in Children, d # c
        PROVE  /\ since'[d] = since[d] /\ attempts'[d] = attempts[d] /\ silent'[d] = silent[d]
               /\ Silence(d)' = Silence(d)
               /\ Polled(d)' <=> Polled(d)
    BY <1>1, <2>1, <2>3 DEF SeenAlive, LoopInv, TypeOK, Silence
  <2>4. since'[c] = Never /\ attempts'[c] = 0
    BY <1>1 DEF SeenAlive, LoopInv, TypeOK
  <2> QED BY <2>2, <2>3, <2>4 DEF ExactInv
<1>2. CASE CoolDown(c)
  <2>1. \A d \in Children : Polled(d)' <=> Polled(d) \/ d = c
    BY <1>2, Passing DEF CoolDown, LooksAt, LoopInv
  <2>2. /\ stage = "loop" /\ UNCHANGED <<stage, since, attempts, silent>>
        /\ since[c] < Backoff(attempts[c])
    BY <1>2 DEF CoolDown, LooksAt, Cooling
  <2> QED BY <2>1, <2>2 DEF ExactInv, Silence, Backoff
<1>5. CASE Respawn(c)
  BY <1>5 DEF Respawn, ExactInv, Polled, Silence, Backoff
<1>3. CASE Keep(c)
  <2>0. at <= Len(Order) /\ c = Order[at] /\ ~Cooling(c)
    BY <1>3 DEF Keep, LoopInv, KeepInv
  <2>1. \A d \in Children : Polled(d)' <=> Polled(d) \/ d = c
    BY <1>3, <2>0, Passing DEF Keep, LoopInv
  <2>2. stage = "loop" /\ stage' = "loop" /\ ~Cooling(c)
    BY <1>3, <2>0 DEF Keep
  <2>3. ASSUME NEW d \in Children, d # c
        PROVE  /\ since'[d] = since[d] /\ attempts'[d] = attempts[d] /\ silent'[d] = silent[d]
               /\ Silence(d)' = Silence(d)
               /\ Polled(d)' <=> Polled(d)
    BY <1>3, <2>1, <2>3 DEF Keep, LoopInv, TypeOK, Silence
  <2>4. since'[c] = 0 /\ attempts'[c] = attempts[c] + 1 /\ silent'[c] = silent[c]
    BY <1>3 DEF Keep, LoopInv, TypeOK
  <2>5. attempts[c] \in Nat /\ silent[c] \in Nat
    BY Numbers DEF LoopInv, TypeOK
  <2>6. Silence(c)' = CooldownsUpTo[attempts[c]]
    <3>1. (attempts[c] + 1) - 1 = attempts[c] /\ CooldownsUpTo[attempts[c]] \in Nat
      BY <2>5, CooldownsAddUp
    <3> QED BY <2>4, <3>1 DEF Silence
  <2>7. silent[c] \in {CooldownsUpTo[attempts[c]], CooldownsUpTo[attempts[c]] + 1}
    <3>1. CASE since[c] = Never
      <4>1. attempts[c] = 0 /\ silent[c] <= 1
        BY <2>2, <2>5, <3>1 DEF ExactInv, LoopInv, OutageInv
      <4> QED BY <2>5, <4>1, CooldownsAddUp
    <3>2. CASE since[c] # Never
      BY <2>2, <3>2, CooldownOver
    <3> QED BY <3>1, <3>2
  <2>8. Backoff(attempts'[c]) \in Nat /\ Backoff(attempts'[c]) >= 1
    BY <2>4, <2>5, BackoffBounds
  <2>9. 0 # Never /\ attempts'[c] >= 1
    BY <2>4, <2>5, Numbers
  <2> QED BY <2>2, <2>3, <2>4, <2>6, <2>7, <2>8, <2>9 DEF ExactInv, Backoff
<1>4. CASE GiveUp(c)
  BY <1>4 DEF GiveUp, ExactInv
<1> QED BY <1>1, <1>2, <1>3, <1>4, <1>5 DEF LookAt

(***************************************************************************)
(* and when a pass ends, in which SilentCap is never reached,              *)
(***************************************************************************)
LEMMA SleepKeepsExact ==
  ASSUME SupervisorAssumption, LoopInv, ExactInv, OutageBounded, Sleep
  PROVE  ExactInv'
<1>1. /\ stage = "loop" /\ stage' = "loop" /\ at' = 1
      /\ UNCHANGED <<alive, attempts>>
      /\ since' = [c \in Children |-> Later(since[c])]
      /\ silent' = [c \in Children |->
                      IF silent[c] < SilentCap THEN silent[c] + 1 ELSE silent[c]]
  BY DEF Sleep
<1>2. \A c \in Children : Polled(c) /\ ~Polled(c)'
  BY Numbers DEF Sleep, Polled, Children, LoopInv
<1> SUFFICES ASSUME NEW c \in Children
    PROVE /\ since'[c] = Never => attempts'[c] = 0
          /\ since'[c] # Never => /\ attempts'[c] >= 1
                                  /\ since'[c] <= Backoff(attempts'[c])
                                  /\ silent'[c] \in {Silence(c)', Silence(c)' + 1}
  BY <1>2 DEF ExactInv, Backoff
<1>3. silent[c] \in Nat /\ silent'[c] = silent[c] + 1
  BY <1>1, Numbers DEF LoopInv, TypeOK, OutageBounded
<1>4. CASE since[c] = Never
  <2>1. since'[c] = Never
    BY <1>1, <1>4 DEF Later
  <2> QED BY <1>1, <1>4, <2>1 DEF ExactInv
<1>5. CASE since[c] # Never
  <2>1. attempts[c] \in Nat /\ attempts[c] >= 1 /\ since[c] \in Nat
    BY <1>1, <1>5, Numbers DEF ExactInv, LoopInv, TypeOK
  <2>2. Backoff(attempts[c]) \in Nat /\ Backoff(attempts[c]) <= BackoffMax
    BY <2>1, BackoffBounds
  <2>3. since[c] < Backoff(attempts[c])
    BY <1>1, <1>2, <1>5 DEF ExactInv
  <2>4. since'[c] = since[c] + 1
    BY <1>1, <1>5, <2>1, <2>2, <2>3, Numbers DEF Later
  <2>5. attempts[c] - 1 \in Nat /\ CooldownsUpTo[attempts[c] - 1] \in Nat
    <3>1. attempts[c] - 1 \in Nat
      BY <2>1
    <3> QED BY <3>1, CooldownsAddUp
  <2>6. silent[c] \in {Silence(c), Silence(c) + 1}
    BY <1>1, <1>5 DEF ExactInv
  <2>7. Silence(c)' = Silence(c) + 1 /\ Silence(c) \in Nat
    BY <1>1, <2>1, <2>4, <2>5 DEF Silence
  <2>8. since'[c] # Never => silent'[c] \in {Silence(c)', Silence(c)' + 1}
    BY <1>3, <2>6, <2>7
  <2>9. since'[c] <= Backoff(attempts'[c]) /\ attempts'[c] >= 1 /\ since'[c] # Never
    <3>1. since'[c] \in 0 .. BackoffMax
      BY <2>1, <2>2, <2>3, <2>4, Numbers
    <3>2. attempts'[c] = attempts[c]
      BY <1>1
    <3> QED BY <2>1, <2>2, <2>3, <2>4, <3>1, <3>2, Numbers DEF Backoff
  <2> QED BY <2>8, <2>9
<1> QED BY <1>4, <1>5

\* ExactInv is kept.
LEMMA ExactInvHolds ==
  ASSUME SupervisorAssumption
  PROVE  Spec => []ExactInv
<1>1. Init => ExactInv
  BY Numbers DEF Init, ExactInv
<1>2. LoopInv /\ OutageBounded /\ ExactInv /\ [Next]_vars => ExactInv'
  <2> SUFFICES ASSUME LoopInv, OutageBounded, ExactInv, [Next]_vars
               PROVE  ExactInv'
    OBVIOUS
  <2>1. CASE UNCHANGED vars
    BY <2>1 DEF vars, ExactInv, Polled, Silence, Backoff
  <2>2. CASE Terminate \/ Return \/ Interrupt
    BY <2>2 DEF Terminate, Return, Interrupt, ExactInv
  <2>3. ASSUME NEW c \in Children, Die(c)
        PROVE  ExactInv'
    BY <2>3 DEF Die, ExactInv, Polled, Silence, Backoff
  <2>4. ASSUME NEW c \in Children, LookAt(c)
        PROVE  ExactInv'
    BY <2>4, LookingKeepsExact
  <2>5. CASE Sleep
    BY <2>5, SleepKeepsExact
  <2> QED BY <2>1, <2>2, <2>3, <2>4, <2>5 DEF Next, Step, Over
<1> QED BY <1>1, <1>2, LoopInvHolds, OutageBoundedHolds, PTL DEF Spec

(***************************************************************************)
(* The guard trips when every cooldown has passed in silence, and at no    *)
(* other moment (mfh.py:225-237), whatever the number of children and of   *)
(* restarts and however long the cooldowns.                                *)
(***************************************************************************)
LEMMA GivesUpInTime ==
  ASSUME SupervisorAssumption, LoopInv, ExactInv, NEW c \in Children, GiveUp(c)
  PROVE  silent[c] \in {Cooldowns, Cooldowns + 1}
<1>1. stage = "loop" /\ ~Cooling(c) /\ attempts[c] = MaxRestarts /\ MaxRestarts # 0
  BY Numbers DEF GiveUp, LooksAt, Exhausted, LoopInv, TypeOK
<1>2. since[c] # Never
  BY <1>1 DEF ExactInv
<1> QED BY <1>1, <1>2, CooldownOver DEF Cooldowns

(***************************************************************************)
(* run() leaves no child behind but one it has only just started.          *)
(***************************************************************************)
THEOREM NoChildLeftHolds ==
  ASSUME SupervisorAssumption
  PROVE  Spec => []NoChildLeft
<1>1. LoopInv => NoChildLeft
  BY DEF LoopInv, EndInv, NoChildLeft
<1> QED BY <1>1, LoopInvHolds, PTL

-----------------------------------------------------------------------------
(* The retention of old rows.                                              *)

(***************************************************************************)
(* Why rows survive: a call has chosen stored rows only, and from the      *)
(* commit of the archive on only rows that are in it; what waits in an     *)
(* open transaction to be deleted is in the archive or was to be dropped,  *)
(* whoever left it there; and only the connection that has the lock has    *)
(* such a transaction, so that a commit concerns its own rows.             *)
(***************************************************************************)
ChosenInv ==
  /\ old \subseteq stored
  /\ \A p \in Processes :
       /\ chosen[p] \subseteq stored
       /\ step[p] = "deleting" => chosen[p] \subseteq archive

DoomedInv ==
  \A p \in Processes :
    /\ doomed[p] \subseteq archive \cup dropped
    /\ doomed[p] # {} => p \in open

RowsInv == Archive!TypeOK /\ ChosenInv /\ DoomedInv /\ Archive!RowsSurvive

\* The retention starts with no process at work.
LEMMA InitRows == Archive!Init => RowsInv
BY DEF Archive!Init, RowsInv, Archive!TypeOK, ChosenInv, DoomedInv, Archive!RowsSurvive

(***************************************************************************)
(* A commit, be it of an insert that finds a transaction open.             *)
(***************************************************************************)
LEMMA CommitsKeepRows ==
  ASSUME RowsInv, NEW p \in Processes,
         Archive!Commit(p) \/ \E r \in Rows : Archive!Insert(p, r)
  PROVE  RowsInv'
<1> USE DEF RowsInv, Archive!TypeOK, ChosenInv, DoomedInv, Archive!RowsSurvive,
            Archive!Commits, Archive!Seen, Archive!Writable, Archive!Goes, Archive!Returns
<1>1. ASSUME Archive!Commit(p) PROVE RowsInv'
  <2>1. \A o \in Processes \ {p} : doomed[o] = {} \/ p \notin open
    BY <1>1
  <2>2. CASE p \in open
    BY <1>1, <2>1, <2>2 DEF Archive!Commit
  <2>3. CASE p \notin open
    BY <1>1, <2>3 DEF Archive!Commit
  <2> QED BY <2>2, <2>3
<1>2. ASSUME NEW r \in Rows, Archive!Insert(p, r) PROVE RowsInv'
  BY <1>2 DEF Archive!Insert
<1> QED BY <1>1, <1>2

(***************************************************************************)
(* The steps of archive_old_records and delete_old_records, one by one.    *)
(***************************************************************************)
LEMMA CallsKeepRows ==
  ASSUME RowsInv, NEW p \in Processes,
         \/ Archive!StartArchive(p) \/ Archive!ReadOld(p) \/ Archive!CopyFails(p)
         \/ Archive!Delete(p)
         \/ \E copied \in SUBSET Rows : Archive!Copy(p, copied)
         \/ Archive!StartDrop(p) \/ Archive!Drop(p) \/ Archive!Fails(p)
  PROVE  RowsInv'
<1> USE DEF RowsInv, Archive!TypeOK, ChosenInv, DoomedInv, Archive!RowsSurvive, Archive!Goes
<1>1. ASSUME Archive!StartArchive(p) \/ Archive!StartDrop(p) PROVE RowsInv'
  BY <1>1 DEF Archive!StartArchive, Archive!StartDrop
<1>2. ASSUME Archive!ReadOld(p) PROVE RowsInv'
  BY <1>2 DEF Archive!ReadOld
<1>3. ASSUME Archive!CopyFails(p) \/ Archive!Fails(p) PROVE RowsInv'
  BY <1>3 DEF Archive!CopyFails, Archive!Fails, Archive!Returns
<1>4. ASSUME NEW copied \in SUBSET Rows, Archive!Copy(p, copied) PROVE RowsInv'
  BY <1>4 DEF Archive!Copy, Archive!ArchivedIds
<1>5. ASSUME Archive!Delete(p) PROVE RowsInv'
  BY <1>5 DEF Archive!Delete, Archive!Writable
<1>6. ASSUME Archive!Drop(p) PROVE RowsInv'
  BY <1>6 DEF Archive!Drop, Archive!Writable, Archive!Seen
<1> QED BY <1>1, <1>2, <1>3, <1>4, <1>5, <1>6

\* A step of one process keeps RowsInv, a crash of it as well.
LEMMA NextKeepsRows == RowsInv /\ [Archive!Next]_(Archive!vars) => RowsInv'
<1> SUFFICES ASSUME RowsInv, [Archive!Next]_(Archive!vars) PROVE RowsInv'
  OBVIOUS
<1> USE DEF RowsInv, Archive!TypeOK, ChosenInv, DoomedInv, Archive!RowsSurvive
<1>1. ASSUME NEW p \in Processes, Archive!Crash(p) PROVE RowsInv'
  BY <1>1 DEF Archive!Crash, Archive!Returns, Archive!Goes
<1>2. ASSUME NEW r \in Rows, Archive!Age(r) PROVE RowsInv'
  BY <1>2 DEF Archive!Age
<1>3. ASSUME Archive!Kept \/ UNCHANGED Archive!vars PROVE RowsInv'
  BY <1>3 DEF Archive!Kept, Archive!vars
<1> QED BY <1>1, <1>2, <1>3, CommitsKeepRows, CallsKeepRows DEF Archive!Next

(***************************************************************************)
(* RowsSurvive of storage.py:1030-1143, for any number of rows and of      *)
(* processes: an archive that fails or is killed anywhere loses no row.    *)
(***************************************************************************)
THEOREM RowsSurviveHolds == Archive!Spec => []Archive!RowsSurvive
<1>1. RowsInv => Archive!RowsSurvive
  BY DEF RowsInv
<1> QED BY <1>1, InitRows, NextKeepsRows, PTL DEF Archive!Spec

(***************************************************************************)
(* The types of the state, of which the deletions of an open transaction   *)
(* being of rows still in the table is the one that takes the lock.        *)
(***************************************************************************)
THEOREM RowsTypeOK == Archive!Spec => []Archive!TypeOK
<1>1. RowsInv => Archive!TypeOK
  BY DEF RowsInv
<1> QED BY <1>1, InitRows, NextKeepsRows, PTL DEF Archive!Spec

-----------------------------------------------------------------------------
(* The listeners.                                                          *)

(***************************************************************************)
(* The port threads are where a port thread can be.                        *)
(***************************************************************************)
LEMMA ListenersTyped ==
  Listen!Init /\ [][Listen!Next]_(Listen!vars) => []Listen!TypeOK
<1> USE DEF Listen!TypeOK, Listen!Ports
<1>1. Listen!Init => Listen!TypeOK
  BY DEF Listen!Init
<1>2. Listen!TypeOK /\ [Listen!Next]_(Listen!vars) => Listen!TypeOK'
  <2> SUFFICES ASSUME Listen!TypeOK, [Listen!Next]_(Listen!vars) PROVE Listen!TypeOK'
    OBVIOUS
  <2>1. ASSUME Listen!Main \/ Listen!StopWaiting PROVE Listen!TypeOK'
    BY <2>1 DEF Listen!Main, Listen!Start, Listen!AllStarted, Listen!StopWaiting,
                Listen!StopJoining, Listen!Return, Listen!Exit
  <2>2. ASSUME NEW p \in Listen!Ports, Listen!Port(p) PROVE Listen!TypeOK'
    BY <2>2 DEF Listen!Port, Listen!Bind, Listen!Check, Listen!Receive, Listen!TimeOut,
                Listen!Fail, Listen!Goes, Listen!Exit
  <2>3. ASSUME Listen!SetEvent \/ Listen!Terminated PROVE Listen!TypeOK'
    BY <2>3 DEF Listen!SetEvent, Listen!Terminated, Listen!Exit
  <2>4. ASSUME UNCHANGED Listen!vars PROVE Listen!TypeOK'
    BY <2>4 DEF Listen!vars
  <2> QED BY <2>1, <2>2, <2>3, <2>4 DEF Listen!Next, Listen!Over
<1> QED BY <1>1, <1>2, PTL

-----------------------------------------------------------------------------
(* The parts together.                                                     *)

(*****************************************************************************)
(* The queue that the proofs are about is the one that runs ...             *)
(*****************************************************************************)
LEMMA QueueAgrees ==
  /\ Queue!QueueAssumption => QueueP!QueueAssumption
  /\ Queue!Init => QueueP!Init
  /\ [Queue!Next]_(Queue!vars) => [QueueP!Next]_(QueueP!vars)
  /\ QueueP!TypeOK => Queue!TypeOK
  /\ QueueP!OnePool => Queue!OnePool
  /\ QueueP!DrainedByExit => Queue!DrainedByExit
<1>1. Queue!QueueAssumption => QueueP!QueueAssumption
  BY DEF Queue!QueueAssumption, QueueP!QueueAssumption, Queue!Workers, QueueP!Workers,
      Queue!Pools, QueueP!Pools
<1>2. Queue!Init => QueueP!Init
  BY DEF Queue!Init, QueueP!Init, Queue!Pools, QueueP!Pools, Queue!Threads,
      QueueP!Threads, Queue!Workers, QueueP!Workers
<1>3. [Queue!Next]_(Queue!vars) => [QueueP!Next]_(QueueP!vars)
  BY DEF Queue!Next, QueueP!Next, Queue!Threads, QueueP!Threads, Queue!Advance,
      QueueP!Advance, Queue!Workers, QueueP!Workers, Queue!Sent, QueueP!Sent,
      Queue!Shutdown, QueueP!Shutdown, Queue!Stopped, QueueP!Stopped, Queue!LookUp,
      QueueP!LookUp, Queue!LookUpLocked, QueueP!LookUpLocked, Queue!StartPool,
      QueueP!StartPool, Queue!Return, QueueP!Return, Queue!Put, QueueP!Put, Queue!Take,
      QueueP!Take, Queue!WorkerExit, QueueP!WorkerExit, Queue!Pools, QueueP!Pools,
      Queue!StopNothing, QueueP!StopNothing, Queue!Stop, QueueP!Stop, Queue!Joining,
      QueueP!Joining, Queue!ParentStop, QueueP!ParentStop, Queue!vars, QueueP!vars,
      Queue!Creating, QueueP!Creating, Queue!StillMissing, QueueP!StillMissing,
      Queue!Enable, QueueP!Enable, Queue!StartWorker, QueueP!StartWorker, Queue!List,
      QueueP!List, Queue!HasQueue, QueueP!HasQueue, Queue!Room, QueueP!Room, Queue!GoesOn,
      QueueP!GoesOn, Queue!Pending, QueueP!Pending, Queue!Snapshot, QueueP!Snapshot,
      Queue!Join, QueueP!Join, Queue!Forget, QueueP!Forget, Queue!Clear, QueueP!Clear,
      Queue!PoolWorkers, QueueP!PoolWorkers, Queue!Born, QueueP!Born, Queue!InQueue,
      QueueP!InQueue, Queue!Joined, QueueP!Joined, Queue!Starting, QueueP!Starting
<1>4. QueueP!TypeOK => Queue!TypeOK
  BY DEF Queue!TypeOK, QueueP!TypeOK, Queue!Pools, QueueP!Pools, Queue!Threads,
      QueueP!Threads, Queue!ThreadSteps, QueueP!ThreadSteps, Queue!Workers, QueueP!Workers
<1>5. QueueP!OnePool => Queue!OnePool
  BY DEF Queue!OnePool, QueueP!OnePool
<1>6. QueueP!DrainedByExit => Queue!DrainedByExit
  BY DEF Queue!DrainedByExit, QueueP!DrainedByExit, Queue!Crew, QueueP!Crew,
      Queue!Workers, QueueP!Workers, Queue!Pools, QueueP!Pools
<1> QED BY <1>1, <1>2, <1>3, <1>4, <1>5, <1>6

(*****************************************************************************)
(* ... and so is the dashboard.                                             *)
(*****************************************************************************)
LEMMA BoardAgrees ==
  /\ Board!DashboardAssumption => BoardP!DashboardAssumption
  /\ Board!Init => BoardP!Init
  /\ [Board!Next]_(Board!vars) => [BoardP!Next]_(BoardP!vars)
  /\ BoardP!TypeOK => Board!TypeOK
  /\ BoardP!FragmentAsAsked => Board!FragmentAsAsked
  /\ BoardP!WarmAtOpen => Board!WarmAtOpen
<1>1. Board!DashboardAssumption => BoardP!DashboardAssumption
  BY DEF Board!DashboardAssumption, BoardP!DashboardAssumption, Board!Filtered,
      BoardP!Filtered, Board!Pages, BoardP!Pages, Board!Counts, BoardP!Counts
<1>2. Board!Init => BoardP!Init
  BY DEF Board!Init, BoardP!Init
<1>3. [Board!Next]_(Board!vars) => [BoardP!Next]_(BoardP!vars)
  BY DEF Board!Next, BoardP!Next, Board!Refresh, BoardP!Refresh, Board!Listen,
      BoardP!Listen, Board!Requests, BoardP!Requests, Board!Request, BoardP!Request,
      Board!Build, BoardP!Build, Board!BuildFails, BoardP!BuildFails, Board!Store,
      BoardP!Store, Board!Leave, BoardP!Leave, Board!Capture, BoardP!Capture, Board!Tick,
      BoardP!Tick, Board!BuildShared, BoardP!BuildShared, Board!SharedFails,
      BoardP!SharedFails, Board!ReadRange, BoardP!ReadRange, Board!StoreRange,
      BoardP!StoreRange, Board!RangeFails, BoardP!RangeFails, Board!Prime, BoardP!Prime,
      Board!EndPass, BoardP!EndPass, Board!Wake, BoardP!Wake, Board!caches, BoardP!caches,
      Board!refresherVars, BoardP!refresherVars, Board!viewerVars, BoardP!viewerVars,
      Board!Hit, BoardP!Hit, Board!Answers, BoardP!Answers, Board!Builds, BoardP!Builds,
      Board!Plain, BoardP!Plain, Board!Raises, BoardP!Raises, Board!BuiltFor,
      BoardP!BuiltFor, Board!Page, BoardP!Page, Board!Payload, BoardP!Payload,
      Board!Older, BoardP!Older, Board!Turn, BoardP!Turn, Board!NoFilter, BoardP!NoFilter,
      Board!AfterFailure, BoardP!AfterFailure, Board!Ready, BoardP!Ready, Board!AllBuilt,
      BoardP!AllBuilt, Board!vars, BoardP!vars
<1>4. BoardP!TypeOK => Board!TypeOK
  BY DEF Board!TypeOK, BoardP!TypeOK, Board!Counts, BoardP!Counts, Board!Payloads,
      BoardP!Payloads, Board!Pages, BoardP!Pages, Board!Requests, BoardP!Requests,
      Board!Filtered, BoardP!Filtered
<1>5. BoardP!FragmentAsAsked => Board!FragmentAsAsked
  BY DEF Board!FragmentAsAsked, BoardP!FragmentAsAsked, Board!Answered, BoardP!Answered
<1>6. BoardP!WarmAtOpen => Board!WarmAtOpen
  BY DEF Board!WarmAtOpen, BoardP!WarmAtOpen
<1> QED BY <1>1, <1>2, <1>3, <1>4, <1>5, <1>6

(***************************************************************************)
(* Each part of the whole behaves as it does alone: a step is one of the   *)
(* part that runs, and the others stutter.                                 *)
(***************************************************************************)
LEMMA PartsRun ==
  ServiceSpec => /\ Lock!Init /\ [][Lock!Next]_(Lock!vars)
                 /\ Spec
                 /\ Queue!Init /\ [][Queue!Next]_(Queue!vars)
                 /\ Listen!Init /\ [][Listen!Next]_(Listen!vars)
                 /\ Archive!Init /\ [][Archive!Next]_(Archive!vars)
                 /\ Board!Init /\ [][Board!Next]_(Board!vars)
<1> USE DEF ServiceNext, serviceVars, InLock, InLoop, InQueue, InListen, InArchive, InBoard
<1>1. ServiceInit => /\ Lock!Init /\ Init /\ Queue!Init /\ Listen!Init
                     /\ Archive!Init /\ Board!Init
  BY DEF ServiceInit
<1>2. [ServiceNext]_serviceVars => [Lock!Next]_(Lock!vars)
  BY DEF lockVars, Lock!vars
<1>3. [ServiceNext]_serviceVars => [Next]_vars
  OBVIOUS
<1>4. [ServiceNext]_serviceVars => [Queue!Next]_(Queue!vars)
  BY DEF queueVars, Queue!vars
<1>5. [ServiceNext]_serviceVars => [Listen!Next]_(Listen!vars)
  BY DEF listenVars, Listen!vars
<1>6. [ServiceNext]_serviceVars => [Archive!Next]_(Archive!vars)
  BY DEF archiveVars, Archive!vars
<1>7. [ServiceNext]_serviceVars => [Board!Next]_(Board!vars)
  BY DEF boardVars, Board!vars
<1> QED BY <1>1, <1>2, <1>3, <1>4, <1>5, <1>6, <1>7, PTL DEF ServiceSpec, Spec

(***************************************************************************)
(* The parameters are as the proofs of each part assume.                   *)
(***************************************************************************)
LEMMA PartsAssume ==
  /\ Lock!LockAssumption /\ SupervisorAssumption /\ QueueP!QueueAssumption
  /\ BoardP!DashboardAssumption
BY ServiceAssumption, QueueAgrees, BoardAgrees

(***************************************************************************)
(* So each part keeps in the whole what is proved of it alone: the lock,   *)
(***************************************************************************)
LEMMA LockServes == ServiceSpec => [](Lock!TypeOK /\ OneActive /\ OwnFile)
<1>1. Lock!Spec => [](Lock!TypeOK /\ OneActive /\ OwnFile)
  <2>1. LockInv => Lock!TypeOK
    BY DEF LockInv
  <2> QED BY <2>1, PartsAssume, LockInvHolds, OneActiveHolds, OwnFileHolds, PTL
          DEF OneActive, OwnFile
<1> QED BY <1>1, PartsRun, PTL DEF Lock!Spec

(***************************************************************************)
(* the queue,                                                              *)
(***************************************************************************)
LEMMA QueueServes == ServiceSpec => [](Queue!TypeOK /\ OnePool /\ DrainedByExit)
<1>1. QueueP!Spec => [](QueueP!TypeOK /\ QueueP!OnePool /\ QueueP!DrainedByExit)
  BY PartsAssume, QueueP!QueueTypeOK, QueueP!OnePoolHolds, QueueP!DrainedByExitHolds, PTL
<1>2. Queue!Init /\ [][Queue!Next]_(Queue!vars) => QueueP!Spec
  BY QueueAgrees, PTL DEF QueueP!Spec
<1>3. QueueP!TypeOK /\ QueueP!OnePool /\ QueueP!DrainedByExit =>
        Queue!TypeOK /\ OnePool /\ DrainedByExit
  BY QueueAgrees DEF OnePool, DrainedByExit
<1> QED BY <1>1, <1>2, <1>3, PartsRun, PTL

(***************************************************************************)
(* and the dashboard.                                                      *)
(***************************************************************************)
LEMMA BoardServes == ServiceSpec => [](Board!TypeOK /\ FragmentAsAsked /\ WarmAtOpen)
<1>1. BoardP!Init /\ [][BoardP!Next]_(BoardP!vars) =>
        [](BoardP!TypeOK /\ BoardP!FragmentAsAsked /\ BoardP!WarmAtOpen)
  BY PartsAssume, BoardP!DashboardTypeOK, BoardP!FragmentAsAskedHolds,
     BoardP!WarmAtOpenHolds, PTL
<1>2. Board!Init /\ [][Board!Next]_(Board!vars) =>
        BoardP!Init /\ [][BoardP!Next]_(BoardP!vars)
  BY BoardAgrees, PTL
<1>3. BoardP!TypeOK /\ BoardP!FragmentAsAsked /\ BoardP!WarmAtOpen =>
        Board!TypeOK /\ FragmentAsAsked /\ WarmAtOpen
  BY BoardAgrees DEF FragmentAsAsked, WarmAtOpen
<1> QED BY <1>1, <1>2, <1>3, PartsRun, PTL

(***************************************************************************)
(* Type correctness of the whole.                                          *)
(***************************************************************************)
THEOREM ServiceTypes == ServiceSpec => []ServiceTypeOK
<1>1. Spec => []TypeOK
  <2>1. LoopInv => TypeOK
    BY DEF LoopInv
  <2> QED BY <2>1, PartsAssume, LoopInvHolds, PTL
<1>2. Archive!Init /\ [][Archive!Next]_(Archive!vars) => []Archive!TypeOK
  BY RowsTypeOK, PTL DEF Archive!Spec
<1>3. Lock!TypeOK /\ TypeOK /\ Queue!TypeOK /\ Listen!TypeOK /\ Archive!TypeOK
        /\ Board!TypeOK => ServiceTypeOK
  BY DEF ServiceTypeOK
<1> QED BY <1>1, <1>2, <1>3, LockServes, QueueServes, BoardServes, ListenersTyped, PartsRun, PTL

(***************************************************************************)
(* The service ends because of a child only when every cooldown in turn    *)
(* has passed in silence: _maybe_restart gives up neither one too early    *)
(* nor one too late, and never on account of an earlier outage.            *)
(***************************************************************************)
THEOREM ServiceGivesUpAfterFullOutage == ServiceSpec => GivesUpAfterFullOutage
<1>1. LoopInv /\ ExactInv =>
        \A c \in Children : GiveUp(c) => silent[c] \in {Cooldowns, Cooldowns + 1}
  BY PartsAssume, GivesUpInTime
<1>2. Spec => [](LoopInv /\ ExactInv)
  BY PartsAssume, LoopInvHolds, ExactInvHolds, PTL
<1> QED BY <1>1, <1>2, PartsRun, PTL DEF GivesUpAfterFullOutage

(***************************************************************************)
(* Until some instance ends in the orderly way, no two of them have        *)
(* processes at work (_acquire_lock, _release_lock).                       *)
(***************************************************************************)
THEOREM ServiceOneActive == ServiceSpec => []OneActive
BY LockServes, PTL

(***************************************************************************)
(* Two owners of the lock never share a file, and the pid in a running     *)
(* instance's file is its own.                                             *)
(***************************************************************************)
THEOREM ServiceOwnFile == ServiceSpec => []OwnFile
BY LockServes, PTL

(***************************************************************************)
(* Concurrent first uses of the report queue make one pool.                *)
(***************************************************************************)
THEOREM ServiceOnePool == ServiceSpec => []OnePool
BY QueueServes, PTL

(***************************************************************************)
(* A queue whose workers have all ended has sent what it held when         *)
(* shutdown_report_executor began.                                         *)
(***************************************************************************)
THEOREM ServiceDrainedByExit == ServiceSpec => []DrainedByExit
BY QueueServes, PTL

(***************************************************************************)
(* A row leaves the table only into an archive or to be dropped.           *)
(***************************************************************************)
THEOREM ServiceRowsSurvive == ServiceSpec => []RowsSurvive
<1>1. Archive!Init /\ [][Archive!Next]_(Archive!vars) => []RowsSurvive
  BY RowsSurviveHolds, PTL DEF Archive!Spec, RowsSurvive
<1> QED BY <1>1, PartsRun, PTL

(***************************************************************************)
(* A fragment or a deeper page of the dashboard has the ip and the host    *)
(* that were asked for, and nothing that was not.                          *)
(***************************************************************************)
THEOREM ServiceFragmentAsAsked == ServiceSpec => []FragmentAsAsked
BY BoardServes, PTL

(***************************************************************************)
(* Once the refresher lets the port open, a page is there for the first    *)
(* visitor, unless a build has raised.                                     *)
(***************************************************************************)
THEOREM ServiceWarmAtOpen == ServiceSpec => []WarmAtOpen
BY BoardServes, PTL
=============================================================================
