----------------------------- MODULE LockProofs -----------------------------
(***************************************************************************)
(* Mutual exclusion of the spinlock and freedom from circular waiting under *)
(* the lock-order validator, for any number of threads and locks, any      *)
(* class of each lock and any depth of the validator's stack; and mutual   *)
(* exclusion and ownership of the mutex for any number of callers.         *)
(***************************************************************************)
EXTENDS LockOrder, Mutex, SequenceTheorems, WellFoundedInduction, TLAPS

(* What a thread's own state says beyond ValidatorKnows: it has a lock in  *)
(* hand unless it runs, it never holds two locks of one class, a lock it   *)
(* waits for has a larger class than all it holds, and a lock it has just  *)
(* released was its only one of that class.                                *)
ThreadInv(t) ==
  /\ (pc[t] = "run") <=> (want[t] = NoLock)
  /\ \A k, l \in holds[t] : Class[k] = Class[l] => k = l
  /\ pc[t] = "released" => \A l \in holds[t] : Class[l] # Class[want[t]]
  /\ Waiting(t) => /\ Depth(t) > 0
                   /\ \A l \in holds[t] : Class[l] < Class[want[t]]

(* ValidatorKnows, of one thread. *)
Knows(t) ==
  /\ \A l \in holds[t] : InStack(t, Class[l])
  /\ \A i, j \in 1..Depth(t) : i < j => Stack(t)[i] < Stack(t)[j]
  /\ Waiting(t) => Stack(t)[Depth(t)] = Class[want[t]]

(* The inductive invariant. *)
LockInv == /\ TypeOK
           /\ OneHolder
           /\ ValidatorKnows
           /\ \A t \in Threads : ThreadInv(t)

(* The two say the same. *)
LEMMA KnowsAll == ValidatorKnows <=> \A t \in Threads : Knows(t)
BY DEF ValidatorKnows, Knows, Waiting

(* A thread that a step does not touch keeps its part. *)
LEMMA Untouched ==
  ASSUME NEW u \in Threads, Knows(u), ThreadInv(u),
         held_class'[u] = held_class[u], pc'[u] = pc[u], want'[u] = want[u],
         holds'[u] = holds[u]
  PROVE  Knows(u)' /\ ThreadInv(u)'
BY DEF Knows, ThreadInv, Waiting, InStack, Depth, Stack

(* No lock is held or wanted when the kernel starts. *)
LEMMA InitLockInv == Init => LockInv
<1> SUFFICES ASSUME Init PROVE LockInv
  OBVIOUS
<1>1. TypeOK
  BY DEF Init, TypeOK
<1>2. OneHolder
  BY DEF Init, OneHolder
<1>3. ValidatorKnows
  <2> SUFFICES ASSUME NEW t \in Threads PROVE Knows(t)
    BY KnowsAll
  <2>1. 1..Depth(t) = {} /\ holds[t] = {} /\ pc[t] = "run"
    BY DEF Init, Depth, Stack
  <2> QED
    BY <2>1 DEF Knows, Waiting
<1>4. \A t \in Threads : ThreadInv(t)
  BY DEF Init, ThreadInv, Waiting
<1> QED
  BY <1>1, <1>2, <1>3, <1>4 DEF LockInv

-----------------------------------------------------------------------------
(* mcs_lockdep_before_acquire pushes a class above all the others. *)
LEMMA AcquireKeeps ==
  ASSUME LockInv, NEW t \in Threads, NEW l \in Locks, Acquire(t, l)
  PROVE  LockInv'
<1> DEFINE c == Class[l]
<1>0. /\ TypeOK /\ OneHolder /\ Knows(t) /\ ThreadInv(t)
      /\ \A u \in Threads : Knows(u) /\ ThreadInv(u)
  BY KnowsAll DEF LockInv
<1>1. c \in Nat /\ c # 0 /\ \A k \in Locks : Class[k] \in Nat
  BY LockOrderAssumption
<1>2. TypeOK'
  BY <1>0, <1>1 DEF TypeOK, Acquire
<1>3. OneHolder'
  BY <1>0 DEF OneHolder, Acquire
<1>4. /\ Stack(t) \in Seq(Nat) /\ Depth(t) \in Nat /\ pc[t] = "run"
      /\ Stack(t)' = Append(Stack(t), c) /\ Depth(t)' = Depth(t) + 1
      /\ \A i \in 1..Depth(t) : Stack(t)'[i] = Stack(t)[i] /\ Stack(t)[i] \in Nat
      /\ Stack(t)'[Depth(t) + 1] = c
      /\ holds'[t] = holds[t] /\ want'[t] = l /\ pc'[t] = "exchange" /\ holds[t] \subseteq Locks
  BY <1>0, <1>1 DEF TypeOK, Acquire, Stack, Depth
<1>5. \A i \in 1..Depth(t) : Stack(t)[i] < c
  <2> SUFFICES ASSUME NEW i \in 1..Depth(t) PROVE Stack(t)[i] < c
    OBVIOUS
  <2>1. c >= Stack(t)[Depth(t)] /\ c # Stack(t)[Depth(t)] /\ Depth(t) \in 1..Depth(t)
    BY <1>4 DEF Acquire, Allowed, InStack
  <2>2. i = Depth(t) \/ Stack(t)[i] < Stack(t)[Depth(t)]
    BY <1>0, <1>4, <2>1 DEF Knows
  <2> QED
    BY <1>1, <1>4, <2>1, <2>2
<1>6. Knows(t)'
  <2>1. \A k \in holds[t] : InStack(t, Class[k])'
    <3> SUFFICES ASSUME NEW k \in holds[t] PROVE \E i \in 1..(Depth(t) + 1) : Stack(t)'[i] = Class[k]
      BY <1>4 DEF InStack
    <3>1. PICK i \in 1..Depth(t) : Stack(t)[i] = Class[k]
      BY <1>0 DEF Knows, InStack
    <3>2. Depth(t) \in Nat
      BY <1>4
    <3>3. i \in 1..(Depth(t) + 1)
      BY <3>2
    <3>4. Stack(t)'[i] = Stack(t)[i]
      BY <1>4
    <3> QED
      BY <3>1, <3>3, <3>4
  <2>2. \A i, j \in 1..(Depth(t) + 1) : i < j => Stack(t)'[i] < Stack(t)'[j]
    <3> SUFFICES ASSUME NEW i \in 1..(Depth(t) + 1), NEW j \in 1..(Depth(t) + 1), i < j
                 PROVE  Stack(t)'[i] < Stack(t)'[j]
      OBVIOUS
    <3>1. CASE j = Depth(t) + 1
      BY <1>4, <1>5, <3>1
    <3>2. CASE j # Depth(t) + 1
      <4>1. i \in 1..Depth(t) /\ j \in 1..Depth(t)
        BY <1>4, <3>2
      <4>2. Stack(t)[i] < Stack(t)[j]
        BY <1>0, <4>1 DEF Knows
      <4> QED
        BY <1>4, <4>1, <4>2
    <3> QED
      BY <3>1, <3>2
  <2> QED
    BY <1>4, <2>1, <2>2 DEF Knows, Waiting
<1>7. ThreadInv(t)'
  <2>1. \A k \in holds[t] : Class[k] < c
    BY <1>0, <1>5 DEF Knows, InStack
  <2>2. l # NoLock
    BY LockOrderAssumption
  <2> QED
    BY <1>0, <1>4, <2>1, <2>2 DEF ThreadInv, Waiting
<1>8. ASSUME NEW u \in Threads, u # t PROVE Knows(u)' /\ ThreadInv(u)'
  BY <1>0, <1>8, Untouched DEF TypeOK, Acquire
<1> QED
  BY <1>2, <1>3, <1>6, <1>7, <1>8, KnowsAll DEF LockInv, ValidatorKnows, Knows, Waiting

(* The exchange takes a free lock, which nobody holds, or finds it taken. *)
LEMMA ExchangeKeeps ==
  ASSUME LockInv, NEW t \in Threads, Exchange(t)
  PROVE  LockInv'
<1> DEFINE w == want[t]
<1>0. /\ TypeOK /\ OneHolder /\ Knows(t) /\ ThreadInv(t)
      /\ \A u \in Threads : Knows(u) /\ ThreadInv(u)
  BY KnowsAll DEF LockInv
<1>1. /\ w \in Locks /\ pc[t] = "exchange" /\ holds[t] \subseteq Locks
      /\ Stack(t)' = Stack(t) /\ Depth(t)' = Depth(t) /\ Depth(t) \in Nat /\ Depth(t) > 0
      /\ Stack(t)[Depth(t)] = Class[w]
      /\ \A l \in holds[t] : Class[l] < Class[w]
      /\ \A l \in Locks : Class[l] \in Nat
  BY <1>0, LockOrderAssumption DEF TypeOK, Exchange, ThreadInv, Knows, Waiting, Stack, Depth
<1>2. ASSUME NEW u \in Threads, u # t PROVE Knows(u)' /\ ThreadInv(u)'
  BY <1>0, <1>2, Untouched DEF TypeOK, Exchange
<1>3. CASE locked[w]
  <2>1. /\ pc' = [pc EXCEPT ![t] = "spin"] /\ UNCHANGED <<want, holds, held_class>>
        /\ locked' = [locked EXCEPT ![w] = TRUE]
    BY <1>3 DEF Exchange
  <2>2. TypeOK'
    BY <1>0, <1>1, <2>1 DEF TypeOK
  <2>3. OneHolder'
    BY <1>0, <1>1, <1>3, <2>1 DEF OneHolder, TypeOK
  <2>4. Knows(t)' /\ ThreadInv(t)'
    BY <1>0, <1>1, <2>1 DEF Knows, ThreadInv, Waiting, InStack, Depth, Stack, TypeOK
  <2> QED
    BY <1>2, <2>2, <2>3, <2>4, KnowsAll DEF LockInv, ValidatorKnows, Knows, Waiting
<1>4. CASE ~locked[w]
  <2>1. /\ pc' = [pc EXCEPT ![t] = "run"] /\ held_class' = held_class
        /\ locked' = [locked EXCEPT ![w] = TRUE]
        /\ holds' = [holds EXCEPT ![t] = @ \cup {w}]
        /\ want' = [want EXCEPT ![t] = NoLock]
    BY <1>4 DEF Exchange
  <2>2. TypeOK'
    BY <1>0, <1>1, <2>1 DEF TypeOK
  <2>3. OneHolder'
    <3>1. \A u \in Threads : w \notin holds[u]
      BY <1>0, <1>1, <1>4 DEF OneHolder
    <3>2. \A u \in Threads : holds'[u] = IF u = t THEN holds[u] \cup {w} ELSE holds[u]
      BY <1>0, <2>1 DEF TypeOK
    <3>3. \A l \in Locks : locked'[l] = IF l = w THEN TRUE ELSE locked[l]
      BY <1>0, <2>1 DEF TypeOK
    <3>4. ASSUME NEW l \in Locks, l = w
          PROVE  /\ \A u, v \in Threads : l \in holds'[u] /\ l \in holds'[v] => u = v
                 /\ locked'[l] <=> \E u \in Threads : l \in holds'[u]
      BY <3>1, <3>2, <3>3, <3>4
    <3>5. ASSUME NEW l \in Locks, l # w
          PROVE  /\ \A u, v \in Threads : l \in holds'[u] /\ l \in holds'[v] => u = v
                 /\ locked'[l] <=> \E u \in Threads : l \in holds'[u]
      <4>1. \A u \in Threads : l \in holds'[u] <=> l \in holds[u]
        BY <3>2, <3>5
      <4>2. locked'[l] <=> locked[l]
        BY <3>3, <3>5
      <4> QED
        BY <1>0, <4>1, <4>2 DEF OneHolder
    <3> QED
      BY <3>4, <3>5 DEF OneHolder
  <2>4. pc'[t] = "run" /\ want'[t] = NoLock /\ holds'[t] = holds[t] \cup {w}
    BY <1>0, <2>1 DEF TypeOK
  <2>5. Knows(t)'
    <3>1. InStack(t, Class[w])
      BY <1>1 DEF InStack
    <3> QED
      BY <1>0, <1>1, <2>4, <3>1 DEF Knows, InStack, Waiting
  <2>6. ThreadInv(t)'
    <3>1. \A k \in holds[t] : Class[k] # Class[w]
      BY <1>1
    <3> QED
      BY <1>0, <2>4, <3>1 DEF ThreadInv, Waiting
  <2> QED
    BY <1>2, <2>2, <2>3, <2>5, <2>6, KnowsAll DEF LockInv, ValidatorKnows, Knows, Waiting
<1> QED
  BY <1>3, <1>4

(* Watching the lock changes nothing but the place in the loop. *)
LEMMA SpinKeeps ==
  ASSUME LockInv, NEW t \in Threads, Spin(t)
  PROVE  LockInv'
<1>0. /\ TypeOK /\ OneHolder /\ Knows(t) /\ ThreadInv(t)
      /\ \A u \in Threads : Knows(u) /\ ThreadInv(u)
  BY KnowsAll DEF LockInv
<1>1. /\ pc[t] = "spin" /\ pc'[t] = "exchange" /\ UNCHANGED <<locked, held_class, want, holds>>
      /\ \A u \in Threads : u # t => pc'[u] = pc[u]
  BY <1>0 DEF Spin, TypeOK
<1>2. TypeOK' /\ OneHolder'
  BY <1>0, <1>1 DEF TypeOK, OneHolder, Spin
<1>3. Knows(t)' /\ ThreadInv(t)'
  BY <1>0, <1>1 DEF Knows, ThreadInv, Waiting, InStack, Depth, Stack
<1>4. ASSUME NEW u \in Threads, u # t PROVE Knows(u)' /\ ThreadInv(u)'
  BY <1>0, <1>1, <1>4, Untouched
<1> QED
  BY <1>2, <1>3, <1>4, KnowsAll DEF LockInv, ValidatorKnows, Knows, Waiting

(* mcs_spin_unlock gives up one of the thread's locks. *)
LEMMA UnlockKeeps ==
  ASSUME LockInv, NEW t \in Threads, NEW l \in Locks, Unlock(t, l)
  PROVE  LockInv'
<1>0. /\ TypeOK /\ OneHolder /\ Knows(t) /\ ThreadInv(t)
      /\ \A u \in Threads : Knows(u) /\ ThreadInv(u)
  BY KnowsAll DEF LockInv
<1>1. /\ l \in holds[t] /\ l # NoLock
      /\ pc'[t] = "released" /\ want'[t] = l /\ holds'[t] = holds[t] \ {l}
      /\ held_class' = held_class
      /\ \A u \in Threads : u # t => holds'[u] = holds[u]
      /\ \A k \in Locks : locked'[k] = IF k = l THEN FALSE ELSE locked[k]
  BY <1>0, LockOrderAssumption DEF TypeOK, Unlock
<1>2. TypeOK'
  BY <1>0 DEF TypeOK, Unlock
<1>3. OneHolder'
  <2>1. \A u \in Threads : l \notin holds'[u]
    BY <1>0, <1>1 DEF OneHolder
  <2>2. ASSUME NEW k \in Locks, k # l
        PROVE  /\ \A u, v \in Threads : k \in holds'[u] /\ k \in holds'[v] => u = v
               /\ locked'[k] <=> \E u \in Threads : k \in holds'[u]
    <3>1. \A u \in Threads : k \in holds'[u] <=> k \in holds[u]
      BY <1>1, <2>2
    <3>2. locked'[k] <=> locked[k]
      BY <1>1, <2>2
    <3> QED
      BY <1>0, <3>1, <3>2 DEF OneHolder
  <2>3. ~locked'[l]
    BY <1>1
  <2> QED
    BY <2>1, <2>2, <2>3 DEF OneHolder
<1>4. Knows(t)'
  BY <1>0, <1>1 DEF Knows, InStack, Depth, Stack, Waiting
<1>5. ThreadInv(t)'
  <2>1. \A k \in holds'[t] : Class[k] # Class[l]
    BY <1>0, <1>1 DEF ThreadInv
  <2> QED
    BY <1>0, <1>1, <2>1 DEF ThreadInv, Waiting
<1>6. ASSUME NEW u \in Threads, u # t PROVE Knows(u)' /\ ThreadInv(u)'
  BY <1>0, <1>6, Untouched DEF TypeOK, Unlock
<1> QED
  BY <1>2, <1>3, <1>4, <1>5, <1>6, KnowsAll DEF LockInv, ValidatorKnows, Knows, Waiting

(* What popping the top leaves of a stack. *)
LEMMA WithoutTop ==
  ASSUME NEW s \in Seq(Nat), Len(s) > 0
  PROVE  /\ SubSeq(s, 1, Len(s) - 1) \in Seq(Nat)
         /\ Len(SubSeq(s, 1, Len(s) - 1)) = Len(s) - 1
         /\ \A i \in 1..(Len(s) - 1) : SubSeq(s, 1, Len(s) - 1)[i] = s[i]
<1> DEFINE n == Len(s) - 1
<1>1. n \in Nat /\ 1 \in Int /\ n \in Int /\ n - 1 + 1 = n
  OBVIOUS
<1>2. \A i \in 1..n : s[i] \in Nat
  OBVIOUS
<1> HIDE DEF n
<1>3. /\ SubSeq(s, 1, n) \in Seq(Nat)
      /\ Len(SubSeq(s, 1, n)) = IF 1 <= n THEN n - 1 + 1 ELSE 0
      /\ \A i \in 1..(n - 1 + 1) : SubSeq(s, 1, n)[i] = s[1 + i - 1]
  BY <1>1, <1>2, SubSeqProperties
<1>4. Len(SubSeq(s, 1, n)) = n /\ \A i \in 1..n : SubSeq(s, 1, n)[i] = s[i]
  BY <1>1, <1>3
<1> QED
  BY <1>3, <1>4 DEF n

(* mcs_lockdep_after_release pops a class of which no lock is held now. *)
LEMMA AfterReleaseKeeps ==
  ASSUME LockInv, NEW t \in Threads, AfterRelease(t)
  PROVE  LockInv'
<1> DEFINE popped == Depth(t) > 0 /\ Stack(t)[Depth(t)] = Class[want[t]]
<1>0. /\ TypeOK /\ OneHolder /\ Knows(t) /\ ThreadInv(t)
      /\ \A u \in Threads : Knows(u) /\ ThreadInv(u)
  BY KnowsAll DEF LockInv
<1>1. /\ pc'[t] = "run" /\ want'[t] = NoLock /\ UNCHANGED <<locked, holds>>
      /\ Stack(t) \in Seq(Nat) /\ Depth(t) \in Nat
      /\ \A u \in Threads : u # t => /\ held_class'[u] = held_class[u]
                                     /\ pc'[u] = pc[u] /\ want'[u] = want[u]
      /\ \A k \in holds[t] : Class[k] # Class[want[t]]
  BY <1>0 DEF TypeOK, AfterRelease, Stack, Depth, ThreadInv
<1>2. OneHolder'
  BY <1>0, <1>1 DEF OneHolder
<1>3. ThreadInv(t)'
  BY <1>0, <1>1 DEF ThreadInv, Waiting
<1>4. ASSUME NEW u \in Threads, u # t PROVE Knows(u)' /\ ThreadInv(u)'
  BY <1>0, <1>1, <1>4, Untouched
<1>5. CASE ~popped
  <2>1. held_class' = held_class
    BY <1>5 DEF AfterRelease
  <2>2. TypeOK'
    BY <1>0, <2>1 DEF TypeOK, AfterRelease
  <2>3. Knows(t)'
    BY <1>0, <1>1, <2>1 DEF Knows, InStack, Depth, Stack, Waiting
  <2> QED
    BY <1>2, <1>3, <1>4, <2>2, <2>3, KnowsAll DEF LockInv, ValidatorKnows, Knows, Waiting
<1>6. CASE popped
  <2>1. held_class' = [held_class EXCEPT ![t] = SubSeq(@, 1, Depth(t) - 1)]
    BY <1>6 DEF AfterRelease
  <2>2. /\ Stack(t)' = SubSeq(Stack(t), 1, Depth(t) - 1)
        /\ Depth(t)' = Depth(t) - 1
        /\ \A i \in 1..(Depth(t) - 1) : Stack(t)'[i] = Stack(t)[i]
        /\ Stack(t)' \in Seq(Nat)
    <3>1. Stack(t)' = SubSeq(Stack(t), 1, Depth(t) - 1)
      BY <1>0, <2>1 DEF TypeOK, Stack
    <3>2. Len(Stack(t)) > 0 /\ Depth(t) = Len(Stack(t)) /\ Depth(t)' = Len(Stack(t)')
      BY <1>6 DEF Depth
    <3> QED
      BY <1>1, <3>1, <3>2, WithoutTop
  <2>3. TypeOK'
    BY <1>0, <2>1, <2>2 DEF TypeOK, AfterRelease, Stack
  <2>4. \A k \in holds[t] : InStack(t, Class[k])'
    <3> SUFFICES ASSUME NEW k \in holds[t]
                 PROVE  \E i \in 1..(Depth(t) - 1) : Stack(t)'[i] = Class[k]
      BY <2>2 DEF InStack
    <3>1. PICK i \in 1..Depth(t) : Stack(t)[i] = Class[k]
      BY <1>0 DEF Knows, InStack
    <3>2. i # Depth(t)
      BY <1>1, <1>6, <3>1
    <3>3. Depth(t) \in Nat
      BY <1>1
    <3>4. i \in 1..(Depth(t) - 1)
      BY <3>2, <3>3
    <3> QED
      BY <2>2, <3>1, <3>4
  <2>5. \A i, j \in 1..(Depth(t) - 1) : i < j => Stack(t)'[i] < Stack(t)'[j]
    <3> SUFFICES ASSUME NEW i \in 1..(Depth(t) - 1), NEW j \in 1..(Depth(t) - 1), i < j
                 PROVE  Stack(t)'[i] < Stack(t)'[j]
      OBVIOUS
    <3>1. Depth(t) \in Nat
      BY <1>1
    <3>2. i \in 1..Depth(t) /\ j \in 1..Depth(t)
      BY <3>1
    <3>3. Stack(t)[i] < Stack(t)[j]
      BY <1>0, <3>2 DEF Knows
    <3> QED
      BY <2>2, <3>3
  <2>6. Knows(t)'
    BY <1>1, <2>2, <2>4, <2>5 DEF Knows, Waiting
  <2> QED
    BY <1>2, <1>3, <1>4, <2>3, <2>6, KnowsAll DEF LockInv, ValidatorKnows, Knows, Waiting
<1> QED
  BY <1>5, <1>6

(* A step that changes nothing keeps it. *)
LEMMA StutterKeeps == LockInv /\ UNCHANGED vars => LockInv'
<1> SUFFICES ASSUME LockInv, UNCHANGED vars PROVE LockInv'
  OBVIOUS
<1>1. TypeOK' /\ OneHolder'
  BY DEF LockInv, TypeOK, OneHolder, vars
<1>2. \A u \in Threads : Knows(u)' /\ ThreadInv(u)'
  BY KnowsAll, Untouched DEF LockInv, vars
<1> QED
  BY <1>1, <1>2, KnowsAll DEF LockInv, ValidatorKnows, Knows, Waiting

(* Every step of every thread keeps the invariant. *)
LEMMA NextLockInv == LockInv /\ [Next]_vars => LockInv'
<1> SUFFICES ASSUME LockInv, [Next]_vars PROVE LockInv'
  OBVIOUS
<1>1. CASE UNCHANGED vars
  BY <1>1, StutterKeeps
<1>2. ASSUME NEW t \in Threads, Step(t) PROVE LockInv'
  BY <1>2, ExchangeKeeps, SpinKeeps, AfterReleaseKeeps DEF Step
<1>3. ASSUME NEW t \in Threads, NEW l \in Locks, Acquire(t, l) \/ Refused(t, l) \/ Unlock(t, l)
      PROVE  LockInv'
  BY <1>3, AcquireKeeps, UnlockKeeps, StutterKeeps DEF Refused
<1> QED
  BY <1>1, <1>2, <1>3 DEF Next

(* The invariant holds in every reachable state. *)
THEOREM LockInvariance == Spec => []LockInv
BY InitLockInv, NextLockInv, PTL DEF Spec

(* A spinlock has one holder at most, and mcs_spin_lock and mcs_spin_unlock *)
(* keep its bit set exactly while it has one.                               *)
THEOREM SpinExclusion == Spec => []OneHolder
<1>1. LockInv => OneHolder
  BY DEF LockInv
<1> QED
  BY <1>1, LockInvariance, PTL

(* The validator's stack holds the class of every lock its thread holds,   *)
(* in ascending order, whatever the order of the releases.                 *)
THEOREM ValidatorComplete == Spec => []ValidatorKnows
<1>1. LockInv => ValidatorKnows
  BY DEF LockInv
<1> QED
  BY <1>1, LockInvariance, PTL

-----------------------------------------------------------------------------
(* Classes are bounded, so a nonempty set of threads that wait has one     *)
(* that waits for a largest class.                                         *)
LEMMA LargestWanted ==
  ASSUME NEW S, S # {}, NEW f \in [S -> 1..MaxClass]
  PROVE  \E t \in S : \A u \in S : f[u] <= f[t]
<1> DEFINE gap(t) == MaxClass - f[t]
           G == {gap(t) : t \in S}
<1>1. \A t \in S : f[t] \in Nat /\ f[t] <= MaxClass /\ gap(t) \in Nat
  BY LockOrderAssumption
<1>2. G \subseteq Nat /\ G # {}
  BY <1>1
<1> HIDE DEF G
<1>3. PICK x \in G : \A y \in G : ~ (<<y, x>> \in OpToRel(<, Nat))
  BY <1>2, WFMin, NatLessThanWellFounded
<1>4. \A y \in G : ~ (y < x)
  BY <1>2, <1>3 DEF OpToRel
<1>5. PICK t \in S : x = gap(t)
  BY <1>3 DEF G
<1>6. \A u \in S : ~ (gap(u) < gap(t))
  BY <1>4, <1>5 DEF G
<1>7. \A u \in S : f[u] <= f[t]
  BY <1>1, <1>6, LockOrderAssumption
<1> QED
  BY <1>7

(* Threads that heed the validator never wait for each other in a circle:  *)
(* the holder of the largest class that is wanted would want a larger one. *)
THEOREM DeadlockFree == Spec => []NoCircularWait
<1>1. LockInv => NoCircularWait
  <2> SUFFICES ASSUME LockInv,
                      NEW S \in (SUBSET Threads) \ {{}},
                      \A t \in S : Waiting(t) /\ \E u \in S : want[t] \in holds[u]
               PROVE  FALSE
    BY DEF NoCircularWait
  <2> DEFINE f == [t \in S |-> Class[want[t]]]
  <2>1. TypeOK /\ \A t \in S : ThreadInv(t) /\ t \in Threads
    BY DEF LockInv
  <2>2. \A t \in S : want[t] \in Locks
    BY <2>1 DEF TypeOK, ThreadInv, Waiting
  <2>3. f \in [S -> 1..MaxClass]
    BY <2>2, LockOrderAssumption
  <2>4. PICK t \in S : \A u \in S : f[u] <= f[t]
    BY <2>3, LargestWanted
  <2>5. PICK u \in S : want[t] \in holds[u]
    OBVIOUS
  <2>6. Class[want[t]] < Class[want[u]]
    BY <2>1, <2>5 DEF ThreadInv
  <2> QED
    BY <2>2, <2>4, <2>6, LockOrderAssumption
<1> QED
  BY <1>1, LockInvariance, PTL

-----------------------------------------------------------------------------
(* The mutex of kernel/sync/mutex.c. *)

(* Where a thread is says whether it holds the mutex and what owner is. *)
OwnerInv ==
  \A t \in Callers :
    /\ at[t] \in {"set_owner", "clear_owner", "unlock"} => t \in holder
    /\ at[t] \in {"set_owner", "unlock"} => owner = NoOwner
    /\ at[t] \in {"out", "who", "clear_owner"} => (owner = t <=> t \in holder)

MInv == MutexTypeOK /\ MutualExclusion /\ OwnerInv

(* MutexInit establishes the invariant. *)
LEMMA InitMInv == MutexInit => MInv
BY MutexAssumption DEF MutexInit, MInv, MutexTypeOK, MutualExclusion, OwnerInv

(* Every atomic access of every thread preserves it. *)
LEMMA StepMInv == MInv /\ [MutexNext]_mutexVars => MInv'
<1> SUFFICES ASSUME MInv, [MutexNext]_mutexVars PROVE MInv'
  OBVIOUS
<1> USE MutexAssumption
<1>1. ASSUME NEW t \in Callers, CompareExchange(t) PROVE MInv'
  BY <1>1 DEF MInv, MutexTypeOK, MutualExclusion, OwnerInv, CompareExchange, Goto
<1>2. ASSUME NEW t \in Callers, SetOwner(t) PROVE MInv'
  BY <1>2 DEF MInv, MutexTypeOK, MutualExclusion, OwnerInv, SetOwner, ReturnCode, Goto
<1>3. ASSUME NEW t \in Callers, LoadOwner(t) PROVE MInv'
  BY <1>3 DEF MInv, MutexTypeOK, MutualExclusion, OwnerInv, LoadOwner, ReturnCode, Goto
<1>4. ASSUME NEW t \in Callers, MutexUnlock(t) PROVE MInv'
  BY <1>4 DEF MInv, MutexTypeOK, MutualExclusion, OwnerInv, MutexUnlock, ReturnCode, Goto
<1>5. ASSUME NEW t \in Callers, ClearOwner(t) PROVE MInv'
  BY <1>5 DEF MInv, MutexTypeOK, MutualExclusion, OwnerInv, ClearOwner, Goto
<1>6. ASSUME NEW t \in Callers, Release(t) PROVE MInv'
  BY <1>6 DEF MInv, MutexTypeOK, MutualExclusion, OwnerInv, Release, ReturnCode, Goto
<1>7. CASE UNCHANGED mutexVars
  BY <1>7 DEF MInv, MutexTypeOK, MutualExclusion, OwnerInv, mutexVars
<1> QED
  BY <1>1, <1>2, <1>3, <1>4, <1>5, <1>6, <1>7 DEF MutexNext, MutexStep

(* The invariant holds in every reachable state. *)
THEOREM MutexInvariance == MutexSpec => []MInv
BY InitMInv, StepMInv, PTL DEF MutexSpec

(* Two threads never hold the mutex at once, for any number of threads. *)
THEOREM Exclusion == MutexSpec => []MutualExclusion
BY MutexInvariance, PTL DEF MInv

(* Only the holder gets past the owner check of mcs_mutex_unlock. *)
THEOREM HolderUnlocks == MutexSpec => []OnlyHolderUnlocks
<1>1. MInv => OnlyHolderUnlocks
  BY DEF MInv, OwnerInv, OnlyHolderUnlocks, MutexTypeOK
<1> QED
  BY <1>1, MutexInvariance, PTL

(* The verdict of a try_lock that loses is exact. *)
THEOREM Verdicts == MutexSpec => VerdictsExact
<1> DEFINE Exact == \A t \in Callers : at[t] = "who" /\ at'[t] = "out" =>
                      (rc'[t] = "DEADLK" <=> t \in holder)
<1>1. ASSUME MInv, [MutexNext]_mutexVars PROVE [Exact]_mutexVars
  <2>1. CASE UNCHANGED mutexVars
    BY <2>1
  <2>2. ASSUME NEW u \in Callers, MutexStep(u) PROVE Exact
    <3> SUFFICES ASSUME NEW t \in Callers, at[t] = "who", at'[t] = "out"
                 PROVE rc'[t] = "DEADLK" <=> t \in holder
      OBVIOUS
    <3>1. u = t
      BY <1>1, <2>2 DEF MInv, MutexTypeOK, MutexStep, CompareExchange, SetOwner, LoadOwner,
                        MutexUnlock, ClearOwner, Release, ReturnCode, Goto
    <3>2. LoadOwner(t)
      BY <2>2, <3>1 DEF MutexStep, CompareExchange, SetOwner, LoadOwner, MutexUnlock,
                        ClearOwner, Release
    <3> QED
      BY <1>1, <3>2 DEF MInv, MutexTypeOK, OwnerInv, LoadOwner, ReturnCode, Goto
  <2> QED
    BY <1>1, <2>1, <2>2 DEF MutexNext
<1> QED
  BY <1>1, MutexInvariance, PTL DEF MutexSpec, VerdictsExact
=============================================================================
