----------------------------- MODULE LockOrder -----------------------------
(***************************************************************************)
(* Spinlocks taken under the lock-order validator: kernel/sync/spinlock.c  *)
(* and lockdep.c, used as m12_selftest.c uses them: before_acquire, lock,  *)
(* critical section, unlock, after_release.  Each thread has a validator   *)
(* of its own and spins only for a lock before_acquire has allowed.        *)
(***************************************************************************)
EXTENDS Naturals, Sequences

CONSTANTS Threads, Locks,
          Class,      \* class_id of each lock
          MaxClass,   \* the largest class_id (a uint32_t)
          MaxHeld,    \* MCS_LOCKDEP_MAX_HELD
          NoLock

ASSUME LockOrderAssumption == /\ MaxClass \in Nat
                              /\ Class \in [Locks -> 1..MaxClass]
                              /\ MaxHeld \in Nat \ {0}
                              /\ NoLock \notin Locks

VARIABLES locked,      \* lock->locked
          held_class,  \* the validator's stack of each thread
          pc, want,    \* what each thread does, and to which lock
          holds        \* ghost: the locks whose exchange each thread has won

vars == <<locked, held_class, pc, want, holds>>

TypeOK == /\ locked \in [Locks -> BOOLEAN]
          /\ held_class \in [Threads -> Seq(Nat)]
          /\ pc \in [Threads -> {"run", "exchange", "spin", "released"}]
          /\ want \in [Threads -> Locks \cup {NoLock}]
          /\ holds \in [Threads -> SUBSET Locks]

Init == /\ locked = [l \in Locks |-> FALSE]
        /\ held_class = [t \in Threads |-> <<>>]
        /\ pc = [t \in Threads |-> "run"]
        /\ want = [t \in Threads |-> NoLock]
        /\ holds = [t \in Threads |-> {}]

Stack(t) == held_class[t]
Depth(t) == Len(Stack(t))
InStack(t, c) == \E i \in 1..Depth(t) : Stack(t)[i] = c

-----------------------------------------------------------------------------
(* Mutant: only recursion is refused. *)
AllowedMutant(t, c) == Depth(t) < MaxHeld /\ ~InStack(t, c)

(* The checks of mcs_lockdep_before_acquire. *)
Allowed(t, c) == /\ Depth(t) < MaxHeld
                 /\ ~InStack(t, c)
                 /\ Depth(t) > 0 => c >= Stack(t)[Depth(t)]

(* mcs_lockdep_before_acquire returns OK and mcs_spin_lock begins. *)
Acquire(t, l) == /\ pc[t] = "run"
                 /\ Allowed(t, Class[l])
                 /\ held_class' = [held_class EXCEPT ![t] = Append(@, Class[l])]
                 /\ pc' = [pc EXCEPT ![t] = "exchange"]
                 /\ want' = [want EXCEPT ![t] = l]
                 /\ UNCHANGED <<locked, holds>>

(* before_acquire counts a violation and the caller does without the lock. *)
Refused(t, l) == /\ pc[t] = "run"
                 /\ ~Allowed(t, Class[l])
                 /\ UNCHANGED vars

(* Mutant: the old value is ignored. *)
ExchangeMutant(t) == /\ pc[t] = "exchange"
                     /\ locked' = [locked EXCEPT ![want[t]] = TRUE]
                     /\ pc' = [pc EXCEPT ![t] = "run"]
                     /\ holds' = [holds EXCEPT ![t] = @ \cup {want[t]}]
                     /\ want' = [want EXCEPT ![t] = NoLock]
                     /\ UNCHANGED held_class

(* mcs_spin_try_lock inside mcs_spin_lock. *)
Exchange(t) ==
  /\ pc[t] = "exchange"
  /\ locked' = [locked EXCEPT ![want[t]] = TRUE]
  /\ IF locked[want[t]]
       THEN /\ pc' = [pc EXCEPT ![t] = "spin"]
            /\ UNCHANGED <<want, holds>>
       ELSE /\ pc' = [pc EXCEPT ![t] = "run"]
            /\ holds' = [holds EXCEPT ![t] = @ \cup {want[t]}]
            /\ want' = [want EXCEPT ![t] = NoLock]
  /\ UNCHANGED held_class

(* The inner loop of mcs_spin_lock sees the lock free. *)
Spin(t) == /\ pc[t] = "spin"
           /\ ~locked[want[t]]
           /\ pc' = [pc EXCEPT ![t] = "exchange"]
           /\ UNCHANGED <<locked, held_class, want, holds>>

(* mcs_spin_unlock of any lock the thread holds. *)
Unlock(t, l) == /\ pc[t] = "run"
                /\ l \in holds[t]
                /\ locked' = [locked EXCEPT ![l] = FALSE]
                /\ holds' = [holds EXCEPT ![t] = @ \ {l}]
                /\ pc' = [pc EXCEPT ![t] = "released"]
                /\ want' = [want EXCEPT ![t] = l]
                /\ UNCHANGED held_class

(* Mutant: the top is popped whatever was released. *)
AfterReleaseMutant(t) ==
  /\ pc[t] = "released"
  /\ held_class' = [held_class EXCEPT ![t] = SubSeq(@, 1, Depth(t) - 1)]
  /\ pc' = [pc EXCEPT ![t] = "run"]
  /\ want' = [want EXCEPT ![t] = NoLock]
  /\ UNCHANGED <<locked, holds>>

(* mcs_lockdep_after_release pops the top if it is the released class and  *)
(* counts a violation otherwise.                                           *)
AfterRelease(t) ==
  /\ pc[t] = "released"
  /\ held_class' = IF Depth(t) > 0 /\ Stack(t)[Depth(t)] = Class[want[t]]
                     THEN [held_class EXCEPT ![t] = SubSeq(@, 1, Depth(t) - 1)]
                     ELSE held_class
  /\ pc' = [pc EXCEPT ![t] = "run"]
  /\ want' = [want EXCEPT ![t] = NoLock]
  /\ UNCHANGED <<locked, holds>>

Step(t) == Exchange(t) \/ Spin(t) \/ AfterRelease(t)

Next == \E t \in Threads : \/ Step(t)
                           \/ \E l \in Locks : Acquire(t, l) \/ Refused(t, l) \/ Unlock(t, l)

Spec == Init /\ [][Next]_vars

-----------------------------------------------------------------------------
(* Properties. *)

(* "Setiap spinlock hanya boleh dimiliki satu thread pada satu waktu": a   *)
(* lock has one holder at most and its bit is set exactly while it has.    *)
OneHolder == \A l \in Locks :
               /\ \A t, u \in Threads : l \in holds[t] /\ l \in holds[u] => t = u
               /\ locked[l] <=> \E t \in Threads : l \in holds[t]

(* The validator knows of every lock its thread holds, in ascending order, *)
(* also after releases out of order: it may remember too much, never too   *)
(* little.                                                                 *)
ValidatorKnows ==
  \A t \in Threads :
    /\ \A l \in holds[t] : InStack(t, Class[l])
    /\ \A i, j \in 1..Depth(t) : i < j => Stack(t)[i] < Stack(t)[j]
    /\ pc[t] \in {"exchange", "spin"} => Stack(t)[Depth(t)] = Class[want[t]]

Waiting(t) == pc[t] \in {"exchange", "spin"}

(* Threads that heed the validator never wait for each other in a circle.  *)
NoCircularWait ==
  ~ \E S \in (SUBSET Threads) \ {{}} :
      \A t \in S : Waiting(t) /\ \E u \in S : want[t] \in holds[u]
=============================================================================
