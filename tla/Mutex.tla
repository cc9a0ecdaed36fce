------------------------------- MODULE Mutex -------------------------------
(***************************************************************************)
(* The mutex of kernel/sync/mutex.c, one action per atomic access.         *)
(* Accesses are interleaved, as on x86-64 for these orders: a thread never *)
(* reads an owner older than its own last store.                           *)
(***************************************************************************)
CONSTANTS Callers,  \* callers, each with an owner_id of its own
          NoOwner   \* owner = 0

ASSUME MutexAssumption == NoOwner \notin Callers

VARIABLES mutex_locked,  \* mutex->locked
          owner,    \* mutex->owner
          at,       \* next access of each thread, "out" between calls
          rc,       \* result of each thread's last call
          holder    \* ghost: the threads whose try_lock has won

mutexVars == <<mutex_locked, owner, at, rc, holder>>

MutexTypeOK == /\ mutex_locked \in BOOLEAN
               /\ owner \in Callers \cup {NoOwner}
               /\ at \in [Callers -> {"out", "set_owner", "who", "clear_owner", "unlock"}]
               /\ rc \in [Callers -> {"OK", "BUSY", "DEADLK", "PERM"}]
               /\ holder \subseteq Callers

(* mcs_mutex_init *)
MutexInit == /\ mutex_locked = FALSE
             /\ owner = NoOwner
             /\ at = [t \in Callers |-> "out"]
             /\ rc = [t \in Callers |-> "OK"]
             /\ holder = {}

Goto(t, p) == at' = [at EXCEPT ![t] = p]
ReturnCode(t, c) == Goto(t, "out") /\ rc' = [rc EXCEPT ![t] = c]

-----------------------------------------------------------------------------
(* Mutant: owner is tested instead of locked. *)
CompareExchangeMutant(t) ==
  /\ at[t] = "out"
  /\ IF owner = NoOwner THEN /\ mutex_locked' = TRUE
                             /\ holder' = holder \cup {t}
                             /\ Goto(t, "set_owner")
                        ELSE /\ UNCHANGED <<mutex_locked, holder>>
                             /\ Goto(t, "who")
  /\ UNCHANGED <<owner, rc>>

(* mcs_mutex_try_lock *)
CompareExchange(t) ==
  /\ at[t] = "out"
  /\ IF mutex_locked THEN /\ UNCHANGED <<mutex_locked, holder>>
                          /\ Goto(t, "who")
                     ELSE /\ mutex_locked' = TRUE
                          /\ holder' = holder \cup {t}
                          /\ Goto(t, "set_owner")
  /\ UNCHANGED <<owner, rc>>

SetOwner(t) == /\ at[t] = "set_owner"
               /\ owner' = t
               /\ ReturnCode(t, "OK")
               /\ UNCHANGED <<mutex_locked, holder>>

LoadOwner(t) == /\ at[t] = "who"
                /\ ReturnCode(t, IF owner = t THEN "DEADLK" ELSE "BUSY")
                /\ UNCHANGED <<mutex_locked, owner, holder>>

(* Mutant: who unlocks is not checked. *)
MutexUnlockMutant(t) == /\ at[t] = "out"
                        /\ owner # NoOwner
                        /\ Goto(t, "clear_owner")
                        /\ UNCHANGED <<mutex_locked, owner, rc, holder>>

(* mcs_mutex_unlock, which any thread may call. *)
MutexUnlock(t) == /\ at[t] = "out"
                  /\ IF owner = t THEN Goto(t, "clear_owner") /\ UNCHANGED rc
                                  ELSE ReturnCode(t, "PERM")
                  /\ UNCHANGED <<mutex_locked, owner, holder>>

(* Mutant: locked is cleared before owner. *)
ClearOwnerMutant(t) == /\ at[t] = "clear_owner"
                       /\ mutex_locked' = FALSE
                       /\ holder' = holder \ {t}
                       /\ Goto(t, "unlock")
                       /\ UNCHANGED <<owner, rc>>

ClearOwner(t) == /\ at[t] = "clear_owner"
                 /\ owner' = NoOwner
                 /\ Goto(t, "unlock")
                 /\ UNCHANGED <<mutex_locked, rc, holder>>

Release(t) == /\ at[t] = "unlock"
              /\ mutex_locked' = FALSE
              /\ holder' = holder \ {t}
              /\ ReturnCode(t, "OK")
              /\ UNCHANGED owner

MutexStep(t) == \/ CompareExchange(t) \/ SetOwner(t) \/ LoadOwner(t)
                \/ MutexUnlock(t) \/ ClearOwner(t) \/ Release(t)

MutexNext == \E t \in Callers : MutexStep(t)

MutexSpec == MutexInit /\ [][MutexNext]_mutexVars

-----------------------------------------------------------------------------
(* Properties. *)

(* At most one thread holds the mutex, from the exchange that won to the   *)
(* store that clears locked, and the mutex is locked exactly then.         *)
MutualExclusion == /\ \A t, u \in holder : t = u
                   /\ mutex_locked <=> holder # {}

(* "Mutex tidak boleh dilepas oleh thread yang bukan pemiliknya": whatever *)
(* the interleaving, the stores of unlock are the holder's, and a holder   *)
(* between calls is recorded as the owner, so its own unlock is let in and *)
(* its own second try_lock is told DEADLK.                                 *)
OnlyHolderUnlocks ==
  \A t \in Callers : /\ at[t] \in {"clear_owner", "unlock"} => t \in holder
                     /\ at[t] = "out" => (owner = t <=> t \in holder)

(* DEADLK is told to nobody but the holder and BUSY to nobody else, even   *)
(* though locked and owner are read one after the other.                   *)
VerdictsExact ==
  [][\A t \in Callers : at[t] = "who" /\ at'[t] = "out" =>
       (rc'[t] = "DEADLK" <=> t \in holder)]_mutexVars
=============================================================================
