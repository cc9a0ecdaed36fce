---------------------------- MODULE AtomicDisk ----------------------------
(***************************************************************************)
(* What the MCSFS1J journal promises its caller: a disk on which a         *)
(* transaction takes effect in one step or not at all, takes effect at     *)
(* most once, and has taken effect when the call that carried it returned  *)
(* M16_E_OK.  A call that failed, or that a power loss cut short, may or   *)
(* may not have taken effect.                                              *)
(***************************************************************************)
EXTENDS Transactions

VARIABLES store,    \* the disk as the next mount will show it
          cur,      \* the transaction in progress, or NoTx
          applied,  \* has cur taken effect?
          rc        \* how the last call ended, "none" while one runs

vars == <<store, cur, applied, rc>>

Init == /\ store \in [Lba -> Value]
        /\ cur = NoTx
        /\ applied = FALSE
        /\ rc = "none"

Submit(t) == /\ cur = NoTx
             /\ cur' = t
             /\ rc' = "none"
             /\ UNCHANGED <<store, applied>>

TakeEffect == /\ cur # NoTx
              /\ ~applied
              /\ store' = Overlay(store, cur)
              /\ applied' = TRUE
              /\ UNCHANGED <<cur, rc>>

(* Success is reported only for a transaction that has taken effect. *)
ReturnOk == /\ cur # NoTx
            /\ applied
            /\ rc' = "ok"
            /\ cur' = NoTx
            /\ applied' = FALSE
            /\ UNCHANGED store

(* An I/O error or a power loss ends the call on either side of the effect. *)
CutShort == /\ cur # NoTx
            /\ rc' \in {"io", "crash"}
            /\ cur' = NoTx
            /\ applied' = FALSE
            /\ UNCHANGED store

Next == \/ \E t \in Tx : Submit(t)
        \/ TakeEffect
        \/ ReturnOk
        \/ CutShort

Spec == Init /\ [][Next]_vars
===========================================================================
