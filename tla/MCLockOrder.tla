---------------------------- MODULE MCLockOrder ----------------------------
EXTENDS LockOrder, TLC

CONSTANTS k, l, m, n

(* Two locks share a class. *)
SmallClass == (k :> 10) @@ (l :> 20) @@ (m :> 20) @@ (n :> 30)
=============================================================================
