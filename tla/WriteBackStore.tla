--------------------------- MODULE WriteBackStore ---------------------------
(***************************************************************************)
(* What a write-back cache promises.  Callers of the cache see the blocks  *)
(* they wrote.  The device may lag behind, block by block, until a flush   *)
(* succeeds, and a power loss takes callers back to what the device holds. *)
(* Callers that go round the cache read and change the device only: what   *)
(* the others wrote and is pending is neither seen nor changed by them,    *)
(* and the others may go on to see the old contents of a block.            *)
(***************************************************************************)
CONSTANTS Blocks, Value,
          NoData   \* stands for the contents of a block the device does not have

VARIABLES logical,  \* what callers of the cache see
          durable,  \* what the device holds
          pending,  \* the blocks that were written and have not reached the device
          last      \* the last call and its result

vars == <<logical, durable, pending, last>>

Contents == [Blocks -> Value \cup {NoData}]

Init == /\ durable \in Contents
        /\ logical = durable
        /\ pending = {}
        /\ last = [op |-> "none", rc |-> "OK"]

(* What may become of a block on the way: nothing, it reaches the device,  *)
(* or callers see the device again where they still saw older contents.    *)
Kept(b) == /\ logical'[b] = logical[b] /\ durable'[b] = durable[b]
           /\ b \in pending' <=> b \in pending

Written(b) == /\ b \in pending /\ b \notin pending'
              /\ durable[b] # NoData
              /\ durable'[b] = logical[b] /\ logical'[b] = logical[b]

Renewed(b) == /\ b \notin pending /\ b \notin pending'
              /\ durable'[b] = durable[b] /\ logical'[b] = durable[b]

Settle(S) == \A b \in S : Kept(b) \/ Written(b) \/ Renewed(b)

Read(b) == /\ logical[b] # NoData
           /\ last' = [op |-> "read", rc |-> "OK", block |-> b, got |-> logical[b]]
           /\ Settle(Blocks)

Write(b, v) == /\ last' = [op |-> "write", rc |-> "OK", block |-> b]
               /\ logical'[b] = v /\ durable'[b] = durable[b] /\ b \in pending'
               /\ Settle(Blocks \ {b})

Flush == /\ last' = [op |-> "flush", rc |-> "OK"]
         /\ \A b \in Blocks : IF b \in pending THEN Written(b) ELSE Kept(b)

DirectRead(S) == /\ last' = [op |-> "blk_read", rc |-> "OK", got |-> [b \in S |-> durable[b]]]
                 /\ UNCHANGED <<logical, durable, pending>>

DirectWrite(S, v) == /\ last' = [op |-> "blk_write", rc |-> "OK"]
                     /\ durable' = [b \in Blocks |-> IF b \in S THEN v ELSE durable[b]]
                     /\ \A b \in Blocks : \/ logical'[b] = logical[b]
                                          \/ b \in S \ pending /\ logical'[b] = v
                     /\ pending' = pending

Fail(o) == /\ last' = [op |-> o, rc |-> "ERROR"]
           /\ Settle(Blocks)

PowerLoss == /\ last' = [op |-> "none", rc |-> "OK"]
             /\ logical' = durable /\ durable' = durable
             /\ pending' = {}

Next == \/ \E b \in Blocks : Read(b) \/ \E v \in Value : Write(b, v)
        \/ Flush
        \/ \E S \in SUBSET {b \in Blocks : durable[b] # NoData} :
             DirectRead(S) \/ \E v \in Value : DirectWrite(S, v)
        \/ \E o \in {"read", "write", "flush", "blk"} : Fail(o)
        \/ PowerLoss

Typed == logical \in Contents /\ durable \in Contents /\ pending \subseteq Blocks

Spec == Init /\ [][Typed' /\ Next]_vars
=============================================================================
