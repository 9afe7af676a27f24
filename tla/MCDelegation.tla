--------------------------- MODULE MCDelegation ---------------------------
(* One batch of two children.                                               *)
EXTENDS Delegation

CONSTANTS call1, h1, h2

OneBatch == [h \in Children |-> call1]
Batches == [c \in Calls |-> "batch"]
=============================================================================
