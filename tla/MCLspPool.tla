----------------------------- MODULE MCLspPool -----------------------------
(* Two calls on one key, each about a document of its own: the instance of *)
(* LspPool that tells one document's result from another's.                *)
EXTENDS LspPool

CONSTANTS c1, c2, u1, u2, k1

OwnUri == [c \in Calls |-> IF c = c1 THEN u1 ELSE u2]
OneKey == [c \in Calls |-> k1]
=============================================================================
