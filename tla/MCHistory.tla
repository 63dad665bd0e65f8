----------------------------- MODULE MCHistory ------------------------------
EXTENDS History

CONSTANTS a, b, s, x, y, z

(* The contents share blob x; s is a secret.                               *)
MCRefs == [c \in Contents |-> CASE c = a -> {x} [] c = b -> {x, y} [] c = s -> {x, z}]
MCSizes == [c \in Contents |-> IF c = b THEN 2 ELSE 1]
NoAge == Null
OneTick == 1
=============================================================================
