----------------------------- MODULE MCLogStore -----------------------------
EXTENDS LogStore

CONSTANTS i1, i2, b1

(* Every item names the one blob: two items share it.                      *)
MCRefs == [i \in Items |-> Blobs]
=============================================================================
