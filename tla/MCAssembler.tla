----------------------------- MODULE MCAssembler -----------------------------
(* What the copies of a run may offer: something small, or a small one and  *)
(* one too large to be read among three large ones (one more than there are *)
(* streams).                                                                *)
EXTENDS Assembler

Offers == {<<1>>, <<2, 1, 4, 2, 2>>}
=============================================================================
