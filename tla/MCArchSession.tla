--------------------------- MODULE MCArchSession ---------------------------
(* A puzzle of two slots; the third service is a distractor. *)
EXTENDS ArchSession

CONSTANTS s1, s2, a1, a2, a3

MCAnswer == [s \in Slots |-> IF s = s2 THEN a2 ELSE a1]
=============================================================================
