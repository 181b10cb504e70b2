------------------------------ MODULE MCDirty ------------------------------
(* Dirty on its own: one file of words, texts of up to three bytes, 9 the  *)
(* first byte of a double one and 2 the upper case of 1.                   *)
EXTENDS Dirty

MCLower(b) == IF b = 2 THEN 1 ELSE b
MCHash(w) == Len(w) % 2
MCFiles == {<<<<2, 3>>, <<9, 1>>, <<3>>>>}
MCTexts == UNION {[1..n -> {1, 2, 3, 9}] : n \in 0..3}
=============================================================================
