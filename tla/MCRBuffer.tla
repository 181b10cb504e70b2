----------------------------- MODULE MCRBuffer -----------------------------
(* The ring of 16 bytes, positions modulo 32, two payloads whose records   *)
(* (5 and 8 bytes) reach every alignment of the length word and of the     *)
(* payload with the end of the memory.  The reader keeps calling           *)
(* rbuffer_read with room for the longer one, and now and then with less.  *)
EXTENDS RBuffer

MCPayloads == {<<97>>, <<1, 0, 2, 0>>}
MCReadCaps == {2, 4}

LiveSpec == Spec /\ Fairness(4)
=============================================================================
