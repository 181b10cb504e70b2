------------------------------ MODULE MCTask -------------------------------
(* An instance of Task for TLC: resumptions one step back, in place, one   *)
(* and two steps forward.                                                  *)
EXTENDS Task

MCJumps == {-1, 0, 1, 2}
=============================================================================
