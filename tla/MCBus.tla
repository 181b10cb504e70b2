------------------------------- MODULE MCBus -------------------------------
(* The bus with three terminals and two messages.                          *)
EXTENDS Bus, TLC

Symmetry == Permutations(Terms)

(* What three terminals do together is more than can be explored, so a     *)
(* behaviour is followed while one of four stories is told: one message    *)
(* is sent; nobody stops, with at most two of them inside a call at a time;*)
(* two terminals are alone; or semaphore calls fail and nothing is sent.   *)
Story ==
  IF failed > 0 THEN sent = 0
  ELSE \/ sent <= 1
       \/ stops = 0 /\ Cardinality({p \in Terms : pc[p] # "idle"}) <= 2
       \/ Len(head.terms) <= 2 /\ Cardinality({p \in Terms : pc[p] # "down"}) <= 2
=============================================================================
