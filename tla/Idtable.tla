------------------------------- MODULE Idtable -----------------------------
(***************************************************************************)
(* base/idtable.c: linear probing from id % count.  idtable_remove empties *)
(* a slot and moves nothing, so it can cut the way to an id that was put   *)
(* further on.  As the callers do, an id is added only while it is absent. *)
(***************************************************************************)
EXTENDS Integers, Sequences, FiniteSets

CONSTANTS Ids, IdSlots   \* IdSlots is table->count

VARIABLES
  slots,   \* the id in every slot, -1 for none; its ptr goes with it
  kept,    \* history: the ids added and not removed
  cut      \* history: a removal emptied a slot on the way to another id

vars == <<slots, kept, cut>>

None == -1
Empty(n) == [i \in 0..n - 1 |-> None]
Init == slots = Empty(IdSlots) /\ kept = {} /\ cut = FALSE

(* The slots of table t from id's first to the one before i.               *)
Between(t, id, i) ==
  LET n == Cardinality(DOMAIN t)
  IN {j \in DOMAIN t : (j - id) % n < (i - id) % n}

(* Fault: the probe does not wrap at the end of the table.                 *)
ProbeNoWrap(t, id, x) ==
  {i \in DOMAIN t : t[i] = x /\ i >= id % Cardinality(DOMAIN t)
                    /\ \A j \in Between(t, id, i) : t[j] \notin {x, None}}

(* The slot of x that a probe from id's first slot meets, before any empty *)
(* one; a singleton or empty.                                              *)
Probe(t, id, x) ==
  {i \in DOMAIN t : t[i] = x /\ \A j \in Between(t, id, i) : t[j] \notin {x, None}}

idtable_get(t, id) == Probe(t, id, id) # {}

Added(t, id) == [i \in DOMAIN t |-> IF i \in Probe(t, id, None) THEN id ELSE t[i]]

idtable_add(id) ==
  /\ id \notin kept /\ Probe(slots, id, None) # {}
  /\ slots' = Added(slots, id)
  /\ kept' = kept \cup {id}
  /\ UNCHANGED cut

idtable_remove(id) ==
  LET hit == Probe(slots, id, id)
  IN /\ id \in kept
     /\ slots' = [i \in DOMAIN slots |-> IF i \in hit THEN None ELSE slots[i]]
     /\ kept' = kept \ {id}
     /\ cut' = (cut \/ \E i \in DOMAIN slots :
                         slots[i] \notin {id, None} /\ hit \cap Between(slots, slots[i], i) # {})

idtable_cleanup ==
  /\ kept # {} \/ cut
  /\ slots' = Empty(IdSlots) /\ kept' = {} /\ cut' = FALSE

(* What idtable_loop calls its function with, from any start, as long as   *)
(* that returns 0.                                                         *)
idtable_loop(start) ==
  LET At(i) == slots[(start + i) % IdSlots]
      Upto[i \in Nat] ==
        IF i = 0 THEN <<>>
        ELSE Upto[i - 1] \o (IF At(i - 1) = None THEN <<>> ELSE <<At(i - 1)>>)
  IN Upto[IdSlots]

Next ==
  \/ \E id \in Ids : idtable_add(id) \/ idtable_remove(id)
  \/ idtable_cleanup

Spec == Init /\ [][Next]_vars

----------------------------------------------------------------------------
(* Properties *)

(* Until a removal empties a slot on the way to another id, the table is   *)
(* exact: every id added and not removed is found and no other, an id is   *)
(* refused only by a table with no room, and idtable_loop meets each once  *)
(* from any start.                                                         *)
FindsAll ==
  ~cut =>
    /\ \A id \in Ids : idtable_get(slots, id) <=> id \in kept
    /\ \A id \in Ids : Probe(slots, id, None) = {} <=> Cardinality(kept) = IdSlots
    /\ \A start \in 0..IdSlots :
         LET v == idtable_loop(start)
         IN Len(v) = Cardinality(kept) /\ {v[i] : i \in 1..Len(v)} = kept
=============================================================================
