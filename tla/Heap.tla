------------------------------- MODULE Heap --------------------------------
(***************************************************************************)
(* base/heap.c: an array-based minimum heap that grows by doubling.  Every *)
(* element carries a key handed to the caller by heap_insert; key_table    *)
(* maps a key to the element's position so that heap_erase and heap_update *)
(* find it after any number of rotations.  Of the data only what cmp_func  *)
(* compares is kept, its rank: elements are told apart by their keys.      *)
(*                                                                         *)
(* An operation is one action followed by one RotUp or RotDown action per  *)
(* iteration of its rotation loop, until pc is "idle" again.  The heap is  *)
(* not shared between threads: no call starts before the last one returns. *)
(***************************************************************************)
EXTENDS Integers

CONSTANTS Ranks,     \* the caller's data, as cmp_func sees it:
                     \* cmp_func(a, b) < 0 iff a < b
          InitCap,   \* HEAP_DEFAULT_SIZE
          Erases,    \* which keys a caller passes to heap_erase: a subset of
                     \* {"live", "stale"}
          MaxInserts \* bound on the calls of heap_insert

ASSUME InitCapAssumption == InitCap \in Nat \ {0}
ASSUME RanksAssumption == Ranks \subseteq Int
ASSUME ErasesAssumption == Erases \subseteq {"live", "stale"}
ASSUME MaxInsertsAssumption == MaxInserts \in Nat

VARIABLES
  array,      \* heap->array: position -> [rank, key]
  cap, size, next_key,
  key_table,  \* key -> position, or -1
  pc,         \* "idle", "up" or "down": the loop being executed
  pos,        \* its position
  dropping,   \* the key heap_erase clears when its loop is over, or -1
  fault,      \* the program wrote outside an array: nothing is known any more
  inserts,    \* calls of heap_insert so far
  misplaced,  \* history: a heap_erase left a node below a larger parent
  held        \* history: the keys whose elements the caller has not taken
              \* out, with what was inserted under each

vars ==
  <<array, cap, size, next_key, key_table, pc, pos, dropping, fault, inserts, misplaced, held>>

HEAP_PARENT(p) == (p - 1) \div 2
HEAP_LEFT_CHILD(p) == 2 * p + 1
HEAP_RIGHT_CHILD(p) == 2 * p + 2

Blank == [rank |-> 0, key |-> -1]
Rank(p) == array[p].rank

(* heap_create *)
Init ==
  /\ cap = InitCap /\ size = 0 /\ next_key = 0
  /\ array = [p \in 0..InitCap - 1 |-> Blank]
  /\ key_table = [k \in 0..InitCap - 1 |-> -1]
  /\ pc = "idle" /\ pos = 0 /\ dropping = -1
  /\ fault = FALSE /\ inserts = 0 /\ misplaced = FALSE
  /\ held = [k \in {} |-> 0]

----------------------------------------------------------------------------
(* _heap_swap: both nodes, and what the key table says of their keys.      *)
Swapped(a, p, q) == [a EXCEPT ![p] = a[q], ![q] = a[p]]
(* Fault: only one of the two entries follows its node.                    *)
RetabledHalf(t, a, p, q) == [t EXCEPT ![a[p].key] = q]

Retabled(t, a, p, q) == [t EXCEPT ![a[p].key] = q, ![a[q].key] = p]

_heap_swap(p, q) ==
  /\ array' = Swapped(array, p, q)
  /\ key_table' = Retabled(key_table, array, p, q)

(* _heap_realloc: twice the room, the new half blank.                      *)
Grown(f, n, blank) == [i \in 0..2 * n - 1 |-> IF i < n THEN f[i] ELSE blank]

(* _heap_set_next_key: the first free key after k, in cyclic order; the    *)
(* capacity, which is no key, when there is none.                          *)
_heap_set_next_key(t, c, k) ==
  LET free == {i \in 1..c - 1 : t[(k + i) % c] < 0}
  IN IF free = {} THEN c
     ELSE (k + CHOOSE i \in free : \A j \in free : i <= j) % c

(* An access outside array or key_table: the program goes no further.      *)
OutOfBounds ==
  /\ fault' = TRUE
  /\ UNCHANGED <<array, cap, size, next_key, key_table, pc, pos, dropping, misplaced, held>>

Ready == pc = "idle" /\ ~fault

(* heap_insert, up to its rotation loop.  A failed MALLOC in _heap_realloc *)
(* returns before anything changed.  When no key is left although the      *)
(* array is not full, key_table is written past its end, and then          *)
(* _heap_set_next_key, whose loop only ends at a free key or at next_key   *)
(* modulo cap, never returns.                                              *)
heap_insert(x) ==
  LET full == size = cap
      c == IF full THEN 2 * cap ELSE cap
      a == IF full THEN Grown(array, cap, Blank) ELSE array
      t == IF full THEN Grown(key_table, cap, -1) ELSE key_table
      t2 == [t EXCEPT ![next_key] = size]
  IN /\ Ready
     /\ inserts < MaxInserts /\ inserts' = inserts + 1
     /\ \/ /\ next_key >= c
           /\ OutOfBounds
        \/ /\ next_key < c
           /\ cap' = c
           /\ array' = [a EXCEPT ![size] = [rank |-> x, key |-> next_key]]
           /\ key_table' = t2
           /\ next_key' = _heap_set_next_key(t2, c, next_key)
           /\ size' = size + 1
           /\ pc' = "up" /\ pos' = size
           /\ held' = [k \in DOMAIN held \cup {next_key} |->
                         IF k = next_key THEN x ELSE held[k]]
           /\ UNCHANGED <<dropping, fault, misplaced>>

(* One iteration of the loop that moves the new node up.                   *)
RotUp ==
  /\ pc = "up"
  /\ IF pos > 0 /\ Rank(pos) < Rank(HEAP_PARENT(pos))
       THEN _heap_swap(pos, HEAP_PARENT(pos)) /\ pos' = HEAP_PARENT(pos) /\ UNCHANGED pc
       ELSE pc' = "idle" /\ pos' = 0 /\ UNCHANGED <<array, key_table>>
  /\ UNCHANGED <<cap, size, next_key, dropping, fault, inserts, misplaced, held>>

(* Fault: always the left child.                                           *)
ChildLeft(p) == HEAP_LEFT_CHILD(p)

(* The child _heap_rotdown compares with: the only one, or the smaller one *)
(* (the right one when they are equal).                                    *)
Child(p) ==
  LET l == HEAP_LEFT_CHILD(p)
      r == HEAP_RIGHT_CHILD(p)
  IN IF r >= size \/ Rank(l) < Rank(r) THEN l ELSE r

(* Fault: a missing break, the loop goes on where nothing is left to do.   *)
RotDownNoBreak ==
  /\ pc = "down"
  /\ IF HEAP_LEFT_CHILD(pos) < size
       THEN /\ IF Rank(Child(pos)) < Rank(pos)
                 THEN _heap_swap(pos, Child(pos)) /\ pos' = Child(pos)
                 ELSE UNCHANGED <<array, key_table, pos>>
            /\ UNCHANGED <<pc, dropping>>
       ELSE /\ pc' = "idle" /\ pos' = 0 /\ dropping' = -1
            /\ key_table' = IF dropping < 0 THEN key_table
                            ELSE [key_table EXCEPT ![dropping] = -1]
            /\ UNCHANGED array
  /\ UNCHANGED <<cap, size, next_key, fault, inserts, misplaced, held>>

(* One iteration of _heap_rotdown; when the loop ends heap_erase clears    *)
(* its key, and the operation returns.                                     *)
RotDown ==
  /\ pc = "down"
  /\ IF HEAP_LEFT_CHILD(pos) < size /\ Rank(Child(pos)) < Rank(pos)
       THEN /\ _heap_swap(pos, Child(pos)) /\ pos' = Child(pos)
            /\ UNCHANGED <<pc, dropping>>
       ELSE /\ pc' = "idle" /\ pos' = 0 /\ dropping' = -1
            /\ key_table' = IF dropping < 0 THEN key_table
                            ELSE [key_table EXCEPT ![dropping] = -1]
            /\ UNCHANGED array
  /\ UNCHANGED <<cap, size, next_key, fault, inserts, misplaced, held>>

(* heap_pop, up to its loop.  The popped node's key stays in key_table.    *)
heap_pop ==
  /\ Ready
  /\ size > 0
  /\ _heap_swap(0, size - 1)
  /\ size' = size - 1
  /\ pc' = "down" /\ pos' = 0
  /\ held' = [k \in DOMAIN held \ {array[0].key} |-> held[k]]
  /\ UNCHANGED <<cap, next_key, dropping, fault, inserts, misplaced>>

(* Erasing position p puts the last node below a larger parent, where only *)
(* _heap_rotdown is called: the node may belong to another subtree.        *)
Misplaces(p) == p > 0 /\ p < size - 1 /\ Rank(size - 1) < Rank(HEAP_PARENT(p))

(* heap_erase, up to its loop; a key that is not in the table is ignored.  *)
heap_erase(k) ==
  /\ Ready
  /\ key_table[k] >= 0
  /\ IF size = 0
       THEN OutOfBounds /\ UNCHANGED inserts
       ELSE /\ next_key' = IF next_key = cap THEN k ELSE next_key
            /\ _heap_swap(key_table[k], size - 1)
            /\ size' = size - 1
            /\ pc' = "down" /\ pos' = key_table[k] /\ dropping' = k
            /\ held' = [j \in DOMAIN held \ {k} |-> held[j]]
            /\ misplaced' = (misplaced \/ Misplaces(key_table[k]))
            /\ UNCHANGED <<cap, fault, inserts>>

(* heap_update(heap, k, data), up to its loop.                             *)
heap_update(k, x) ==
  /\ Ready
  /\ key_table[k] >= 0
  /\ array' = [array EXCEPT ![key_table[k]].rank = x]
  /\ held' = [held EXCEPT ![k] = x]
  /\ pc' = "down" /\ pos' = key_table[k]
  /\ UNCHANGED <<cap, size, next_key, key_table, dropping, fault, inserts, misplaced>>

EraseKeys ==
  (IF "live" \in Erases THEN DOMAIN held ELSE {})
    \cup (IF "stale" \in Erases THEN (0..cap - 1) \ DOMAIN held ELSE {})

Loop == RotUp \/ RotDown

Next ==
  \/ \E x \in Ranks : heap_insert(x)
  \/ heap_pop
  \/ \E k \in EraseKeys : heap_erase(k)
  \/ \E k \in DOMAIN held, x \in Ranks : x >= held[k] /\ heap_update(k, x)
  \/ Loop

Spec == Init /\ [][Next]_vars
----------------------------------------------------------------------------
(* Properties *)

Nodes == [rank : Ranks, key : 0..cap - 1]

(* The shape of struct heap_t: size never exceeds cap, every occupied slot *)
(* holds a caller's object and a key inside the table, and a key the next  *)
(* heap_insert would use is not in use.                                    *)
TypeOK ==
  /\ cap \in Nat \ {0} /\ size \in 0..cap
  /\ array \in [0..cap - 1 -> Nodes \cup {Blank}]
  /\ \A p \in 0..size - 1 : array[p] \in Nodes
  /\ key_table \in [0..cap - 1 -> -1..cap - 1]
  /\ next_key \in 0..cap
  /\ next_key < cap => key_table[next_key] < 0 \/ dropping = next_key
  /\ pc \in {"idle", "up", "down"} /\ pos \in 0..cap - 1
  /\ dropping \in -1..cap - 1 /\ fault \in BOOLEAN
  /\ inserts \in 0..MaxInserts /\ misplaced \in BOOLEAN

(* Through every rotation and reallocation key_table finds, for each key a *)
(* caller still holds, the very object that was inserted under it, and the *)
(* heap holds nothing else.                                                *)
KeysHold ==
  /\ \A k \in DOMAIN held :
       /\ k \in 0..cap - 1 /\ key_table[k] \in 0..size - 1
       /\ array[key_table[k]] = [rank |-> held[k], key |-> k]
  /\ \A p \in 0..size - 1 :
       array[p].key \in DOMAIN held /\ key_table[array[p].key] = p

(* heap.c's two tables keep their shape and agree, at every turn of the    *)
(* loops: TypeOK and KeysHold together.                                    *)
Keyed == TypeOK /\ KeysHold

(* Between calls no element is smaller than its parent: what the loops of  *)
(* heap_insert and _heap_rotdown restore after every operation, erasures   *)
(* included as long as none of them moved a node below a larger parent.    *)
HeapOrder ==
  (pc = "idle" /\ ~misplaced) => \A p \in 1..size - 1 : Rank(HEAP_PARENT(p)) <= Rank(p)

(* What heap_top and heap_pop then give is the minimum.                    *)
MinAtTop ==
  (pc = "idle" /\ ~misplaced) => \A p \in 0..size - 1 : Rank(0) <= Rank(p)

(* heap.h: it "grows automatic", so no heap_insert runs out of the arrays. *)
GrowsAutomatic == ~fault
=============================================================================
