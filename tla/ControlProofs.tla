--------------------------- MODULE ControlProofs ---------------------------
(***************************************************************************)
(* Proofs about the components of module MCControl, in this order: the     *)
(* heap, for every capacity and any number of elements; the coroutines,    *)
(* for any units and any growth of the array; the state machine, for any   *)
(* rules and any nesting of triggers; the tasks, for any steps; the        *)
(* timers, for any intervals, on the theorems about the heap; the dirty    *)
(* words, for any files and texts.                                         *)
(***************************************************************************)
EXTENDS MCControl, NatLemmas, FiniteSetTheorems, SequenceTheorems

----------------------------------------------------------------------------
(* The heap.  Through inserts, pops, raising updates and erasures of live  *)
(* keys the key table stays the inverse of the array (KeysHold); without   *)
(* erasures the heap order is restored by every operation (HeapOrder).     *)

Live == 0 .. size - 1

(* What KeysHold needs to be inductive: the key being erased is no longer  *)
(* held by anyone, and a loop works on a position of the array.            *)
KeyInv ==
  /\ TypeOK
  /\ KeysHold
  /\ held \in [DOMAIN held -> Ranks]
  /\ pc # "down" => dropping = -1
  /\ pc = "up" => pos \in Live
  /\ dropping \notin DOMAIN held

(* The next key is a key nobody holds, or there is none.                   *)
LEMMA NextKeyUnheld == ASSUME KeyInv PROVE next_key \notin DOMAIN held
<1> SUFFICES ASSUME next_key \in DOMAIN held PROVE FALSE
  OBVIOUS
<1>1. next_key \in 0..cap - 1 /\ key_table[next_key] \in 0..size - 1
  BY DEF KeyInv, KeysHold
<1>2. key_table[next_key] < 0 \/ dropping = next_key
  BY <1>1 DEF KeyInv, TypeOK
<1> QED BY <1>1, <1>2 DEF KeyInv, TypeOK

(* _heap_set_next_key returns a free key inside the table, or cap.         *)
LEMMA NextKeyFree ==
  ASSUME NEW c \in Nat \ {0}, NEW t \in [0..c - 1 -> Int], NEW k \in 0..c - 1
  PROVE  LET n == _heap_set_next_key(t, c, k)
         IN n \in 0..c /\ (n < c => t[n] < 0)
<1> DEFINE free == {i \in 1..c - 1 : t[(k + i) % c] < 0}
           n == _heap_set_next_key(t, c, k)
<1>1. CASE free = {}
  <2>1. n = c
    BY <1>1 DEF _heap_set_next_key
  <2> QED BY <2>1
<1>2. CASE free # {}
  <2>1. \E i \in free : \A j \in free : i <= j
    <3>1. free \in SUBSET Nat
      OBVIOUS
    <3> HIDE DEF free
    <3> QED BY <1>2, <3>1, LeastNat
  <2> DEFINE m == CHOOSE i \in free : \A j \in free : i <= j
  <2>2. m \in free
    BY <2>1
  <2>3. n = (k + m) % c
    BY <1>2 DEF _heap_set_next_key
  <2> HIDE DEF m
  <2>4. k + m \in Int /\ t[(k + m) % c] < 0
    BY <2>2
  <2>5. (k + m) % c \in 0..c - 1
    BY <2>4, ModRange, c > 0
  <2> QED BY <2>3, <2>4, <2>5
<1> QED BY <1>1, <1>2

----------------------------------------------------------------------------
(* _heap_swap of two live nodes keeps the table the inverse of the array   *)
(* and touches no key that is not held.                                    *)
LEMMA SwapFacts ==
  ASSUME KeyInv, NEW p \in Live, NEW q \in Live, _heap_swap(p, q)
  PROVE  /\ array' \in [0..cap - 1 -> Nodes \cup {Blank}]
         /\ \A x \in Live : array'[x] \in Nodes
         /\ key_table' \in [0..cap - 1 -> -1..cap - 1]
         /\ \A x \in Live : array'[x].key \in DOMAIN held /\ key_table'[array'[x].key] = x
         /\ \A k \in DOMAIN held : key_table'[k] \in Live /\ array'[key_table'[k]] = [rank |-> held[k], key |-> k]
         /\ \A k \in (0..cap - 1) \ DOMAIN held : key_table'[k] = key_table[k]
         /\ array'[p] = array[q] /\ array'[q] = array[p]
         /\ \A x \in 0..cap - 1 : x # p /\ x # q => array'[x] = array[x]
<1>1. /\ cap \in Nat /\ size \in 0..cap
      /\ array \in [0..cap - 1 -> Nodes \cup {Blank}]
      /\ \A x \in Live : array[x] \in Nodes
      /\ key_table \in [0..cap - 1 -> -1..cap - 1]
  BY DEF KeyInv, TypeOK, Live
<1>2. p \in 0..cap - 1 /\ q \in 0..cap - 1 /\ Live \subseteq 0..cap - 1
  BY <1>1 DEF Live
<1>3. /\ array' \in [0..cap - 1 -> Nodes \cup {Blank}]
      /\ array'[p] = array[q] /\ array'[q] = array[p]
      /\ \A x \in 0..cap - 1 : x # p /\ x # q => array'[x] = array[x]
  BY <1>1, <1>2 DEF Swapped, _heap_swap
<1>4. /\ \A x \in Live : array[x].key \in DOMAIN held /\ key_table[array[x].key] = x
      /\ \A k \in DOMAIN held : k \in 0..cap - 1 /\ key_table[k] \in Live
                                /\ array[key_table[k]] = [rank |-> held[k], key |-> k]
  BY DEF KeyInv, KeysHold, Live
<1> DEFINE kp == array[p].key
           kq == array[q].key
<1>5. /\ kp \in 0..cap - 1 /\ kq \in 0..cap - 1
      /\ kp \in DOMAIN held /\ kq \in DOMAIN held
      /\ key_table[kp] = p /\ key_table[kq] = q
  BY <1>4
<1>6a. key_table' = [key_table EXCEPT ![kp] = q, ![kq] = p]
  BY DEF Retabled, _heap_swap
<1>6b. \A x \in Live : array[x].key \in 0..cap - 1
                      /\ (x # p => array[x].key # kp) /\ (x # q => array[x].key # kq)
  BY <1>4
<1>6c. array[key_table[kp]].key = kp /\ array[key_table[kq]].key = kq
  BY <1>5
<1>6d. array[p] = [rank |-> held[kp], key |-> kp] /\ array[q] = [rank |-> held[kq], key |-> kq]
  BY <1>4, <1>5
<1> HIDE DEF kp, kq
<1>6. /\ key_table' \in [0..cap - 1 -> -1..cap - 1]
      /\ key_table'[kp] = q /\ key_table'[kq] = p
      /\ \A k \in 0..cap - 1 : k # kp /\ k # kq => key_table'[k] = key_table[k]
  <2>1. kp = kq => p = q
    BY <1>5
  <2>2. p \in -1..cap - 1 /\ q \in -1..cap - 1
    BY <1>1, <1>2
  <2> QED BY <1>1, <1>5, <1>6a, <2>1, <2>2
<1>7. \A x \in Live : array'[x] \in Nodes
  BY <1>1, <1>2, <1>3
<1>8. ASSUME NEW x \in Live PROVE array'[x].key \in DOMAIN held /\ key_table'[array'[x].key] = x
  <2>1. CASE x = p
    BY <2>1, <1>3, <1>5, <1>6, <1>6d
  <2>2. CASE x = q
    BY <2>2, <1>3, <1>5, <1>6, <1>6d
  <2>3. CASE x # p /\ x # q
    <3>1. array'[x] = array[x] /\ array[x].key # kp /\ array[x].key # kq
      BY <2>3, <1>2, <1>3, <1>6b
    <3> QED BY <3>1, <1>4, <1>6, <1>6b
  <2> QED BY <2>1, <2>2, <2>3
<1>9. ASSUME NEW k \in DOMAIN held
      PROVE key_table'[k] \in Live /\ array'[key_table'[k]] = [rank |-> held[k], key |-> k]
  <2>1. CASE k = kp
    BY <2>1, <1>3, <1>6, <1>6d
  <2>2. CASE k = kq
    BY <2>2, <1>3, <1>6, <1>6d
  <2>3. CASE k # kp /\ k # kq
    <3>1. key_table'[k] = key_table[k] /\ key_table[k] # p /\ key_table[k] # q
      <4>1. k \in 0..cap - 1 /\ array[key_table[k]] = [rank |-> held[k], key |-> k]
        BY <1>4
      <4>2. array[key_table[k]].key = k
        BY <4>1
      <4>3. array[p].key = kp /\ array[q].key = kq
        BY <1>6d
      <4>4. key_table[k] # p /\ key_table[k] # q
        BY <4>2, <4>3, <2>3
      <4> QED BY <4>1, <4>4, <2>3, <1>6
    <3>2. key_table[k] \in Live /\ array[key_table[k]] = [rank |-> held[k], key |-> k]
      BY <1>4
    <3>3. array'[key_table[k]] = array[key_table[k]]
      BY <3>1, <3>2, <1>2, <1>3
    <3> QED BY <3>1, <3>2, <3>3
  <2> QED BY <2>1, <2>2, <2>3
<1>10. \A k \in (0..cap - 1) \ DOMAIN held : key_table'[k] = key_table[k]
  BY <1>5, <1>6
<1> QED BY <1>3, <1>6, <1>7, <1>8, <1>9, <1>10

----------------------------------------------------------------------------
(* heap_create *)
LEMMA InitKey == Init => KeyInv
<1> SUFFICES ASSUME Init PROVE KeyInv
  OBVIOUS
<1>1. TypeOK
  BY InitCapAssumption, MaxInsertsAssumption DEF Init, TypeOK, Nodes
<1> QED BY <1>1 DEF Init, KeyInv, KeysHold, Live

(* heap_insert: the tables keep their contents when they grow, and the new *)
(* node takes a slot and a key nobody uses.                                *)
LEMMA InsertKey == ASSUME KeyInv, NEW x \in Ranks, heap_insert(x) PROVE KeyInv'
<1> DEFINE full == size = cap
           c == IF full THEN 2 * cap ELSE cap
           a == IF full THEN Grown(array, cap, Blank) ELSE array
           t == IF full THEN Grown(key_table, cap, -1) ELSE key_table
           t2 == [t EXCEPT ![next_key] = size]
           node == [rank |-> x, key |-> next_key]
<1>0. inserts' \in 0..MaxInserts
  BY MaxInsertsAssumption DEF heap_insert, KeyInv, TypeOK
<1>1. CASE OutOfBounds
  BY <1>0, <1>1 DEF OutOfBounds, KeyInv, TypeOK, KeysHold, Nodes, Live
<1>2. CASE next_key < c /\ ~OutOfBounds
  <2>1. /\ pc = "idle" /\ cap' = c
        /\ array' = [a EXCEPT ![size] = node]
        /\ key_table' = t2
        /\ next_key' = _heap_set_next_key(t2, c, next_key)
        /\ size' = size + 1 /\ pc' = "up" /\ pos' = size
        /\ held' = [k \in DOMAIN held \cup {next_key} |->
                      IF k = next_key THEN x ELSE held[k]]
        /\ dropping' = dropping /\ fault' = fault /\ misplaced' = misplaced
    BY <1>2 DEF heap_insert, Ready
  <2>2. /\ cap \in Nat \ {0} /\ size \in 0..cap
        /\ array \in [0..cap - 1 -> Nodes \cup {Blank}]
        /\ \A p \in 0..size - 1 : array[p] \in Nodes
        /\ key_table \in [0..cap - 1 -> -1..cap - 1]
        /\ next_key \in 0..cap /\ fault \in BOOLEAN /\ misplaced \in BOOLEAN
        /\ dropping = -1
    BY <2>1 DEF KeyInv, TypeOK
  <2>3. c \in Nat \ {0} /\ cap <= c /\ size < c /\ next_key \in 0..c - 1
    BY <1>2, <2>2
  <2>4. /\ a \in [0..c - 1 -> Nodes \cup {Blank}]
        /\ \A p \in 0..cap - 1 : a[p] = array[p]
    BY <2>2 DEF Grown
  <2>5. /\ t \in [0..c - 1 -> -1..cap - 1]
        /\ \A k \in 0..cap - 1 : t[k] = key_table[k]
    BY <2>2 DEF Grown
  <2> HIDE DEF a, t, c, node
  <2>6. node \in [rank : Ranks, key : 0..c - 1] /\ node.key = next_key /\ node.rank = x
    BY <2>3 DEF node
  <2>7. Nodes' = [rank : Ranks, key : 0..c - 1] /\ Nodes \subseteq Nodes' /\ Blank' = Blank
    BY <2>1, <2>2, <2>3 DEF Nodes, Blank
  <2>8. /\ array' \in [0..c - 1 -> Nodes' \cup {Blank}]
        /\ array'[size] = node
        /\ \A p \in 0..size - 1 : array'[p] = array[p]
    BY <2>1, <2>2, <2>3, <2>4, <2>6, <2>7
  <2>9. /\ t2 \in [0..c - 1 -> -1..c - 1]
        /\ t2[next_key] = size
        /\ \A k \in 0..cap - 1 : k # next_key => t2[k] = key_table[k]
    BY <2>2, <2>3, <2>5
  <2>10. next_key' \in 0..c /\ (next_key' < c => t2[next_key'] < 0)
    <3>1. t2 \in [0..c - 1 -> Int]
      BY <2>9
    <3> HIDE DEF t2
    <3> QED BY <3>1, <2>1, <2>3, NextKeyFree
  <2> HIDE DEF t2
  <2>11. \A p \in 0..size' - 1 : array'[p] \in Nodes'
    BY <2>1, <2>2, <2>6, <2>7, <2>8
  <2>12. TypeOK'
    <3>1. /\ cap' \in Nat \ {0} /\ size' \in 0..cap' /\ pos' \in 0..cap' - 1
          /\ dropping' \in -1..cap' - 1
      BY <2>1, <2>2, <2>3
    <3> QED BY <1>0, <2>1, <2>2, <2>7, <2>8, <2>9, <2>10, <2>11, <3>1 DEF TypeOK
  <2>13. next_key \notin DOMAIN held
    BY NextKeyUnheld
  <2>14. \A k \in DOMAIN held' :
           /\ k \in 0..cap' - 1 /\ key_table'[k] \in 0..size' - 1
           /\ array'[key_table'[k]] = [rank |-> held'[k], key |-> k]
    <3>0. cap' = c /\ key_table' = t2 /\ size' - 1 = size
      BY <2>1, <2>2
    <3> SUFFICES ASSUME NEW k \in DOMAIN held'
                 PROVE /\ k \in 0..c - 1 /\ t2[k] \in 0..size
                       /\ array'[t2[k]] = [rank |-> held'[k], key |-> k]
      BY <3>0, Zenon
    <3>1. CASE k = next_key
      <4>1. held'[k] = x
        BY <3>1, <2>1
      <4> QED BY <3>1, <4>1, <2>2, <2>3, <2>8, <2>9 DEF node
    <3>2. CASE k # next_key
      <4>1. k \in DOMAIN held /\ held'[k] = held[k]
        BY <3>2, <2>1
      <4>2. /\ k \in 0..cap - 1 /\ key_table[k] \in 0..size - 1
            /\ array[key_table[k]] = [rank |-> held[k], key |-> k]
        BY <4>1 DEF KeyInv, KeysHold
      <4>3. t2[k] = key_table[k]
        BY <4>2, <3>2, <2>9
      <4> QED BY <4>1, <4>2, <4>3, <2>2, <2>3, <2>8
    <3> QED BY <3>1, <3>2
  <2>15. \A p \in 0..size' - 1 : array'[p].key \in DOMAIN held' /\ key_table'[array'[p].key] = p
    <3> SUFFICES ASSUME NEW p \in 0..size
                 PROVE array'[p].key \in DOMAIN held' /\ t2[array'[p].key] = p
      BY <2>1, <2>2
    <3>1. CASE p = size
      BY <3>1, <2>1, <2>6, <2>8, <2>9
    <3>2. CASE p # size
      <4>1. p \in 0..size - 1 /\ array'[p] = array[p]
        BY <3>2, <2>2, <2>8
      <4>2. array[p].key \in DOMAIN held /\ key_table[array[p].key] = p
        BY <4>1 DEF KeyInv, KeysHold
      <4>3. array[p].key \in 0..cap - 1 /\ array[p].key # next_key
        BY <4>2, <2>13 DEF KeyInv, KeysHold
      <4> QED BY <4>1, <4>2, <4>3, <2>1, <2>9
    <3> QED BY <3>1, <3>2
  <2>16. held' \in [DOMAIN held' -> Ranks] /\ -1 \notin DOMAIN held'
    BY <2>1, <2>2, <2>3 DEF KeyInv
  <2>17. pos' \in 0..size' - 1
    BY <2>1, <2>2
  <2> QED BY <2>1, <2>2, <2>12, <2>14, <2>15, <2>16, <2>17 DEF KeyInv, KeysHold, Live
<1> QED BY <1>1, <1>2 DEF heap_insert

(* A rotation swaps two live nodes.                                        *)
LEMMA SwapKey ==
  ASSUME KeyInv, NEW p \in Live, NEW q \in Live, _heap_swap(p, q),
         UNCHANGED <<cap, size, next_key, pc, dropping, fault, inserts, misplaced, held>>, pos' \in Live
  PROVE  KeyInv'
<1>1. /\ array' \in [0..cap - 1 -> Nodes \cup {Blank}]
      /\ \A x \in Live : array'[x] \in Nodes
      /\ key_table' \in [0..cap - 1 -> -1..cap - 1]
      /\ \A x \in Live : array'[x].key \in DOMAIN held /\ key_table'[array'[x].key] = x
      /\ \A k \in DOMAIN held : key_table'[k] \in Live
                                /\ array'[key_table'[k]] = [rank |-> held[k], key |-> k]
      /\ \A k \in (0..cap - 1) \ DOMAIN held : key_table'[k] = key_table[k]
  BY SwapFacts
<1>2. next_key < cap => key_table'[next_key] < 0 \/ dropping = next_key
  BY <1>1, NextKeyUnheld DEF KeyInv, TypeOK
<1>3. Nodes' = Nodes /\ Live' = Live
  BY DEF Nodes, Live
<1>4. pos' \in 0..cap - 1
  BY DEF Live, KeyInv, TypeOK
<1>5. TypeOK'
  BY <1>1, <1>2, <1>3, <1>4 DEF KeyInv, TypeOK, Live
<1>6. KeysHold'
  BY <1>1 DEF KeyInv, KeysHold, Live
<1> QED BY <1>5, <1>6, <1>3 DEF KeyInv

(* A position other than the root has a parent before it.                  *)
LEMMA ParentFact ==
  ASSUME NEW p \in Nat \ {0}
  PROVE  /\ HEAP_PARENT(p) \in Nat /\ HEAP_PARENT(p) < p
         /\ p = 2 * HEAP_PARENT(p) + 1 \/ p = 2 * HEAP_PARENT(p) + 2
  BY DEF HEAP_PARENT

(* One turn of the loop of heap_insert keeps keys and positions matched.   *)
LEMMA RotUpKey == ASSUME KeyInv, RotUp PROVE KeyInv'
<1>1. CASE pos > 0 /\ Rank(pos) < Rank(HEAP_PARENT(pos))
  <2>1. /\ _heap_swap(pos, HEAP_PARENT(pos)) /\ pos' = HEAP_PARENT(pos)
        /\ UNCHANGED <<cap, size, next_key, pc, dropping, fault, inserts, misplaced, held>>
    BY <1>1 DEF RotUp
  <2>2. pos \in Live
    BY DEF RotUp, KeyInv
  <2>3. HEAP_PARENT(pos) \in Live
    <3>1. pos \in Nat \ {0} /\ size \in Nat
      BY <1>1 DEF KeyInv, TypeOK
    <3>2. HEAP_PARENT(pos) \in Nat /\ HEAP_PARENT(pos) < pos
      BY <3>1, ParentFact
    <3> QED BY <2>2, <3>1, <3>2 DEF Live
  <2> QED BY <2>1, <2>2, <2>3, SwapKey
<1>2. CASE ~(pos > 0 /\ Rank(pos) < Rank(HEAP_PARENT(pos)))
  <2>1. /\ pc' = "idle" /\ pos' = 0
        /\ UNCHANGED <<array, key_table, cap, size, next_key, dropping, fault, inserts, misplaced, held>>
    BY <1>2 DEF RotUp
  <2>2. dropping = -1
    BY DEF RotUp, KeyInv
  <2> QED BY <2>1, <2>2 DEF KeyInv, TypeOK, KeysHold, Nodes, Live
<1> QED BY <1>1, <1>2

(* The child _heap_rotdown swaps with is a live node.                      *)
LEMMA ChildFact ==
  ASSUME NEW p \in Nat, size \in Nat, HEAP_LEFT_CHILD(p) < size
  PROVE  /\ Child(p) \in Live /\ Child(p) > 0
         /\ Child(p) = 2 * p + 1 \/ Child(p) = 2 * p + 2
  BY DEF Child, Live, HEAP_LEFT_CHILD, HEAP_RIGHT_CHILD

(* One turn of the loop of _heap_rotdown keeps keys and positions matched, *)
(* also when it ends in dropping the last element.                         *)
LEMMA RotDownKey == ASSUME KeyInv, RotDown PROVE KeyInv'
<1>0. pos \in Nat /\ size \in Nat /\ cap \in Nat
  BY DEF KeyInv, TypeOK
<1>1. CASE HEAP_LEFT_CHILD(pos) < size /\ Rank(Child(pos)) < Rank(pos)
  <2>1. /\ _heap_swap(pos, Child(pos)) /\ pos' = Child(pos)
        /\ UNCHANGED <<cap, size, next_key, pc, dropping, fault, inserts, misplaced, held>>
    BY <1>1 DEF RotDown
  <2>2. Child(pos) \in Live
    BY <1>0, <1>1, ChildFact
  <2>3. pos \in Live
    BY <1>0, <1>1 DEF Live, HEAP_LEFT_CHILD
  <2> QED BY <2>1, <2>2, <2>3, SwapKey
<1>2. CASE ~(HEAP_LEFT_CHILD(pos) < size /\ Rank(Child(pos)) < Rank(pos))
  <2>1. /\ pc' = "idle" /\ pos' = 0 /\ dropping' = -1
        /\ key_table' = IF dropping < 0 THEN key_table ELSE [key_table EXCEPT ![dropping] = -1]
        /\ UNCHANGED <<array, cap, size, next_key, fault, inserts, misplaced, held>>
    BY <1>2 DEF RotDown
  <2>2. /\ dropping \in -1..cap - 1 /\ dropping \notin DOMAIN held
        /\ key_table \in [0..cap - 1 -> -1..cap - 1]
    BY DEF KeyInv, TypeOK
  <2>3. /\ key_table' \in [0..cap - 1 -> -1..cap - 1]
        /\ \A k \in 0..cap - 1 : k # dropping => key_table'[k] = key_table[k]
        /\ dropping >= 0 => key_table'[dropping] = -1
    BY <1>0, <2>1, <2>2
  <2>4. next_key < cap => key_table'[next_key] < 0
    <3>1. next_key < cap => /\ next_key \in 0..cap - 1
                            /\ key_table[next_key] < 0 \/ dropping = next_key
      BY <1>0 DEF KeyInv, TypeOK
    <3>2. CASE dropping = next_key /\ next_key < cap
      <4>1. dropping >= 0
        BY <3>1, <3>2
      <4> QED BY <2>3, <3>2, <4>1
    <3>3. CASE dropping # next_key /\ next_key < cap
      BY <2>3, <3>1, <3>3
    <3> QED BY <3>2, <3>3
  <2>5. TypeOK'
    BY <1>0, <2>1, <2>3, <2>4 DEF KeyInv, TypeOK, Nodes
  <2>6. /\ \A k \in DOMAIN held : k \in 0..cap - 1 /\ key_table'[k] = key_table[k]
        /\ -1 \notin DOMAIN held
    <3>1. \A k \in DOMAIN held : k \in 0..cap - 1
      BY DEF KeyInv, KeysHold
    <3> QED BY <1>0, <2>2, <2>3, <3>1
  <2>7. KeysHold'
    BY <2>1, <2>6 DEF KeyInv, KeysHold
  <2> QED BY <2>1, <2>5, <2>6, <2>7 DEF KeyInv
<1> QED BY <1>1, <1>2

(* Taking out the node at p: it changes places with the last one, which    *)
(* then lies outside the heap.                                             *)
LEMMA TakeKey ==
  ASSUME KeyInv, NEW p \in Live, _heap_swap(p, size - 1), size' = size - 1,
         held' = [k \in DOMAIN held \ {array[p].key} |-> held[k]],
         UNCHANGED <<cap, fault, inserts>>, misplaced' \in BOOLEAN, pc' = "down", pos' = p,
         dropping' \in {-1, array[p].key},
         next_key' = next_key \/ (next_key' = array[p].key /\ dropping' = array[p].key),
         dropping = -1
  PROVE  KeyInv'
<1> DEFINE kp == array[p].key
<1>0. size \in Nat /\ cap \in Nat /\ size <= cap /\ size - 1 \in Live /\ p \in 0..cap - 1
  BY DEF KeyInv, TypeOK, Live
<1>1. /\ array' \in [0..cap - 1 -> Nodes \cup {Blank}]
      /\ \A x \in Live : array'[x] \in Nodes
      /\ key_table' \in [0..cap - 1 -> -1..cap - 1]
      /\ \A x \in Live : array'[x].key \in DOMAIN held /\ key_table'[array'[x].key] = x
      /\ \A k \in DOMAIN held : key_table'[k] \in Live
                                /\ array'[key_table'[k]] = [rank |-> held[k], key |-> k]
      /\ \A k \in (0..cap - 1) \ DOMAIN held : key_table'[k] = key_table[k]
      /\ array'[size - 1] = array[p]
  BY <1>0, SwapFacts
<1>2. kp \in DOMAIN held /\ kp \in 0..cap - 1 /\ key_table'[kp] = size - 1
  <2>1. kp \in DOMAIN held
    BY DEF KeyInv, KeysHold, Live
  <2>2. kp \in 0..cap - 1
    BY <2>1 DEF KeyInv, KeysHold
  <2>3. array'[size - 1].key = kp /\ key_table'[array'[size - 1].key] = size - 1
    BY <1>0, <1>1
  <2> QED BY <2>1, <2>2, <2>3
<1> HIDE DEF kp
<1>2a. array'[size - 1].key = kp
  BY <1>1 DEF kp
<1>3. \A x \in 0..size - 2 : x \in Live /\ array'[x].key # kp
  BY <1>0, <1>1, <1>2 DEF Live
<1>4. \A k \in DOMAIN held \ {kp} : key_table'[k] \in 0..size - 2
  <2> SUFFICES ASSUME NEW k \in DOMAIN held \ {kp} PROVE key_table'[k] \in 0..size - 2
    OBVIOUS
  <2>1a. key_table'[k] \in Live /\ array'[key_table'[k]] = [rank |-> held[k], key |-> k]
    BY <1>1
  <2>1. key_table'[k] \in Live /\ array'[key_table'[k]].key = k
    BY <2>1a
  <2>2. key_table'[k] # size - 1
    BY <2>1, <1>2a
  <2> QED BY <2>1, <2>2, <1>0 DEF Live
<1>5. next_key' \in 0..cap /\ (next_key' < cap => key_table'[next_key'] < 0 \/ dropping' = next_key')
  <2>1. CASE next_key' = next_key
    BY <2>1, <1>0, <1>1, NextKeyUnheld DEF KeyInv, TypeOK
  <2>2. CASE next_key' = kp /\ dropping' = kp
    BY <2>2, <1>0, <1>2
  <2> QED BY <2>1, <2>2 DEF kp
<1>6. TypeOK'
  <2>1. Nodes' = Nodes
    BY DEF Nodes
  <2>2. dropping' \in -1..cap - 1
    BY <1>0, <1>2 DEF kp
  <2>3. \A x \in 0..size' - 1 : array'[x] \in Nodes
    BY <1>0, <1>1 DEF Live
  <2>4. cap \in Nat \ {0} /\ fault \in BOOLEAN /\ inserts \in 0..MaxInserts
    BY DEF KeyInv, TypeOK
  <2>5. size' \in 0..cap' /\ pos' \in 0..cap' - 1 /\ pc' \in {"idle", "up", "down"}
    BY <1>0 DEF Live
  <2> QED BY <1>1, <1>5, <2>1, <2>2, <2>3, <2>4, <2>5 DEF TypeOK
<1>7. held' = [k \in DOMAIN held \ {kp} |-> held[k]]
  BY DEF kp
<1>8. KeysHold'
  <2>1. ASSUME NEW k \in DOMAIN held'
        PROVE  /\ k \in 0..cap - 1 /\ key_table'[k] \in 0..size' - 1
               /\ array'[key_table'[k]] = [rank |-> held'[k], key |-> k]
    <3>1. k \in DOMAIN held \ {kp} /\ held'[k] = held[k]
      BY <1>7
    <3>2. k \in 0..cap - 1
      BY <3>1 DEF KeyInv, KeysHold
    <3> QED BY <3>1, <3>2, <1>0, <1>1, <1>4
  <2>2. ASSUME NEW x \in 0..size' - 1
        PROVE  array'[x].key \in DOMAIN held' /\ key_table'[array'[x].key] = x
    <3>1. x \in Live /\ array'[x].key # kp
      BY <1>0, <1>3
    <3> QED BY <3>1, <1>1, <1>7
  <2> QED BY <2>1, <2>2 DEF KeysHold
<1>9. held' \in [DOMAIN held' -> Ranks] /\ dropping' \notin DOMAIN held'
  <2>1. -1 \notin DOMAIN held
    BY <1>0 DEF KeyInv, KeysHold
  <2> QED BY <1>7, <2>1 DEF KeyInv, kp
<1> QED BY <1>6, <1>8, <1>9 DEF KeyInv

(* heap_pop takes the root.                                                *)
LEMMA PopKey == ASSUME KeyInv, heap_pop PROVE KeyInv'
<1>1. pc = "idle" /\ dropping = -1 /\ 0 \in Live
  BY DEF heap_pop, Ready, KeyInv, TypeOK, Live
<1>2. misplaced' \in BOOLEAN
  BY DEF heap_pop, KeyInv, TypeOK
<1> QED BY <1>1, <1>2, TakeKey DEF heap_pop

(* heap_erase takes the position its key names.                            *)
LEMMA EraseKey == ASSUME KeyInv, NEW k \in DOMAIN held, heap_erase(k) PROVE KeyInv'
<1>1. pc = "idle" /\ dropping = -1
  BY DEF heap_erase, Ready, KeyInv
<1>2a. key_table[k] \in Live /\ array[key_table[k]] = [rank |-> held[k], key |-> k]
  BY DEF KeyInv, KeysHold, Live
<1>2. key_table[k] \in Live /\ array[key_table[k]].key = k
  BY <1>2a
<1>3. size # 0
  BY <1>2 DEF Live, KeyInv, TypeOK
<1>4. misplaced' \in BOOLEAN
  BY <1>3 DEF heap_erase
<1> QED BY <1>1, <1>2, <1>3, <1>4, TakeKey DEF heap_erase

(* heap_update changes the rank of one element and of no other.            *)
LEMMA UpdateKey ==
  ASSUME KeyInv, NEW k \in DOMAIN held, NEW x \in Ranks, heap_update(k, x)
  PROVE  KeyInv'
<1> DEFINE p == key_table[k]
<1>1. /\ pc = "idle" /\ dropping = -1
      /\ array' = [array EXCEPT ![p].rank = x] /\ held' = [held EXCEPT ![k] = x]
      /\ pc' = "down" /\ pos' = p
      /\ UNCHANGED <<cap, size, next_key, key_table, dropping, fault, inserts, misplaced>>
  BY DEF heap_update, Ready, KeyInv
<1>2. /\ p \in Live /\ array[p] = [rank |-> held[k], key |-> k]
      /\ p \in 0..cap - 1 /\ k \in 0..cap - 1
  BY DEF KeyInv, KeysHold, Live, TypeOK
<1>3. \A j \in DOMAIN held : key_table[j] \in 0..cap - 1 /\ (j # k => key_table[j] # p)
  <2> SUFFICES ASSUME NEW j \in DOMAIN held
               PROVE  key_table[j] \in 0..cap - 1 /\ (j # k => key_table[j] # p)
    OBVIOUS
  <2>1a. key_table[j] \in Live /\ array[key_table[j]] = [rank |-> held[j], key |-> j]
    BY DEF KeyInv, KeysHold, Live
  <2>1. key_table[j] \in Live /\ array[key_table[j]].key = j
    BY <2>1a
  <2>2. array[p].key = k
    BY <1>2
  <2> QED BY <2>1, <2>2 DEF Live, KeyInv, TypeOK
<1> HIDE DEF p
<1>4. /\ array' \in [0..cap - 1 -> Nodes \cup {Blank}]
      /\ array'[p] = [rank |-> x, key |-> k]
      /\ \A q \in 0..cap - 1 : q # p => array'[q] = array[q]
  BY <1>1, <1>2 DEF KeyInv, TypeOK, Nodes
<1>5. [rank |-> x, key |-> k] \in Nodes
  BY <1>2 DEF Nodes
<1>6. TypeOK'
  <2>1. Nodes' = Nodes
    BY <1>1 DEF Nodes
  <2>2. \A q \in 0..size - 1 : array'[q] \in Nodes
    BY <1>4, <1>5 DEF KeyInv, TypeOK
  <2> QED BY <1>1, <1>2, <1>4, <2>1, <2>2 DEF KeyInv, TypeOK
<1>7. KeysHold'
  <2>1. ASSUME NEW j \in DOMAIN held
        PROVE  /\ j \in 0..cap - 1 /\ key_table[j] \in 0..size - 1
               /\ array'[key_table[j]] = [rank |-> held'[j], key |-> j]
    <3>1. /\ j \in 0..cap - 1 /\ key_table[j] \in 0..size - 1
          /\ array[key_table[j]] = [rank |-> held[j], key |-> j]
      BY DEF KeyInv, KeysHold
    <3>2. CASE j = k
      <4>1. held'[j] = x /\ key_table[j] = p
        BY <3>2, <1>1 DEF p
      <4> QED BY <3>1, <3>2, <4>1, <1>4
    <3>3. CASE j # k
      <4>1. held'[j] = held[j] /\ array'[key_table[j]] = array[key_table[j]]
        BY <3>3, <1>1, <1>3, <1>4
      <4> QED BY <3>1, <4>1
    <3> QED BY <3>2, <3>3
  <2>2. ASSUME NEW q \in 0..size - 1
        PROVE  array'[q].key \in DOMAIN held /\ key_table[array'[q].key] = q
    <3>0. q \in 0..cap - 1
      BY DEF KeyInv, TypeOK
    <3>1. array'[q].key = array[q].key
      <4>1. CASE q = p
        BY <4>1, <1>2, <1>4
      <4>2. CASE q # p
        BY <4>2, <3>0, <1>4
      <4> QED BY <4>1, <4>2
    <3> QED BY <3>1 DEF KeyInv, KeysHold
  <2>3. DOMAIN held' = DOMAIN held
    BY <1>1
  <2> QED BY <2>1, <2>2, <2>3, <1>1 DEF KeysHold
<1> QED BY <1>1, <1>6, <1>7 DEF KeyInv

(* Every step keeps the key table right when callers erase live keys only. *)
LEMMA NextKeyInv ==
  ASSUME "stale" \notin Erases, KeyInv, [Next]_vars
  PROVE  KeyInv'
<1>1. CASE \E x \in Ranks : heap_insert(x)
  BY <1>1, InsertKey
<1>2. CASE heap_pop
  BY <1>2, PopKey
<1>3. CASE \E k \in EraseKeys : heap_erase(k)
  BY <1>3, EraseKey DEF EraseKeys
<1>4. CASE \E k \in DOMAIN held, x \in Ranks : x >= held[k] /\ heap_update(k, x)
  BY <1>4, UpdateKey
<1>5. CASE Loop
  BY <1>5, RotUpKey, RotDownKey DEF Loop
<1>6. CASE UNCHANGED vars
  BY <1>6 DEF vars, KeyInv, TypeOK, KeysHold, Nodes, Live
<1> QED BY <1>1, <1>2, <1>3, <1>4, <1>5, <1>6 DEF Next

(* While no key that was popped or erased is erased again, the shape of    *)
(* the heap is right, for every capacity.                                  *)
THEOREM TypeCorrect == ASSUME "stale" \notin Erases PROVE Spec => []TypeOK
<1>1. KeyInv => TypeOK
  BY DEF KeyInv
<1> QED BY <1>1, InitKey, NextKeyInv, PTL DEF Spec

(* While no key that was popped or erased is erased again, key_table finds *)
(* for every key the element that was inserted under it.                   *)
THEOREM KeysHoldHolds == ASSUME "stale" \notin Erases PROVE Spec => []KeysHold
<1>1. KeyInv => KeysHold
  BY DEF KeyInv
<1> QED BY <1>1, InitKey, NextKeyInv, PTL DEF Spec

(* For every capacity the shape and the agreement of the two tables, while *)
(* no key that was popped or erased is erased again (see Keyed).           *)
THEOREM KeyedHolds == ASSUME "stale" \notin Erases PROVE Spec => []Keyed
<1>1. TypeOK /\ KeysHold => Keyed
  BY DEF Keyed
<1> QED BY <1>1, TypeCorrect, KeysHoldHolds, PTL

----------------------------------------------------------------------------
(* Heap order                                                              *)

(* The order of an array a of n nodes, except where a loop is at work: a   *)
(* node p on its way up may be smaller than its parent, one on its way     *)
(* down larger than its children; in both cases its children are not       *)
(* smaller than its parent, so that one swap repairs the place it leaves.  *)
OrdBut(a, n, m, p) ==
  /\ \A x \in 1..n - 1 :
       \/ m = "up" /\ x = p
       \/ m = "down" /\ HEAP_PARENT(x) = p
       \/ a[HEAP_PARENT(x)].rank <= a[x].rank
  /\ (m # "idle" /\ p > 0) =>
       \A x \in 1..n - 1 : HEAP_PARENT(x) = p => a[HEAP_PARENT(p)].rank <= a[x].rank

Ordered == OrdBut(array, size, pc, pos)

(* The first n nodes of a carry numbers.                                   *)
Ranked(a, n) == \A x \in 0..n - 1 : a[x].rank \in Int

(* Node x of n, and its parent, are among the first n nodes.               *)
LEMMA ParentIn ==
  ASSUME NEW n \in Nat, NEW x \in 1..n - 1
  PROVE  /\ x \in 0..n - 1 /\ x \in Nat \ {0}
         /\ HEAP_PARENT(x) \in 0..n - 1 /\ HEAP_PARENT(x) \in Nat /\ HEAP_PARENT(x) < x
<1>1. x \in Nat \ {0}
  OBVIOUS
<1>2. HEAP_PARENT(x) \in Nat /\ HEAP_PARENT(x) < x
  BY <1>1, ParentFact
<1> QED BY <1>1, <1>2

(* A swap with a larger parent moves the exception up.                     *)
LEMMA UpStep ==
  ASSUME NEW n \in Nat, NEW a, NEW b, NEW p \in 1..n - 1, NEW u, u = HEAP_PARENT(p),
         Ranked(a, n), OrdBut(a, n, "up", p), a[p].rank < a[u].rank,
         b[p] = a[u], b[u] = a[p],
         \A x \in 0..n - 1 : x # p /\ x # u => b[x] = a[x]
  PROVE  OrdBut(b, n, "up", u)
<1>1. /\ u \in 0..n - 1 /\ u \in Nat /\ u < p
      /\ a[u].rank \in Int /\ a[p].rank \in Int
  BY ParentIn DEF Ranked
<1>2. ASSUME NEW x \in 1..n - 1, x # u
      PROVE  b[HEAP_PARENT(x)].rank <= b[x].rank
  <2>0. PICK y : y = HEAP_PARENT(x)
    OBVIOUS
  <2>1. /\ x \in 0..n - 1 /\ y \in 0..n - 1 /\ y < x /\ x \in Nat /\ y \in Nat
        /\ a[x].rank \in Int /\ a[y].rank \in Int
    BY <2>0, ParentIn DEF Ranked
  <2>2. x # p => a[y].rank <= a[x].rank
    BY <2>0 DEF OrdBut
  <2>3. y = p => a[u].rank <= a[x].rank
    <3>1. ASSUME HEAP_PARENT(x) = p PROVE a[HEAP_PARENT(p)].rank <= a[x].rank
      BY <1>1, <3>1 DEF OrdBut
    <3> QED BY <2>0, <3>1
  <2>4. x = p => y = u
    BY <2>0
  <2>5. b[y].rank <= b[x].rank
    BY <1>1, <1>2, <2>1, <2>2, <2>3, <2>4
  <2> QED BY <2>0, <2>5
<1>3. ASSUME u > 0, NEW x \in 1..n - 1, HEAP_PARENT(x) = u
      PROVE  b[HEAP_PARENT(u)].rank <= b[x].rank
  <2>0. PICK y : y = HEAP_PARENT(u)
    OBVIOUS
  <2>1. u \in 1..n - 1
    BY <1>1, <1>3
  <2>2. /\ y \in 0..n - 1 /\ y \in Nat /\ y < u /\ a[y].rank \in Int
    BY <2>0, <2>1, ParentIn DEF Ranked
  <2>3. /\ x \in 0..n - 1 /\ u < x /\ a[x].rank \in Int
    BY <1>3, ParentIn DEF Ranked
  <2>4. a[y].rank <= a[u].rank
    BY <1>1, <2>0, <2>1 DEF OrdBut
  <2>5. x # p => a[u].rank <= a[x].rank
    BY <1>3 DEF OrdBut
  <2>6. b[y].rank <= b[x].rank
    BY <1>1, <2>2, <2>3, <2>4, <2>5
  <2> QED BY <2>0, <2>6
<1> QED BY <1>2, <1>3 DEF OrdBut

(* A swap with the smallest child moves the exception down.                *)
LEMMA DownStep ==
  ASSUME NEW n \in Nat, NEW a, NEW b, NEW p \in 0..n - 1, NEW c \in 1..n - 1,
         HEAP_PARENT(c) = p, Ranked(a, n), OrdBut(a, n, "down", p),
         \A x \in 1..n - 1 : HEAP_PARENT(x) = p => a[c].rank <= a[x].rank,
         a[c].rank < a[p].rank,
         b[p] = a[c], b[c] = a[p],
         \A x \in 0..n - 1 : x # p /\ x # c => b[x] = a[x]
  PROVE  OrdBut(b, n, "down", c)
<1>1. /\ p \in Nat /\ c \in Nat /\ c \in 0..n - 1 /\ p < c
      /\ a[p].rank \in Int /\ a[c].rank \in Int
  BY ParentIn DEF Ranked
<1>2. ASSUME NEW x \in 1..n - 1, HEAP_PARENT(x) # c
      PROVE  b[HEAP_PARENT(x)].rank <= b[x].rank
  <2>0. PICK y : y = HEAP_PARENT(x)
    OBVIOUS
  <2>1. /\ x \in 0..n - 1 /\ y \in 0..n - 1 /\ y < x /\ x \in Nat /\ y \in Nat
        /\ a[x].rank \in Int /\ a[y].rank \in Int
    BY <2>0, ParentIn DEF Ranked
  <2>2. y # p => a[y].rank <= a[x].rank
    BY <2>0 DEF OrdBut
  <2>3. y = p => a[c].rank <= a[x].rank
    BY <2>0
  <2>4. x = p => a[y].rank <= a[c].rank
    <3>1. ASSUME x = p PROVE a[HEAP_PARENT(p)].rank <= a[c].rank
      BY <1>1, <2>1, <3>1 DEF OrdBut
    <3> QED BY <2>0, <3>1
  <2>5. x = c => y = p
    BY <2>0
  <2>6. y # c
    BY <1>2, <2>0
  <2>7. b[y].rank <= b[x].rank
    BY <1>1, <2>1, <2>2, <2>3, <2>4, <2>5, <2>6
  <2> QED BY <2>0, <2>7
<1>3. ASSUME NEW x \in 1..n - 1, HEAP_PARENT(x) = c
      PROVE  b[HEAP_PARENT(c)].rank <= b[x].rank
  <2>1. /\ x \in 0..n - 1 /\ x \in Nat /\ c < x
    BY <1>3, ParentIn
  <2>2. a[c].rank <= a[x].rank
    BY <1>1, <1>3 DEF OrdBut
  <2> QED BY <1>1, <2>1, <2>2
<1> QED BY <1>2, <1>3 DEF OrdBut

(* Both loops end in an array without exceptions.                          *)
LEMMA UpEnd ==
  ASSUME NEW n \in Nat, NEW a, NEW p \in 0..n - 1, OrdBut(a, n, "up", p), Ranked(a, n),
         ~(p > 0 /\ a[p].rank < a[HEAP_PARENT(p)].rank), NEW q
  PROVE  OrdBut(a, n, "idle", q)
<1> SUFFICES ASSUME NEW x \in 1..n - 1 PROVE a[HEAP_PARENT(x)].rank <= a[x].rank
  BY DEF OrdBut
<1>1. CASE x = p
  <2>1. a[x].rank \in Int /\ a[HEAP_PARENT(x)].rank \in Int
    BY ParentIn DEF Ranked
  <2> QED BY <1>1, <2>1
<1>2. CASE x # p
  BY <1>2 DEF OrdBut
<1> QED BY <1>1, <1>2

(* When no child of p is smaller the array is ordered again.               *)
LEMMA DownEnd ==
  ASSUME NEW n \in Nat, NEW a, NEW p, OrdBut(a, n, "down", p), NEW q,
         \A x \in 1..n - 1 : HEAP_PARENT(x) = p => a[p].rank <= a[x].rank
  PROVE  OrdBut(a, n, "idle", q)
<1> SUFFICES ASSUME NEW x \in 1..n - 1 PROVE a[HEAP_PARENT(x)].rank <= a[x].rank
  BY DEF OrdBut
<1>1. CASE HEAP_PARENT(x) = p
  BY <1>1
<1>2. CASE HEAP_PARENT(x) # p
  BY <1>2 DEF OrdBut
<1> QED BY <1>1, <1>2

(* heap_insert: the new node is the last one, nobody's parent.             *)
LEMMA InsertBut ==
  ASSUME NEW n \in Nat, NEW a, NEW b, NEW q, OrdBut(a, n, "idle", q),
         \A x \in 0..n - 1 : b[x] = a[x]
  PROVE  OrdBut(b, n + 1, "up", n)
<1>1. ASSUME NEW x \in 1..n, x # n
      PROVE  b[HEAP_PARENT(x)].rank <= b[x].rank
  <2>1. x \in 1..n - 1
    BY <1>1
  <2>2. x \in 0..n - 1 /\ HEAP_PARENT(x) \in 0..n - 1
    BY <2>1, ParentIn
  <2>3. a[HEAP_PARENT(x)].rank <= a[x].rank
    BY <2>1 DEF OrdBut
  <2> QED BY <2>2, <2>3
<1>2. \A x \in 1..n : HEAP_PARENT(x) # n
  <2> SUFFICES ASSUME NEW x \in 1..n PROVE HEAP_PARENT(x) # n
    OBVIOUS
  <2>1. x \in Nat \ {0} /\ x <= n
    OBVIOUS
  <2> QED BY <2>1, ParentFact
<1>3. 1..(n + 1) - 1 = 1..n
  OBVIOUS
<1> QED BY <1>1, <1>2, <1>3 DEF OrdBut

(* heap_pop: the last node is at the top.                                  *)
LEMMA PopBut ==
  ASSUME NEW n \in Nat, NEW a, NEW b, NEW q, OrdBut(a, n, "idle", q), n > 0,
         \A x \in 0..n - 1 : x # 0 /\ x # n - 1 => b[x] = a[x]
  PROVE  OrdBut(b, n - 1, "down", 0)
<1> SUFFICES ASSUME NEW x \in 1..(n - 1) - 1, HEAP_PARENT(x) # 0
             PROVE  b[HEAP_PARENT(x)].rank <= b[x].rank
  BY DEF OrdBut
<1>1. x \in 1..n - 1 /\ x # n - 1
  OBVIOUS
<1>2. /\ x \in 0..n - 1 /\ HEAP_PARENT(x) \in 0..n - 1
      /\ HEAP_PARENT(x) \in Nat /\ HEAP_PARENT(x) < x
  BY <1>1, ParentIn
<1>3. HEAP_PARENT(x) # n - 1
  BY <1>1, <1>2
<1>4. b[x] = a[x] /\ b[HEAP_PARENT(x)] = a[HEAP_PARENT(x)]
  BY <1>1, <1>2, <1>3
<1>5. a[HEAP_PARENT(x)].rank <= a[x].rank
  BY <1>1 DEF OrdBut
<1> QED BY <1>4, <1>5

(* heap_update: the rank of node p is raised.                              *)
LEMMA UpdateBut ==
  ASSUME NEW n \in Nat, NEW a, NEW b, NEW q, OrdBut(a, n, "idle", q), Ranked(a, n),
         NEW p \in 0..n - 1, b[p].rank \in Int, a[p].rank <= b[p].rank,
         \A x \in 0..n - 1 : x # p => b[x] = a[x]
  PROVE  OrdBut(b, n, "down", p)
<1>1. ASSUME NEW x \in 1..n - 1, HEAP_PARENT(x) # p
      PROVE  b[HEAP_PARENT(x)].rank <= b[x].rank
  <2>0. PICK y : y = HEAP_PARENT(x)
    OBVIOUS
  <2>1. /\ x \in 0..n - 1 /\ y \in 0..n - 1
        /\ a[x].rank \in Int /\ a[y].rank \in Int /\ a[p].rank \in Int
    BY <2>0, ParentIn DEF Ranked
  <2>2. a[y].rank <= a[x].rank
    BY <2>0 DEF OrdBut
  <2>3. b[y] = a[y] /\ (x # p => b[x] = a[x])
    BY <1>1, <2>0, <2>1
  <2>4. b[y].rank <= b[x].rank
    BY <2>1, <2>2, <2>3
  <2> QED BY <2>0, <2>4
<1>2. ASSUME p > 0, NEW x \in 1..n - 1, HEAP_PARENT(x) = p
      PROVE  b[HEAP_PARENT(p)].rank <= b[x].rank
  <2>0. PICK y : y = HEAP_PARENT(p)
    OBVIOUS
  <2>1. p \in 1..n - 1
    BY <1>2
  <2>2. /\ y \in 0..n - 1 /\ y < p /\ y \in Nat /\ p \in Nat /\ a[y].rank \in Int
        /\ a[p].rank \in Int
    BY <2>0, <2>1, ParentIn DEF Ranked
  <2>3. x \in 0..n - 1 /\ p < x /\ x \in Nat /\ a[x].rank \in Int
    BY <1>2, ParentIn DEF Ranked
  <2>4. a[y].rank <= a[p].rank /\ a[p].rank <= a[x].rank
    BY <1>2, <2>0, <2>1 DEF OrdBut
  <2>5. b[y] = a[y] /\ b[x] = a[x]
    BY <2>2, <2>3
  <2>6. b[y].rank <= b[x].rank
    BY <2>2, <2>3, <2>4, <2>5
  <2> QED BY <2>0, <2>6
<1> QED BY <1>1, <1>2 DEF OrdBut

(* heap_erase: the last node is at p, where its parent is not larger.      *)
LEMMA EraseBut ==
  ASSUME NEW n \in Nat, NEW a, NEW b, NEW q, OrdBut(a, n, "idle", q), Ranked(a, n),
         NEW p \in 0..n - 1, b[p] = a[n - 1],
         (p > 0 /\ p < n - 1) => ~(a[n - 1].rank < a[HEAP_PARENT(p)].rank),
         \A x \in 0..n - 1 : x # p /\ x # n - 1 => b[x] = a[x]
  PROVE  OrdBut(b, n - 1, "down", p)
<1>1. ASSUME NEW x \in 1..(n - 1) - 1, HEAP_PARENT(x) # p
      PROVE  b[HEAP_PARENT(x)].rank <= b[x].rank
  <2>0. PICK y : y = HEAP_PARENT(x)
    OBVIOUS
  <2>1. x \in 1..n - 1 /\ x < n - 1
    OBVIOUS
  <2>2. /\ x \in 0..n - 1 /\ y \in 0..n - 1 /\ y < n - 1 /\ n - 1 \in 0..n - 1
        /\ a[x].rank \in Int /\ a[y].rank \in Int /\ a[n - 1].rank \in Int
    BY <2>0, <2>1, ParentIn DEF Ranked
  <2>3. a[y].rank <= a[x].rank
    BY <2>0, <2>1 DEF OrdBut
  <2>4. b[y] = a[y]
    BY <1>1, <2>0, <2>2
  <2>5. CASE x = p
    BY <2>0, <2>1, <2>2, <2>4, <2>5
  <2>6. CASE x # p
    BY <2>0, <2>1, <2>2, <2>3, <2>4, <2>6
  <2> QED BY <2>5, <2>6
<1>2. ASSUME p > 0, NEW x \in 1..(n - 1) - 1, HEAP_PARENT(x) = p
      PROVE  b[HEAP_PARENT(p)].rank <= b[x].rank
  <2>0. PICK y : y = HEAP_PARENT(p)
    OBVIOUS
  <2>1. p \in 1..n - 1 /\ x \in 1..n - 1 /\ x < n - 1
    BY <1>2
  <2>2. x \in 0..n - 1 /\ p < x /\ x \in Nat /\ a[x].rank \in Int
    BY <1>2, <2>1, ParentIn DEF Ranked
  <2>3. /\ y \in 0..n - 1 /\ y < p /\ y \in Nat /\ p \in Nat /\ a[y].rank \in Int
        /\ a[p].rank \in Int
    BY <2>0, <2>1, ParentIn DEF Ranked
  <2>4. a[y].rank <= a[p].rank /\ a[p].rank <= a[x].rank
    BY <1>2, <2>0, <2>1 DEF OrdBut
  <2>5. b[y] = a[y] /\ b[x] = a[x]
    BY <2>1, <2>2, <2>3
  <2>6. b[y].rank <= b[x].rank
    BY <2>2, <2>3, <2>4, <2>5
  <2> QED BY <2>0, <2>6
<1> QED BY <1>1, <1>2 DEF OrdBut

----------------------------------------------------------------------------
(* Each operation and each iteration keeps Ordered.                        *)

(* What the key invariant says about sizes and types, in the form the      *)
(* ordering proof uses.                                                    *)
LEMMA KeyFacts ==
  ASSUME KeyInv
  PROVE  /\ size \in Nat /\ cap \in Nat /\ size <= cap /\ pos \in Nat
         /\ array = [p \in 0..cap - 1 |-> array[p]]
         /\ Ranked(array, size)
<1>1. /\ size \in Nat /\ cap \in Nat /\ size <= cap /\ pos \in Nat
      /\ array \in [0..cap - 1 -> Nodes \cup {Blank}]
      /\ \A p \in 0..size - 1 : array[p] \in Nodes
  BY DEF KeyInv, TypeOK
<1> QED BY <1>1, RanksAssumption DEF Ranked, Nodes

(* The empty heap is ordered.                                              *)
LEMMA InitOrdered == Init => Ordered
  BY DEF Init, Ordered, OrdBut

(* The inserted element may be smaller than its parent, and nothing else   *)
(* is.                                                                     *)
LEMMA InsertOrdered ==
  ASSUME KeyInv, Ordered, NEW x \in Ranks, heap_insert(x)
  PROVE  Ordered'
<1>1. CASE OutOfBounds
  BY <1>1 DEF OutOfBounds, Ordered
<1>2. CASE ~OutOfBounds
  <2>1. pc = "idle" /\ size' = size + 1 /\ pc' = "up" /\ pos' = size
    BY <1>2 DEF heap_insert, Ready
  <2>2. \A p \in 0..size - 1 : array'[p] = array[p]
    <3> DEFINE a == IF size = cap THEN Grown(array, cap, Blank) ELSE array
    <3>1. array' = [a EXCEPT ![size] = [rank |-> x, key |-> next_key]]
      BY <1>2 DEF heap_insert
    <3>2. \A p \in 0..size - 1 : a[p] = array[p] /\ p \in DOMAIN a /\ p # size
      BY KeyFacts DEF Grown
    <3> QED BY <3>1, <3>2
  <2>3. OrdBut(array, size, "idle", pos) /\ size \in Nat
    BY <2>1, KeyFacts DEF Ordered
  <2>4. OrdBut(array', size + 1, "up", size)
    BY <2>2, <2>3, InsertBut
  <2> QED BY <2>1, <2>4 DEF Ordered
<1> QED BY <1>1, <1>2

(* A turn upwards moves the only disorder to the parent.                   *)
LEMMA RotUpOrdered == ASSUME KeyInv, Ordered, RotUp PROVE Ordered'
<1>1. /\ OrdBut(array, size, "up", pos) /\ pos \in 0..size - 1 /\ pos \in Nat
      /\ size \in Nat /\ Ranked(array, size)
  BY KeyFacts DEF RotUp, Ordered, KeyInv, Live
<1>2. CASE pos > 0 /\ Rank(pos) < Rank(HEAP_PARENT(pos))
  <2>1. /\ pos' = HEAP_PARENT(pos) /\ pc' = "up" /\ size' = size
        /\ _heap_swap(pos, HEAP_PARENT(pos))
    BY <1>2 DEF RotUp
  <2>2. PICK u : u = HEAP_PARENT(pos)
    OBVIOUS
  <2>3. pos \in 1..size - 1 /\ u \in 0..size - 1
    BY <1>1, <1>2, <2>2, ParentIn
  <2>4. /\ array'[pos] = array[u] /\ array'[u] = array[pos]
        /\ \A x \in 0..cap - 1 : x # pos /\ x # u => array'[x] = array[x]
    BY <2>1, <2>2, <2>3, SwapFacts DEF Live
  <2>5. \A x \in 0..size - 1 : x # pos /\ x # u => array'[x] = array[x]
    BY <2>4, KeyFacts
  <2>6. array[pos].rank < array[u].rank
    BY <1>2, <2>2 DEF Rank
  <2>7. OrdBut(array', size, "up", u)
    BY <1>1, <2>2, <2>3, <2>4, <2>5, <2>6, UpStep
  <2> QED BY <2>1, <2>2, <2>7 DEF Ordered
<1>3. CASE ~(pos > 0 /\ Rank(pos) < Rank(HEAP_PARENT(pos)))
  <2>1. pc' = "idle" /\ array' = array /\ size' = size
    BY <1>3 DEF RotUp
  <2>2. OrdBut(array, size, "idle", pos')
    BY <1>1, <1>3, UpEnd DEF Rank
  <2> QED BY <2>1, <2>2 DEF Ordered
<1> QED BY <1>2, <1>3

(* Child(p) is a child of p, and none is smaller.                          *)
LEMMA ChildSmallest ==
  ASSUME NEW p \in Nat, size \in Nat, Ranked(array, size), HEAP_LEFT_CHILD(p) < size
  PROVE  /\ Child(p) \in 1..size - 1 /\ HEAP_PARENT(Child(p)) = p /\ p \in 0..size - 1
         /\ \A x \in 1..size - 1 : HEAP_PARENT(x) = p => Rank(Child(p)) <= Rank(x)
<1>1. /\ Child(p) \in 1..size - 1 /\ p \in 0..size - 1
      /\ Child(p) = 2 * p + 1 \/ Child(p) = 2 * p + 2
  BY DEF Child, HEAP_LEFT_CHILD, HEAP_RIGHT_CHILD
<1>2. HEAP_PARENT(Child(p)) = p
  BY <1>1 DEF HEAP_PARENT
<1>3. ASSUME NEW x \in 1..size - 1, HEAP_PARENT(x) = p
      PROVE  Rank(Child(p)) <= Rank(x)
  <2>1. x = 2 * p + 1 \/ x = 2 * p + 2
    BY <1>3, ParentFact
  <2>2. /\ Rank(2 * p + 1) \in Int /\ Rank(x) \in Int
        /\ 2 * p + 2 < size => Rank(2 * p + 2) \in Int
    BY <1>3, <2>1 DEF Ranked, Rank, HEAP_LEFT_CHILD
  <2>3. CASE 2 * p + 2 >= size
    <3>1. Child(p) = 2 * p + 1 /\ x = 2 * p + 1
      BY <2>1, <2>3 DEF Child, HEAP_LEFT_CHILD, HEAP_RIGHT_CHILD
    <3> QED BY <2>2, <3>1
  <2>4. CASE 2 * p + 2 < size
    <3>1. PICK l, r : l = 2 * p + 1 /\ r = 2 * p + 2
      OBVIOUS
    <3>2. Child(p) = IF Rank(l) < Rank(r) THEN l ELSE r
      BY <2>4, <3>1 DEF Child, HEAP_LEFT_CHILD, HEAP_RIGHT_CHILD
    <3>3. Rank(l) \in Int /\ Rank(r) \in Int /\ (x = l \/ x = r)
      BY <2>1, <2>2, <2>4, <3>1
    <3> QED BY <3>2, <3>3
  <2> QED BY <2>3, <2>4
<1> QED BY <1>1, <1>2, <1>3

(* A turn downwards moves the only disorder to the child.                  *)
LEMMA RotDownOrdered == ASSUME KeyInv, Ordered, RotDown PROVE Ordered'
<1>1. /\ OrdBut(array, size, "down", pos) /\ pos \in Nat
      /\ size \in Nat /\ Ranked(array, size)
  BY KeyFacts DEF RotDown, Ordered
<1>2. CASE HEAP_LEFT_CHILD(pos) < size /\ Rank(Child(pos)) < Rank(pos)
  <2>1. /\ pos' = Child(pos) /\ pc' = "down" /\ size' = size
        /\ _heap_swap(pos, Child(pos))
    BY <1>2 DEF RotDown
  <2>2. PICK c : c = Child(pos)
    OBVIOUS
  <2>3. /\ c \in 1..size - 1 /\ HEAP_PARENT(c) = pos /\ pos \in 0..size - 1
        /\ \A x \in 1..size - 1 : HEAP_PARENT(x) = pos => array[c].rank <= array[x].rank
    BY <1>1, <1>2, <2>2, ChildSmallest DEF Rank
  <2>4. c \in 0..size - 1
    BY <2>3
  <2>5. /\ array'[pos] = array[c] /\ array'[c] = array[pos]
        /\ \A x \in 0..cap - 1 : x # pos /\ x # c => array'[x] = array[x]
    BY <2>1, <2>2, <2>3, <2>4, SwapFacts DEF Live
  <2>6. \A x \in 0..size - 1 : x # pos /\ x # c => array'[x] = array[x]
    BY <2>5, KeyFacts
  <2>7. array[c].rank < array[pos].rank
    BY <1>2, <2>2 DEF Rank
  <2>8. OrdBut(array', size, "down", c)
    BY <1>1, <2>3, <2>5, <2>6, <2>7, DownStep
  <2> QED BY <2>1, <2>2, <2>8 DEF Ordered
<1>3. CASE ~(HEAP_LEFT_CHILD(pos) < size /\ Rank(Child(pos)) < Rank(pos))
  <2>1. pc' = "idle" /\ array' = array /\ size' = size
    BY <1>3 DEF RotDown
  <2>2. \A x \in 1..size - 1 : HEAP_PARENT(x) = pos => array[pos].rank <= array[x].rank
    <3> SUFFICES ASSUME NEW x \in 1..size - 1, HEAP_PARENT(x) = pos
                 PROVE  array[pos].rank <= array[x].rank
      OBVIOUS
    <3>1. HEAP_LEFT_CHILD(pos) < size
      <4>1. x \in Nat \ {0} /\ x < size
        BY <1>1
      <4>2. x = 2 * pos + 1 \/ x = 2 * pos + 2
        BY <4>1, ParentFact
      <4> QED BY <1>1, <4>1, <4>2 DEF HEAP_LEFT_CHILD
    <3>2. /\ Rank(Child(pos)) <= Rank(x) /\ Child(pos) \in 0..size - 1
          /\ pos \in 0..size - 1 /\ x \in 0..size - 1
      BY <1>1, <3>1, ChildSmallest
    <3>3. Rank(Child(pos)) \in Int /\ Rank(pos) \in Int /\ Rank(x) \in Int
      BY <1>1, <3>2 DEF Ranked, Rank
    <3> QED BY <1>3, <3>1, <3>2, <3>3 DEF Rank
  <2>3. OrdBut(array, size, "idle", pos')
    BY <1>1, <2>2, DownEnd
  <2> QED BY <2>1, <2>3 DEF Ordered
<1> QED BY <1>2, <1>3

(* After heap_pop only the root can be out of order.                       *)
LEMMA PopOrdered == ASSUME KeyInv, Ordered, heap_pop PROVE Ordered'
<1>1. /\ OrdBut(array, size, "idle", pos) /\ size \in Nat /\ size > 0
      /\ _heap_swap(0, size - 1) /\ size' = size - 1 /\ pc' = "down" /\ pos' = 0
  BY KeyFacts DEF heap_pop, Ordered, Ready
<1>2. 0 \in Live /\ size - 1 \in Live
  BY <1>1 DEF Live
<1>3. \A x \in 0..cap - 1 : x # 0 /\ x # size - 1 => array'[x] = array[x]
  BY <1>1, <1>2, SwapFacts
<1>4. \A x \in 0..size - 1 : x # 0 /\ x # size - 1 => array'[x] = array[x]
  BY <1>3, KeyFacts
<1>5. OrdBut(array', size - 1, "down", 0)
  BY <1>1, <1>4, PopBut
<1> QED BY <1>1, <1>5 DEF Ordered

(* After heap_update to a higher rank only that position can be too large  *)
(* for its children.                                                       *)
LEMMA UpdateOrdered ==
  ASSUME KeyInv, Ordered, NEW k \in DOMAIN held, NEW x \in Ranks, x >= held[k],
         heap_update(k, x)
  PROVE  Ordered'
<1>1. /\ OrdBut(array, size, "idle", pos) /\ size \in Nat /\ Ranked(array, size)
      /\ size' = size /\ pc' = "down" /\ pos' = key_table[k]
      /\ array' = [array EXCEPT ![key_table[k]].rank = x]
  BY KeyFacts DEF heap_update, Ordered, Ready
<1>2. PICK p : p = key_table[k]
  OBVIOUS
<1>3. p \in 0..size - 1 /\ array[p] = [rank |-> held[k], key |-> k]
  BY <1>2 DEF KeyInv, KeysHold
<1>4. /\ array'[p].rank = x
      /\ \A y \in 0..size - 1 : y # p => array'[y] = array[y]
  BY <1>1, <1>2, <1>3, KeyFacts
<1>5. x \in Int /\ held[k] \in Int
  BY RanksAssumption DEF KeyInv
<1>6. array[p].rank <= array'[p].rank /\ array'[p].rank \in Int
  BY <1>3, <1>4, <1>5
<1>7. OrdBut(array', size, "down", p)
  BY <1>1, <1>3, <1>4, <1>6, UpdateBut
<1> QED BY <1>1, <1>2, <1>7 DEF Ordered

(* After a heap_erase that misplaces nothing only the position it filled   *)
(* can be out of order, and only with its children.                        *)
LEMMA EraseOrdered ==
  ASSUME KeyInv, Ordered, NEW k \in DOMAIN held, heap_erase(k), ~misplaced'
  PROVE  Ordered'
<1>1. PICK p : p = key_table[k]
  OBVIOUS
<1>2. p \in Live /\ size \in Nat /\ size # 0 /\ size - 1 \in Live
  <2>1. p \in 0..size - 1
    BY <1>1 DEF KeyInv, KeysHold
  <2>2. size \in Nat
    BY KeyFacts
  <2> QED BY <2>1, <2>2 DEF Live
<1>3. /\ OrdBut(array, size, "idle", pos) /\ Ranked(array, size)
      /\ _heap_swap(p, size - 1) /\ size' = size - 1 /\ pc' = "down" /\ pos' = p
      /\ misplaced' = (misplaced \/ Misplaces(p))
  BY <1>1, <1>2, KeyFacts DEF heap_erase, Ordered, Ready
<1>4. (p > 0 /\ p < size - 1) => ~(array[size - 1].rank < array[HEAP_PARENT(p)].rank)
  BY <1>3 DEF Misplaces, Rank
<1>5. /\ array'[p] = array[size - 1]
      /\ \A x \in 0..cap - 1 : x # p /\ x # size - 1 => array'[x] = array[x]
  BY <1>2, <1>3, SwapFacts
<1>6. \A x \in 0..size - 1 : x # p /\ x # size - 1 => array'[x] = array[x]
  BY <1>5, KeyFacts
<1>7. p \in 0..size - 1
  BY <1>2 DEF Live
<1>8. OrdBut(array', size - 1, "down", p)
  BY <1>2, <1>3, <1>4, <1>5, <1>6, <1>7, EraseBut
<1> QED BY <1>3, <1>8 DEF Ordered

(* The inductive invariant: as long as no node was misplaced the heap is   *)
(* ordered, up to the one position the running loop is at.                 *)
OrderInv == ~misplaced => Ordered

(* A misplaced node is remembered.                                         *)
LEMMA MisplacedStays == ASSUME [Next]_vars, ~misplaced' PROVE ~misplaced
<1>1. CASE \E x \in Ranks : heap_insert(x)
  BY <1>1 DEF heap_insert, OutOfBounds
<1>2. CASE heap_pop
  BY <1>2 DEF heap_pop
<1>3. CASE \E k \in EraseKeys : heap_erase(k)
  BY <1>3 DEF heap_erase, OutOfBounds
<1>4. CASE \E k \in DOMAIN held, x \in Ranks : x >= held[k] /\ heap_update(k, x)
  BY <1>4 DEF heap_update
<1>5. CASE Loop
  BY <1>5 DEF Loop, RotUp, RotDown
<1>6. CASE UNCHANGED vars
  BY <1>6 DEF vars
<1> QED BY <1>1, <1>2, <1>3, <1>4, <1>5, <1>6 DEF Next

(* Every step keeps the order, erasures of live keys included.             *)
LEMMA NextOrdered ==
  ASSUME "stale" \notin Erases, KeyInv, OrderInv, [Next]_vars
  PROVE  OrderInv'
<1> SUFFICES ASSUME ~misplaced' PROVE Ordered'
  BY DEF OrderInv
<1>0. Ordered
  BY MisplacedStays DEF OrderInv
<1>1. CASE \E x \in Ranks : heap_insert(x)
  BY <1>0, <1>1, InsertOrdered
<1>2. CASE heap_pop
  BY <1>0, <1>2, PopOrdered
<1>3. CASE \E k \in EraseKeys : heap_erase(k)
  BY <1>0, <1>3, EraseOrdered DEF EraseKeys
<1>4. CASE \E k \in DOMAIN held, x \in Ranks : x >= held[k] /\ heap_update(k, x)
  BY <1>0, <1>4, UpdateOrdered
<1>5. CASE Loop
  BY <1>0, <1>5, RotUpOrdered, RotDownOrdered DEF Loop
<1>6. CASE UNCHANGED vars
  BY <1>0, <1>6 DEF vars, Ordered
<1> QED BY <1>1, <1>2, <1>3, <1>4, <1>5, <1>6 DEF Next

(* Every operation leaves the heap ordered: the rotation loops repair all  *)
(* that heap_insert, heap_pop, heap_update and heap_erase disturbed, at    *)
(* every size and capacity, until an erasure moves a node below a larger   *)
(* parent, the one thing _heap_rotdown alone cannot repair.                *)
THEOREM HeapOrderHolds == ASSUME "stale" \notin Erases PROVE Spec => []HeapOrder
<1>1. Init => KeyInv /\ OrderInv
  BY InitKey, InitOrdered DEF OrderInv
<1>2. KeyInv /\ OrderInv /\ [Next]_vars => (KeyInv /\ OrderInv)'
  BY NextKeyInv, NextOrdered
<1>3. KeyInv /\ OrderInv => HeapOrder
  BY DEF OrderInv, Ordered, OrdBut, HeapOrder, Rank
<1> QED BY <1>1, <1>2, <1>3, PTL DEF Spec

(* In an ordered heap the top is the minimum: a smaller node with the      *)
(* smallest index would have a smaller parent, with a smaller index.       *)
LEMMA OrderMin == ASSUME KeyInv, HeapOrder PROVE MinAtTop
<1> SUFFICES ASSUME pc = "idle", ~misplaced, NEW p \in 0..size - 1, ~(Rank(0) <= Rank(p))
             PROVE  FALSE
  BY DEF MinAtTop
<1>0. size \in Nat /\ Ranked(array, size) /\ 0 \in 0..size - 1
  BY KeyFacts
<1>1. \A q \in 0..size - 1 : Rank(q) \in Int
  BY <1>0 DEF Ranked, Rank
<1> DEFINE T == {q \in 0..size - 1 : Rank(q) < Rank(0)}
<1>2. p \in T /\ T \subseteq Nat
  BY <1>0, <1>1
<1>3. PICK q \in T : \A j \in T : ~(<<j, q>> \in OpToRel(<, Nat))
  BY <1>2, NatLessThanWellFounded, WFMin
<1>4. q \in Nat /\ q # 0 /\ q \in 1..size - 1 /\ Rank(q) < Rank(0)
  BY <1>0, <1>1, <1>2
<1>5. PICK u : u = HEAP_PARENT(q)
  OBVIOUS
<1>6. u \in 0..size - 1 /\ u \in Nat /\ u < q /\ Rank(u) <= Rank(q)
  BY <1>0, <1>4, <1>5, ParentIn DEF HeapOrder
<1>7. u \in T
  BY <1>0, <1>1, <1>4, <1>6
<1>8. <<u, q>> \in OpToRel(<, Nat)
  BY <1>4, <1>6, Zenon DEF OpToRel
<1> QED BY <1>3, <1>7, <1>8

(* And so heap_top and heap_pop give the smallest element: "it's a minimum *)
(* heap", until a heap_erase misplaces a node.                             *)
THEOREM MinAtTopHolds == ASSUME "stale" \notin Erases PROVE Spec => []MinAtTop
<1>1. Init => KeyInv
  BY InitKey
<1>2. KeyInv /\ [Next]_vars => KeyInv'
  BY NextKeyInv
<1>3. KeyInv /\ HeapOrder => MinAtTop
  BY OrderMin
<1> QED BY <1>1, <1>2, <1>3, HeapOrderHolds, PTL DEF Spec

----------------------------------------------------------------------------
(* Coroutines.                                                             *)

LEMMA CoRefines ==
  /\ MCInit => Co!Init
  /\ [MCNext]_allVars => [Co!Next]_(Co!vars)
  BY DEF MCInit, MCNext, allVars, coVars, Co!vars

States == {"CRT_DEAD", "CRT_INIT", "CRT_RUNNING", "CRT_SUSPEND"}

CoTypes ==
  /\ capacity \in Nat \ {0} /\ count \in 0..capacity
  /\ units \in [0..capacity - 1 -> Units \cup {Co!NoUnit}]
  /\ freelst \in Seq(Units)
  /\ unit \in [Units -> [func : Funcs, status : States]]
  /\ asked \in [Units -> Funcs] /\ recycled \subseteq Units
  /\ running \in Co!Taken \cup {Co!CRT_INVALID_ID}

(* Every unit is in at most one place,                                     *)
Apart ==
  /\ \A i, j \in Co!Taken : units[i] = units[j] => i = j
  /\ \A i, j \in 1..Len(freelst) : freelst[i] = freelst[j] => i = j
  /\ Co!Busy \cap Co!Free = {}

(* ... and these are counted.                                              *)
Counted ==
  /\ IsFiniteSet(Co!Taken) /\ Cardinality(Co!Taken) = count
  /\ IsFiniteSet(Co!Busy) /\ Cardinality(Co!Busy) = count
  /\ IsFiniteSet(Co!Free) /\ Cardinality(Co!Free) = Len(freelst)

Owns ==
  /\ Co!Busy \cup Co!Free = Units \ Co!Fresh
  /\ \A i \in Co!Taken : unit[units[i]].status = "CRT_RUNNING" <=> i = running
  /\ \A u \in Co!Busy \ recycled : unit[u].func = asked[u]

CoInv == CoTypes /\ Apart /\ Counted /\ Owns

(* The instance has its own copy of the standard modules.                  *)
LEMMA CoCardinality == \A S : Co!Cardinality(S) = Cardinality(S)
  BY DEF Co!Cardinality, Cardinality

LEMMA CoImplies == CoInv => Co!Slots
  <1> SUFFICES ASSUME CoInv PROVE Co!Slots
    OBVIOUS
  <1>1. \A i \in Co!Taken : units[i] # Co!NoUnit
    BY DEF Co!Taken
  <1>2. \A i \in Co!Taken : Co!crt_status(i) = unit[units[i]].status
    BY <1>1 DEF Co!crt_status
  <1>3. /\ count = Cardinality(Co!Taken) /\ Cardinality(Co!Busy) = count
        /\ Cardinality(Co!Free) = Len(freelst)
    BY DEF CoInv, Counted
  <1>4. Co!Busy \cap Co!Free = {} /\ Co!Busy \cup Co!Free = Units \ Co!Fresh
    BY DEF CoInv, Apart, Owns
  <1>5. \A i \in Co!Taken : Co!crt_status(i) = "CRT_RUNNING" <=> i = running
    BY <1>2 DEF CoInv, Owns
  <1>6. \A u \in Co!Busy \ recycled : unit[u].func = asked[u]
    BY DEF CoInv, Owns
  <1> QED BY <1>3, <1>4, <1>5, <1>6, CoCardinality DEF Co!Slots

LEMMA CoInit == Co!Init => CoInv
  <1> SUFFICES ASSUME Co!Init PROVE CoInv
    OBVIOUS
  <1>1. Co!Taken = {} /\ Co!Busy = {} /\ Co!Free = {}
    BY DEF Co!Taken, Co!Busy, Co!Free, Co!Init
  <1>2. Co!Func0 \in Funcs
    BY CoroutineAssumption DEF Co!Func0
  <1>3. CoTypes
    BY <1>1, <1>2, CoroutineAssumption DEF CoTypes, Co!Init, Co!NoUnit, States
  <1>4. Apart
    BY <1>1 DEF Apart, Co!Init
  <1>5. Counted
    BY <1>1, FS_EmptySet DEF Counted, Co!Init
  <1>6. Owns
    BY <1>1 DEF Owns, Co!Init, Co!Fresh
  <1> QED BY <1>3, <1>4, <1>5, <1>6 DEF CoInv

(* An array that is not full has an empty slot, and the search finds one.  *)
LEMMA PlaceIsEmpty ==
  ASSUME CoInv
  PROVE  /\ count >= capacity => Co!Place = capacity
         /\ count < capacity => Co!Place \in 0..capacity - 1 /\ units[Co!Place] = Co!NoUnit
  <1> USE DEF CoInv
  <1>0. capacity \in Nat /\ capacity > 0 /\ count \in Nat
    BY DEF CoTypes
  <1>1. CASE count >= capacity
    <2>1. ~(count < capacity)
      BY <1>0, <1>1
    <2> QED BY <1>1, <2>1 DEF Co!Place
  <1>2. CASE count < capacity
    <2>1. PICK s \in 0..capacity - 1 : s \notin Co!Taken
      <3> SUFFICES ASSUME \A s \in 0..capacity - 1 : s \in Co!Taken PROVE FALSE
        OBVIOUS
      <3>1. Co!Taken = 0..capacity - 1
        BY DEF Co!Taken
      <3>2. Cardinality(0..capacity - 1) = capacity
        BY <1>0, FS_Interval
      <3> QED BY <1>0, <1>2, <3>1, <3>2 DEF Counted
    <2>2. units[s] = Co!NoUnit
      BY <2>1 DEF Co!Taken
    <2> DEFINE Slot(i) == (i + count) % capacity
               Empties == {j \in 0..capacity - 1 : units[Slot(j)] = Co!NoUnit}
    <2>3. \E j \in 0..capacity - 1 : Slot(j) = s
      <3>1. CASE s >= count
        <4>1. s - count \in 0..capacity - 1 /\ (s - count) + count = s
          BY <1>0, <3>1
        <4>2. s % capacity = s
          BY <1>0, ModOnce
        <4> QED BY <4>1, <4>2
      <3>2. CASE s < count
        <4>1. s - count + capacity \in 0..capacity - 1 /\ (s - count + capacity) + count = s + capacity
          BY <1>0, <1>2, <3>2
        <4>2. (s + capacity) % capacity = s
          <5>1. s + capacity \in Int /\ -capacity <= s + capacity /\ s + capacity < capacity + capacity
                /\ ~(s + capacity < 0) /\ ~(s + capacity < capacity) /\ s + capacity - capacity = s
            BY <1>0
          <5> QED BY <1>0, <5>1, ModOnce
        <4> QED BY <4>1, <4>2
      <3> QED BY <1>0, <3>1, <3>2
    <2>4. Empties # {} /\ Empties \in SUBSET Nat
      <3>1. PICK j \in 0..capacity - 1 : Slot(j) = s
        BY <2>3
      <3>2. j \in Empties
        BY <2>2, <3>1
      <3>3. 0..capacity - 1 \subseteq Nat
        BY <1>0
      <3> QED BY <3>2, <3>3
    <2>5. \E i \in Empties : \A k \in Empties : i <= k
      <3> HIDE DEF Empties
      <3> QED BY <2>4, LeastNat
    <2>6. PICK i \in 0..capacity - 1 : /\ units[Slot(i)] = Co!NoUnit
                                       /\ \A k \in Empties : i <= k
      BY <2>5
    <2>7. \A m \in 0..i - 1 : units[Slot(m)] # Co!NoUnit
      <3>1. TAKE m \in 0..i - 1
      <3>2. m \in 0..capacity - 1 /\ ~(i <= m)
        BY <1>0
      <3> QED BY <2>6, <3>2
    <2> DEFINE Good(j) == units[Slot(j)] = Co!NoUnit /\ \A m \in 0..j - 1 : units[Slot(m)] # Co!NoUnit
               c == CHOOSE j \in 0..capacity - 1 : Good(j)
    <2>8. c \in 0..capacity - 1 /\ units[Slot(c)] = Co!NoUnit
      <3>1. i \in 0..capacity - 1 /\ Good(i)
        BY <2>6, <2>7
      <3>2. c \in 0..capacity - 1 /\ Good(c)
        <4> HIDE DEF Good
        <4> QED BY <3>1
      <3> QED BY <3>2
    <2>9. Co!Place = Slot(c)
      BY <1>0, <1>2 DEF Co!Place
    <2>10. Slot(c) \in 0..capacity - 1
      <3> HIDE DEF c
      <3> QED BY <1>0, <2>8, ModRange
    <2>11. ~(count >= capacity)
      BY <1>0, <1>2
    <2> QED BY <2>8, <2>9, <2>10, <2>11
  <1> QED BY <1>0, <1>1, <1>2

(* The ends of the free list.                                              *)
LEMMA PushBackFact ==
  ASSUME NEW T, NEW s \in Seq(T), NEW u \in T
  PROVE  /\ Append(s, u) \in Seq(T) /\ Len(Append(s, u)) = Len(s) + 1 /\ Len(s) \in Nat
         /\ \A j \in 1..Len(s) : Append(s, u)[j] = s[j]
         /\ Append(s, u)[Len(s) + 1] = u
  BY AppendProperties, LenProperties

LEMMA PopBackFact ==
  ASSUME NEW T, NEW s \in Seq(T), s # <<>>
  PROVE  /\ Len(s) \in Nat /\ Len(s) >= 1 /\ s[Len(s)] \in T
         /\ SubSeq(s, 1, Len(s) - 1) \in Seq(T)
         /\ Len(SubSeq(s, 1, Len(s) - 1)) = Len(s) - 1
         /\ \A j \in 1..Len(s) - 1 : SubSeq(s, 1, Len(s) - 1)[j] = s[j]
  <1>1. Len(s) \in Nat /\ Len(s) >= 1
    BY EmptySeq, LenProperties
  <1>2. \A j \in 1..Len(s) : s[j] \in T
    BY ElementOfSeq
  <1> DEFINE n == Len(s) - 1
  <1>3. n \in Nat /\ n - 1 + 1 = n /\ (~(1 <= n) => n = 0)
    <2>1. \A m \in Nat : m >= 1 => /\ m - 1 \in Nat /\ m - 1 - 1 + 1 = m - 1
                                  /\ (~(1 <= m - 1) => m - 1 = 0)
      OBVIOUS
    <2> QED BY <1>1, <2>1
  <1>4. \A j \in 1..n : s[j] \in T
    BY <1>1, <1>2
  <1>5. /\ SubSeq(s, 1, n) \in Seq(T) /\ Len(SubSeq(s, 1, n)) = IF 1 <= n THEN n - 1 + 1 ELSE 0
        /\ \A j \in 1..n - 1 + 1 : SubSeq(s, 1, n)[j] = s[1 + j - 1]
    <2> HIDE DEF n
    <2> QED BY <1>3, <1>4, SubSeqProperties
  <1>6. \A j \in 1..n : SubSeq(s, 1, n)[j] = s[j]
    <2> HIDE DEF n
    <2>1. \A j \in 1..n : 1 + j - 1 = j
      BY <1>3
    <2> QED BY <1>3, <1>5, <2>1
  <1> QED BY <1>1, <1>2, <1>3, <1>5, <1>6

(* crt_new: the unit goes to an empty slot, from the free list or new.     *)
LEMMA CoNew ==
  ASSUME CoInv, NEW f \in Funcs, Co!crt_new(f)
  PROVE  CoInv'
  <1> USE DEF CoInv
  <1>1. PICK u \in IF Co!Recycled # {} THEN Co!Recycled ELSE Co!Fresh :
          /\ capacity' = IF count >= capacity THEN 2 * capacity ELSE capacity
          /\ units' = [i \in 0..capacity' - 1 |-> IF i = Co!Place THEN u
                                                  ELSE IF i < capacity THEN units[i] ELSE Co!NoUnit]
          /\ unit' = [unit EXCEPT ![u] = [func |-> IF Co!Recycled # {} THEN @.func ELSE f,
                                          status |-> "CRT_INIT"]]
          /\ asked' = [asked EXCEPT ![u] = f]
          /\ recycled' = IF Co!Recycled # {} THEN recycled \cup {u} ELSE recycled
    BY DEF Co!crt_new
  <1>2. /\ freelst' = IF Co!Recycled # {} THEN Co!PopBack(freelst) ELSE freelst
        /\ count' = count + 1 /\ running' = running
    BY DEF Co!crt_new
  <1>3. /\ capacity \in Nat /\ capacity > 0 /\ count \in Nat /\ count <= capacity
        /\ capacity' \in Nat /\ capacity' > 0 /\ count' \in 0..capacity' /\ capacity <= capacity'
    BY <1>1, <1>2 DEF CoTypes
  <1>4. Co!Place \in 0..capacity' - 1 /\ Co!Place \notin Co!Taken
    BY <1>1, <1>3, PlaceIsEmpty DEF Co!Taken
  (* The unit is in no slot, and in the free list only when it came from there. *)
  <1>5. /\ u \in Units /\ u \notin Co!Busy /\ u # Co!NoUnit
        /\ Co!Free' = Co!Free \ {u}
        /\ freelst' \in Seq(Units)
        /\ \A i, j \in 1..Len(freelst') : freelst'[i] = freelst'[j] => i = j
        /\ IsFiniteSet(Co!Free') /\ Cardinality(Co!Free') = Len(freelst')
        /\ u \in Co!Free \/ u \in Co!Fresh
        /\ Co!Recycled = {} => u \in Co!Fresh /\ recycled' = recycled /\ unit'[u].func = f
        /\ Co!Recycled # {} => u \in recycled'
    <2>1. CASE freelst = <<>>
      <3>1. Co!Recycled = {} /\ Co!Free = {} /\ freelst' = freelst /\ Len(freelst) = 0
        BY <1>2, <2>1 DEF Co!Recycled, Co!Free
      <3>2. u \in Co!Fresh /\ u \in Units
        BY <1>1, <3>1 DEF Co!Fresh
      <3>3. u \notin Co!Busy
        BY <3>2 DEF Owns
      <3>4. Co!Free' = {}
        BY <3>1 DEF Co!Free
      <3> QED BY <1>1, <2>1, <3>1, <3>2, <3>3, <3>4, FS_EmptySet, CoroutineAssumption DEF CoTypes, Co!NoUnit
    <2>2. CASE freelst # <<>>
      <3> DEFINE n == Len(freelst)
      <3>0. freelst \in Seq(Units)
        BY DEF CoTypes
      <3>1. /\ n \in Nat /\ n >= 1 /\ Co!Recycled = {freelst[n]} /\ u = freelst[n] /\ u \in Units
        BY <1>1, <2>2, <3>0, PopBackFact DEF Co!Recycled
      <3>2. /\ freelst' \in Seq(Units) /\ Len(freelst') = n - 1
            /\ \A j \in 1..n - 1 : freelst'[j] = freelst[j]
        BY <1>2, <2>2, <3>0, <3>1, PopBackFact DEF Co!PopBack
      <3> HIDE DEF n
      <3>3. u \in Co!Free
        BY <3>1 DEF n, Co!Free
      <3>4. Co!Free' = Co!Free \ {u}
        <4>1. \A j \in 1..n : freelst[j] = u => j = n
          BY <3>1 DEF n, Apart
        <4>2. 1..Len(freelst') = 1..n - 1 /\ 1..n = (1..n - 1) \cup {n} /\ n \notin 1..n - 1
          BY <3>1, <3>2
        <4> QED BY <3>1, <3>2, <4>1, <4>2 DEF n, Co!Free
      <3>5. \A i, j \in 1..Len(freelst') : freelst'[i] = freelst'[j] => i = j
        <4>1. 1..n - 1 \subseteq 1..n
          BY <3>1
        <4> QED BY <3>2, <4>1 DEF n, Apart
      <3>6. IsFiniteSet(Co!Free') /\ Cardinality(Co!Free') = n - 1
        BY <3>3, <3>4, FS_RemoveElement DEF n, Counted
      <3>7. u \notin Co!Busy
        BY <3>3 DEF Apart
      <3> QED BY <1>1, <3>1, <3>2, <3>3, <3>4, <3>5, <3>6, <3>7, CoroutineAssumption DEF Co!NoUnit
    <2> QED BY <2>1, <2>2
  <1>6. /\ Co!Taken' = Co!Taken \cup {Co!Place} /\ units'[Co!Place] = u
        /\ \A i \in Co!Taken : units'[i] = units[i]
    <2>1. \A i \in 0..capacity' - 1 : units'[i] = IF i = Co!Place THEN u
                                                   ELSE IF i < capacity THEN units[i] ELSE Co!NoUnit
      BY <1>1
    <2>2. Co!Taken \subseteq 0..capacity - 1 /\ 0..capacity - 1 \subseteq 0..capacity' - 1
      <3>1. \A a, b \in Nat : a <= b => 0..a - 1 \subseteq 0..b - 1
        OBVIOUS
      <3>2. 0..capacity - 1 \subseteq 0..capacity' - 1
        BY <1>3, <3>1
      <3> QED BY <3>2 DEF Co!Taken
    <2>3. \A i \in 0..capacity' - 1 : i < capacity <=> i \in 0..capacity - 1
      BY <1>3
    <2>4. \A i \in Co!Taken : units[i] # Co!NoUnit
      BY DEF Co!Taken
    <2>5. \A i \in 0..capacity - 1 : units[i] # Co!NoUnit => i \in Co!Taken
      BY DEF Co!Taken
    <2>6. Co!Taken' = {i \in 0..capacity' - 1 : units'[i] # Co!NoUnit}
      BY DEF Co!Taken, Co!NoUnit
    <2>7. units'[Co!Place] = u /\ \A i \in Co!Taken : units'[i] = units[i]
      BY <1>4, <2>1, <2>2, <2>3
    <2>8. Co!Taken \cup {Co!Place} \subseteq Co!Taken'
      BY <1>4, <1>5, <2>2, <2>4, <2>6, <2>7
    <2>9. Co!Taken' \subseteq Co!Taken \cup {Co!Place}
      BY <2>1, <2>3, <2>5, <2>6
    <2> QED BY <2>7, <2>8, <2>9
  <1>7. Co!Busy' = Co!Busy \cup {u}
    BY <1>6 DEF Co!Busy
  <1>8. CoTypes'
    <2>1. units' \in [0..capacity' - 1 -> Units \cup {Co!NoUnit}]
      <3>1. \A i \in 0..capacity' - 1 : i < capacity => units[i] \in Units \cup {Co!NoUnit}
        BY <1>3 DEF CoTypes
      <3> QED BY <1>1, <1>5, <3>1
    <2>2. unit' \in [Units -> [func : Funcs, status : States]]
      <3>1. unit[u].func \in Funcs
        BY <1>5 DEF CoTypes
      <3>2. \A g \in Funcs : [func |-> g, status |-> "CRT_INIT"] \in [func : Funcs, status : States]
        BY DEF States
      <3> DEFINE g == IF Co!Recycled # {} THEN unit[u].func ELSE f
      <3>3. g \in Funcs /\ unit' = [unit EXCEPT ![u] = [func |-> g, status |-> "CRT_INIT"]]
        BY <1>1, <3>1
      <3> HIDE DEF g
      <3> QED BY <3>2, <3>3 DEF CoTypes
    <2>3. asked' \in [Units -> Funcs] /\ recycled' \subseteq Units
      BY <1>1, <1>5 DEF CoTypes
    <2>4. running' \in Co!Taken' \cup {Co!CRT_INVALID_ID}
      BY <1>2, <1>6 DEF CoTypes
    <2>5. capacity' \in Nat \ {0} /\ count' \in 0..capacity'
      BY <1>3
    <2> QED BY <1>5, <2>1, <2>2, <2>3, <2>4, <2>5 DEF CoTypes, Co!NoUnit, Co!CRT_INVALID_ID
  <1>9. Apart'
    <2>1. \A i \in Co!Taken : units'[i] # u
      BY <1>5, <1>6 DEF Co!Busy
    <2>2. \A i, j \in Co!Taken' : units'[i] = units'[j] => i = j
      BY <1>4, <1>6, <2>1 DEF Apart
    <2>3. Co!Busy' \cap Co!Free' = {}
      BY <1>5, <1>7 DEF Apart
    <2> QED BY <1>5, <2>2, <2>3 DEF Apart
  <1>10. Counted'
    <2>1. IsFiniteSet(Co!Taken') /\ Cardinality(Co!Taken') = count'
      BY <1>2, <1>4, <1>6, FS_AddElement DEF Counted
    <2>2. IsFiniteSet(Co!Busy') /\ Cardinality(Co!Busy') = count'
      BY <1>2, <1>5, <1>7, FS_AddElement DEF Counted
    <2> QED BY <1>5, <2>1, <2>2 DEF Counted
  <1>11. Owns'
    <2>1. /\ unit'[u].status = "CRT_INIT"
          /\ \A v \in Units : v # u => unit'[v] = unit[v] /\ asked'[v] = asked[v]
          /\ asked'[u] = f
      BY <1>1, <1>5 DEF CoTypes
    <2>2. Co!Fresh' = Co!Fresh \ {u}
      BY <2>1, <1>5 DEF Co!Fresh
    <2>3. Co!Busy' \cup Co!Free' = Units \ Co!Fresh'
      BY <1>5, <1>7, <2>2 DEF Owns
    <2>4. \A i \in Co!Taken : units[i] \in Units /\ units[i] # u
      BY <1>5 DEF CoTypes, Co!Taken, Co!Busy
    <2>5. running' # Co!Place
      BY <1>2, <1>3, <1>4 DEF CoTypes, Co!CRT_INVALID_ID
    <2>6. \A i \in Co!Taken' : unit'[units'[i]].status = "CRT_RUNNING" <=> i = running'
      BY <1>2, <1>6, <2>1, <2>4, <2>5 DEF Owns
    <2>7. \A v \in Co!Busy' \ recycled' : unit'[v].func = asked'[v]
      <3>1. Co!Busy \subseteq Units
        BY DEF Owns
      <3>2. recycled \subseteq recycled'
        BY <1>1
      <3>3. u \notin recycled' => unit'[u].func = f
        BY <1>5
      <3> QED BY <1>7, <2>1, <3>1, <3>2, <3>3, <1>5 DEF Owns
    <2> QED BY <2>3, <2>6, <2>7 DEF Owns
  <1> QED BY <1>8, <1>9, <1>10, <1>11

(* crt_resume and crt_yield: only the unit of one slot changes its status. *)
LEMMA CoSwitch ==
  ASSUME CoInv, NEW s \in Co!Taken, NEW st \in {"CRT_RUNNING", "CRT_SUSPEND"},
         unit' = [unit EXCEPT ![units[s]].status = st],
         UNCHANGED <<units, count, capacity, freelst, asked, recycled>>,
         running \in {s, Co!CRT_INVALID_ID},
         running' = IF st = "CRT_RUNNING" THEN s ELSE Co!CRT_INVALID_ID
  PROVE  CoInv'
  <1> USE DEF CoInv
  <1>1. Co!Taken' = Co!Taken /\ Co!Busy' = Co!Busy /\ Co!Free' = Co!Free
    BY DEF Co!Taken, Co!Busy, Co!Free, Co!NoUnit
  <1>2. \A i \in Co!Taken : units[i] \in Units /\ units[i] \in Co!Busy /\ i \in 0..capacity - 1
    BY DEF CoTypes, Co!Taken, Co!Busy
  <1>3. /\ unit'[units[s]].status = st /\ unit'[units[s]].func = unit[units[s]].func
        /\ \A v \in Units : v # units[s] => unit'[v] = unit[v]
    BY <1>2 DEF CoTypes
  <1>4. unit' \in [Units -> [func : Funcs, status : States]]
    <2>1. \A r \in [func : Funcs, status : States] :
            [r EXCEPT !.status = st] \in [func : Funcs, status : States]
      BY DEF States
    <2>2. unit' = [unit EXCEPT ![units[s]] = [unit[units[s]] EXCEPT !.status = st]]
      BY <1>2 DEF CoTypes
    <2> QED BY <1>2, <2>1, <2>2 DEF CoTypes
  <1>5. CoTypes'
    <2>1. running' \in Co!Taken' \cup {Co!CRT_INVALID_ID}
      BY <1>1
    <2> QED BY <1>4, <2>1 DEF CoTypes, Co!NoUnit, Co!CRT_INVALID_ID
  <1>6. Apart' /\ Counted'
    BY <1>1 DEF Apart, Counted
  <1>7. Owns'
    <2>1. Co!Fresh' = Co!Fresh
      <3>1. units[s] \notin Co!Fresh
        BY <1>2 DEF Owns
      <3>2. \A v \in Units : unit'[v].status = "CRT_DEAD" <=> unit[v].status = "CRT_DEAD"
        BY <1>2, <1>3, <3>1 DEF Co!Fresh
      <3> QED BY <3>2 DEF Co!Fresh
    <2>2. s # Co!CRT_INVALID_ID
      BY <1>2 DEF CoTypes, Co!CRT_INVALID_ID
    <2>3. \A i \in Co!Taken : unit'[units[i]].status = "CRT_RUNNING" <=> i = running'
      <3>1. TAKE i \in Co!Taken
      <3>2. CASE i = s
        BY <1>3, <2>2, <3>2
      <3>3. CASE i # s
        <4>1. units[i] # units[s]
          BY <3>3 DEF Apart
        <4>2. unit'[units[i]] = unit[units[i]]
          BY <1>2, <1>3, <4>1
        <4>3. i # running /\ i # running'
          BY <1>2, <3>3 DEF CoTypes, Co!CRT_INVALID_ID
        <4> QED BY <4>2, <4>3 DEF Owns
      <3> QED BY <3>2, <3>3
    <2>4. \A v \in Co!Busy \ recycled : unit'[v].func = asked[v]
      <3>1. Co!Busy \subseteq Units
        BY DEF Owns
      <3> QED BY <1>3, <3>1 DEF Owns
    <2> QED BY <1>1, <2>1, <2>3, <2>4 DEF Owns
  <1> QED BY <1>5, <1>6, <1>7

(* _crt_main: the unit of the slot that ran goes to the free list.         *)
LEMMA CoMain == ASSUME CoInv, Co!_crt_main PROVE CoInv'
  <1> USE DEF CoInv
  <1> DEFINE u == units[running]
             n == Len(freelst)
  <1>1. /\ running >= 0 /\ freelst' = Append(freelst, u) /\ units' = [units EXCEPT ![running] = Co!NoUnit]
        /\ count' = count - 1 /\ running' = Co!CRT_INVALID_ID
        /\ UNCHANGED <<capacity, unit, asked, recycled>>
    BY DEF Co!_crt_main, Co!PushBack
  <1>2. running \in Co!Taken /\ running \in 0..capacity - 1 /\ u # Co!NoUnit /\ u \in Units
    BY <1>1 DEF CoTypes, Co!CRT_INVALID_ID, Co!Taken
  <1>3. u \in Co!Busy /\ u \notin Co!Free
    BY <1>2 DEF Co!Busy, Apart
  <1>4. /\ freelst' \in Seq(Units) /\ Len(freelst') = n + 1 /\ n \in Nat
        /\ \A j \in 1..n : freelst'[j] = freelst[j]
        /\ freelst'[n + 1] = u
    BY <1>1, <1>2, PushBackFact DEF CoTypes
  <1> HIDE DEF n
  <1>5. 1..n + 1 = (1..n) \cup {n + 1} /\ n + 1 \notin 1..n
    BY <1>4
  <1>6. Co!Free' = Co!Free \cup {u}
    BY <1>4, <1>5 DEF Co!Free, n
  <1>7. Co!Taken' = Co!Taken \ {running} /\ \A i \in Co!Taken' : units'[i] = units[i]
    <2>1. \A i \in 0..capacity - 1 : units'[i] = IF i = running THEN Co!NoUnit ELSE units[i]
      BY <1>1 DEF CoTypes
    <2>2. Co!Taken' = {i \in 0..capacity - 1 : units'[i] # Co!NoUnit}
      BY <1>1 DEF Co!Taken, Co!NoUnit
    <2> QED BY <2>1, <2>2 DEF Co!Taken
  <1> HIDE DEF u
  <1>8. Co!Busy' = Co!Busy \ {u}
    <2>1. \A i \in Co!Taken : units[i] = u <=> i = running
      BY <1>2 DEF Apart, u
    <2> QED BY <1>7, <2>1 DEF Co!Busy
  <1>9. CoTypes'
    <2>1. Cardinality(Co!Taken) # 0
      BY <1>2, FS_EmptySet DEF Counted
    <2>2. count' \in 0..capacity' /\ capacity' \in Nat \ {0}
      BY <1>1, <2>1 DEF CoTypes, Counted
    <2>3. units' \in [0..capacity' - 1 -> Units \cup {Co!NoUnit}]
      BY <1>1 DEF CoTypes
    <2> QED BY <1>1, <1>4, <2>2, <2>3 DEF CoTypes, Co!NoUnit, Co!CRT_INVALID_ID
  <1>10. Apart'
    <2>1. \A i, j \in Co!Taken' : units'[i] = units'[j] => i = j
      BY <1>7 DEF Apart
    <2>2. \A i \in 1..n : freelst[i] # u
      BY <1>3 DEF Co!Free, n
    <2>3. \A i, j \in 1..n + 1 : freelst'[i] = freelst'[j] => i = j
      BY <1>4, <1>5, <2>2 DEF Apart, n
    <2>4. Co!Busy' \cap Co!Free' = {}
      BY <1>6, <1>8 DEF Apart
    <2> QED BY <1>4, <2>1, <2>3, <2>4 DEF Apart
  <1>11. Counted'
    <2>1. IsFiniteSet(Co!Taken') /\ Cardinality(Co!Taken') = count'
      BY <1>1, <1>2, <1>7, FS_RemoveElement DEF Counted
    <2>2. IsFiniteSet(Co!Busy') /\ Cardinality(Co!Busy') = count'
      BY <1>1, <1>3, <1>8, FS_RemoveElement DEF Counted
    <2>3. IsFiniteSet(Co!Free') /\ Cardinality(Co!Free') = Len(freelst')
      <3>1. IsFiniteSet(Co!Free) /\ Cardinality(Co!Free) = n
        BY DEF Counted, n
      <3>2. /\ IsFiniteSet(Co!Free \cup {u})
            /\ Cardinality(Co!Free \cup {u}) = Cardinality(Co!Free) + 1
        BY <1>3, <3>1, FS_AddElement
      <3> QED BY <1>4, <1>6, <3>1, <3>2
    <2> QED BY <2>1, <2>2, <2>3 DEF Counted
  <1>12. Owns'
    <2>1. Co!Fresh' = Co!Fresh
      BY <1>1 DEF Co!Fresh
    <2>2. Co!Busy' \cup Co!Free' = Units \ Co!Fresh'
      BY <1>3, <1>6, <1>8, <2>1 DEF Owns
    <2>3. \A i \in Co!Taken' : unit'[units'[i]].status # "CRT_RUNNING" /\ i # running'
      <3>1. \A i \in Co!Taken : i # Co!CRT_INVALID_ID
        BY DEF CoTypes, Co!Taken, Co!CRT_INVALID_ID
      <3> QED BY <1>1, <1>7, <3>1 DEF Owns
    <2>4. \A v \in Co!Busy' \ recycled' : unit'[v].func = asked'[v]
      BY <1>1, <1>8 DEF Owns
    <2> QED BY <2>2, <2>3, <2>4 DEF Owns
  <1> QED BY <1>9, <1>10, <1>11, <1>12

LEMMA CoStep == CoInv /\ [Co!Next]_(Co!vars) => CoInv'
  <1> SUFFICES ASSUME CoInv, [Co!Next]_(Co!vars) PROVE CoInv'
    OBVIOUS
  <1>1. ASSUME NEW f \in Funcs, Co!crt_new(f) PROVE CoInv'
    BY <1>1, CoNew
  <1>2. ASSUME NEW id \in 0..capacity - 1, Co!crt_resume(id) PROVE CoInv'
    <2>1. id \in Co!Taken /\ running < 0
      BY <1>2 DEF Co!crt_resume, Co!Taken
    <2>2. running = Co!CRT_INVALID_ID
      BY <2>1 DEF CoInv, CoTypes, Co!Taken
    <2> QED BY <1>2, <2>1, <2>2, CoSwitch DEF Co!crt_resume
  <1>3. CASE Co!crt_yield
    <2>1. running \in Co!Taken
      BY <1>3 DEF Co!crt_yield, CoInv, CoTypes, Co!CRT_INVALID_ID
    <2> QED BY <1>3, <2>1, CoSwitch DEF Co!crt_yield
  <1>4. CASE Co!_crt_main
    BY <1>4, CoMain
  <1>5. CASE Co!crt_release
    <2>1. Co!Taken' = {} /\ Co!Busy' = {} /\ Co!Free' = {}
      BY <1>5 DEF Co!crt_release, Co!Taken, Co!Busy, Co!Free, Co!NoUnit
    <2>2. Co!Func0 \in Funcs
      BY CoroutineAssumption DEF Co!Func0
    <2>3. running' = Co!CRT_INVALID_ID
      BY <1>5 DEF Co!crt_release, CoInv, CoTypes, Co!Taken
    <2>4. CoTypes'
      BY <1>5, <2>1, <2>2, <2>3, CoroutineAssumption
      DEF CoTypes, Co!crt_release, Co!NoUnit, Co!CRT_INVALID_ID, States
    <2>5. Apart'
      BY <1>5, <2>1 DEF Apart, Co!crt_release
    <2>6. Counted'
      BY <1>5, <2>1, FS_EmptySet DEF Counted, Co!crt_release
    <2>7. Owns'
      BY <1>5, <2>1 DEF Owns, Co!crt_release, Co!Fresh
    <2> QED BY <2>4, <2>5, <2>6, <2>7 DEF CoInv
  <1>6. CASE UNCHANGED Co!vars
    <2>1. Co!Taken' = Co!Taken /\ Co!Busy' = Co!Busy /\ Co!Free' = Co!Free /\ Co!Fresh' = Co!Fresh
      BY <1>6 DEF Co!vars, Co!Taken, Co!Busy, Co!Free, Co!Fresh, Co!NoUnit
    <2>2. CoTypes'
      BY <1>6, <2>1 DEF CoInv, CoTypes, Co!vars, Co!NoUnit, Co!CRT_INVALID_ID
    <2>3. Apart' /\ Counted' /\ Owns'
      BY <1>6, <2>1 DEF CoInv, Apart, Counted, Owns, Co!vars
    <2> QED BY <2>2, <2>3 DEF CoInv
  <1> QED BY <1>1, <1>2, <1>3, <1>4, <1>5, <1>6 DEF Co!Next

(* The slots, the units and the free list agree, for any number of         *)
(* coroutines and any growth of the array.                                 *)
THEOREM SlotsAgree == MCSpec => []Slots
  <1>1. CoInv => Slots
    BY CoImplies DEF Slots
  <1> QED BY <1>1, CoRefines, CoInit, CoStep, PTL DEF MCSpec

----------------------------------------------------------------------------
(* The state machine.                                                      *)

LEMMA FsRefines ==
  /\ MCInit => Fs!Init
  /\ [MCNext]_allVars => [Fs!Next]_(Fs!vars)
  BY DEF MCInit, MCNext, allVars, fsVars, Fs!vars

RuleBuckets == 3 * Fs!FSM_RULES_SIZE
StatusIds == Statuses \cup {Fs!FSM_WILDCARD_STATUS}
Input(s, e, r) == [status |-> s, event |-> e, ret |-> r]
Frames ==
  [at : {"handle", "exit", "enter"}, event : Events, status : StatusIds, to : StatusIds \cup {Fs!None}]

(* A rule is in the chain of its hash, and no other has its input.         *)
RulesInv ==
  /\ rules_table.chain \in [0..RuleBuckets - 1 -> Seq(Fs!Rules)]
  /\ \A b \in 0..RuleBuckets - 1 : \A i \in 1..Len(rules_table.chain[b]) :
       /\ Fs!H!Bucket(rules_table.chain[b][i]) = b
       /\ \A j \in 1..Len(rules_table.chain[b]) :
            Fs!SameInput(rules_table.chain[b][i], rules_table.chain[b][j]) => i = j

(* A trigger in progress is where it called back from: below the top of    *)
(* the stack only where a callback of that kind triggered again.           *)
CallsInv ==
  /\ calls \in Seq(Frames) /\ fsm_current \in StatusIds
  /\ \A i \in 1..Len(calls) : calls[i].at = "exit" => calls[i].to \in StatusIds
  /\ \A at \in {"handle", "exit"} : at \notin reentered =>
       \A i \in 1..Len(calls) - 1 : calls[i].at # at

(* The top of the stack handles an event of the current status, and the    *)
(* application is in the current status unless an exit callback runs.      *)
StatusInv ==
  /\ "handle" \notin reentered /\ calls # <<>> /\ calls[Len(calls)].at = "handle" =>
       calls[Len(calls)].status = fsm_current
  /\ (\A i \in 1..Len(calls) : calls[i].at # "exit") /\ fsm_current # Fs!FSM_WILDCARD_STATUS =>
       inside = fsm_current
  /\ "exit" \notin reentered /\ calls # <<>> /\ calls[Len(calls)].at = "exit" =>
       inside = Fs!None

FsInv == RulesInv /\ CallsInv /\ StatusInv

LEMMA RuleBucketsType == RuleBuckets \in Nat /\ RuleBuckets > 0
  <1>1. \A a, b \in Nat : a >= 1 /\ b >= 1 => a * b \in Nat /\ a * b >= 1
    OBVIOUS
  <1>2. FsmSize \in Nat /\ FsmSize >= 1 /\ FsmSize - 1 \in Nat /\ FsmSize - 1 >= 1
    BY FsmAssumption
  <1>3. FsmSize * (FsmSize - 1) \in Nat /\ FsmSize * (FsmSize - 1) >= 1
    BY <1>1, <1>2
  <1> QED BY <1>3 DEF RuleBuckets, Fs!FSM_RULES_SIZE

LEMMA BucketType ==
  ASSUME NEW d, d.status \in StatusIds, d.ret \in RetCodes
  PROVE  Fs!H!Bucket(d) \in 0..RuleBuckets - 1
  <1>1. d.status + 1 + d.ret \in Int
    <2>1. StatusIds \subseteq Int /\ RetCodes \subseteq Int
      BY FsmAssumption DEF StatusIds, Fs!FSM_WILDCARD_STATUS
    <2>2. \A a, b \in Int : a + 1 + b \in Int
      OBVIOUS
    <2> QED BY <2>1, <2>2
  <1>2. Fs!H!Bucket(d) = (d.status + 1 + d.ret) % RuleBuckets
    BY DEF Fs!H!Bucket, FsmHash, RuleBuckets
  <1> QED BY <1>1, <1>2, RuleBucketsType, ModRange

LEMMA RuleFields ==
  ASSUME NEW x \in Fs!Rules
  PROVE  x.status \in StatusIds /\ x.event \in Events /\ x.ret \in RetCodes /\ x.to \in StatusIds
  BY DEF Fs!Rules, StatusIds

(* The hash and the comparison see the input only.                         *)
LEMMA InputDecides ==
  ASSUME NEW a, NEW b, Fs!SameInput(a, b)
  PROVE  Fs!H!Bucket(a) = Fs!H!Bucket(b)
  BY DEF Fs!SameInput, Fs!H!Bucket, FsmHash

LEMMA SameIsEqual ==
  ASSUME NEW a \in Fs!Rules, NEW b, Fs!SameInput(a, b)
  PROVE  Fs!_fsm_rule_cmp(a, b) = 0
  <1>1. a.status \in Int /\ a.event \in Int /\ a.ret \in Int
    <2>1. StatusIds \subseteq Int /\ RetCodes \subseteq Int /\ Events \subseteq Int
      BY FsmAssumption DEF StatusIds, Fs!FSM_WILDCARD_STATUS
    <2> QED BY <2>1, RuleFields
  <1>2. ~(a.status < b.status) /\ ~(a.event < b.event) /\ ~(a.ret < b.ret)
    BY <1>1 DEF Fs!SameInput
  <1> QED BY <1>2 DEF Fs!_fsm_rule_cmp

(* hash_find returns an entry of the input's chain that compares equal, or *)
(* none where no entry does.                                               *)
Chain(d) == rules_table.chain[Fs!H!Bucket(d)]
LEMMA FindPlace ==
  ASSUME RulesInv, NEW d, d.status \in StatusIds, d.ret \in RetCodes
  PROVE  \/ /\ Fs!H!hash_find(rules_table, d) = {}
            /\ \A i \in 1..Len(Chain(d)) : Fs!_fsm_rule_cmp(Chain(d)[i], d) # 0
         \/ \E i \in 1..Len(Chain(d)) : Fs!H!hash_find(rules_table, d) = {Chain(d)[i]}
  <1> DEFINE c == Chain(d)
             equal == {i \in 1..Len(c) : Fs!_fsm_rule_cmp(c[i], d) = 0}
             k == CHOOSE i \in equal : \A j \in equal : i <= j
  <1>1. Fs!H!Bucket(d) \in 0..RuleBuckets - 1
    BY BucketType
  <1>2. c \in Seq(Fs!Rules)
    BY <1>1 DEF RulesInv, Chain
  <1>3. Fs!H!Place(rules_table, d) = IF equal = {} THEN 0 ELSE k
    BY DEF Fs!H!Place, Chain
  <1>4. equal # {} => k \in 1..Len(c) /\ k # 0
    <2>1. Len(c) \in Nat /\ equal \in SUBSET Nat /\ equal \subseteq 1..Len(c)
      BY <1>2, LenProperties
    <2>2. equal # {} => \E i \in equal : \A j \in equal : i <= j
      <3> HIDE DEF equal
      <3> QED BY <2>1, LeastNat
    <2>3. equal # {} => k \in equal
      <3> HIDE DEF equal
      <3> QED BY <2>2
    <2> HIDE DEF k
    <2> QED BY <2>1, <2>3
  <1>5. Fs!H!hash_find(rules_table, d) =
          IF Fs!H!Place(rules_table, d) = 0 THEN {} ELSE {c[Fs!H!Place(rules_table, d)]}
    BY DEF Fs!H!hash_find, Chain
  <1>6. CASE equal = {}
    BY <1>3, <1>5, <1>6
  <1>7. CASE equal # {}
    <2>1. Fs!H!Place(rules_table, d) = k
      BY <1>3, <1>7
    <2> HIDE DEF k, c, equal
    <2> QED BY <1>4, <1>5, <1>7, <2>1 DEF c
  <1> QED BY <1>6, <1>7

LEMMA FindType ==
  ASSUME RulesInv, NEW s \in StatusIds, NEW e \in Events, NEW r \in RetCodes
  PROVE  Fs!H!hash_find(rules_table, Input(s, e, r)) \subseteq Fs!Rules
  <1> DEFINE d == Input(s, e, r)
  <1>1. d.status \in StatusIds /\ d.ret \in RetCodes
    BY DEF Input
  <1>2. Chain(d) \in Seq(Fs!Rules)
    BY <1>1, BucketType DEF RulesInv, Chain
  <1> HIDE DEF d
  <1>3. \A i \in 1..Len(Chain(d)) : Chain(d)[i] \in Fs!Rules
    BY <1>2, ElementOfSeq
  <1> QED BY <1>1, <1>3, FindPlace DEF d

LEMMA FsInit == Fs!Init => FsInv
  <1> SUFFICES ASSUME Fs!Init PROVE FsInv
    OBVIOUS
  <1>1. rules_table.chain = [b \in 0..RuleBuckets - 1 |-> <<>>]
    BY DEF Fs!Init, Fs!H!Empty, Fs!H!Buckets, RuleBuckets
  <1>2. calls = <<>> /\ fsm_current = Fs!FSM_WILDCARD_STATUS
    BY DEF Fs!Init
  <1>3. RulesInv
    BY <1>1 DEF RulesInv
  <1>4. CallsInv
    BY <1>2 DEF CallsInv, StatusIds
  <1>5. StatusInv
    BY <1>2 DEF StatusInv
  <1> QED BY <1>3, <1>4, <1>5 DEF FsInv

(* fsm_register_rule: hash_insert takes a rule only when the chain has     *)
(* none it calls equal, the input's own among them.                        *)
LEMMA FsRule ==
  ASSUME FsInv, NEW x \in Fs!Rules, Fs!fsm_register_rule(x)
  PROVE  FsInv'
  <1> USE DEF FsInv
  <1> DEFINE b == Fs!H!Bucket(x)
             c == rules_table.chain[b]
             n == Len(c)
  <1>1. /\ Fs!H!Place(rules_table, x) = 0 /\ rules_table' = Fs!H!Inserted(rules_table, x)
        /\ UNCHANGED <<status_table, events_table, fsm_current, calls, inside, reentered>>
    BY DEF Fs!fsm_register_rule
  <1>2. rules_table'.chain = [rules_table.chain EXCEPT ![b] = Append(c, x)]
    BY <1>1 DEF Fs!H!Inserted
  <1>3. b \in 0..RuleBuckets - 1
    BY BucketType, RuleFields
  <1>4. c \in Seq(Fs!Rules)
    BY <1>3 DEF RulesInv
  <1>5. \A i \in 1..n : ~Fs!SameInput(c[i], x)
    <2>1. \A i \in 1..n : Fs!_fsm_rule_cmp(c[i], x) # 0
      <3> DEFINE equal == {i \in 1..n : Fs!_fsm_rule_cmp(c[i], x) = 0}
                 k == CHOOSE i \in equal : \A j \in equal : i <= j
      <3> SUFFICES ASSUME equal # {} PROVE FALSE
        OBVIOUS
      <3>1. Fs!H!Place(rules_table, x) = k
        BY DEF Fs!H!Place
      <3>2. equal \in SUBSET Nat
        BY <1>4, LenProperties
      <3>3. \E i \in equal : \A j \in equal : i <= j
        <4> HIDE DEF equal
        <4> QED BY <3>2, LeastNat
      <3>4. k \in equal
        <4> HIDE DEF equal
        <4> QED BY <3>3
      <3>5. k # 0
        <4> HIDE DEF k
        <4> QED BY <3>4
      <3> QED BY <1>1, <3>1, <3>5
    <2>2. \A i \in 1..n : c[i] \in Fs!Rules
      <3> HIDE DEF c
      <3> QED BY <1>4, ElementOfSeq
    <2> QED BY <2>1, <2>2, SameIsEqual
  <1>6. /\ Append(c, x) \in Seq(Fs!Rules) /\ Len(Append(c, x)) = n + 1 /\ n \in Nat
        /\ \A i \in 1..n : Append(c, x)[i] = c[i]
        /\ Append(c, x)[n + 1] = x
    <2> HIDE DEF c
    <2> QED BY <1>4, PushBackFact
  <1>7. 1..n + 1 = (1..n) \cup {n + 1} /\ n + 1 \notin 1..n
    BY <1>6
  <1>8. RulesInv'
    <2> DEFINE ch == rules_table'.chain
    <2>1. ch \in [0..RuleBuckets - 1 -> Seq(Fs!Rules)]
      BY <1>2, <1>3, <1>6 DEF RulesInv
    <2>2. ch[b] = Append(c, x) /\ \A g \in 0..RuleBuckets - 1 : g # b => ch[g] = rules_table.chain[g]
      BY <1>2, <1>3 DEF RulesInv
    <2>3. ASSUME NEW g \in 0..RuleBuckets - 1, NEW i \in 1..Len(ch[g])
          PROVE  /\ Fs!H!Bucket(ch[g][i]) = g
                 /\ \A j \in 1..Len(ch[g]) : Fs!SameInput(ch[g][i], ch[g][j]) => i = j
      <3> HIDE DEF ch
      <3>1. CASE g # b
        BY <2>2, <2>3, <3>1 DEF RulesInv
      <3>2. CASE g = b
        <4>1. Len(ch[g]) = n + 1 /\ \A j \in 1..n : ch[g][j] = c[j]
          BY <1>6, <2>2, <3>2
        <4>2. ch[g][n + 1] = x
          BY <1>6, <2>2, <3>2
        <4>3. \A j \in 1..n : /\ Fs!H!Bucket(c[j]) = b
                              /\ \A k \in 1..n : Fs!SameInput(c[j], c[k]) => j = k
          BY <1>3 DEF RulesInv
        <4>4. \A j \in 1..n : ~Fs!SameInput(x, c[j])
          BY <1>5 DEF Fs!SameInput
        <4> HIDE DEF b, c, n
        <4>5. i \in 1..n \/ i = n + 1
          BY <1>7, <2>3, <4>1
        <4>6. Fs!H!Bucket(ch[g][i]) = g
          BY <3>2, <4>1, <4>2, <4>3, <4>5 DEF b
        <4>7. ASSUME NEW j \in 1..Len(ch[g]), Fs!SameInput(ch[g][i], ch[g][j]) PROVE i = j
          <5>1. j \in 1..n \/ j = n + 1
            BY <1>7, <4>1
          <5> QED BY <1>5, <4>1, <4>2, <4>3, <4>4, <4>5, <4>7, <5>1
        <4> QED BY <4>6, <4>7
      <3> QED BY <3>1, <3>2
    <2> QED BY <2>1, <2>3 DEF RulesInv
  <1>9. CallsInv' /\ StatusInv'
    BY <1>1 DEF CallsInv, StatusInv
  <1> QED BY <1>8, <1>9

(* A callback, or the application, triggers an event.                      *)
LEMMA FsTrigger ==
  ASSUME FsInv, NEW e \in Events, Fs!fsm_trigger(e)
  PROVE  FsInv'
  <1> USE DEF FsInv
  <1> DEFINE f == [at |-> "handle", event |-> e, status |-> fsm_current, to |-> Fs!None]
             n == Len(calls)
  <1>1. /\ calls' = Append(calls, f)
        /\ reentered' = IF calls = <<>> THEN {} ELSE reentered \cup {calls[n].at}
        /\ UNCHANGED <<status_table, events_table, rules_table, fsm_current, inside>>
    BY DEF Fs!fsm_trigger, Fs!Top, Fs!tables
  <1>2. f \in Frames /\ f.at = "handle" /\ f.status = fsm_current
    BY DEF Frames, CallsInv
  <1>3. /\ calls' \in Seq(Frames) /\ Len(calls') = n + 1 /\ n \in Nat
        /\ \A i \in 1..n : calls'[i] = calls[i]
        /\ calls'[n + 1] = f
    <2>1. calls \in Seq(Frames)
      BY DEF CallsInv
    <2> HIDE DEF f
    <2> QED BY <1>1, <1>2, <2>1, PushBackFact
  <1>4. calls' # <<>> /\ calls'[Len(calls')] = f
    <2>1. n + 1 # 0 /\ Len(<<>>) = 0
      BY <1>3
    <2> QED BY <1>3, <2>1
  <1>5. 1..n + 1 = (1..n) \cup {n + 1} /\ 1..(n + 1) - 1 = 1..n
    BY <1>3
  <1> HIDE DEF f
  <1>6. RulesInv'
    BY <1>1 DEF RulesInv
  <1>7. CallsInv'
    <2>1. \A i \in 1..Len(calls') : calls'[i].at = "exit" => calls'[i].to \in StatusIds
      BY <1>2, <1>3, <1>5 DEF CallsInv
    <2>2. ASSUME NEW at \in {"handle", "exit"}, at \notin reentered', NEW i \in 1..Len(calls') - 1
          PROVE  calls'[i].at # at
      <3>1. i \in 1..n /\ calls'[i] = calls[i]
        BY <1>3, <1>5, <2>2
      <3>2. calls # <<>>
        <4>1. n # 0
          BY <1>3, <3>1
        <4> QED BY <4>1
      <3>3. at \notin reentered /\ at # calls[n].at
        BY <1>1, <2>2, <3>2
      <3>4. i \in 1..n - 1 \/ i = n
        BY <1>3, <3>1
      <3> QED BY <3>1, <3>3, <3>4 DEF CallsInv
    <2>3. calls' \in Seq(Frames) /\ fsm_current' \in StatusIds /\ StatusIds' = StatusIds
      BY <1>1, <1>3 DEF CallsInv, StatusIds
    <2> QED BY <2>1, <2>2, <2>3 DEF CallsInv, Frames
  <1>8. StatusInv'
    <2>1. calls'[Len(calls')].status = fsm_current' /\ calls'[Len(calls')].at # "exit"
      BY <1>1, <1>2, <1>4
    <2>2. (\A i \in 1..Len(calls') : calls'[i].at # "exit") => \A i \in 1..n : calls[i].at # "exit"
      BY <1>3, <1>5
    <2> QED BY <1>1, <2>1, <2>2 DEF StatusInv
  <1> QED BY <1>6, <1>7, <1>8

(* A callback returns and the trigger with it.                             *)
LEMMA FsPop ==
  ASSUME FsInv, calls # <<>>, calls[Len(calls)].at # "exit", calls' = Fs!Pop,
         UNCHANGED <<rules_table, fsm_current, inside, reentered>>
  PROVE  FsInv'
  <1> USE DEF FsInv
  <1> DEFINE n == Len(calls)
  <1>1. /\ calls' \in Seq(Frames) /\ Len(calls') = n - 1 /\ n \in Nat /\ n >= 1
        /\ \A i \in 1..n - 1 : calls'[i] = calls[i]
    BY PopBackFact DEF Fs!Pop, CallsInv
  <1>2. 1..n = (1..n - 1) \cup {n} /\ 1..(n - 1) - 1 \subseteq 1..n - 1
    BY <1>1
  <1>3. RulesInv'
    BY DEF RulesInv
  <1>4. CallsInv'
    <2>1. \A i \in 1..Len(calls') : calls'[i].at = "exit" => calls'[i].to \in StatusIds
      BY <1>1, <1>2 DEF CallsInv
    <2>2. \A at \in {"handle", "exit"} : at \notin reentered' =>
            \A i \in 1..Len(calls') - 1 : calls'[i].at # at
      BY <1>1, <1>2 DEF CallsInv
    <2>3. calls' \in Seq(Frames) /\ fsm_current' \in StatusIds
      BY <1>1 DEF CallsInv
    <2> QED BY <2>1, <2>2, <2>3 DEF CallsInv, Frames, StatusIds
  <1>5. StatusInv'
    <2>1. ASSUME NEW at \in {"handle", "exit"}, at \notin reentered', calls' # <<>>
          PROVE  calls'[Len(calls')].at # at
      <3>1. Len(calls') \in 1..n - 1
        <4>1. Len(calls') \in Nat /\ Len(calls') # 0
          BY <1>1, <2>1, EmptySeq, LenProperties
        <4> QED BY <1>1, <4>1
      <3> QED BY <1>1, <2>1, <3>1 DEF CallsInv
    <2>2. (\A i \in 1..Len(calls') : calls'[i].at # "exit") => \A i \in 1..n : calls[i].at # "exit"
      BY <1>1, <1>2
    <2> QED BY <2>1, <2>2 DEF StatusInv
  <1> QED BY <1>3, <1>4, <1>5

(* The trigger goes on: its frame, the top of the stack, is replaced.      *)
LEMMA ReplaceTop ==
  ASSUME CallsInv, calls # <<>>, NEW f \in Frames, calls' = Append(Fs!Pop, f)
  PROVE  /\ Len(calls) \in Nat /\ Len(calls) >= 1 /\ calls[Len(calls)] \in Frames
         /\ calls' \in Seq(Frames) /\ Len(calls') = Len(calls) /\ calls' # <<>>
         /\ calls'[Len(calls)] = f
         /\ \A i \in 1..Len(calls) - 1 : calls'[i] = calls[i]
         /\ 1..Len(calls) = (1..Len(calls) - 1) \cup {Len(calls)}
  <1> DEFINE n == Len(calls)
             p == Fs!Pop
  <1>1. /\ p \in Seq(Frames) /\ Len(p) = n - 1 /\ n \in Nat /\ n >= 1 /\ calls[n] \in Frames
        /\ \A i \in 1..n - 1 : p[i] = calls[i]
    BY PopBackFact DEF Fs!Pop, CallsInv
  <1>2. n - 1 + 1 = n /\ n - 1 \in Nat /\ 1..n = (1..n - 1) \cup {n}
    BY <1>1
  <1>3. /\ calls' \in Seq(Frames) /\ Len(calls') = n - 1 + 1
        /\ \A i \in 1..n - 1 : calls'[i] = p[i]
        /\ calls'[n - 1 + 1] = f
    <2> HIDE DEF p, n
    <2> QED BY <1>1, PushBackFact DEF p
  <1>4. calls' # <<>>
    <2>1. Len(calls') # 0
      BY <1>1, <1>2, <1>3
    <2> QED BY <2>1
  <1> QED BY <1>1, <1>2, <1>3, <1>4

(* A replaced top leaves what is below as it was.                          *)
LEMMA FsReplace ==
  ASSUME FsInv, calls # <<>>, NEW f \in Frames, calls' = Append(Fs!Pop, f),
         f.at # "handle", f.at = "exit" => f.to \in StatusIds /\ inside' = Fs!None,
         fsm_current' \in StatusIds,
         f.at = "exit" \/ inside' = fsm_current',
         UNCHANGED <<rules_table, reentered>>
  PROVE  FsInv'
  <1> USE DEF FsInv
  <1> DEFINE n == Len(calls)
  <1>1. /\ n \in Nat /\ n >= 1 /\ calls' \in Seq(Frames) /\ Len(calls') = n /\ calls' # <<>>
        /\ calls'[n] = f /\ \A i \in 1..n - 1 : calls'[i] = calls[i]
        /\ 1..n = (1..n - 1) \cup {n}
    BY ReplaceTop
  <1>2. RulesInv'
    BY DEF RulesInv
  <1>3. CallsInv'
    <2>1. \A i \in 1..Len(calls') : calls'[i].at = "exit" => calls'[i].to \in StatusIds
      BY <1>1 DEF CallsInv
    <2>2. \A at \in {"handle", "exit"} : at \notin reentered' =>
            \A i \in 1..Len(calls') - 1 : calls'[i].at # at
      BY <1>1 DEF CallsInv
    <2> QED BY <1>1, <2>1, <2>2 DEF CallsInv, Frames, StatusIds
  <1>4. StatusInv'
    <2>1. (\A i \in 1..Len(calls') : calls'[i].at # "exit") => f.at # "exit"
      BY <1>1
    <2>2. calls'[Len(calls')].at = f.at
      BY <1>1
    <2> QED BY <2>1, <2>2 DEF StatusInv
  <1> QED BY <1>2, <1>3, <1>4

(* The rule a handler's answer selects is one of the table's.              *)
LEMMA RuleForType ==
  ASSUME FsInv, NEW s \in StatusIds, NEW e \in Events, NEW r \in RetCodes
  PROVE  Fs!RuleFor(s, e, r) \subseteq Fs!Rules
  <1>1. Fs!FSM_WILDCARD_STATUS \in StatusIds
    BY DEF StatusIds
  <1>2. /\ Fs!H!hash_find(rules_table, Input(s, e, r)) \subseteq Fs!Rules
        /\ Fs!H!hash_find(rules_table, Input(Fs!FSM_WILDCARD_STATUS, e, r)) \subseteq Fs!Rules
    BY <1>1, FindType DEF FsInv
  <1> QED BY <1>2 DEF Fs!RuleFor, Input

LEMMA FsHandle ==
  ASSUME FsInv, NEW r \in RetCodes, Fs!HandleReturns(r)
  PROVE  FsInv'
  <1> DEFINE n == Len(calls)
  <1>1. calls # <<>> /\ calls[n].at = "handle"
    BY DEF Fs!HandleReturns, Fs!Top
  <1>2. UNCHANGED <<status_table, events_table, rules_table, fsm_current, reentered>>
    BY DEF Fs!HandleReturns, Fs!tables
  <1>3. calls \in Seq(Frames) /\ calls[n] \in Frames
    BY <1>1, PopBackFact DEF FsInv, CallsInv
  <1>4. CASE calls' = Fs!Pop /\ UNCHANGED inside
    BY <1>1, <1>2, <1>4, FsPop
  <1>5. CASE \E x \in Fs!RuleFor(calls[n].status, calls[n].event, r) :
               /\ calls' = Append(Fs!Pop, [calls[n] EXCEPT !.at = "exit", !.to = x.to])
               /\ inside' = Fs!None
    <2>1. PICK x \in Fs!RuleFor(calls[n].status, calls[n].event, r) :
               /\ calls' = Append(Fs!Pop, [calls[n] EXCEPT !.at = "exit", !.to = x.to])
               /\ inside' = Fs!None
      BY <1>5
    <2>2. x.to \in StatusIds
      <3>1. calls[n].status \in StatusIds /\ calls[n].event \in Events
        BY <1>3 DEF Frames
      <3>2. x \in Fs!Rules
        BY <3>1, RuleForType
      <3> QED BY <3>2, RuleFields
    <2> DEFINE f == [calls[n] EXCEPT !.at = "exit", !.to = x.to]
    <2>3. f \in Frames /\ f.at = "exit" /\ f.to = x.to
      BY <1>3, <2>2 DEF Frames
    <2>4. fsm_current' \in StatusIds
      BY <1>2 DEF FsInv, CallsInv
    <2> HIDE DEF f
    <2> QED BY <1>1, <1>2, <2>1, <2>2, <2>3, <2>4, FsReplace DEF f
  <1> QED BY <1>4, <1>5 DEF Fs!HandleReturns, Fs!Top

LEMMA FsExit ==
  ASSUME FsInv, Fs!ExitReturns
  PROVE  FsInv'
  <1> DEFINE n == Len(calls)
             f == [calls[n] EXCEPT !.at = "enter"]
  <1>1. /\ calls # <<>> /\ calls[n].at = "exit" /\ calls' = Append(Fs!Pop, f)
        /\ fsm_current' = calls[n].to /\ inside' = calls[n].to
        /\ UNCHANGED <<rules_table, reentered>>
    BY DEF Fs!ExitReturns, Fs!Top, Fs!tables
  <1>2. calls[n] \in Frames /\ n \in 1..n
    BY <1>1, PopBackFact DEF FsInv, CallsInv
  <1>3. calls[n].to \in StatusIds
    BY <1>1, <1>2 DEF FsInv, CallsInv
  <1>4. f \in Frames /\ f.at = "enter"
    BY <1>2 DEF Frames
  <1> HIDE DEF f
  <1> QED BY <1>1, <1>3, <1>4, FsReplace

LEMMA FsStep == FsInv /\ [Fs!Next]_(Fs!vars) => FsInv'
  <1> SUFFICES ASSUME FsInv, [Fs!Next]_(Fs!vars) PROVE FsInv'
    OBVIOUS
  <1>1. CASE Fs!fsm_release
    <2>1. /\ rules_table'.chain = [b \in 0..RuleBuckets - 1 |-> <<>>]
          /\ calls' = <<>> /\ fsm_current' = Fs!FSM_WILDCARD_STATUS
      BY <1>1 DEF Fs!fsm_release, Fs!H!Empty, Fs!H!Buckets, RuleBuckets
    <2>2. RulesInv'
      BY <2>1 DEF RulesInv
    <2>3. CallsInv'
      BY <2>1 DEF CallsInv, StatusIds
    <2>4. StatusInv'
      BY <2>1 DEF StatusInv
    <2> QED BY <2>2, <2>3, <2>4 DEF FsInv
  <1>2. ASSUME NEW s \in Statuses, Fs!fsm_start(s) PROVE FsInv'
    <2>1. /\ UNCHANGED <<rules_table, calls>> /\ calls = <<>>
          /\ fsm_current' = s /\ inside' = s
      BY <1>2 DEF Fs!fsm_start, Fs!tables
    <2>2. RulesInv'
      BY <2>1 DEF FsInv, RulesInv
    <2>3. CallsInv'
      BY <2>1 DEF CallsInv, StatusIds
    <2>4. StatusInv'
      BY <2>1 DEF StatusInv
    <2> QED BY <2>2, <2>3, <2>4 DEF FsInv
  <1>3. ASSUME UNCHANGED <<rules_table, fsm_current, calls, inside, reentered>> PROVE FsInv'
    BY <1>3 DEF FsInv, RulesInv, CallsInv, StatusInv
  <1>4. ASSUME NEW s \in Statuses, Fs!fsm_register_status(s) PROVE FsInv'
    BY <1>3, <1>4 DEF Fs!fsm_register_status
  <1>5. ASSUME NEW e \in Events, Fs!fsm_register_event(e) PROVE FsInv'
    BY <1>3, <1>5 DEF Fs!fsm_register_event
  <1>6. CASE Fs!EnterReturns
    <2>1. calls # <<>> /\ calls[Len(calls)].at # "exit"
      BY <1>6 DEF Fs!EnterReturns, Fs!Top
    <2> QED BY <1>6, <2>1, FsPop DEF Fs!EnterReturns, Fs!tables
  <1>7. CASE UNCHANGED Fs!vars
    BY <1>3, <1>7 DEF Fs!vars
  <1> QED BY <1>1, <1>2, <1>4, <1>5, <1>6, <1>7, FsTrigger, FsRule, FsHandle, FsExit DEF Fs!Next

LEMMA FsInvariant == MCSpec => []FsInv
  BY FsRefines, FsInit, FsStep, PTL DEF MCSpec

(* Exits and enters alternate, however deep the triggers nest.             *)
THEOREM CallbacksPair == MCSpec => []Paired
  <1>1. FsInv => Paired
    <2> SUFFICES ASSUME FsInv, "exit" \notin reentered, fsm_current # Fs!FSM_WILDCARD_STATUS
                 PROVE  inside = IF \E i \in DOMAIN calls : calls[i].at = "exit"
                                 THEN Fs!None ELSE fsm_current
      BY DEF Paired, Fs!Paired
    <2>1. DOMAIN calls = 1..Len(calls) /\ Len(calls) \in Nat
      BY LenProperties DEF FsInv, CallsInv
    <2>2. CASE \A i \in 1..Len(calls) : calls[i].at # "exit"
      BY <2>1, <2>2 DEF FsInv, StatusInv
    <2>3. CASE \E i \in 1..Len(calls) : calls[i].at = "exit"
      <3>1. PICK i \in 1..Len(calls) : calls[i].at = "exit"
        BY <2>3
      <3>2. i = Len(calls)
        <4>1. \A j \in 1..Len(calls) - 1 : calls[j].at # "exit"
          BY DEF FsInv, CallsInv
        <4> DEFINE n == Len(calls)
        <4>2. n \in Nat /\ i \in 1..n
          BY <2>1
        <4> HIDE DEF n
        <4>3. i \in 1..n - 1 \/ i = n
          BY <4>2
        <4>4. i \in 1..Len(calls) - 1 \/ i = Len(calls)
          BY <4>3 DEF n
        <4> QED BY <3>1, <4>1, <4>4
      <3>3. calls # <<>>
        <4>1. Len(calls) # 0
          BY <2>1, <3>1
        <4> QED BY <4>1
      <3>4. inside = Fs!None
        BY <3>1, <3>2, <3>3 DEF FsInv, StatusInv
      <3> QED BY <2>1, <3>1, <3>4
    <2> QED BY <2>2, <2>3
  <1> QED BY <1>1, FsInvariant, PTL

(* Where no rules share a bucket, hash_find finds what is registered for   *)
(* the input and nothing else.                                             *)
LEMMA FindsTheInput ==
  ASSUME RulesInv, ~Fs!Collision, NEW s \in StatusIds, NEW e \in Events, NEW r \in RetCodes
  PROVE  Fs!H!hash_find(rules_table, Input(s, e, r)) =
           {y \in Fs!Registered : Fs!SameInput(y, Input(s, e, r))}
  <1> DEFINE d == Input(s, e, r)
             w == [status |-> s, event |-> e, ret |-> r, to |-> Fs!FSM_WILDCARD_STATUS]
             c == Chain(d)
             b == Fs!H!Bucket(d)
             S == {y \in Fs!Registered : Fs!SameInput(y, d)}
  <1>1. d.status \in StatusIds /\ d.ret \in RetCodes /\ d.status = s /\ d.event = e /\ d.ret = r
    BY DEF Input
  <1>2. w \in Fs!Rules /\ \A y : Fs!SameInput(y, w) <=> Fs!SameInput(y, d)
    BY <1>1 DEF Fs!Rules, StatusIds, Fs!SameInput
  <1>3. Fs!H!Bucket(w) = b
    BY <1>1 DEF Fs!H!Bucket, FsmHash
  <1>4. b \in 0..RuleBuckets - 1 /\ c \in Seq(Fs!Rules)
    BY <1>1, BucketType DEF RulesInv, Chain
  <1>5. DOMAIN rules_table.chain = 0..RuleBuckets - 1
    BY DEF RulesInv
  <1>6. \A i \in 1..Len(c) : c[i] \in Fs!Rules /\ Fs!H!Bucket(c[i]) = b
    <2>1. \A i \in 1..Len(c) : c[i] \in Fs!Rules
      <3> HIDE DEF c
      <3> QED BY <1>4, ElementOfSeq
    <2> QED BY <1>4, <2>1 DEF RulesInv, Chain
  <1>7. \A i \in 1..Len(c) : c[i] \in Fs!Registered
    BY <1>4, <1>5, <1>6 DEF Fs!Registered, Fs!Chained, Chain
  <1>8. \A i \in 1..Len(c) : Fs!SameInput(c[i], d)
    <2> HIDE DEF w, d, c, b
    <2> QED BY <1>2, <1>3, <1>6, <1>7 DEF Fs!Collision
  <1>9. \A i \in 1..Len(c) : Fs!_fsm_rule_cmp(c[i], d) = 0
    <2> HIDE DEF d, c
    <2> QED BY <1>6, <1>8, SameIsEqual
  <1>10. \A i, j \in 1..Len(c) : i = j
    <2>1. \A i, j \in 1..Len(c) : Fs!SameInput(c[i], c[j])
      BY <1>8 DEF Fs!SameInput
    <2> QED BY <1>4, <2>1 DEF RulesInv, Chain
  <1>11. ASSUME NEW y \in S PROVE \E i \in 1..Len(c) : y = c[i]
    <2>1. PICK g \in 0..RuleBuckets - 1 : \E i \in 1..Len(rules_table.chain[g]) : rules_table.chain[g][i] = y
      BY <1>5, <1>11 DEF Fs!Registered, Fs!Chained
    <2>2. Fs!H!Bucket(y) = g
      BY <2>1 DEF RulesInv
    <2>3. g = b
      BY <1>11, <2>2, InputDecides
    <2> QED BY <2>1, <2>3 DEF Chain
  <1>12. \A i \in 1..Len(c) : c[i] \in S
    BY <1>7, <1>8
  <1>13. \/ Fs!H!hash_find(rules_table, d) = {} /\ \A i \in 1..Len(c) : Fs!_fsm_rule_cmp(c[i], d) # 0
         \/ \E i \in 1..Len(c) : Fs!H!hash_find(rules_table, d) = {c[i]}
    <2> HIDE DEF d
    <2> QED BY <1>1, FindPlace
  <1> HIDE DEF S, c, d
  <1>14. CASE Fs!H!hash_find(rules_table, d) = {} /\ \A i \in 1..Len(c) : Fs!_fsm_rule_cmp(c[i], d) # 0
    BY <1>9, <1>11, <1>14 DEF S, d
  <1>15. CASE \E i \in 1..Len(c) : Fs!H!hash_find(rules_table, d) = {c[i]}
    <2>1. PICK i \in 1..Len(c) : Fs!H!hash_find(rules_table, d) = {c[i]}
      BY <1>15
    <2>2. S = {c[i]}
      BY <1>10, <1>11, <1>12
    <2> QED BY <2>1, <2>2 DEF S, d
  <1> QED BY <1>13, <1>14, <1>15

(* The rules a handler's answer is answered by, exact before wildcard.     *)
Answers(r) ==
  LET n == Len(calls)
      exact == {y \in Fs!Registered : Fs!SameInput(y, Input(fsm_current, calls[n].event, r))}
      any == {y \in Fs!Registered :
                Fs!SameInput(y, Input(Fs!FSM_WILDCARD_STATUS, calls[n].event, r))}
  IN IF exact # {} THEN exact ELSE any

LEMMA HandleFollows ==
  ASSUME FsInv, NEW r \in RetCodes, Fs!HandleReturns(r), "handle" \notin reentered, ~Fs!Collision
  PROVE  LET to == {x.to : x \in Answers(r)} \ {fsm_current, Fs!FSM_WILDCARD_STATUS}
         IN IF to = {} THEN Len(calls') < Len(calls)
            ELSE Len(calls') = Len(calls) /\ calls'[Len(calls)].to \in to
  <1> DEFINE n == Len(calls)
             A == Answers(r)
             to == {x.to : x \in A} \ {fsm_current, Fs!FSM_WILDCARD_STATUS}
             moves == {x \in A : x.to \notin {fsm_current, Fs!FSM_WILDCARD_STATUS}}
  <1> SUFFICES IF to = {} THEN Len(calls') < n ELSE Len(calls') = n /\ calls'[n].to \in to
    OBVIOUS
  <1>1. calls # <<>> /\ calls[n].at = "handle"
    BY DEF Fs!HandleReturns, Fs!Top
  <1>2. calls \in Seq(Frames) /\ calls[n] \in Frames /\ Len(Fs!Pop) = n - 1 /\ n \in Nat
    BY <1>1, PopBackFact DEF FsInv, CallsInv, Fs!Pop
  <1>3. calls[n].status = fsm_current /\ fsm_current \in StatusIds /\ calls[n].event \in Events
    BY <1>1, <1>2 DEF FsInv, StatusInv, CallsInv, Frames
  <1>4. Fs!RuleFor(calls[n].status, calls[n].event, r) = A
    <2>1. Fs!FSM_WILDCARD_STATUS \in StatusIds
      BY DEF StatusIds
    <2> DEFINE a == Input(fsm_current, calls[n].event, r)
               z == Input(Fs!FSM_WILDCARD_STATUS, calls[n].event, r)
    <2>2. /\ Fs!H!hash_find(rules_table, a) = {y \in Fs!Registered : Fs!SameInput(y, a)}
          /\ Fs!H!hash_find(rules_table, z) = {y \in Fs!Registered : Fs!SameInput(y, z)}
      BY <1>3, <2>1, FindsTheInput DEF FsInv
    <2>3. Fs!RuleFor(calls[n].status, calls[n].event, r) =
            IF Fs!H!hash_find(rules_table, a) # {} THEN Fs!H!hash_find(rules_table, a)
            ELSE Fs!H!hash_find(rules_table, z)
      BY <1>3 DEF Fs!RuleFor, Input
    <2>4. A = IF {y \in Fs!Registered : Fs!SameInput(y, a)} # {}
              THEN {y \in Fs!Registered : Fs!SameInput(y, a)}
              ELSE {y \in Fs!Registered : Fs!SameInput(y, z)}
      BY DEF Answers
    <2> HIDE DEF a, z, A
    <2> QED BY <2>2, <2>3, <2>4
  <1> HIDE DEF A
  <1>5. moves = {} <=> to = {}
    OBVIOUS
  <1>6. CASE moves = {} /\ calls' = Fs!Pop
    <2>1. Len(calls') < n /\ to = {}
      BY <1>2, <1>5, <1>6
    <2> HIDE DEF to, n
    <2> QED BY <2>1
  <1>7. CASE \E x \in moves : calls' = Append(Fs!Pop, [calls[n] EXCEPT !.at = "exit", !.to = x.to])
    <2>1. PICK x \in moves : calls' = Append(Fs!Pop, [calls[n] EXCEPT !.at = "exit", !.to = x.to])
      BY <1>7
    <2> DEFINE f == [calls[n] EXCEPT !.at = "exit", !.to = x.to]
    <2>2. x.to \in StatusIds
      <3>1. x \in Fs!Rules
        BY <1>3, <1>4, RuleForType
      <3> QED BY <3>1, RuleFields
    <2>3. f \in Frames /\ f.to = x.to
      BY <1>2, <2>2 DEF Frames
    <2>4. Len(calls') = n /\ calls'[n] = f
      <3> HIDE DEF f
      <3> QED BY <1>1, <2>1, <2>3, ReplaceTop DEF FsInv, f
    <2>5. x.to \in to
      OBVIOUS
    <2> HIDE DEF to, f
    <2> QED BY <2>3, <2>4, <2>5
  <1>8. \/ moves = {} /\ calls' = Fs!Pop
        \/ \E x \in moves : calls' = Append(Fs!Pop, [calls[n] EXCEPT !.at = "exit", !.to = x.to])
    BY <1>4 DEF Fs!HandleReturns, Fs!Top
  <1> QED BY <1>6, <1>7, <1>8

(* A handler's answer leads where the exact rule, else the wildcard rule   *)
(* says, at any size of the table and any depth of triggers.               *)
THEOREM RulesAreFollowed == MCSpec => Legal
  <1> DEFINE Follows ==
        \A r \in RetCodes :
          Fs!HandleReturns(r) /\ "handle" \notin reentered /\ ~Fs!Collision =>
            LET exact == {x \in Fs!Registered : Fs!SameInput(x, [status |-> fsm_current, event |-> Fs!Top.event, ret |-> r])}
                any == {x \in Fs!Registered : Fs!SameInput(x, [status |-> Fs!FSM_WILDCARD_STATUS,
                                                                event |-> Fs!Top.event, ret |-> r])}
                to == {x.to : x \in IF exact # {} THEN exact ELSE any} \ {fsm_current, Fs!FSM_WILDCARD_STATUS}
            IN IF to = {} THEN Len(calls') < Len(calls)
               ELSE Len(calls') = Len(calls) /\ calls'[Len(calls)].to \in to
  <1>1. FsInv => Follows
    BY HandleFollows DEF Answers, Input, Fs!Top
  <1>2. Legal <=> [][Follows]_(Fs!vars)
    BY DEF Legal, Fs!Legal
  <1> QED BY <1>1, <1>2, FsInvariant, PTL

----------------------------------------------------------------------------
(* Tasks.                                                                  *)

LEMMA TaRefines ==
  /\ MCInit => Ta!Init
  /\ [MCNext]_allVars => [Ta!Next]_(Ta!vars)
  BY DEF MCInit, MCNext, allVars, taVars, Ta!vars, Ta!ring

L == Ta!Linked

(* The links of the steps form one ring ...                                *)
Links ==
  /\ next \in [Steps -> Steps \cup {0}] /\ prev \in [Steps -> Steps \cup {0}]
  /\ head \in Steps \cup {0} /\ (head = 0 <=> L = {}) /\ (head # 0 => head \in L)
  /\ \A s \in L : next[s] \in L /\ prev[s] \in L /\ prev[next[s]] = s /\ next[prev[s]] = s
  /\ \A s \in Steps \ L : prev[s] = 0

Closed == \A S \in SUBSET L : (head \in S /\ \A s \in S : next[s] \in S) => S = L

(* ... in which the task is at a step while it is not finished.            *)
Position ==
  /\ task_current \in L \cup {0} /\ pending \subseteq Steps
  /\ task_pc \in {"app", "run"} /\ (task_pc = "run" => task_current # 0)
  /\ timer_id \in 0..MaxRuns /\ timers \subseteq 1..MaxRuns
  /\ runs \in 0..MaxRuns /\ resumes \in 0..MaxResumes
  /\ timed \in BOOLEAN /\ freed \in BOOLEAN /\ crash \in BOOLEAN

(* Without a timer the only notification to come is that of the step the   *)
(* task waits in.                                                          *)
Untimed ==
  ~timed => /\ runs > 0 /\ task_current = 0 => Len(done) = 1
            /\ task_current # 0 => done = <<>> /\ ~freed
            /\ timers = {} /\ ~crash
            /\ pending \subseteq {task_current} \ {0}
            /\ task_pc = "run" => pending = {}

TaInv == Links /\ Closed /\ Position /\ Untimed

LEMMA TaImplies == TaInv => Ta!OneRing /\ Ta!CompletesOnce
  <1> SUFFICES ASSUME TaInv PROVE Ta!OneRing /\ Ta!CompletesOnce
    OBVIOUS
  <1>1. Ta!TypeOK
    BY DEF TaInv, Links, Position, Ta!TypeOK, L
  <1>2. Ta!OneRing
    BY <1>1 DEF TaInv, Closed, Ta!OneRing, L
  <1>3. Ta!CompletesOnce
    BY DEF TaInv, Untimed, Ta!CompletesOnce
  <1> QED BY <1>2, <1>3

LEMMA TaInit == Ta!Init => TaInv
  <1> SUFFICES ASSUME Ta!Init PROVE TaInv
    OBVIOUS
  <1>1. L = {}
    BY DEF L, Ta!Linked, Ta!Init
  <1>2. Links
    BY <1>1 DEF Links, Ta!Init
  <1>3. Closed
    BY <1>1 DEF Closed
  <1>4. Position
    <2>1. 0 \in 0..MaxRuns /\ 0 \in 0..MaxResumes
      BY TaskAssumption
    <2> QED BY <2>1 DEF Position, Ta!Init
  <1>5. Untimed
    BY DEF Untimed, Ta!Init
  <1> QED BY <1>2, <1>3, <1>4, <1>5 DEF TaInv

(* A walk along the ring ends at one of its steps.                         *)
LEMMA MovedStays ==
  ASSUME Links, task_current \in L, NEW n \in Int
  PROVE  Ta!Moved(n) \in L
  <1> DEFINE link == IF n > 0 THEN next ELSE prev
             w == CHOOSE f : f = [i \in Nat |-> IF i = 0 THEN task_current ELSE link[f[i - 1]]]
             m == IF n > 0 THEN n ELSE -n
  <1>1. \A y \in L : link[y] \in L
    BY DEF Links
  <1>2. w = [i \in Nat |-> IF i = 0 THEN task_current ELSE link[w[i - 1]]]
    <2> HIDE DEF link
    <2> QED BY WalkExists
  <1>3. m \in Nat
    OBVIOUS
  <1>4. w[m] \in L
    <2> HIDE DEF link, w, m
    <2> QED BY <1>1, <1>2, <1>3, WalkStays
  <1>5. Ta!Moved(n) = w[m]
    BY DEF Ta!Moved
  <1> QED BY <1>4, <1>5

(* task_push_back_step: the new step comes between the last and the first. *)
LEMMA TaPush ==
  ASSUME TaInv, NEW s \in Steps, Ta!task_push_back_step(s)
  PROVE  Links' /\ Closed' /\ L' = L \cup {s}
  <1> USE DEF TaInv
  <1>0. s \in Steps /\ s \notin L /\ s # 0 /\ next[s] = 0 /\ L \subseteq Steps
    BY TaskAssumption DEF Ta!task_push_back_step, L, Ta!Linked
  <1>1. CASE head = 0
    <2>1. head' = s /\ next' = [next EXCEPT ![s] = s] /\ prev' = [prev EXCEPT ![s] = s]
      BY <1>1 DEF Ta!task_push_back_step
    <2>2. L = {}
      BY <1>1 DEF Links
    <2>3. L' = {s}
      BY <1>0, <2>1, <2>2 DEF L, Ta!Linked, Links
    <2>4. Links'
      BY <1>0, <2>1, <2>2, <2>3 DEF Links
    <2>5. Closed'
      BY <2>1, <2>3 DEF Closed
    <2> QED BY <2>2, <2>3, <2>4, <2>5
  <1>2. CASE head # 0
    <2> DEFINE t == prev[head]
    <2>1. /\ head' = head
          /\ next' = [next EXCEPT ![t] = s, ![s] = head]
          /\ prev' = [prev EXCEPT ![s] = t, ![head] = s]
      BY <1>2 DEF Ta!task_push_back_step
    <2>2. head \in L /\ t \in L /\ next[t] = head /\ t # s /\ head # s /\ t # 0 /\ head # 0
      BY <1>0, <1>2, TaskAssumption DEF Links
    <2>3. /\ next' \in [Steps -> Steps \cup {0}] /\ prev' \in [Steps -> Steps \cup {0}]
          /\ next'[t] = s /\ next'[s] = head /\ \A x \in Steps : x # t /\ x # s => next'[x] = next[x]
          /\ prev'[s] = t /\ prev'[head] = s /\ \A x \in Steps : x # head /\ x # s => prev'[x] = prev[x]
      BY <1>0, <2>1, <2>2 DEF Links
    <2>4. L' = L \cup {s}
      BY <1>0, <2>2, <2>3 DEF L, Ta!Linked
    <2> HIDE DEF t
    <2>5. ASSUME NEW x \in L
          PROVE  /\ next'[x] \in L' /\ prev'[x] \in L'
                 /\ prev'[next'[x]] = x /\ next'[prev'[x]] = x
      <3>1. next[x] \in L /\ prev[x] \in L /\ prev[next[x]] = x /\ next[prev[x]] = x
        BY DEF Links
      <3>2. x # t => next[x] # head
        BY <3>1 DEF t
      <3>3. x # head => prev[x] # t
        BY <2>2, <3>1
      <3>4. x \in Steps /\ x # s /\ next[x] \in Steps /\ next[x] # s /\ prev[x] \in Steps /\ prev[x] # s
        BY <1>0, <3>1
      <3>5. CASE x = t
        BY <2>2, <2>3, <2>4, <3>1, <3>3, <3>4, <3>5
      <3>6. CASE x # t
        BY <2>2, <2>3, <2>4, <3>1, <3>2, <3>3, <3>4, <3>6
      <3> QED BY <3>5, <3>6
    <2>6. /\ next'[s] \in L' /\ prev'[s] \in L'
          /\ prev'[next'[s]] = s /\ next'[prev'[s]] = s
      BY <2>2, <2>3, <2>4
    <2>7. \A x \in Steps \ L' : prev'[x] = 0
      BY <1>0, <2>2, <2>3, <2>4 DEF Links
    <2>8. Links'
      BY <2>1, <2>2, <2>3, <2>4, <2>5, <2>6, <2>7, <1>0 DEF Links
    <2>9. ASSUME NEW S \in SUBSET L', head' \in S, \A x \in S : next'[x] \in S
          PROVE  S = L'
      <3> DEFINE T == S \cap L
      <3>1. ASSUME NEW x \in T PROVE next[x] \in T
        <4>1. next[x] \in L /\ x \in Steps /\ x # s
          BY <1>0 DEF Links
        <4>2. CASE x = t
          BY <2>1, <2>2, <2>9, <4>2
        <4>3. CASE x # t
          BY <2>3, <2>9, <4>1, <4>3
        <4> QED BY <4>2, <4>3
      <3>2. T = L
        <4>1. head \in T /\ T \in SUBSET L
          BY <2>1, <2>2, <2>9
        <4> HIDE DEF T
        <4> QED BY <3>1, <4>1 DEF Closed
      <3>3. s \in S
        BY <2>2, <2>3, <2>9, <3>2
      <3> QED BY <2>4, <2>9, <3>2, <3>3
    <2> QED BY <2>4, <2>8, <2>9 DEF Closed
  <1> QED BY <1>1, <1>2

(* task_erase_step: its neighbours are linked to each other.               *)
LEMMA TaErase ==
  ASSUME TaInv, NEW s \in Steps, Ta!task_erase_step(s)
  PROVE  Links' /\ Closed' /\ L' = L \ {s} /\ s # task_current /\ s \notin pending
  <1> USE DEF TaInv
  <1> DEFINE a == prev[s]
             b == next[s]
  <1>0. /\ s \in L /\ s # head /\ s # task_current /\ s \notin pending /\ head' = head
        /\ next' = [next EXCEPT ![a] = b, ![s] = 0]
        /\ prev' = [prev EXCEPT ![b] = a, ![s] = 0]
    BY DEF Ta!task_erase_step, L
  <1>1. L \subseteq Steps /\ 0 \notin L /\ \A x \in L : next[x] # 0
    BY TaskAssumption DEF L, Ta!Linked
  <1>2. a \in L /\ b \in L /\ next[a] = s /\ prev[b] = s
    BY <1>0 DEF Links
  <1>3. head \in L
    BY <1>0 DEF Links
  <1> HIDE DEF a, b
  <1>4. a # s
    <2> SUFFICES ASSUME a = s PROVE FALSE
      OBVIOUS
    <2> DEFINE T == L \ {s}
    <2>1. ASSUME NEW x \in T PROVE next[x] \in T
      <3>1. next[x] \in L /\ prev[next[x]] = x
        BY DEF Links
      <3> QED BY <3>1 DEF a
    <2>2. head \in T /\ T \in SUBSET L
      BY <1>0, <1>3
    <2> HIDE DEF T
    <2>3. T = L
      BY <2>1, <2>2 DEF Closed
    <2> QED BY <1>0, <2>3 DEF T
  <1>5. b # s
    BY <1>0, <1>2, <1>4 DEF a
  <1>6. /\ next' \in [Steps -> Steps \cup {0}] /\ prev' \in [Steps -> Steps \cup {0}]
        /\ next'[a] = b /\ next'[s] = 0 /\ \A x \in Steps : x # a /\ x # s => next'[x] = next[x]
        /\ prev'[b] = a /\ prev'[s] = 0 /\ \A x \in Steps : x # b /\ x # s => prev'[x] = prev[x]
    BY <1>0, <1>1, <1>2, <1>4, <1>5 DEF Links
  <1>7. L' = L \ {s}
    BY <1>1, <1>2, <1>4, <1>5, <1>6 DEF L, Ta!Linked
  <1>8. ASSUME NEW x \in L'
        PROVE  /\ next'[x] \in L' /\ prev'[x] \in L'
               /\ prev'[next'[x]] = x /\ next'[prev'[x]] = x
    <2>1. x \in L /\ x # s /\ x \in Steps
      BY <1>1, <1>7
    <2>2. next[x] \in L /\ prev[x] \in L /\ prev[next[x]] = x /\ next[prev[x]] = x
      BY <2>1 DEF Links
    <2>3. next[x] \in Steps /\ prev[x] \in Steps
      BY <1>1, <2>2
    <2>4. (x # a => next[x] # s) /\ (x # b => prev[x] # s)
      BY <2>2 DEF a, b
    <2>5. (x # a => next[x] # b) /\ (x # b => prev[x] # a)
      BY <1>2, <2>1, <2>2
    <2>6. next'[x] \in L' /\ prev'[next'[x]] = x
      <3>1. CASE x = a
        BY <1>2, <1>5, <1>6, <1>7, <3>1
      <3>2. CASE x # a
        BY <1>6, <1>7, <2>1, <2>2, <2>3, <2>4, <2>5, <3>2
      <3> QED BY <3>1, <3>2
    <2>7. prev'[x] \in L' /\ next'[prev'[x]] = x
      <3>1. CASE x = b
        BY <1>2, <1>4, <1>6, <1>7, <3>1
      <3>2. CASE x # b
        BY <1>6, <1>7, <2>1, <2>2, <2>3, <2>4, <2>5, <3>2
      <3> QED BY <3>1, <3>2
    <2> QED BY <2>6, <2>7
  <1>9. \A x \in Steps \ L' : prev'[x] = 0
    <2>1. \A x \in Steps \ L : x # b /\ prev[x] = 0
      BY <1>2 DEF Links
    <2> QED BY <1>6, <1>7, <2>1
  <1>10. Links'
    <2>1. head' \in Steps \cup {0} /\ (head' = 0 <=> L' = {}) /\ (head' # 0 => head' \in L')
      BY <1>0, <1>1, <1>3, <1>7
    <2> QED BY <1>6, <1>8, <1>9, <2>1 DEF Links
  <1>11. ASSUME NEW S \in SUBSET L', head' \in S, \A x \in S : next'[x] \in S
         PROVE  S = L'
    <2> DEFINE T == IF a \in S THEN S \cup {s} ELSE S
    <2>1. ASSUME NEW x \in T PROVE next[x] \in T
      <3>1. CASE x = s
        <4>1. a \in S
          BY <1>7, <1>11, <3>1
        <4>2. next'[a] \in S
          BY <1>11, <4>1
        <4> QED BY <1>6, <3>1, <4>1, <4>2 DEF b
      <3>2. CASE x = a
        <4>1. a \in S
          BY <1>4, <3>2
        <4> QED BY <1>2, <3>2, <4>1
      <3>3. CASE x # s /\ x # a
        <4>1. x \in S /\ x \in Steps
          BY <1>1, <1>7, <3>3
        <4> QED BY <1>6, <1>11, <3>3, <4>1
      <3> QED BY <3>1, <3>2, <3>3
    <2>2. T \in SUBSET L /\ head \in T
      BY <1>0, <1>7, <1>11
    <2>3. T = L
      <3> HIDE DEF T
      <3> QED BY <2>1, <2>2 DEF Closed
    <2> QED BY <1>7, <2>3
  <1> QED BY <1>0, <1>7, <1>10, <1>11 DEF Closed

(* An action that leaves the links alone leaves the ring alone.            *)
LEMMA RingKept ==
  ASSUME TaInv, UNCHANGED Ta!ring
  PROVE  Links' /\ Closed' /\ L' = L
  BY DEF TaInv, Links, Closed, L, Ta!Linked, Ta!ring

LEMMA TaRun ==
  ASSUME TaInv, NEW timer \in BOOLEAN, Ta!task_run(timer)
  PROVE  TaInv'
  <1> USE DEF TaInv
  <1>1. /\ UNCHANGED Ta!ring /\ head # 0 /\ task_current' = head /\ task_pc' = "run"
        /\ task_current = 0 /\ runs < MaxRuns /\ runs' = runs + 1 /\ done' = <<>>
        /\ timed' = (timed \/ timer) /\ ~freed /\ ~crash
        /\ UNCHANGED <<pending, resumes, freed, crash>>
    BY DEF Ta!task_run, Ta!App
  <1>2. \/ timer /\ timer_id' = runs + 1 /\ timers' = timers \cup {runs + 1}
        \/ ~timer /\ UNCHANGED <<timer_id, timers>>
    BY DEF Ta!task_run
  <1>3. Links' /\ Closed' /\ L' = L
    BY <1>1, RingKept
  <1>4. runs + 1 \in 0..MaxRuns /\ runs + 1 \in 1..MaxRuns
    BY <1>1, TaskAssumption DEF Position
  <1>5. Position'
    <2>1. head \in L
      BY <1>1 DEF Links
    <2>2. timer_id' \in 0..MaxRuns /\ timers' \subseteq 1..MaxRuns
      BY <1>2, <1>4 DEF Position
    <2>3. timed' \in BOOLEAN
      BY <1>1 DEF Position
    <2> QED BY <1>1, <1>3, <1>4, <2>1, <2>2, <2>3 DEF Position
  <1>6. Untimed'
    <2> SUFFICES ASSUME ~timed' PROVE Untimed'
      BY DEF Untimed
    <2>1. ~timed /\ ~timer
      BY <1>1 DEF Position
    <2>2. pending = {} /\ timers' = {}
      BY <1>1, <1>2, <2>1 DEF Untimed
    <2> QED BY <1>1, <2>1, <2>2 DEF Untimed
  <1> QED BY <1>3, <1>5, <1>6

LEMMA TaStepReturns ==
  ASSUME TaInv, NEW ret, Ta!StepReturns(ret)
  PROVE  TaInv'
  <1> USE DEF TaInv
  <1>1. task_pc = "run" /\ UNCHANGED <<Ta!ring, timer_id, timers, timed, runs, resumes, freed, crash>>
    BY DEF Ta!StepReturns
  <1>2. Links' /\ Closed' /\ L' = L
    BY <1>1, RingKept
  <1>3. task_current \in L /\ task_current # 0 /\ next[task_current] \in L /\ task_current \in Steps
    <2>1. L \subseteq Steps
      BY DEF L, Ta!Linked
    <2> QED BY <1>1, <2>1 DEF Position, Links
  <1>4. next[task_current] # 0
    <2>1. 0 \notin L
      BY TaskAssumption DEF L, Ta!Linked
    <2> QED BY <1>3, <2>1
  <1>5. \/ task_current' = next[task_current] /\ UNCHANGED <<task_pc, pending, done>>
        \/ \E how : done' = done \o <<how>> /\ task_current' = 0 /\ task_pc' = "app" /\ UNCHANGED pending
        \/ task_pc' = "app" /\ pending' = pending \cup {task_current} /\ UNCHANGED <<task_current, done>>
    BY DEF Ta!StepReturns, Ta!Complete
  <1>6. CASE task_current' = next[task_current] /\ UNCHANGED <<task_pc, pending, done>>
    <2>1. Position'
      BY <1>1, <1>2, <1>3, <1>4, <1>6 DEF Position
    <2>2. Untimed'
      BY <1>1, <1>3, <1>4, <1>6 DEF Untimed
    <2> QED BY <1>2, <2>1, <2>2
  <1>7. CASE \E how : done' = done \o <<how>> /\ task_current' = 0 /\ task_pc' = "app" /\ UNCHANGED pending
    <2>1. Position'
      BY <1>1, <1>2, <1>7 DEF Position
    <2>2. done = <<>> => Len(done') = 1
      BY <1>7
    <2>3. Untimed'
      BY <1>1, <1>3, <1>7, <2>2 DEF Untimed
    <2> QED BY <1>2, <2>1, <2>3
  <1>8. CASE task_pc' = "app" /\ pending' = pending \cup {task_current} /\ UNCHANGED <<task_current, done>>
    <2>1. Position'
      BY <1>1, <1>2, <1>3, <1>8 DEF Position
    <2>2. Untimed'
      BY <1>1, <1>3, <1>8 DEF Untimed
    <2> QED BY <1>2, <2>1, <2>2
  <1> QED BY <1>5, <1>6, <1>7, <1>8

LEMMA TaResume ==
  ASSUME TaInv, NEW ts \in Steps, NEW ret \in Ta!Results, NEW n \in {-1, 0, 1, 2},
         Ta!task_step_resume(ts, ret, n)
  PROVE  TaInv'
  <1> USE DEF TaInv
  <1>1. /\ task_pc = "app" /\ ~crash /\ ts \in pending /\ pending' = pending \ {ts}
        /\ (ret = "NEXT" => resumes < MaxResumes)
        /\ resumes' = resumes + (IF ret = "NEXT" THEN 1 ELSE 0) /\ crash' = Ta!Stray(ret, n)
        /\ UNCHANGED <<Ta!ring, timer_id, timers, timed, runs, freed>>
    BY DEF Ta!task_step_resume
  <1>2. Links' /\ Closed' /\ L' = L
    BY <1>1, RingKept
  <1>3. resumes' \in 0..MaxResumes
    BY <1>1, TaskAssumption DEF Position
  <1>4. crash' \in BOOLEAN
    BY <1>1 DEF Ta!Stray, Position
  <1>5. Ta!Stray(ret, n) => timed
    BY <1>1 DEF Ta!Stray, Untimed
  <1>6. ~timed => task_current \in L /\ task_current # 0 /\ pending' = {} /\ done = <<>>
    BY <1>1 DEF Untimed, Position
  <1>7. CASE Ta!Stray(ret, n) /\ UNCHANGED <<task_current, task_pc, done>>
    <2>1. Position'
      BY <1>1, <1>2, <1>3, <1>4, <1>7 DEF Position
    <2>2. Untimed'
      BY <1>1, <1>5, <1>7 DEF Untimed
    <2> QED BY <1>2, <2>1, <2>2
  <1>8. CASE \E how : /\ ~Ta!Stray(ret, n) /\ done' = done \o <<how>>
                     /\ task_current' = 0 /\ task_pc' = "app"
    <2>1. Position'
      BY <1>1, <1>2, <1>3, <1>4, <1>8 DEF Position
    <2>2. done = <<>> => Len(done') = 1
      BY <1>8
    <2>3. Untimed'
      BY <1>1, <1>6, <1>8, <2>2 DEF Untimed
    <2> QED BY <1>2, <2>1, <2>3
  <1>9. CASE /\ ~Ta!Stray(ret, n) /\ ret = "NEXT" /\ task_current' = Ta!Moved(n) /\ UNCHANGED done
             /\ task_pc' = IF task_current' = 0 THEN "app" ELSE "run"
    <2>0. n \in Int
      OBVIOUS
    <2>1. Ta!Moved(n) \in L \cup {0} /\ (task_current # 0 => Ta!Moved(n) # 0)
      <3>1. 0 \notin L
        BY TaskAssumption DEF L, Ta!Linked
      <3>2. CASE task_current \in L
        BY <2>0, <3>1, <3>2, MovedStays
      <3>3. CASE task_current = 0
        <4>1. n = 0
          BY <1>9, <3>3 DEF Ta!Stray
        <4> DEFINE w == CHOOSE f : f = [i \in Nat |-> IF i = 0 THEN task_current ELSE prev[f[i - 1]]]
        <4>2. w = [i \in Nat |-> IF i = 0 THEN task_current ELSE prev[w[i - 1]]]
          BY WalkExists
        <4>3. Ta!Moved(0) = w[0]
          BY DEF Ta!Moved
        <4>4. w[0] = task_current
          <5> HIDE DEF w
          <5> QED BY <4>2, WalkValues
        <4> QED BY <3>3, <4>1, <4>3, <4>4
      <3> QED BY <3>2, <3>3 DEF Position
    <2>2. Position'
      BY <1>1, <1>2, <1>3, <1>4, <1>9, <2>1 DEF Position
    <2>3. Untimed'
      BY <1>1, <1>6, <1>9, <2>1 DEF Untimed
    <2> QED BY <1>2, <2>2, <2>3
  <1> QED BY <1>7, <1>8, <1>9 DEF Ta!task_step_resume, Ta!Complete

LEMMA TaTimeout ==
  ASSUME TaInv, NEW i \in timers, Ta!_task_timeout(i)
  PROVE  TaInv'
  <1> USE DEF TaInv
  <1>1. /\ timers' = timers \ {i} /\ crash' = freed
        /\ UNCHANGED <<Ta!ring, pending, timed, runs, resumes, freed>>
    BY DEF Ta!_task_timeout
  <1>2. Links' /\ Closed' /\ L' = L
    BY <1>1, RingKept
  <1>3. Untimed'
    BY <1>1 DEF Untimed
  <1>4. 0 \in 0..MaxRuns
    BY TaskAssumption
  <1>5. \/ UNCHANGED <<task_current, task_pc, done, timer_id>>
        \/ task_current' = 0 /\ task_pc' = "app" /\ timer_id' = 0
    BY DEF Ta!_task_timeout, Ta!Complete
  <1>6. Position'
    BY <1>1, <1>2, <1>4, <1>5 DEF Position
  <1> QED BY <1>2, <1>3, <1>6

LEMMA TaRelease ==
  ASSUME TaInv, Ta!task_release
  PROVE  TaInv'
  <1> USE DEF TaInv
  <1>1. /\ task_current = 0 /\ freed' = TRUE /\ timers' = timers \ {timer_id} /\ timer_id' = 0
        /\ UNCHANGED <<Ta!ring, task_current, task_pc, pending, done, timed, runs, resumes, crash>>
    BY DEF Ta!task_release, Ta!task_is_finished
  <1>2. Links' /\ Closed' /\ L' = L
    BY <1>1, RingKept
  <1>3. 0 \in 0..MaxRuns
    BY TaskAssumption
  <1>4. Position'
    BY <1>1, <1>2, <1>3 DEF Position
  <1>5. Untimed'
    BY <1>1 DEF Untimed
  <1> QED BY <1>2, <1>4, <1>5

LEMMA TaStep == TaInv /\ [Ta!Next]_(Ta!vars) => TaInv'
  <1> SUFFICES ASSUME TaInv, [Ta!Next]_(Ta!vars) PROVE TaInv'
    OBVIOUS
  <1> USE DEF TaInv
  <1>1. ASSUME NEW s \in Steps, Ta!task_push_back_step(s) PROVE TaInv'
    <2>1. Links' /\ Closed' /\ L' = L \cup {s}
      BY <1>1, TaPush
    <2>2. UNCHANGED <<task_current, timer_id, timers, task_pc, pending, done, timed, runs, resumes, freed, crash>>
      BY <1>1 DEF Ta!task_push_back_step
    <2>3. Position'
      BY <2>1, <2>2 DEF Position
    <2>4. Untimed'
      BY <2>2 DEF Untimed
    <2> QED BY <2>1, <2>3, <2>4
  <1>2. ASSUME NEW s \in Steps, Ta!task_erase_step(s) PROVE TaInv'
    <2>1. Links' /\ Closed' /\ L' = L \ {s} /\ s # task_current
      BY <1>2, TaErase
    <2>2. UNCHANGED <<task_current, timer_id, timers, task_pc, pending, done, timed, runs, resumes, freed, crash>>
      BY <1>2 DEF Ta!task_erase_step
    <2>3. Position'
      BY <2>1, <2>2 DEF Position
    <2>4. Untimed'
      BY <2>2 DEF Untimed
    <2> QED BY <2>1, <2>3, <2>4
  <1>3. CASE UNCHANGED Ta!vars
    <2>1. UNCHANGED <<Ta!ring, task_current, timer_id, timers, task_pc, pending, done, timed, runs, resumes, freed, crash>>
      BY <1>3 DEF Ta!vars, Ta!ring
    <2>2. Links' /\ Closed' /\ L' = L
      BY <2>1, RingKept
    <2>3. Position' /\ Untimed'
      BY <2>1, <2>2 DEF Position, Untimed
    <2> QED BY <2>2, <2>3
  <1>4. CASE Ta!Notify
    <2>1. PICK ts \in Steps, ret \in Ta!Results, n \in {-1, 0, 1, 2} : Ta!task_step_resume(ts, ret, n)
      BY <1>4 DEF Ta!Notify
    <2> QED BY <2>1, TaResume
  <1>5. CASE Ta!RunSteps
    BY <1>5, TaStepReturns DEF Ta!RunSteps
  <1>6. CASE Ta!Timeout
    BY <1>6, TaTimeout DEF Ta!Timeout
  <1> QED BY <1>1, <1>2, <1>3, <1>4, <1>5, <1>6, TaRun, TaRelease DEF Ta!Next

LEMMA TaInvariant == MCSpec => []TaInv
  BY TaRefines, TaInit, TaStep, PTL DEF MCSpec

(* No sequence of pushes and erasures, made between runs, by the step that *)
(* runs, by a callback or while the task waits, cuts the ring of the steps *)
(* in two.                                                                 *)
THEOREM StepsFormARing == MCSpec => []OneRing
  <1>1. TaInv => OneRing
    BY TaImplies DEF OneRing
  <1> QED BY <1>1, TaInvariant, PTL

(* A run that no timer watches completes once, and nothing stray reaches   *)
(* the task.                                                               *)
THEOREM RunCompletesOnce == MCSpec => []CompletesOnce
  <1>1. TaInv => CompletesOnce
    BY TaImplies DEF CompletesOnce
  <1> QED BY <1>1, TaInvariant, PTL

----------------------------------------------------------------------------
(* Timers.                                                                 *)

LEMMA TmRefines ==
  /\ MCInit => TimerInit
  /\ [MCNext]_allVars => [TimerNext]_timerVars
  BY DEF MCInit, MCNext, allVars, timerVars, vars

Clocks ==
  /\ clock \in 0..MaxTime /\ now \in 0..clock
  /\ tpc \in {"app", "poll", "cb", "release", "gone"}
  /\ DOMAIN held \subseteq DOMAIN interval
  /\ interval \in [DOMAIN interval -> Intervals]
  /\ ran \subseteq DOMAIN interval

(* While a callback runs its node, which is due, stays at the top: one the *)
(* callback registers is not due before now.                               *)
DueOnTop ==
  tpc = "cb" =>
    /\ size > 0 /\ array[0].key = top /\ array[0].rank < now
    /\ pc \in {"idle", "up"} /\ (pc = "up" => pos > 0 /\ now <= array[pos].rank)

(* A timer the poll has fired is due later, or it was popped, and then its *)
(* key is not used again.                                                  *)
Fired ==
  tpc \in {"poll", "cb"} =>
    /\ dropping = -1
    /\ \A k \in ran :
         IF k \in DOMAIN held THEN now <= held[k] \/ (tpc = "cb" /\ k = top)
         ELSE k \in 0..cap - 1 /\ key_table[k] >= 0

TmInv == KeyInv /\ Clocks /\ DueOnTop /\ Fired

LEMMA TmInit == TimerInit => TmInv
  <1> SUFFICES ASSUME TimerInit PROVE TmInv
    OBVIOUS
  <1>1. KeyInv
    BY InitKey DEF TimerInit
  <1>2. held = [k \in {} |-> 0]
    BY DEF TimerInit, Init
  <1>3. Clocks
    <2>1. 0 \in 0..MaxTime /\ 0 \in 0..0
      BY TimesAssumption
    <2>2. interval \in [DOMAIN interval -> Intervals] /\ DOMAIN held = {}
      BY <1>2 DEF TimerInit
    <2> QED BY <2>1, <2>2 DEF TimerInit, Clocks
  <1>4. DueOnTop /\ Fired
    BY DEF TimerInit, DueOnTop, Fired
  <1> QED BY <1>1, <1>3, <1>4 DEF TmInv

(* What the types of a heap give.                                          *)
LEMMA HeapTypes ==
  ASSUME KeyInv
  PROVE  /\ cap \in Nat \ {0} /\ size \in 0..cap /\ pos \in Nat
         /\ \A p \in 0..size - 1 : /\ array[p].key \in DOMAIN held /\ array[p].rank \in Int
                                   /\ held[array[p].key] = array[p].rank
                                   /\ key_table[array[p].key] = p
         /\ \A k \in DOMAIN held : /\ k \in 0..cap - 1 /\ held[k] \in Int
                                  /\ key_table[k] \in 0..size - 1
                                  /\ array[key_table[k]] = [rank |-> held[k], key |-> k]
         /\ key_table \in [0..cap - 1 -> -1..cap - 1]
  <1>1. cap \in Nat \ {0} /\ size \in 0..cap /\ pos \in Nat
    BY DEF KeyInv, TypeOK
  <1>2. \A k \in DOMAIN held : /\ k \in 0..cap - 1 /\ held[k] \in Int
                             /\ key_table[k] \in 0..size - 1
                             /\ array[key_table[k]] = [rank |-> held[k], key |-> k]
    BY RanksAssumption DEF KeyInv, KeysHold
  <1>3. \A p \in 0..size - 1 : array[p].key \in DOMAIN held /\ key_table[array[p].key] = p
    BY DEF KeyInv, KeysHold
  <1>4. \A p \in 0..size - 1 : held[array[p].key] = array[p].rank /\ array[p].rank \in Int
    <2> TAKE p \in 0..size - 1
    <2>1. array[p] = [rank |-> held[array[p].key], key |-> array[p].key]
      BY <1>2, <1>3
    <2>2. array[p].rank = held[array[p].key]
      <3> DEFINE h == held[array[p].key]
                 y == array[p].key
      <3>1. [rank |-> h, key |-> y].rank = h
        OBVIOUS
      <3> HIDE DEF h, y
      <3> QED BY <2>1, <3>1 DEF h, y
    <2> QED BY <1>2, <1>3, <2>2
  <1> QED BY <1>1, <1>2, <1>3, <1>4 DEF KeyInv, TypeOK

(* The node of the running callback, between calls of the heap.            *)
LEMMA TopHeld ==
  ASSUME TmInv, tpc = "cb"
  PROVE  /\ top \in DOMAIN held /\ held[top] < now /\ key_table[top] = 0
         /\ now \in 0..MaxTime /\ size > 0 /\ interval[top] \in Intervals
         /\ interval[top] \in Nat /\ held[top] \in Int
         /\ now + interval[top] \in Ranks
  <1>1. size > 0 /\ array[0].key = top /\ array[0].rank < now
    BY DEF TmInv, DueOnTop
  <1>2. 0 \in 0..size - 1
    BY <1>1, HeapTypes DEF TmInv
  <1>3. top \in DOMAIN held /\ held[top] < now /\ key_table[top] = 0 /\ held[top] \in Int
    BY <1>1, <1>2, HeapTypes DEF TmInv
  <1>4. now \in 0..MaxTime
    BY TimesAssumption DEF TmInv, Clocks
  <1>5. interval[top] \in Intervals
    BY <1>3 DEF TmInv, Clocks
  <1> QED BY <1>1, <1>3, <1>4, <1>5, TimesAssumption

(* timer.c calls the heap one operation at a time, and never updates a     *)
(* node with an earlier time.                                              *)
LEMMA TmUse ==
  ASSUME TmInv, [TimerNext]_timerVars
  PROVE  [Next]_vars
  <1>1. CASE \E iv \in Intervals, delay \in Delays : timer_register(iv, delay)
    <2>1. PICK iv \in Intervals, delay \in Delays : timer_register(iv, delay)
      BY <1>1
    <2>2. Expiry(delay) \in Ranks
      BY TimesAssumption DEF TmInv, Clocks, Expiry
    <2> QED BY <2>1, <2>2 DEF timer_register, Next
  <1>2. CASE \E k \in EraseKeys : timer_unregister(k)
    BY <1>2 DEF timer_unregister, Next
  <1>3. CASE \E r \in {-1, 0} : CallbackReturns(r)
    <2>1. PICK r \in {-1, 0} : CallbackReturns(r)
      BY <1>3
    <2>2. heap_pop \/ (interval[top] > 0 /\ heap_update(top, now + interval[top]))
      BY <2>1 DEF CallbackReturns
    <2>3. tpc = "cb"
      BY <2>1 DEF CallbackReturns
    <2>4. now + interval[top] >= held[top]
      <3>1. \A a, b, c \in Int : c < a /\ b >= 0 => a + b >= c
        OBVIOUS
      <3> QED BY <2>3, <3>1, TopHeld
    <2> QED BY <2>2, <2>3, <2>4, TopHeld DEF Next
  <1>4. CASE timer_release
    BY <1>4 DEF timer_release, Next
  <1>5. CASE HeapStep
    BY <1>5 DEF HeapStep, Next
  <1>6. CASE Tick \/ timer_poll \/ PollTop
    BY <1>6 DEF Tick, timer_poll, PollTop
  <1>7. CASE UNCHANGED timerVars
    BY <1>7 DEF timerVars, vars
  <1> QED BY <1>1, <1>2, <1>3, <1>4, <1>5, <1>6, <1>7 DEF TimerNext

(* A step that is none of the heap's leaves all of the heap as it is.      *)
LEMMA TmHeapStep ==
  ASSUME "stale" \notin Erases, TmInv, [TimerNext]_timerVars
  PROVE  KeyInv'
  BY TmUse, NextKeyInv DEF TmInv

(* heap_insert, as timer_register needs it: what was held stays where it   *)
(* was, and a key that is in the table is not given away again.            *)
LEMMA Inserts ==
  ASSUME KeyInv, NEW x, heap_insert(x)
  PROVE  /\ dropping = -1 /\ pc = "idle" /\ UNCHANGED dropping
         /\ \/ OutOfBounds
            \/ /\ DOMAIN held' = DOMAIN held \cup {next_key} /\ next_key \notin DOMAIN held
               /\ \A k \in DOMAIN held : held'[k] = held[k]
               /\ pc' = "up" /\ pos' = size /\ size' = size + 1
               /\ array'[size].rank = x
               /\ \A p \in 0..size - 1 : array'[p] = array[p]
               /\ cap <= cap' /\ cap' \in Nat
               /\ \A k \in 0..cap - 1 : key_table[k] >= 0 => k # next_key /\ key_table'[k] >= 0
  <1> DEFINE full == size = cap
             c == IF full THEN 2 * cap ELSE cap
             a == IF full THEN Grown(array, cap, Blank) ELSE array
             t == IF full THEN Grown(key_table, cap, -1) ELSE key_table
  <1>1. Ready /\ pc = "idle" /\ dropping = -1
    BY DEF heap_insert, Ready, KeyInv
  <1>2. \/ OutOfBounds
        \/ /\ next_key < c /\ cap' = c /\ size' = size + 1 /\ pc' = "up" /\ pos' = size
           /\ array' = [a EXCEPT ![size] = [rank |-> x, key |-> next_key]]
           /\ key_table' = [t EXCEPT ![next_key] = size]
           /\ held' = [k \in DOMAIN held \cup {next_key} |-> IF k = next_key THEN x ELSE held[k]]
           /\ UNCHANGED dropping
    BY DEF heap_insert
  <1>3. CASE OutOfBounds
    BY <1>1, <1>3 DEF OutOfBounds
  <1>4. CASE /\ next_key < c /\ cap' = c /\ size' = size + 1 /\ pc' = "up" /\ pos' = size
             /\ array' = [a EXCEPT ![size] = [rank |-> x, key |-> next_key]]
             /\ key_table' = [t EXCEPT ![next_key] = size]
             /\ held' = [k \in DOMAIN held \cup {next_key} |-> IF k = next_key THEN x ELSE held[k]]
             /\ UNCHANGED dropping
    <2>1. /\ cap \in Nat \ {0} /\ size \in 0..cap
          /\ array \in [0..cap - 1 -> Nodes \cup {Blank}]
          /\ key_table \in [0..cap - 1 -> -1..cap - 1]
          /\ next_key \in 0..cap /\ (next_key < cap => key_table[next_key] < 0 \/ dropping = next_key)
      BY DEF KeyInv, TypeOK
    <2>2. cap <= c /\ c \in Nat /\ 0..cap - 1 \subseteq 0..c - 1 /\ size \in 0..c - 1
      BY <2>1
    <2>3. DOMAIN a = 0..c - 1 /\ \A p \in 0..cap - 1 : a[p] = array[p]
      BY <2>1, <2>2 DEF Grown
    <2>4. DOMAIN t = 0..c - 1 /\ \A k \in 0..cap - 1 : t[k] = key_table[k]
      BY <2>1, <2>2 DEF Grown
    <2> HIDE DEF a, t, c
    <2>5. array'[size].rank = x /\ \A p \in 0..size - 1 : array'[p] = array[p]
      BY <1>4, <2>1, <2>2, <2>3
    <2>6. ASSUME NEW k \in 0..cap - 1, key_table[k] >= 0
          PROVE  k # next_key /\ key_table'[k] >= 0
      <3>1. k # next_key
        BY <1>1, <2>1, <2>6
      <3>2. key_table'[k] = t[k]
        BY <1>4, <2>2, <2>4, <3>1
      <3> QED BY <2>4, <2>6, <3>1, <3>2
    <2>7. next_key \notin DOMAIN held
      BY NextKeyUnheld
    <2>8. DOMAIN held' = DOMAIN held \cup {next_key} /\ \A k \in DOMAIN held : held'[k] = held[k]
      BY <1>4, <2>7
    <2>9. cap <= cap' /\ cap' \in Nat
      BY <1>4, <2>2
    <2> QED BY <1>1, <1>4, <2>5, <2>6, <2>7, <2>8, <2>9
  <1> QED BY <1>2, <1>3, <1>4

(* A swap of two nodes leaves no key without a position.                   *)
LEMMA SwapKeeps ==
  ASSUME KeyInv, NEW p \in 0..size - 1, NEW q \in 0..size - 1, _heap_swap(p, q)
  PROVE  \A k \in 0..cap - 1 : key_table[k] >= 0 => key_table'[k] >= 0
  <1> TAKE k \in 0..cap - 1
  <1>1. p \in Live /\ q \in Live
    BY DEF Live
  <1>2. CASE k \in DOMAIN held
    <2>1. key_table'[k] \in Live
      BY <1>1, <1>2, SwapFacts
    <2> QED BY <2>1, HeapTypes DEF Live
  <1>3. CASE k \notin DOMAIN held
    BY <1>1, <1>3, SwapFacts
  <1> QED BY <1>2, <1>3

LEMMA TmRegister ==
  ASSUME TmInv, KeyInv', NEW iv \in Intervals, NEW delay \in Delays, timer_register(iv, delay)
  PROVE  TmInv'
  <1> USE DEF TmInv
  <1> DEFINE x == Expiry(delay)
  <1>1. /\ tpc \in {"app", "cb"} /\ heap_insert(x)
        /\ interval' = [k \in DOMAIN interval \cup {next_key} |-> IF k = next_key THEN iv ELSE interval[k]]
        /\ UNCHANGED <<clock, now, tpc, top, ran>>
    BY DEF timer_register
  <1>2. x \in Int /\ now <= x
    <2>1. \A a, b, c \in Int : a <= b /\ c >= 0 => b + c \in Int /\ a <= b + c
      OBVIOUS
    <2>2. clock \in Int /\ now \in Int /\ now <= clock /\ delay \in Int /\ delay >= 0
      BY TimesAssumption DEF Clocks
    <2> QED BY <2>1, <2>2 DEF Expiry
  <1> HIDE DEF x
  <1>3. DOMAIN held' \subseteq DOMAIN held \cup {next_key}
    BY <1>1, Inserts DEF OutOfBounds
  <1>4. Clocks'
    BY <1>1, <1>3 DEF Clocks
  <1>5. CASE OutOfBounds
    <2>1. DueOnTop'
      BY <1>1, <1>5 DEF DueOnTop, OutOfBounds
    <2>2. Fired'
      BY <1>1, <1>5 DEF Fired, OutOfBounds
    <2> QED BY <1>4, <2>1, <2>2
  <1>6. CASE ~OutOfBounds
    <2>1. /\ dropping' = -1
          /\ DOMAIN held' = DOMAIN held \cup {next_key} /\ next_key \notin DOMAIN held
          /\ \A k \in DOMAIN held : held'[k] = held[k]
          /\ pc' = "up" /\ pos' = size /\ size' = size + 1
          /\ array'[size].rank = x
          /\ \A p \in 0..size - 1 : array'[p] = array[p]
          /\ cap <= cap' /\ cap' \in Nat
          /\ \A k \in 0..cap - 1 : key_table[k] >= 0 => k # next_key /\ key_table'[k] >= 0
      BY <1>1, <1>6, Inserts
    <2>2. cap \in Nat /\ size \in Nat
      BY HeapTypes
    <2>3. DueOnTop'
      <3> SUFFICES ASSUME tpc' = "cb"
                   PROVE  /\ size' > 0 /\ array'[0].key = top' /\ array'[0].rank < now'
                          /\ pc' = "up" /\ pos' > 0 /\ now' <= array'[pos'].rank
        BY DEF DueOnTop
      <3>1. size > 0 /\ array[0].key = top /\ array[0].rank < now
        BY <1>1 DEF DueOnTop
      <3>2. array'[0] = array[0] /\ size + 1 > 0
        BY <2>1, <2>2, <3>1
      <3> QED BY <1>1, <1>2, <2>1, <3>1, <3>2
    <2>4. Fired'
      <3> SUFFICES ASSUME tpc' = "cb", NEW k \in ran
                   PROVE  IF k \in DOMAIN held' THEN now' <= held'[k] \/ k = top'
                          ELSE k \in 0..cap' - 1 /\ key_table'[k] >= 0
        BY <1>1, <2>1 DEF Fired
      <3>1. IF k \in DOMAIN held THEN now <= held[k] \/ k = top
            ELSE k \in 0..cap - 1 /\ key_table[k] >= 0
        BY <1>1 DEF Fired
      <3>2. CASE k \in DOMAIN held
        BY <1>1, <2>1, <3>1, <3>2
      <3>3. CASE k \notin DOMAIN held
        <4>1. k \in 0..cap - 1 /\ key_table[k] >= 0
          BY <3>1, <3>3
        <4>2. k # next_key /\ key_table'[k] >= 0
          BY <2>1, <4>1
        <4>3. k \in 0..cap' - 1
          <5>1. \A a, b \in Nat : a <= b => 0..a - 1 \subseteq 0..b - 1
            OBVIOUS
          <5>2. 0..cap - 1 \subseteq 0..cap' - 1
            BY <2>1, <2>2, <5>1
          <5> QED BY <4>1, <5>2
        <4> QED BY <2>1, <3>3, <4>2, <4>3
      <3> QED BY <3>2, <3>3
    <2> QED BY <1>4, <2>3, <2>4
  <1> QED BY <1>5, <1>6

LEMMA TmCallback ==
  ASSUME TmInv, KeyInv', NEW r \in {-1, 0}, CallbackReturns(r)
  PROVE  TmInv'
  <1> USE DEF TmInv
  <1>1. /\ tpc = "cb" /\ pc = "idle" /\ tpc' = "poll" /\ UNCHANGED <<clock, now, top, interval, ran>>
        /\ (interval[top] > 0 /\ heap_update(top, now + interval[top])) \/ heap_pop
    BY DEF CallbackReturns, Ready
  <1>2. /\ top \in DOMAIN held /\ now \in Int /\ interval[top] \in Nat /\ key_table[top] = 0
        /\ array[0].key = top /\ size > 0
    BY <1>1, TopHeld, TimesAssumption DEF DueOnTop
  <1>3. dropping = -1 /\ UNCHANGED <<dropping, cap>>
    BY <1>1 DEF KeyInv, heap_update, heap_pop
  <1>4. DueOnTop'
    BY <1>1 DEF DueOnTop
  <1>5. CASE interval[top] > 0 /\ heap_update(top, now + interval[top])
    <2>1. held' = [held EXCEPT ![top] = now + interval[top]] /\ UNCHANGED key_table
      BY <1>5 DEF heap_update
    <2>2. DOMAIN held' = DOMAIN held /\ held'[top] = now + interval[top]
          /\ \A k \in DOMAIN held : k # top => held'[k] = held[k]
      BY <1>2, <2>1
    <2>3. now <= now + interval[top]
      BY <1>2
    <2>4. Clocks'
      BY <1>1, <2>2 DEF Clocks
    <2>5. Fired'
      BY <1>1, <1>2, <1>3, <2>1, <2>2, <2>3 DEF Fired
    <2> QED BY <1>4, <2>4, <2>5
  <1>6. CASE heap_pop
    <2>1. held' = [k \in DOMAIN held \ {top} |-> held[k]] /\ _heap_swap(0, size - 1)
      BY <1>2, <1>6 DEF heap_pop
    <2>2. \A k \in 0..cap - 1 : key_table[k] >= 0 => key_table'[k] >= 0
      <3>1. 0 \in 0..size - 1 /\ size - 1 \in 0..size - 1
        BY <1>2, HeapTypes
      <3> QED BY <2>1, <3>1, SwapKeeps
    <2>3. DOMAIN held' = DOMAIN held \ {top} /\ \A k \in DOMAIN held : k # top => held'[k] = held[k]
      BY <2>1
    <2>4. Clocks'
      BY <1>1, <2>3 DEF Clocks
    <2>5. top \in 0..cap - 1 /\ key_table[top] >= 0
      <3>1. top \in 0..cap - 1
        BY <1>2, HeapTypes
      <3> QED BY <1>2, <3>1
    <2>6. Fired'
      <3> SUFFICES ASSUME NEW k \in ran
                   PROVE  IF k \in DOMAIN held' THEN now' <= held'[k]
                          ELSE k \in 0..cap - 1 /\ key_table'[k] >= 0
        BY <1>1, <1>3 DEF Fired
      <3>1. IF k \in DOMAIN held THEN now <= held[k] \/ k = top
            ELSE k \in 0..cap - 1 /\ key_table[k] >= 0
        BY <1>1 DEF Fired
      <3>2. CASE k = top
        BY <2>2, <2>3, <2>5, <3>2
      <3>3. CASE k # top /\ k \in DOMAIN held
        BY <1>1, <2>3, <3>1, <3>3
      <3>4. CASE k # top /\ k \notin DOMAIN held
        BY <2>2, <2>3, <3>1, <3>4
      <3> QED BY <3>2, <3>3, <3>4
    <2> QED BY <1>4, <2>4, <2>6
  <1> QED BY <1>1, <1>5, <1>6

(* A turn of a rotation loop: a due node at the top stays there.           *)
LEMMA TmLoop ==
  ASSUME TmInv, KeyInv', HeapStep
  PROVE  TmInv'
  <1> USE DEF TmInv
  <1>1. Loop /\ UNCHANGED <<clock, now, tpc, top, interval, ran>>
    BY DEF HeapStep
  <1>2. UNCHANGED <<cap, size, held>>
    BY <1>1 DEF Loop, RotUp, RotDown
  <1>3. Clocks'
    BY <1>1, <1>2 DEF Clocks
  <1>4. cap \in Nat \ {0} /\ size \in 0..cap /\ pos \in Nat
    BY HeapTypes
  <1>5. CASE RotUp
    <2>1. pc = "up" /\ pos \in 0..size - 1 /\ UNCHANGED dropping
      BY <1>5 DEF RotUp, KeyInv, Live
    <2> DEFINE u == HEAP_PARENT(pos)
    <2>2. CASE pos > 0 /\ Rank(pos) < Rank(u)
      <3>1. _heap_swap(pos, u) /\ pos' = u /\ pc' = "up"
        BY <1>5, <2>1, <2>2 DEF RotUp
      <3>2. u \in 0..size - 1 /\ u < pos
        <4>1. pos \in Nat \ {0}
          BY <1>4, <2>2
        <4>2. u \in Nat /\ u < pos
          BY <4>1, ParentFact
        <4> HIDE DEF u
        <4> QED BY <1>4, <2>1, <4>2
      <3> HIDE DEF u
      <3>3. Fired'
        <4>1. \A k \in 0..cap - 1 : key_table[k] >= 0 => key_table'[k] >= 0
          BY <2>1, <3>1, <3>2, SwapKeeps
        <4> QED BY <1>1, <1>2, <2>1, <4>1 DEF Fired
      <3>4. DueOnTop'
        <4> SUFFICES ASSUME tpc = "cb" PROVE DueOnTop'
          BY <1>1 DEF DueOnTop
        <4>1. /\ size > 0 /\ array[0].key = top /\ array[0].rank < now /\ now <= array[pos].rank
          BY <2>1 DEF DueOnTop
        <4>2. array[0].rank \in Int /\ array[u].rank \in Int /\ array[pos].rank \in Int /\ now \in Int
          <5>1. 0 \in 0..size - 1
            BY <1>4, <4>1
          <5>2. now \in Int
            BY DEF Clocks
          <5> QED BY <2>1, <3>2, <5>1, <5>2, HeapTypes
        <4>3. u # 0
          <5>1. array[pos].rank < array[u].rank
            BY <2>2 DEF Rank, u
          <5> QED BY <4>1, <4>2, <5>1
        <4>4. array'[u] = array[pos] /\ array'[0] = array[0]
          <5>1. pos \in Live /\ u \in Live /\ 0 \in 0..cap - 1
            BY <1>4, <2>1, <3>2 DEF Live
          <5> QED BY <2>2, <3>1, <4>3, <5>1, SwapFacts
        <4>5. u > 0
          BY <3>2, <4>3
        <4> QED BY <1>1, <1>2, <3>1, <4>1, <4>4, <4>5 DEF DueOnTop
      <3> QED BY <1>3, <3>3, <3>4
    <2>3. CASE ~(pos > 0 /\ Rank(pos) < Rank(u))
      <3>1. pc' = "idle" /\ UNCHANGED <<array, key_table>>
        BY <1>5, <2>3 DEF RotUp
      <3>2. DueOnTop'
        BY <1>1, <1>2, <3>1 DEF DueOnTop
      <3>3. Fired'
        BY <1>1, <1>2, <2>1, <3>1 DEF Fired
      <3> QED BY <1>3, <3>2, <3>3
    <2> QED BY <2>2, <2>3
  <1>6. CASE RotDown
    <2>1. pc = "down" /\ tpc # "cb"
      BY <1>6 DEF RotDown, DueOnTop
    <2>2. DueOnTop'
      BY <1>1, <2>1 DEF DueOnTop
    <2>3. Fired'
      <3> SUFFICES ASSUME tpc = "poll" PROVE Fired'
        BY <1>1, <2>1 DEF Fired
      <3>1. dropping = -1
        BY DEF Fired
      <3>2. CASE HEAP_LEFT_CHILD(pos) < size /\ Rank(Child(pos)) < Rank(pos)
        <4>1. _heap_swap(pos, Child(pos)) /\ UNCHANGED dropping
          BY <1>6, <3>2 DEF RotDown
        <4>2. pos \in 0..size - 1 /\ Child(pos) \in 0..size - 1
          <5>1. Child(pos) \in Live
            BY <1>4, <3>2, ChildFact
          <5>2. pos < size
            <6>1. \A a, b \in Nat : 2 * a + 1 < b => a < b
              OBVIOUS
            <6>2. 2 * pos + 1 < size /\ size \in Nat
              BY <1>4, <3>2 DEF HEAP_LEFT_CHILD
            <6> QED BY <1>4, <6>1, <6>2
          <5> QED BY <1>4, <5>1, <5>2 DEF Live
        <4>3. \A k \in 0..cap - 1 : key_table[k] >= 0 => key_table'[k] >= 0
          BY <4>1, <4>2, SwapKeeps
        <4> QED BY <1>1, <1>2, <3>1, <4>1, <4>3 DEF Fired
      <3>3. CASE ~(HEAP_LEFT_CHILD(pos) < size /\ Rank(Child(pos)) < Rank(pos))
        <4>1. dropping' = -1 /\ key_table' = key_table
          BY <1>6, <3>1, <3>3 DEF RotDown
        <4> QED BY <1>1, <1>2, <4>1 DEF Fired
      <3> QED BY <3>2, <3>3
    <2> QED BY <1>3, <2>2, <2>3
  <1> QED BY <1>1, <1>5, <1>6 DEF Loop

(* The head of the loop in timer_poll.                                     *)
LEMMA TmPollTop ==
  ASSUME TmInv, PollTop
  PROVE  /\ TmInv'
         /\ tpc' = "cb" => top' \notin ran
         /\ tpc' = "app" /\ ~misplaced /\ MinAtTop => \A k \in DOMAIN held : held[k] >= now
  <1> USE DEF TmInv
  <1>1. tpc = "poll" /\ pc = "idle" /\ UNCHANGED vars /\ UNCHANGED <<clock, now, interval>>
    BY DEF PollTop, Ready
  <1>2. UNCHANGED <<array, cap, size, next_key, key_table, pc, pos, dropping, fault, inserts, misplaced, held>>
    BY <1>1 DEF vars
  <1>3. KeyInv'
    BY <1>2 DEF KeyInv, TypeOK, KeysHold, Nodes, Live
  <1>4. now \in Int
    BY DEF Clocks
  <1>5. CASE size > 0 /\ array[0].rank < now
    <2>1. tpc' = "cb" /\ top' = array[0].key /\ ran' = ran \cup {array[0].key}
      BY <1>5 DEF PollTop, Rank
    <2>2. /\ array[0].key \in DOMAIN held /\ held[array[0].key] = array[0].rank
          /\ array[0].rank \in Int
      <3>1. 0 \in 0..size - 1
        BY <1>5, HeapTypes
      <3> QED BY <3>1, HeapTypes
    <2>3. top' \notin ran
      <3>1. top' \in ran => now <= held[top']
        BY <1>1, <2>1, <2>2 DEF Fired
      <3> QED BY <1>4, <1>5, <2>1, <2>2, <3>1
    <2>4. Clocks'
      BY <1>1, <1>2, <2>1, <2>2 DEF Clocks
    <2>5. DueOnTop'
      BY <1>1, <1>2, <1>5, <2>1 DEF DueOnTop
    <2>6. Fired'
      BY <1>1, <1>2, <2>1, <2>2 DEF Fired
    <2> QED BY <1>3, <2>1, <2>3, <2>4, <2>5, <2>6
  <1>6. CASE ~(size > 0 /\ array[0].rank < now)
    <2>1. tpc' = "app" /\ UNCHANGED <<top, ran>>
      BY <1>6 DEF PollTop, Rank
    <2>2. Clocks' /\ DueOnTop' /\ Fired'
      BY <1>1, <1>2, <2>1 DEF Clocks, DueOnTop, Fired
    <2>3. ASSUME ~misplaced, MinAtTop, NEW k \in DOMAIN held PROVE held[k] >= now
      <3>1. /\ key_table[k] \in 0..size - 1 /\ held[k] \in Int
            /\ array[key_table[k]] = [rank |-> held[k], key |-> k]
        BY HeapTypes
      <3> DEFINE p == key_table[k]
      <3>2. array[p].rank = held[k]
        <4> DEFINE h == held[k]
        <4>1. [rank |-> h, key |-> k].rank = h
          OBVIOUS
        <4> HIDE DEF h
        <4> QED BY <3>1, <4>1 DEF h
      <3>3. Rank(0) <= Rank(p)
        BY <1>1, <2>3, <3>1 DEF MinAtTop
      <3>4. size > 0 /\ 0 \in 0..size - 1
        BY <3>1, HeapTypes
      <3>5. array[0].rank \in Int /\ ~(array[0].rank < now)
        BY <1>6, <3>4, HeapTypes
      <3> HIDE DEF p
      <3> QED BY <1>4, <3>1, <3>2, <3>3, <3>5 DEF Rank
    <2> QED BY <1>3, <2>1, <2>2, <2>3
  <1> QED BY <1>5, <1>6

LEMMA TmStep ==
  ASSUME "stale" \notin Erases, TmInv, [TimerNext]_timerVars
  PROVE  TmInv'
  <1> USE DEF TmInv
  <1>1. KeyInv'
    BY TmHeapStep
  <1>2. CASE Tick
    <2>1. /\ UNCHANGED vars /\ UNCHANGED <<now, tpc, top, interval, ran>>
          /\ clock < MaxTime /\ clock' = clock + 1
      BY <1>2 DEF Tick
    <2>2. UNCHANGED <<array, cap, size, key_table, pc, pos, dropping, held>>
      BY <2>1 DEF vars
    <2>3. clock' \in 0..MaxTime /\ now \in 0..clock'
      BY <2>1, TimesAssumption DEF Clocks
    <2>4. Clocks'
      BY <2>1, <2>2, <2>3 DEF Clocks
    <2> QED BY <1>1, <2>1, <2>2, <2>4 DEF DueOnTop, Fired
  <1>3. CASE \E k \in EraseKeys : timer_unregister(k)
    <2>1. PICK k \in EraseKeys : timer_unregister(k)
      BY <1>3
    <2>2. tpc = "app" /\ UNCHANGED <<clock, now, tpc, top, interval, ran>>
      BY <2>1 DEF timer_unregister
    <2>3. DOMAIN held' \subseteq DOMAIN held
      BY <2>1 DEF timer_unregister, heap_erase, OutOfBounds
    <2> QED BY <1>1, <2>2, <2>3 DEF Clocks, DueOnTop, Fired
  <1>4. CASE timer_poll
    <2>1. /\ pc = "idle" /\ UNCHANGED vars /\ UNCHANGED <<clock, top, interval>>
          /\ now' = clock /\ tpc' = "poll" /\ ran' = {}
      BY <1>4 DEF timer_poll, Ready
    <2>2. UNCHANGED <<held, dropping>>
      BY <2>1 DEF vars
    <2>3. dropping = -1
      BY <2>1 DEF KeyInv
    <2>4. clock \in 0..clock
      BY TimesAssumption DEF Clocks
    <2>5. Clocks'
      BY <2>1, <2>2, <2>4 DEF Clocks
    <2> QED BY <1>1, <2>1, <2>2, <2>3, <2>5 DEF DueOnTop, Fired
  <1>5. CASE timer_release
    <2>1. /\ tpc' \in {"release", "gone"} /\ UNCHANGED <<clock, now, top, interval, ran>>
          /\ heap_pop \/ UNCHANGED vars
      BY <1>5 DEF timer_release
    <2>2. DOMAIN held' \subseteq DOMAIN held
      BY <2>1 DEF heap_pop, vars
    <2> QED BY <1>1, <2>1, <2>2 DEF Clocks, DueOnTop, Fired
  <1>6. CASE UNCHANGED timerVars
    <2>1. UNCHANGED <<array, cap, size, key_table, pc, pos, dropping, held, clock, now, tpc, top, interval, ran>>
      BY <1>6 DEF timerVars, vars
    <2> QED BY <1>1, <2>1 DEF Clocks, DueOnTop, Fired
  <1> QED BY <1>1, <1>2, <1>3, <1>4, <1>5, <1>6, TmRegister, TmCallback, TmLoop, TmPollTop DEF TimerNext

LEMMA TmInvariant == ASSUME "stale" \notin Erases PROVE MCSpec => []TmInv
  BY TmRefines, TmInit, TmStep, PTL DEF MCSpec

(* timer.c uses its heap only in the ways the proofs about heap.c allow    *)
(* for: what TimerSpec does to the heap is a behaviour of Heap.            *)
THEOREM TimerUsesHeap == ASSUME "stale" \notin Erases PROVE MCSpec => HeapUse
  <1>1. TimerInit => Init
    BY DEF TimerInit
  <1>2. TmInv /\ [TimerNext]_timerVars => [Next]_vars
    BY TmUse
  <1> QED BY <1>1, <1>2, TmRefines, TmInvariant, PTL DEF MCSpec, HeapUse, Spec

(* The node timer_poll updates or frees is the one whose callback ran, for *)
(* any number of timers, and whatever the callback registered.             *)
THEOREM PollKeepsItsNode == ASSUME "stale" \notin Erases PROVE MCSpec => []RunsItsOwn
  <1>1. TmInv => RunsItsOwn
    BY DEF TmInv, KeyInv, Clocks, DueOnTop, RunsItsOwn, TimerTypeOK
  <1> QED BY <1>1, TmInvariant, PTL

(* A poll fires no timer twice and leaves none that is due.                *)
THEOREM PollFiresEachOnce == ASSUME "stale" \notin Erases PROVE MCSpec => EachDueOnce
  <1> DEFINE Once ==
        /\ (tpc = "poll" /\ tpc' = "cb") => top' \notin ran
        /\ (tpc = "poll" /\ tpc' = "app" /\ ~misplaced) => \A k \in DOMAIN held : held[k] >= now
  <1>1. TmInv /\ MinAtTop /\ [TimerNext]_timerVars => Once
    <2> SUFFICES ASSUME TmInv, MinAtTop, [TimerNext]_timerVars, tpc = "poll", tpc' # "poll"
                 PROVE  Once
      OBVIOUS
    <2>1. PollTop
      BY DEF TimerNext, timerVars, Tick, timer_register, timer_unregister, timer_poll,
             CallbackReturns, timer_release, HeapStep
    <2> QED BY <2>1, TmPollTop
  <1>2. EachDueOnce <=> [][Once]_timerVars
    BY DEF EachDueOnce
  <1>3. MCSpec => []MinAtTop
    BY TimerUsesHeap, MinAtTopHolds, PTL DEF HeapUse
  <1> QED BY <1>1, <1>2, <1>3, TmRefines, TmInvariant, PTL DEF MCSpec

----------------------------------------------------------------------------
(* Dirty words.                                                            *)

Bytes == 0..255
Lead(s, i) == Di!LeadOf(SubSeq(s, i, Len(s)))

(* What BeginsAt says.                                                     *)
LEMMA BeginsIs ==
  ASSUME NEW s \in Seq(Bytes)
  PROVE  /\ Di!BeginsAt(s) \in [Nat -> BOOLEAN]
         /\ Di!BeginsAt(s)[1]
         /\ \A j \in Nat \ {0} :
              Di!BeginsAt(s)[j + 1] <=> ~(Di!BeginsAt(s)[j] /\ j <= Len(s) /\ s[j] >= GB_SPEC_CHAR)
  <1> DEFINE hit == [j \in Nat |-> j \in 1..Len(s) /\ s[j] >= GB_SPEC_CHAR]
             Says(b) == b = [j \in Nat |-> j = 0 \/ ~(b[j - 1] /\ j - 1 \in 1..Len(s) /\ s[j - 1] >= GB_SPEC_CHAR)]
  <1>1. hit \in [Nat -> BOOLEAN]
    OBVIOUS
  <1>2. PICK f \in [Nat -> BOOLEAN] : f = [j \in Nat |-> j = 0 \/ ~(f[j - 1] /\ hit[j - 1])]
    BY <1>1, FlagsExist
  <1>3. Says(f)
    <2>1. ASSUME NEW j \in Nat
          PROVE  (j = 0 \/ ~(f[j - 1] /\ hit[j - 1]))
                  = (j = 0 \/ ~(f[j - 1] /\ j - 1 \in 1..Len(s) /\ s[j - 1] >= GB_SPEC_CHAR))
      <3>1. j # 0 => j - 1 \in Nat
        OBVIOUS
      <3>2. j # 0 => hit[j - 1] = (j - 1 \in 1..Len(s) /\ s[j - 1] >= GB_SPEC_CHAR)
        BY <3>1
      <3> HIDE DEF hit
      <3> QED BY <3>2
    <2> HIDE DEF hit
    <2> QED BY <1>2, <2>1
  <1>4. Says(Di!BeginsAt(s))
    <2>1. Di!BeginsAt(s) = CHOOSE b : Says(b)
      BY DEF Di!BeginsAt
    <2> HIDE DEF Says
    <2> QED BY <1>3, <2>1
  <1>5. PICK b : b = Di!BeginsAt(s)
    OBVIOUS
  <1>6. b = [j \in Nat |-> j = 0 \/ ~(b[j - 1] /\ j - 1 \in 1..Len(s) /\ s[j - 1] >= GB_SPEC_CHAR)]
    BY <1>4, <1>5
  <1>7. \A j \in Nat : b[j] = (j = 0 \/ ~(b[j - 1] /\ j - 1 \in 1..Len(s) /\ s[j - 1] >= GB_SPEC_CHAR))
    BY <1>6
  <1>8. b \in [Nat -> BOOLEAN]
    BY <1>6
  <1>9. b[1]
    <2>1. 1 - 1 \notin 1..Len(s)
      OBVIOUS
    <2> QED BY <1>7, <2>1
  <1>10. \A j \in Nat \ {0} : b[j + 1] <=> ~(b[j] /\ j <= Len(s) /\ s[j] >= GB_SPEC_CHAR)
    <2> TAKE j \in Nat \ {0}
    <2>1. j + 1 \in Nat /\ j + 1 # 0 /\ (j + 1) - 1 = j /\ (j \in 1..Len(s) <=> j <= Len(s))
      OBVIOUS
    <2> QED BY <1>7, <2>1
  <1> QED BY <1>5, <1>8, <1>9, <1>10

(* Up to i, characters begin where they do in a text with the same bytes   *)
(* before i.                                                               *)
LEMMA BeginsSame ==
  ASSUME NEW s \in Seq(Bytes), NEW t \in Seq(Bytes), Len(s) = Len(t),
         NEW i \in Nat, \A j \in 1..Len(s) : j < i => s[j] = t[j],
         NEW j \in 1..i
  PROVE  Di!BeginsAt(s)[j] = Di!BeginsAt(t)[j]
  <1> DEFINE P == {n \in Nat : n + 1 <= i => Di!BeginsAt(s)[n + 1] = Di!BeginsAt(t)[n + 1]}
  <1>1. 0 \in P
    BY BeginsIs
  <1>2. ASSUME NEW n \in Nat, n \in P PROVE n + 1 \in P
    <2> SUFFICES ASSUME (n + 1) + 1 <= i
                 PROVE  Di!BeginsAt(s)[(n + 1) + 1] = Di!BeginsAt(t)[(n + 1) + 1]
      OBVIOUS
    <2>1. n + 1 \in Nat \ {0} /\ (n + 1) + 1 \in Nat /\ n + 1 <= i /\ n + 1 < i
      OBVIOUS
    <2>2. Di!BeginsAt(s)[n + 1] = Di!BeginsAt(t)[n + 1]
      BY <1>2, <2>1
    <2>3. n + 1 <= Len(s) => s[n + 1] = t[n + 1]
      BY <2>1
    <2>4. /\ Di!BeginsAt(s)[(n + 1) + 1] <=> ~(Di!BeginsAt(s)[n + 1] /\ n + 1 <= Len(s) /\ s[n + 1] >= GB_SPEC_CHAR)
          /\ Di!BeginsAt(t)[(n + 1) + 1] <=> ~(Di!BeginsAt(t)[n + 1] /\ n + 1 <= Len(t) /\ t[n + 1] >= GB_SPEC_CHAR)
      BY <2>1, BeginsIs
    <2>5. Di!BeginsAt(s)[(n + 1) + 1] <=> Di!BeginsAt(t)[(n + 1) + 1]
      BY <2>2, <2>3, <2>4
    <2>6. Di!BeginsAt(s)[(n + 1) + 1] \in BOOLEAN /\ Di!BeginsAt(t)[(n + 1) + 1] \in BOOLEAN
      BY <2>1, BeginsIs
    <2> QED BY <2>5, <2>6
  <1> HIDE DEF P
  <1>3. j - 1 \in P
    <2>1. j - 1 \in Nat
      OBVIOUS
    <2> QED BY <1>1, <1>2, <2>1, NatInductionSet
  <1>4. (j - 1) + 1 = j /\ j <= i
    OBVIOUS
  <1> QED BY <1>3, <1>4 DEF P

LEMMA LowIs ==
  ASSUME NEW s \in Seq(Bytes)
  PROVE  /\ Di!Low(s) \in Seq(Bytes) /\ Len(Di!Low(s)) = Len(s)
         /\ \A j \in 1..Len(s) : /\ s[j] \in Bytes /\ Di!Low(s)[j] = tolower(s[j])
                                 /\ Di!Low(s)[j] >= GB_SPEC_CHAR <=> s[j] >= GB_SPEC_CHAR
  <1> DEFINE low == [j \in 1..Len(s) |-> tolower(s[j])]
  <1>1. Len(s) \in Nat /\ \A j \in 1..Len(s) : s[j] \in Bytes
    OBVIOUS
  <1>2. \A b \in Bytes : tolower(b) \in Bytes /\ (tolower(b) < GB_SPEC_CHAR <=> b < GB_SPEC_CHAR)
    BY DirtyAssumption DEF Bytes
  <1>3. low \in [1..Len(s) -> Bytes] /\ \A j \in 1..Len(s) : low[j] = tolower(s[j])
    BY <1>1, <1>2
  <1>4. low = Di!Low(s)
    BY DEF Di!Low
  <1> HIDE DEF low
  <1>5. low \in Seq(Bytes) /\ Len(low) = Len(s)
    BY <1>1, <1>3, FunctionIsSeq
  <1>6. \A b, c \in Bytes : (c < GB_SPEC_CHAR <=> b < GB_SPEC_CHAR) => (c >= GB_SPEC_CHAR <=> b >= GB_SPEC_CHAR)
    <2>1. GB_SPEC_CHAR \in Nat
      BY DirtyAssumption
    <2> QED BY <2>1 DEF Bytes
  <1>7. \A j \in 1..Len(s) : low[j] >= GB_SPEC_CHAR <=> s[j] >= GB_SPEC_CHAR
    BY <1>1, <1>2, <1>3, <1>6
  <1> QED BY <1>1, <1>3, <1>4, <1>5, <1>7

(* A word is at j when its bytes are.                                      *)
LEMMA AtIs ==
  ASSUME NEW s \in Seq(Bytes), NEW w \in Seq(Bytes), NEW j \in Nat \ {0}
  PROVE  Di!At(s, j, w) <=> /\ j + Len(w) - 1 <= Len(s)
                            /\ \A k \in 1..Len(w) : s[j + k - 1] = w[k]
  <1> SUFFICES ASSUME j + Len(w) - 1 <= Len(s)
               PROVE  SubSeq(s, j, j + Len(w) - 1) = w <=> \A k \in 1..Len(w) : s[j + k - 1] = w[k]
    BY DEF Di!At
  <1>1. PICK t : t = SubSeq(s, j, j + Len(w) - 1)
    OBVIOUS
  <1>2. t \in Seq(Bytes) /\ Len(t) = Len(w) /\ \A k \in 1..Len(w) : t[k] = s[j + k - 1]
    BY <1>1
  <1>3. t = w <=> \A k \in 1..Len(w) : t[k] = w[k]
    BY <1>2
  <1> QED BY <1>1, <1>2, <1>3

WordOK(w) == Len(w) >= 1 /\ (w[1] >= GB_SPEC_CHAR => Len(w) >= 2)

DiTypes ==
  /\ table \in Seq(Seq(Bytes)) /\ \A n \in 1..Len(table) : WordOK(table[n])
  /\ src \in Seq(Bytes) /\ given \in Seq(Bytes) /\ Len(src) = Len(given)
  /\ cursor \in Nat \ {0} /\ step \in Nat /\ lens \subseteq Nat \ {0}
  /\ fn \in {"check", "replace"}

(* No word of W without a DIRTY_REPLACE_CHAR is at a character before d.   *)
Clean(W, s, d) ==
  \A j \in 1..Len(s), w \in W :
    j < d /\ Di!BeginsAt(s)[j] /\ Di!Starless(w) => ~Di!At(Di!Low(s), j, w)

(* What of s is not g belongs to a word of V.                              *)
Covers(V, s, g) ==
  \A j \in 1..Len(s) : s[j] # g[j] =>
    \E b \in Di!Begins(s), w \in V : Di!At(Di!Low(g), b, w) /\ j \in b..b + Len(w) - 1

(* dirty_replace with s for its text is done with what is before d.        *)
Scrubbed(s, d) ==
  /\ Di!BeginsAt(s)[d]
  /\ \A j \in 1..Len(s) : j >= d => s[j] = given[j]
  /\ Clean(Di!Words, s, d)
  /\ Covers(Di!Words \cup Di!Aliases, s, given)

Found(n) == cursor + n - 1 <= Len(src) /\ Di!dirty_hash_find(SubSeq(Di!lowcase, cursor, cursor + n - 1))

(* The inner loop has tried the lengths that are not in key any more.      *)
Matching ==
  /\ cursor <= Len(src) /\ (Di!lowcase[cursor] >= GB_SPEC_CHAR => cursor < Len(src))
  /\ step = Len(Lead(Di!lowcase, cursor))
  /\ lens # {} /\ lens \subseteq Di!Index(Lead(Di!lowcase, cursor))
  /\ \A n \in Di!Index(Lead(Di!lowcase, cursor)) \ lens : ~Found(n)

DiInv ==
  /\ DiTypes
  /\ fn = "replace" /\ dpc \in {"scan", "match"} => Scrubbed(src, cursor)
  /\ fn = "replace" /\ dpc = "next" => Scrubbed(src, cursor + step)
  /\ fn = "replace" /\ dpc = "match" => Matching
  /\ Di!Cleaned

LEMMA WordIs ==
  ASSUME DiTypes, NEW w \in Di!Words
  PROVE  w \in Seq(Bytes) /\ WordOK(w) /\ \E n \in 1..Len(table) : w = table[n]
  <1>1. PICK n \in 1..Len(table) : w = table[n]
    BY DEF Di!Words
  <1> QED BY <1>1 DEF DiTypes

(* A replacement forms no word without a DIRTY_REPLACE_CHAR.               *)
LEMMA StarsKeepClean ==
  ASSUME NEW W, \A w \in W : w \in Seq(Bytes),
         NEW s \in Seq(Bytes), NEW t \in Seq(Bytes), Len(s) = Len(t), NEW d \in Nat, Clean(W, s, d),
         \A j \in 1..Len(s) : j < d => s[j] = t[j],
         \A j \in 1..Len(s) : t[j] = s[j] \/ t[j] = DIRTY_REPLACE_CHAR
  PROVE  Clean(W, t, d)
  <1> SUFFICES ASSUME NEW j \in 1..Len(t), NEW w \in W, j < d, Di!BeginsAt(t)[j], Di!Starless(w),
                      Di!At(Di!Low(t), j, w)
               PROVE  FALSE
    BY DEF Clean
  <1>1. Di!BeginsAt(s)[j]
    <2>1. j \in 1..d
      OBVIOUS
    <2> QED BY <2>1, BeginsSame
  <1>2. w \in Seq(Bytes) /\ j \in Nat \ {0} /\ j \in 1..Len(s) /\ Len(w) \in Nat /\ Len(s) \in Nat
    OBVIOUS
  <1>3. /\ j + Len(w) - 1 <= Len(s)
        /\ \A k \in 1..Len(w) : Di!Low(t)[j + k - 1] = w[k]
    BY <1>2, AtIs, LowIs
  <1>4. ASSUME NEW k \in 1..Len(w) PROVE Di!Low(s)[j + k - 1] = w[k]
    <2>1. j + k - 1 \in 1..Len(s)
      BY <1>2, <1>3
    <2>2. w[k] # DIRTY_REPLACE_CHAR /\ tolower(t[j + k - 1]) = w[k]
      BY <1>3, <2>1, LowIs DEF Di!Starless
    <2>3. t[j + k - 1] = s[j + k - 1]
      BY <2>1, <2>2, DirtyAssumption
    <2> QED BY <2>1, <2>2, <2>3, LowIs
  <1>5. Di!At(Di!Low(s), j, w)
    <2>1. Di!Low(s) \in Seq(Bytes) /\ Len(Di!Low(s)) = Len(s)
      BY LowIs
    <2> QED BY <1>2, <1>3, <1>4, <2>1, AtIs
  <1> QED BY <1>1, <1>2, <1>5 DEF Clean

(* No such word begins with a DIRTY_REPLACE_CHAR.                          *)
LEMMA StarsAreClean ==
  ASSUME NEW W, \A w \in W : w \in Seq(Bytes) /\ Len(w) >= 1,
         NEW t \in Seq(Bytes), NEW d \in Nat, NEW e \in Nat, Clean(W, t, d),
         \A j \in 1..Len(t) : d <= j /\ j < e => t[j] = DIRTY_REPLACE_CHAR
  PROVE  Clean(W, t, e)
  <1> SUFFICES ASSUME NEW j \in 1..Len(t), NEW w \in W, j < e, Di!BeginsAt(t)[j], Di!Starless(w),
                      Di!At(Di!Low(t), j, w)
               PROVE  FALSE
    BY DEF Clean
  <1>1. j \in Nat \ {0} /\ 1 \in 1..Len(w) /\ j + 1 - 1 = j
    OBVIOUS
  <1>2. CASE j < d
    BY <1>2 DEF Clean
  <1>3. CASE ~(j < d)
    <2>1. t[j] = DIRTY_REPLACE_CHAR
      BY <1>3
    <2>2. Di!Low(t)[j] = w[1]
      BY <1>1, AtIs, LowIs
    <2>3. w[1] = DIRTY_REPLACE_CHAR
      BY <2>1, <2>2, LowIs, DirtyAssumption
    <2> QED BY <1>1, <2>3 DEF Di!Starless
  <1> QED BY <1>2, <1>3

LEMMA LeadIs ==
  ASSUME NEW s \in Seq(Bytes), NEW i \in 1..Len(s), s[i] >= GB_SPEC_CHAR => i < Len(s)
  PROVE  /\ Len(Lead(s, i)) = IF s[i] < GB_SPEC_CHAR THEN 1 ELSE 2
         /\ \A w \in Seq(Bytes) : WordOK(w) /\ Di!At(s, i, w) => Di!LeadOf(w) = Lead(s, i)
  <1>1. PICK r : r = SubSeq(s, i, Len(s))
    OBVIOUS
  <1>2. /\ r \in Seq(Bytes) /\ Len(r) = Len(s) - i + 1 /\ s[i] \in Bytes
        /\ \A k \in 1..Len(r) : r[k] = s[i + k - 1]
    BY <1>1
  <1>3. r[1] = s[i]
    <2>1. 1 \in 1..Len(r) /\ i + 1 - 1 = i
      BY <1>2
    <2> QED BY <1>2, <2>1
  <1>4. \A b \in Bytes : ~(b < GB_SPEC_CHAR) <=> b >= GB_SPEC_CHAR
    <2>1. GB_SPEC_CHAR \in Nat
      BY DirtyAssumption
    <2> QED BY <2>1 DEF Bytes
  <1>5. Lead(s, i) = IF s[i] < GB_SPEC_CHAR THEN <<s[i]>> ELSE SubSeq(r, 1, 2)
    BY <1>1, <1>3 DEF Lead, Di!LeadOf
  <1>6. ~(s[i] < GB_SPEC_CHAR) => Len(r) >= 2
    <2>1. ~(s[i] < GB_SPEC_CHAR) => i < Len(s)
      BY <1>2, <1>4
    <2> QED BY <1>2, <2>1
  <1>7. ASSUME NEW w \in Seq(Bytes), WordOK(w), Di!At(s, i, w)
        PROVE  Di!LeadOf(w) = Lead(s, i)
    <2>1. \A k \in 1..Len(w) : s[i + k - 1] = w[k]
      BY <1>7, AtIs
    <2>2. Len(w) \in Nat /\ Len(w) >= 1 /\ (w[1] >= GB_SPEC_CHAR => Len(w) >= 2) /\ w[1] \in Bytes
      BY <1>7 DEF WordOK
    <2>3. w[1] = s[i]
      BY <2>1, <2>2
    <2>4. CASE s[i] < GB_SPEC_CHAR
      BY <1>5, <2>3, <2>4 DEF Di!LeadOf
    <2>5. CASE ~(s[i] < GB_SPEC_CHAR)
      <3>1. Len(w) >= 2 /\ Len(r) >= 2
        BY <1>2, <1>6, <1>4, <2>2, <2>3, <2>5
      <3>2. w[2] = s[i + 1] /\ r[2] = s[i + 1]
        BY <1>2, <2>1, <3>1
      <3>3. SubSeq(w, 1, 2) = SubSeq(r, 1, 2)
        BY <1>2, <1>3, <2>2, <2>3, <3>1, <3>2
      <3> QED BY <1>5, <2>3, <2>5, <3>3 DEF Di!LeadOf
    <2> QED BY <2>4, <2>5
  <1>8. Len(Lead(s, i)) = IF s[i] < GB_SPEC_CHAR THEN 1 ELSE 2
    BY <1>2, <1>5, <1>6
  <1> QED BY <1>7, <1>8

(* A word of the table is what dirty_hash_find finds.                      *)
LEMMA WordFound ==
  ASSUME DiTypes, NEW w \in Di!Words
  PROVE  Di!dirty_hash_find(w) /\ Len(w) \in Di!Index(Di!LeadOf(w))
  <1>1. PICK n \in 1..Len(table) : w = table[n] /\ w \in Seq(Bytes)
    BY WordIs
  <1>2. SubSeq(table[n], 1, Len(w)) = w /\ Len(w) \in Nat
    BY <1>1
  <1> QED BY <1>1, <1>2 DEF Di!dirty_hash_find, Di!Index

(* Where every length has failed there is no word.                         *)
LEMMA NoWordHere ==
  ASSUME DiTypes, Scrubbed(src, cursor), cursor <= Len(src),
         Di!lowcase[cursor] >= GB_SPEC_CHAR => cursor < Len(src),
         \A n \in Di!Index(Lead(Di!lowcase, cursor)) : ~Found(n),
         NEW w \in Di!Words
  PROVE  ~Di!At(Di!Low(src), cursor, w)
  <1> SUFFICES ASSUME Di!At(Di!Low(src), cursor, w) PROVE FALSE
    OBVIOUS
  <1>1. /\ src \in Seq(Bytes) /\ given \in Seq(Bytes) /\ Len(src) = Len(given)
        /\ cursor \in Nat \ {0} /\ w \in Seq(Bytes) /\ WordOK(w)
    BY WordIs DEF DiTypes
  <1>2. /\ cursor + Len(w) - 1 <= Len(src)
        /\ \A k \in 1..Len(w) : Di!Low(src)[cursor + k - 1] = w[k]
    BY <1>1, AtIs, LowIs
  <1>3. Di!At(Di!lowcase, cursor, w)
    <2>1. ASSUME NEW k \in 1..Len(w) PROVE Di!lowcase[cursor + k - 1] = w[k]
      <3>1. cursor + k - 1 \in 1..Len(src) /\ cursor + k - 1 >= cursor
        BY <1>1, <1>2
      <3>2. src[cursor + k - 1] = given[cursor + k - 1]
        BY <3>1 DEF Scrubbed
      <3> QED BY <1>1, <1>2, <3>1, <3>2, LowIs DEF Di!lowcase
    <2>2. Di!lowcase \in Seq(Bytes) /\ Len(Di!lowcase) = Len(src)
      BY <1>1, LowIs DEF Di!lowcase
    <2> QED BY <1>1, <1>2, <2>1, <2>2, AtIs
  <1>4. Di!LeadOf(w) = Lead(Di!lowcase, cursor)
    <2>1. Di!lowcase \in Seq(Bytes) /\ cursor \in 1..Len(Di!lowcase) /\ Len(Di!lowcase) = Len(src)
      BY <1>1, LowIs DEF Di!lowcase
    <2> QED BY <1>1, <1>3, <2>1, LeadIs
  <1>5. Found(Len(w))
    <2>1. SubSeq(Di!lowcase, cursor, cursor + Len(w) - 1) = w
      BY <1>3 DEF Di!At
    <2> QED BY <1>2, <2>1, WordFound DEF Found
  <1> QED BY <1>4, <1>5, WordFound

(* The loop goes on behind a character no word begins with.                *)
LEMMA Skipped ==
  ASSUME DiTypes, Scrubbed(src, cursor), cursor <= Len(src),
         Di!lowcase[cursor] >= GB_SPEC_CHAR => cursor < Len(src),
         \A n \in Di!Index(Lead(Di!lowcase, cursor)) : ~Found(n)
  PROVE  Scrubbed(src, cursor + Len(Lead(Di!lowcase, cursor)))
  <1>1. /\ src \in Seq(Bytes) /\ given \in Seq(Bytes) /\ Len(src) = Len(given) /\ Len(src) \in Nat
        /\ cursor \in Nat \ {0} /\ cursor \in 1..Len(src)
    BY DEF DiTypes
  <1>2. /\ Di!lowcase \in Seq(Bytes) /\ Len(Di!lowcase) = Len(src)
        /\ Di!lowcase[cursor] \in Bytes
        /\ Di!lowcase[cursor] >= GB_SPEC_CHAR <=> src[cursor] >= GB_SPEC_CHAR
    <2>1. src[cursor] = given[cursor]
      BY <1>1 DEF Scrubbed
    <2> QED BY <1>1, <2>1, LowIs DEF Di!lowcase
  <1>3. PICK n : n = Len(Lead(Di!lowcase, cursor))
    OBVIOUS
  <1>4. n = IF src[cursor] >= GB_SPEC_CHAR THEN 2 ELSE 1
    <2>1. \A b \in Bytes : ~(b < GB_SPEC_CHAR) <=> b >= GB_SPEC_CHAR
      <3>1. GB_SPEC_CHAR \in Nat
        BY DirtyAssumption
      <3> QED BY <3>1 DEF Bytes
    <2>2. n = IF Di!lowcase[cursor] < GB_SPEC_CHAR THEN 1 ELSE 2
      BY <1>1, <1>2, <1>3, LeadIs
    <2> QED BY <1>2, <2>1, <2>2
  <1>5. /\ Di!BeginsAt(src)[cursor]
        /\ Di!BeginsAt(src)[cursor + 1] <=> ~(src[cursor] >= GB_SPEC_CHAR)
        /\ Di!BeginsAt(src)[(cursor + 1) + 1] \/ Di!BeginsAt(src)[cursor + 1]
    <2>1. cursor + 1 \in Nat \ {0} /\ cursor <= Len(src)
      BY <1>1
    <2>2. Di!BeginsAt(src)[cursor]
      BY DEF Scrubbed
    <2> QED BY <1>1, <2>1, <2>2, BeginsIs
  <1>6. Di!BeginsAt(src)[cursor + n]
    <2>1. (cursor + 1) + 1 = cursor + 2
      BY <1>1
    <2> QED BY <1>4, <1>5, <2>1
  <1>7. Clean(Di!Words, src, cursor + n)
    <2> SUFFICES ASSUME NEW j \in 1..Len(src), NEW w \in Di!Words, j < cursor + n,
                        Di!BeginsAt(src)[j], Di!Starless(w)
                 PROVE  ~Di!At(Di!Low(src), j, w)
      BY DEF Clean
    <2>1. CASE j < cursor
      BY <2>1 DEF Scrubbed, Clean
    <2>2. CASE j = cursor
      BY <2>2, NoWordHere
    <2>3. CASE ~(j < cursor) /\ j # cursor
      <3>1. j = cursor + 1 /\ n = 2
        BY <1>1, <1>4, <2>3
      <3> QED BY <1>4, <1>5, <3>1
    <2> QED BY <2>1, <2>2, <2>3
  <1>8. \A j \in 1..Len(src) : j >= cursor + n => j >= cursor
    BY <1>1, <1>4
  <1> QED BY <1>3, <1>6, <1>7, <1>8 DEF Scrubbed

(* What dirty_hash_find finds is a word or stands for one.                 *)
LEMMA FoundIs ==
  ASSUME DiTypes, NEW v \in Seq(Bytes), Len(v) >= 1, Di!dirty_hash_find(v)
  PROVE  v \in Di!Words \cup Di!Aliases
  <1>1. PICK n \in 1..Len(table) :
          /\ HashOf(table[n]) = HashOf(v)
          /\ Len(table[n]) >= Len(v) /\ SubSeq(table[n], 1, Len(v)) = v
    BY DEF Di!dirty_hash_find
  <1>2. PICK w : w = table[n]
    OBVIOUS
  <1>3. w \in Di!Words /\ w \in Seq(Bytes) /\ Len(w) \in Nat /\ Len(v) \in Nat
    BY <1>2 DEF Di!Words, DiTypes
  <1>4. CASE Len(v) = Len(w)
    <2>1. v = w
      BY <1>1, <1>2, <1>3, <1>4
    <2> QED BY <1>3, <2>1
  <1>5. CASE Len(v) # Len(w)
    <2>1. Len(v) \in 1..Len(w) - 1
      BY <1>1, <1>2, <1>3, <1>5
    <2>2. v \in Di!Prefixes(w)
      BY <1>1, <1>2, <2>1 DEF Di!Prefixes
    <2>3. v \in {p \in Di!Prefixes(w) : HashOf(w) = HashOf(p)}
      BY <1>1, <1>2, <2>2
    <2> QED BY <1>3, <2>3 DEF Di!Aliases
  <1> QED BY <1>4, <1>5

(* ... and behind a word it has replaced.                                  *)
LEMMA Starred ==
  ASSUME DiTypes, Scrubbed(src, cursor), NEW k \in Nat \ {0}, Found(k),
         NEW t \in Seq(Bytes), Len(t) = Len(src),
         \A j \in 1..Len(src) : t[j] = IF j \in cursor..cursor + k - 1 THEN DIRTY_REPLACE_CHAR ELSE src[j]
  PROVE  Scrubbed(t, cursor + k)
  <1>1. /\ src \in Seq(Bytes) /\ given \in Seq(Bytes) /\ Len(src) = Len(given) /\ Len(src) \in Nat
        /\ cursor \in Nat \ {0} /\ cursor + k - 1 <= Len(src) /\ cursor \in 1..Len(src)
    BY DEF DiTypes, Found
  <1>2. \A j \in 1..cursor : Di!BeginsAt(t)[j] = Di!BeginsAt(src)[j]
    <2>1. ASSUME NEW j \in 1..Len(src), j < cursor PROVE src[j] = t[j]
      <3>1. j \notin cursor..cursor + k - 1
        BY <1>1, <2>1
      <3> QED BY <3>1
    <2>2. cursor \in Nat
      BY <1>1
    <2> QED BY <1>1, <2>1, <2>2, BeginsSame
  <1>3. Di!BeginsAt(t)[cursor + k]
    <2>1. cursor + k - 1 \in Nat \ {0} /\ (cursor + k - 1) + 1 = cursor + k /\ cursor + k - 1 \in 1..Len(src)
          /\ cursor + k - 1 \in cursor..cursor + k - 1
      BY <1>1
    <2>2. t[cursor + k - 1] = DIRTY_REPLACE_CHAR
      BY <2>1
    <2>3. ~(t[cursor + k - 1] >= GB_SPEC_CHAR)
      <3>1. DIRTY_REPLACE_CHAR \in Bytes /\ GB_SPEC_CHAR \in Nat /\ DIRTY_REPLACE_CHAR < GB_SPEC_CHAR
        BY DirtyAssumption DEF Bytes
      <3>2. DIRTY_REPLACE_CHAR \in Nat
        BY <3>1 DEF Bytes
      <3> QED BY <2>2, <3>1, <3>2
    <2>4. Di!BeginsAt(t)[(cursor + k - 1) + 1]
      BY <2>1, <2>3, BeginsIs
    <2> QED BY <2>1, <2>4
  <1>4. ASSUME NEW j \in 1..Len(t), j >= cursor + k PROVE t[j] = given[j]
    <2>1. j \notin cursor..cursor + k - 1 /\ j >= cursor /\ j \in 1..Len(src)
      BY <1>1, <1>4
    <2> QED BY <2>1 DEF Scrubbed
  <1>5. Clean(Di!Words, t, cursor + k)
    <2>1. Clean(Di!Words, src, cursor) /\ \A w \in Di!Words : w \in Seq(Bytes) /\ Len(w) >= 1
      BY WordIs DEF Scrubbed, WordOK
    <2>2. /\ \A j \in 1..Len(src) : j < cursor => src[j] = t[j]
          /\ \A j \in 1..Len(src) : t[j] = src[j] \/ t[j] = DIRTY_REPLACE_CHAR
      <3>1. \A j \in 1..Len(src) : j < cursor => j \notin cursor..cursor + k - 1
        BY <1>1
      <3> QED BY <3>1
    <2>3. Clean(Di!Words, t, cursor)
      BY <1>1, <2>1, <2>2, StarsKeepClean
    <2>4. \A j \in 1..Len(t) : cursor <= j /\ j < cursor + k => t[j] = DIRTY_REPLACE_CHAR
      BY <1>1
    <2>5. cursor \in Nat /\ cursor + k \in Nat
      BY <1>1
    <2> QED BY <2>1, <2>3, <2>4, <2>5, StarsAreClean
  <1> DEFINE V == Di!Words \cup Di!Aliases
  <1>6. Covers(V, t, given)
    <2> SUFFICES ASSUME NEW j \in 1..Len(t), t[j] # given[j]
                 PROVE  \E b \in Di!Begins(t), w \in V : Di!At(Di!Low(given), b, w) /\ j \in b..b + Len(w) - 1
      BY DEF Covers
    <2>1. CASE j < cursor
      <3>1. t[j] = src[j] /\ j \in 1..Len(src)
        BY <1>1, <2>1
      <3>2. PICK b \in Di!Begins(src), w \in V : Di!At(Di!Low(given), b, w) /\ j \in b..b + Len(w) - 1
        BY <3>1 DEF Scrubbed, Covers
      <3>3. b \in 1..Len(src) /\ Di!BeginsAt(src)[b]
        BY DEF Di!Begins
      <3>4. b \in 1..cursor /\ b \in 1..Len(t)
        BY <1>1, <2>1, <3>2, <3>3
      <3>5. b \in Di!Begins(t)
        BY <1>2, <3>3, <3>4 DEF Di!Begins
      <3> QED BY <3>2, <3>5
    <2>2. CASE ~(j < cursor)
      <3> DEFINE v == SubSeq(Di!lowcase, cursor, cursor + k - 1)
      <3>1. /\ Di!lowcase \in Seq(Bytes) /\ Len(Di!lowcase) = Len(src) /\ Di!lowcase = Di!Low(given)
        BY <1>1, LowIs DEF Di!lowcase
      <3>2. v \in Seq(Bytes) /\ Len(v) = k
        BY <1>1, <3>1
      <3>3. Di!dirty_hash_find(v)
        BY DEF Found
      <3>4. Di!At(Di!Low(given), cursor, v)
        <4>1. cursor + Len(v) - 1 = cursor + k - 1
          BY <3>2
        <4>2. Len(Di!Low(given)) = Len(src) /\ cursor + k - 1 <= Len(src)
          BY <1>1, <3>1
        <4>3. SubSeq(Di!Low(given), cursor, cursor + k - 1) = v
          BY <3>1
        <4> HIDE DEF v
        <4> QED BY <4>1, <4>2, <4>3 DEF Di!At
      <3> HIDE DEF v
      <3>5. v \in V
        <4>1. Len(v) >= 1
          BY <3>2
        <4> QED BY <3>2, <3>3, <4>1, FoundIs
      <3>6. cursor \in Di!Begins(t)
        <4>1. cursor \in 1..cursor
          BY <1>1
        <4> QED BY <1>1, <1>2, <4>1 DEF Di!Begins, Scrubbed
      <3>7. j \in cursor..cursor + Len(v) - 1
        <4>1. j < cursor + k
          <5>1. ~(j >= cursor + k)
            BY <1>4
          <5> QED BY <1>1, <5>1
        <4> QED BY <1>1, <2>2, <3>2, <4>1
      <3> QED BY <3>4, <3>5, <3>6, <3>7
    <2> QED BY <2>1, <2>2
  <1> QED BY <1>3, <1>4, <1>5, <1>6 DEF Scrubbed

(* What a file is made into.                                               *)
LEMMA LoadedIs ==
  ASSUME NEW lines \in Files
  PROVE  /\ Di!Loaded(lines) \in Seq(Seq(Bytes))
         /\ \A n \in 1..Len(Di!Loaded(lines)) : WordOK(Di!Loaded(lines)[n])
  <1>1. /\ lines \in Seq(Seq(Bytes)) /\ MAX_DIRTY_WORDS_COUNT \in Nat
        /\ \A n \in 1..Len(lines) :
             lines[n] # <<>> /\ (lines[n][1] >= GB_SPEC_CHAR => Len(lines[n]) >= 2)
    BY DirtyAssumption DEF Bytes
  <1> DEFINE m == IF Len(lines) < MAX_DIRTY_WORDS_COUNT THEN Len(lines) ELSE MAX_DIRTY_WORDS_COUNT
             t == [n \in 1..m |-> Di!Low(lines[n])]
  <1>2. m \in Nat /\ m <= Len(lines)
    BY <1>1
  <1>3. t = Di!Loaded(lines)
    BY DEF Di!Loaded
  <1>4. \A n \in 1..m : n \in 1..Len(lines) /\ lines[n] \in Seq(Bytes)
    BY <1>1, <1>2
  <1> HIDE DEF m
  <1>5. t \in [1..m -> Seq(Bytes)] /\ \A n \in 1..m : t[n] = Di!Low(lines[n])
    BY <1>4, LowIs
  <1> HIDE DEF t
  <1>6. t \in Seq(Seq(Bytes)) /\ Len(t) = m
    BY <1>2, <1>5, FunctionIsSeq
  <1>7. ASSUME NEW n \in 1..m PROVE WordOK(t[n])
    <2>1. n \in 1..Len(lines)
      BY <1>4
    <2>2. PICK l \in Seq(Bytes) : l = lines[n]
      BY <1>4
    <2>3. l # <<>> /\ (l[1] >= GB_SPEC_CHAR => Len(l) >= 2)
      BY <1>1, <2>1, <2>2
    <2>4. Len(l) >= 1 /\ 1 \in 1..Len(l)
      BY <2>3
    <2>5. t[n] = Di!Low(l)
      BY <1>5, <2>2
    <2> QED BY <2>3, <2>4, <2>5, LowIs DEF WordOK
  <1> QED BY <1>3, <1>6, <1>7

LEMMA DiInit == Di!Init => DiInv
  <1> SUFFICES ASSUME Di!Init PROVE DiInv
    OBVIOUS
  <1>1. PICK lines \in Files : table = Di!Loaded(lines)
    BY DEF Di!Init
  <1>2. DiTypes
    BY <1>1, LoadedIs DEF DiTypes, Di!Init
  <1>3. Di!Cleaned
    BY DEF Di!Init, Di!Cleaned, Di!Begins, Di!covered
  <1> QED BY <1>2, <1>3 DEF DiInv, Di!Init

LEMMA DiReload == DiInv /\ Di!dirty_reload => DiInv'
  <1> SUFFICES ASSUME DiInv, Di!dirty_reload PROVE DiInv'
    OBVIOUS
  <1>1. PICK lines \in Files : table' = Di!Loaded(lines)
    BY DEF Di!dirty_reload
  <1>2. DiTypes'
    BY <1>1, LoadedIs DEF DiInv, DiTypes, Di!dirty_reload
  <1>3. Di!Cleaned'
    BY DEF Di!dirty_reload, Di!Cleaned, Di!Begins, Di!covered
  <1>4. dpc' = "app"
    BY DEF Di!dirty_reload
  <1> QED BY <1>2, <1>3, <1>4 DEF DiInv

LEMMA DiCall ==
  ASSUME DiInv, NEW f \in {"check", "replace"}, NEW text \in Texts, Di!Call(f, text)
  PROVE  DiInv'
  <1>1. text \in Seq(Bytes)
    BY DirtyAssumption DEF Bytes
  <1>2. DiTypes'
    BY <1>1 DEF DiInv, DiTypes, Di!Call
  <1>3. dpc' = "scan" /\ cursor' = 1 /\ src' = text /\ given' = text
    BY DEF Di!Call
  <1>4. Scrubbed(src, cursor)'
    <2>1. Di!BeginsAt(text)[1]
      BY <1>1, BeginsIs
    <2>2. Clean(Di!Words', text, 1)
      BY <1>1 DEF Clean
    <2>3. Covers(Di!Words' \cup Di!Aliases', text, text)
      BY DEF Covers
    <2> QED BY <1>3, <2>1, <2>2, <2>3 DEF Scrubbed
  <1>5. Di!Cleaned'
    BY <1>3 DEF Di!Cleaned
  <1> QED BY <1>2, <1>3, <1>4, <1>5 DEF DiInv

(* dirty_replace returns when it is done with the whole text.              *)
LEMMA AllClean ==
  ASSUME DiTypes, Scrubbed(src, cursor), cursor > Len(src)
  PROVE  /\ \A j \in Di!Begins(src), w \in Di!Words : Di!Starless(w) => ~Di!At(Di!Low(src), j, w)
         /\ \A j \in 1..Len(src) : src[j] # given[j] => j \in Di!covered
  <1>1. ASSUME NEW j \in Di!Begins(src), NEW w \in Di!Words, Di!Starless(w)
        PROVE  ~Di!At(Di!Low(src), j, w)
    <2>1. j \in 1..Len(src) /\ Di!BeginsAt(src)[j]
      BY DEF Di!Begins
    <2>2. j < cursor
      BY <2>1 DEF DiTypes
    <2> QED BY <1>1, <2>1, <2>2 DEF Scrubbed, Clean
  <1>2. ASSUME NEW j \in 1..Len(src), src[j] # given[j] PROVE j \in Di!covered
    <2>1. \E b \in Di!Begins(src), w \in Di!Words \cup Di!Aliases :
            Di!At(Di!Low(given), b, w) /\ j \in b..b + Len(w) - 1
      BY <1>2 DEF Scrubbed, Covers
    <2> QED BY <2>1 DEF Di!covered, Di!lowcase
  <1> QED BY <1>1, <1>2

LEMMA DiScan == DiInv /\ Di!Scan => DiInv'
  <1> SUFFICES ASSUME DiInv, Di!Scan PROVE DiInv'
    OBVIOUS
  <1>1. UNCHANGED <<table, fn, src, given, cursor>> /\ dpc = "scan" /\ DiTypes
    BY DEF Di!Scan, DiInv
  <1>2. /\ src \in Seq(Bytes) /\ given \in Seq(Bytes) /\ Len(src) = Len(given) /\ Len(src) \in Nat
        /\ cursor \in Nat \ {0}
    BY <1>1 DEF DiTypes
  <1>3. CASE cursor > Len(src) \/ (Di!lowcase[cursor] >= GB_SPEC_CHAR /\ cursor = Len(src))
    <2>1. dpc' = "app" /\ UNCHANGED <<lens, step>>
      BY <1>2, <1>3 DEF Di!Scan, Di!Returned
    <2>2. DiTypes'
      BY <1>1, <2>1 DEF DiTypes
    <2>3. CASE fn = "replace" /\ cursor > Len(src)
      <3>1. Scrubbed(src, cursor)
        BY <1>1, <2>3 DEF DiInv
      <3>2. /\ \A j \in Di!Begins(src), w \in Di!Words : Di!Starless(w) => ~Di!At(Di!Low(src), j, w)
            /\ \A j \in 1..Len(src) : src[j] # given[j] => j \in Di!covered
        BY <1>1, <2>3, <3>1, AllClean
      <3>3. Di!covered' = Di!covered /\ Di!Words' = Di!Words
        BY <1>1 DEF Di!covered, Di!lowcase, Di!Words, Di!Aliases
      <3>4. Di!Cleaned'
        BY <1>1, <3>2, <3>3 DEF Di!Cleaned
      <3> QED BY <2>1, <2>2, <3>4 DEF DiInv
    <2>4. CASE fn = "replace" /\ ~(cursor > Len(src))
      <3>1. answer' = -1
        BY <1>3, <2>4 DEF Di!Scan, Di!Returned
      <3>2. Di!Cleaned'
        BY <3>1 DEF Di!Cleaned
      <3> QED BY <2>1, <2>2, <3>2 DEF DiInv
    <2>5. CASE fn # "replace"
      <3>1. Di!Cleaned'
        BY <1>1, <2>5 DEF Di!Cleaned
      <3> QED BY <1>1, <2>1, <2>2, <2>5, <3>1 DEF DiInv
    <2> QED BY <2>3, <2>4, <2>5
  <1>4. CASE ~(cursor > Len(src) \/ (Di!lowcase[cursor] >= GB_SPEC_CHAR /\ cursor = Len(src)))
    <2> DEFINE lead == Lead(Di!lowcase, cursor)
    <2>0. Len(Di!lowcase) = Len(src) /\ Di!lowcase \in Seq(Bytes)
      BY <1>2, LowIs DEF Di!lowcase
    <2>1. /\ lens' = Di!Index(lead) /\ step' = Len(lead)
          /\ dpc' = IF Di!Index(lead) = {} THEN "next" ELSE "match"
      BY <1>4, <2>0 DEF Di!Scan, Lead
    <2>2. cursor <= Len(src) /\ cursor \in 1..Len(src) /\ (Di!lowcase[cursor] >= GB_SPEC_CHAR => cursor < Len(src))
      BY <1>2, <1>4
    <2>3. Len(lead) \in Nat
      <3>1. Len(lead) = IF Di!lowcase[cursor] < GB_SPEC_CHAR THEN 1 ELSE 2
        BY <2>0, <2>2, LeadIs
      <3> QED BY <3>1
    <2> HIDE DEF lead
    <2>4. Di!Index(lead) \subseteq Nat \ {0}
      <3>1. ASSUME NEW n \in 1..Len(table) PROVE Len(table[n]) \in Nat \ {0}
        <4>1. table[n] \in Seq(Bytes) /\ Len(table[n]) >= 1
          BY <1>1 DEF DiTypes, WordOK
        <4> QED BY <4>1
      <3> QED BY <3>1 DEF Di!Index
    <2>5. DiTypes'
      BY <1>1, <2>1, <2>3, <2>4 DEF DiTypes
    <2>6. Di!Cleaned'
      BY <2>1 DEF Di!Cleaned
    <2>7. CASE fn = "replace"
      <3>1. Scrubbed(src, cursor)
        BY <1>1, <2>7 DEF DiInv
      <3>2. CASE Di!Index(lead) = {}
        <4>1. Scrubbed(src, cursor + Len(lead))
          BY <1>1, <2>2, <3>1, <3>2, Skipped DEF lead
        <4>2. Scrubbed(src, cursor + step)'
          BY <1>1, <2>1, <4>1 DEF Scrubbed, Di!Words, Di!Aliases
        <4>3. dpc' = "next"
          BY <2>1, <3>2
        <4> QED BY <2>5, <2>6, <4>2, <4>3 DEF DiInv
      <3>3. CASE Di!Index(lead) # {}
        <4>1. dpc' = "match"
          BY <2>1, <3>3
        <4>2. Scrubbed(src, cursor)'
          BY <1>1, <3>1 DEF Scrubbed, Di!Words, Di!Aliases
        <4>3. Di!lowcase' = Di!lowcase /\ Di!Index(lead)' = Di!Index(lead) /\ lead' = lead
          BY <1>1 DEF Di!lowcase, Di!Index, lead
        <4>4. Matching'
          BY <1>1, <2>1, <2>2, <3>3, <4>3 DEF Matching, lead
        <4> QED BY <2>5, <2>6, <4>1, <4>2, <4>4 DEF DiInv
      <3> QED BY <3>2, <3>3
    <2>8. CASE fn # "replace"
      BY <1>1, <2>5, <2>6, <2>8 DEF DiInv
    <2> QED BY <2>7, <2>8
  <1> QED BY <1>3, <1>4

LEMMA DiAdvance == DiInv /\ Di!Advance => DiInv'
  <1> SUFFICES ASSUME DiInv, Di!Advance PROVE DiInv'
    OBVIOUS
  <1>1. /\ UNCHANGED <<table, fn, src, given, step, lens>> /\ dpc = "next" /\ dpc' = "scan" /\ DiTypes
        /\ cursor' = IF fn = "check" THEN cursor ELSE cursor + step
    BY DEF Di!Advance, DiInv
  <1>2. DiTypes'
    BY <1>1 DEF DiTypes
  <1>3. Di!Cleaned'
    BY <1>1 DEF Di!Cleaned
  <1>4. fn = "replace" => Scrubbed(src, cursor)'
    <2> SUFFICES ASSUME fn = "replace" PROVE Scrubbed(src, cursor)'
      OBVIOUS
    <2>1. Scrubbed(src, cursor + step) /\ cursor' = cursor + step
      BY <1>1 DEF DiInv
    <2> QED BY <1>1, <2>1 DEF Scrubbed, Di!Words, Di!Aliases
  <1> QED BY <1>1, <1>2, <1>3, <1>4 DEF DiInv

LEMMA DiMatch == DiInv /\ Di!Match => DiInv'
  <1> SUFFICES ASSUME DiInv, Di!Match PROVE DiInv'
    OBVIOUS
  <1>1. PICK k : k = CHOOSE n \in lens : \A m \in lens : n <= m
    OBVIOUS
  <1>2. /\ dpc = "match" /\ UNCHANGED <<table, fn, given, cursor>> /\ DiTypes
        /\ IF Found(k) /\ fn = "check" THEN Di!Returned(-1) /\ UNCHANGED <<src, lens, step>>
           ELSE IF Found(k)
             THEN /\ src' = [j \in 1..Len(src) |->
                               IF j \in cursor..cursor + k - 1 THEN DIRTY_REPLACE_CHAR ELSE src[j]]
                  /\ step' = k /\ dpc' = "next" /\ UNCHANGED <<lens, answer>>
             ELSE /\ lens' = lens \ {k}
                  /\ dpc' = IF lens' = {} \/ cursor + k - 1 > Len(src) THEN "next" ELSE "match"
                  /\ UNCHANGED <<src, step, answer>>
    BY <1>1 DEF Di!Match, Found, DiInv
  <1>3. /\ src \in Seq(Bytes) /\ given \in Seq(Bytes) /\ Len(src) = Len(given) /\ Len(src) \in Nat
        /\ cursor \in Nat \ {0} /\ lens \subseteq Nat \ {0}
    BY <1>2 DEF DiTypes
  <1>4. CASE Found(k) /\ fn = "check"
    <2>1. UNCHANGED <<src, lens, step>>
      BY <1>2, <1>4
    <2>2. DiTypes'
      BY <1>2, <2>1 DEF DiTypes
    <2>3. fn' # "replace"
      BY <1>2, <1>4
    <2>4. Di!Cleaned'
      BY <2>3 DEF Di!Cleaned
    <2> QED BY <2>2, <2>3, <2>4 DEF DiInv
  <1>5. ASSUME fn = "replace"
        PROVE  /\ Scrubbed(src, cursor) /\ Matching
               /\ k \in lens /\ k \in Nat \ {0} /\ \A m \in lens : k <= m
    <2>1. Scrubbed(src, cursor) /\ Matching
      BY <1>2, <1>5 DEF DiInv
    <2>2. lens \in SUBSET Nat /\ lens # {}
      BY <1>3, <2>1 DEF Matching
    <2>3. \E n \in lens : \A m \in lens : n <= m
      BY <2>2, LeastNat
    <2>4. k \in lens /\ \A m \in lens : k <= m
      BY <1>1, <2>3
    <2> QED BY <1>3, <2>1, <2>4
  <1>6. CASE Found(k) /\ fn # "check"
    <2>1. /\ src' = [j \in 1..Len(src) |->
                       IF j \in cursor..cursor + k - 1 THEN DIRTY_REPLACE_CHAR ELSE src[j]]
          /\ step' = k /\ dpc' = "next" /\ UNCHANGED lens
      BY <1>2, <1>6
    <2>2. PICK t : t = src'
      OBVIOUS
    <2>3. /\ t \in Seq(Bytes) /\ Len(t) = Len(src)
          /\ \A j \in 1..Len(src) :
               t[j] = IF j \in cursor..cursor + k - 1 THEN DIRTY_REPLACE_CHAR ELSE src[j]
      <3>1. DIRTY_REPLACE_CHAR \in Bytes /\ \A j \in 1..Len(src) : src[j] \in Bytes
        <4>1. DIRTY_REPLACE_CHAR \in Bytes
          BY DirtyAssumption DEF Bytes
        <4> QED BY <1>3, <4>1
      <3>2. t \in [1..Len(src) -> Bytes]
        BY <2>1, <2>2, <3>1
      <3> QED BY <1>3, <2>1, <2>2, <3>2, FunctionIsSeq
    <2>4. Di!Cleaned'
      BY <2>1 DEF Di!Cleaned
    <2>5. CASE fn = "replace"
      <3>1. Scrubbed(t, cursor + k)
        BY <1>2, <1>5, <1>6, <2>3, <2>5, Starred
      <3>2. Scrubbed(src, cursor + step)'
        BY <1>2, <2>1, <2>2, <3>1 DEF Scrubbed, Di!Words, Di!Aliases
      <3>3. DiTypes'
        BY <1>2, <1>3, <1>5, <2>1, <2>2, <2>3, <2>5 DEF DiTypes
      <3> QED BY <2>1, <2>4, <3>2, <3>3 DEF DiInv
    <2>6. CASE fn # "replace"
      BY <1>2, <1>6, <2>6 DEF DiTypes
    <2> QED BY <2>5, <2>6
  <1>7. CASE ~Found(k)
    <2>1. /\ lens' = lens \ {k} /\ UNCHANGED <<src, step, answer>>
          /\ dpc' = IF lens' = {} \/ cursor + k - 1 > Len(src) THEN "next" ELSE "match"
      BY <1>2, <1>7
    <2>2. DiTypes'
      BY <1>2, <2>1 DEF DiTypes
    <2>3. Di!Cleaned'
      BY <2>1 DEF Di!Cleaned
    <2>4. CASE fn # "replace"
      BY <1>2, <2>2, <2>3, <2>4 DEF DiInv
    <2>5. CASE fn = "replace"
      <3> DEFINE lead == Lead(Di!lowcase, cursor)
      <3>1. /\ Scrubbed(src, cursor) /\ k \in lens /\ k \in Nat \ {0} /\ \A m \in lens : k <= m
            /\ cursor <= Len(src) /\ (Di!lowcase[cursor] >= GB_SPEC_CHAR => cursor < Len(src))
            /\ step = Len(lead) /\ lens \subseteq Di!Index(lead)
            /\ \A n \in Di!Index(lead) \ lens : ~Found(n)
        BY <1>5, <2>5 DEF Matching
      <3>2. \A n \in Di!Index(lead) \ lens' : ~Found(n)
        BY <1>7, <2>1, <3>1
      <3>3. Di!lowcase' = Di!lowcase /\ Di!Index(lead)' = Di!Index(lead) /\ lead' = lead
        BY <1>2 DEF Di!lowcase, Di!Index
      <3> HIDE DEF lead
      <3>4. CASE dpc' = "next"
        <4>1. ASSUME NEW n \in Di!Index(lead) PROVE ~Found(n)
          <5>1. CASE n \in lens'
            <6>1. cursor + k - 1 > Len(src) /\ n \in lens
              BY <2>1, <3>4, <5>1
            <6>2. k <= n /\ n \in Nat
              BY <1>3, <3>1, <6>1
            <6>3. cursor + n - 1 > Len(src)
              BY <1>3, <3>1, <6>1, <6>2
            <6>4. ~(cursor + n - 1 <= Len(src))
              BY <1>3, <6>2, <6>3
            <6> QED BY <6>4 DEF Found
          <5>2. CASE n \notin lens'
            BY <3>2, <5>2
          <5> QED BY <5>1, <5>2
        <4>2. Scrubbed(src, cursor + step)
          BY <1>2, <3>1, <4>1, Skipped DEF lead
        <4>3. Scrubbed(src, cursor + step)'
          BY <1>2, <2>1, <4>2 DEF Scrubbed, Di!Words, Di!Aliases
        <4> QED BY <2>2, <2>3, <3>4, <4>3 DEF DiInv
      <3>5. CASE dpc' # "next"
        <4>1. dpc' = "match" /\ lens' # {} /\ lens' \subseteq Di!Index(lead)
          BY <2>1, <3>1, <3>5
        <4>2. Scrubbed(src, cursor)'
          BY <1>2, <2>1, <3>1 DEF Scrubbed, Di!Words, Di!Aliases
        <4>3. \A n : Found(n)' = Found(n)
          BY <1>2, <2>1 DEF Found, Di!lowcase, Di!dirty_hash_find
        <4>4. Matching'
          BY <1>2, <2>1, <3>1, <3>2, <3>3, <4>1, <4>3 DEF Matching, lead
        <4> QED BY <2>2, <2>3, <4>1, <4>2, <4>4 DEF DiInv
      <3> QED BY <3>4, <3>5
    <2> QED BY <2>4, <2>5
  <1> QED BY <1>4, <1>6, <1>7

LEMMA DiStep == DiInv /\ [Di!Next]_(Di!vars) => DiInv'
  <1> SUFFICES ASSUME DiInv, [Di!Next]_(Di!vars) PROVE DiInv'
    OBVIOUS
  <1>1. CASE Di!Run
    BY <1>1, DiScan, DiMatch, DiAdvance DEF Di!Run
  <1>2. CASE UNCHANGED Di!vars
    <2>1. UNCHANGED <<table, fn, src, given, cursor, step, lens, dpc, answer>>
      BY <1>2 DEF Di!vars
    <2>2. DiTypes'
      BY <2>1 DEF DiInv, DiTypes
    <2>3. Di!Words' = Di!Words /\ Di!Aliases' = Di!Aliases /\ Di!lowcase' = Di!lowcase
      BY <2>1 DEF Di!Words, Di!Aliases, Di!lowcase
    <2>4. \A d : Scrubbed(src, d)' = Scrubbed(src, d)
      BY <2>1, <2>3 DEF Scrubbed
    <2>5. Matching' = Matching
      BY <2>1, <2>3 DEF Matching, Found, Di!Index, Di!dirty_hash_find
    <2>6. Di!Cleaned'
      BY <2>1, <2>3 DEF DiInv, Di!Cleaned, Di!covered
    <2> QED BY <2>1, <2>2, <2>4, <2>5, <2>6 DEF DiInv
  <1> QED BY <1>1, <1>2, DiReload, DiCall DEF Di!Next

LEMMA DiRefines ==
  /\ MCInit => Di!Init
  /\ [MCNext]_allVars => [Di!Next]_(Di!vars)
  BY DEF MCInit, MCNext, allVars, diVars, Di!vars

(* dirty.c: what dirty_replace returns 0 for has no word of the table left *)
(* and lost nothing else, whatever the words, their place in the hash      *)
(* table and the text, up to what Cleaned says of replacement characters   *)
(* and of prefixes.                                                        *)
THEOREM TextIsCleaned == MCSpec => []Cleaned
  <1>1. DiInv => Cleaned
    BY DEF DiInv, Cleaned
  <1> QED BY <1>1, DiRefines, DiInit, DiStep, PTL DEF MCSpec

=============================================================================
