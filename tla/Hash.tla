-------------------------------- MODULE Hash -------------------------------
(***************************************************************************)
(* base/hash.c: a table of m_size chains.  A chain is a sequence of data,  *)
(* htable.count is m_count.  HashOf stands for the caller's hash function  *)
(* and cmp for its comparison, 0 where it calls two data equal.  Each call *)
(* runs to its end in one step.  MALLOC does not fail.                     *)
(***************************************************************************)
EXTENDS Integers, Sequences, FiniteSets

CONSTANTS Data, m_size, HashOf(_), cmp(_, _),
          MaxCount   \* bound on m_count

VARIABLES
  htable,    \* the chains and m_count
  entered,   \* history: what was inserted and not removed
  lost       \* history: how many entries hash_remove cut off behind a head
             \* and hash_clean dropped

vars == <<htable, entered, lost>>

Buckets == 0..m_size - 1
Bucket(d) == HashOf(d) % m_size

Empty == [chain |-> [b \in Buckets |-> <<>>], count |-> 0]
Init == htable = Empty /\ entered = {} /\ lost = 0

(* The place in d's chain where the comparison says equal, 0 for none.     *)
Place(t, d) ==
  LET c == t.chain[Bucket(d)]
      equal == {i \in 1..Len(c) : cmp(c[i], d) = 0}
  IN IF equal = {} THEN 0 ELSE CHOOSE i \in equal : \A j \in equal : i <= j

(* What is found: one entry, or none.                                      *)
hash_find(t, d) == IF Place(t, d) = 0 THEN {} ELSE {t.chain[Bucket(d)][Place(t, d)]}

Inserted(t, d) ==
  [chain |-> [t.chain EXCEPT ![Bucket(d)] = Append(@, d)], count |-> t.count + 1]

(* Fault: the entry behind a removed one goes with it.                     *)
UnlinkedTwo(c, i) ==
  IF i = 1 THEN <<>> ELSE SubSeq(c, 1, i - 1) \o SubSeq(c, i + 2, Len(c))

(* The chain without its i-th entry: a head takes all of the chain along.  *)
Unlinked(c, i) ==
  IF i = 1 THEN <<>> ELSE SubSeq(c, 1, i - 1) \o SubSeq(c, i + 1, Len(c))

hash_insert(d) ==
  /\ Place(htable, d) = 0 /\ htable.count < MaxCount
  /\ htable' = Inserted(htable, d)
  /\ entered' = entered \cup {d}
  /\ UNCHANGED lost

hash_remove(d) ==
  LET c == htable.chain[Bucket(d)]
      i == Place(htable, d)
      rest == IF i = 1 THEN {c[j] : j \in 2..Len(c)} ELSE {}
  IN /\ i > 0
     /\ htable' = [chain |-> [htable.chain EXCEPT ![Bucket(d)] = Unlinked(c, i)],
                   count |-> htable.count - 1]
     /\ entered' = entered \ ({c[i]} \cup rest)
     /\ lost' = lost + Cardinality(rest)

hash_clean ==
  /\ entered # {}
  /\ htable' = [Empty EXCEPT !.count = htable.count]
  /\ lost' = lost + Cardinality(entered)
  /\ entered' = {}

(* hash_release, and the hash_create of the next table.                    *)
hash_release ==
  /\ htable.count # 0
  /\ htable' = Empty /\ entered' = {} /\ lost' = 0

(* The data in the order hash_loop visits them.                            *)
hash_loop(t) ==
  LET Upto[b \in Nat] == IF b = 0 THEN <<>> ELSE Upto[b - 1] \o t.chain[b - 1]
  IN Upto[m_size]

Next ==
  \/ \E d \in Data : hash_insert(d) \/ hash_remove(d)
  \/ hash_clean \/ hash_release

Spec == Init /\ [][Next]_vars

----------------------------------------------------------------------------
(* Properties *)

(* Whatever was inserted and removed before, in colliding chains too, what *)
(* is found is what was inserted and not removed, except for the entries   *)
(* that stood behind a chain head when it was removed.  hash_loop visits   *)
(* each once, and m_count is their number plus what hash_remove cut off    *)
(* and hash_clean dropped without counting.                                *)
Found ==
  /\ \A d \in Data : hash_find(htable, d) = IF d \in entered THEN {d} ELSE {}
  /\ LET visited == hash_loop(htable)
     IN Len(visited) = Cardinality(entered) /\ {visited[i] : i \in 1..Len(visited)} = entered
  /\ htable.count = Cardinality(entered) + lost
=============================================================================
