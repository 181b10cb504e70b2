------------------------------ MODULE Skiplist -----------------------------
(***************************************************************************)
(* base/skiplist.c: an ordered list with MaxLevel levels of links, where   *)
(* the span of a node at a level is how many places it lies behind its     *)
(* predecessor there.  Ranks, positions counted from 1, are sums of spans. *)
(* Data that compare equal are kept in the order they were inserted.       *)
(***************************************************************************)
EXTENDS Integers, Sequences

CONSTANTS Items,      \* the data; a node is named by its data
          ItemRank,   \* what cmp compares, a function from Items
          MaxLevel    \* MAX_SKIPLIST_LEVEL

VARIABLES
  link,    \* for every level the next, prev and span of every node
  order    \* history: the data in the order they must have

vars == <<link, order>>

Null == 0
Front == -1
Levels == 0..MaxLevel - 1
cmp(a, b) == ItemRank[a] - ItemRank[b]

Init ==
  /\ link = [l \in Levels |-> [next |-> [n \in Items \cup {Front} |-> Null],
                               prev |-> [n \in Items |-> Null],
                               span |-> [n \in Items |-> 0]]]
  /\ order = <<>>

(* The common walk: from the top level down, along every level while       *)
(* Pass(next, spans up to next).  path[l] is where level l was left, and   *)
(* the spans that were added up.                                           *)
Path(Pass(_, _)) ==
  LET Along[l \in Levels, at \in Items \cup {Front}, span \in Int] ==
        LET n == link[l].next[at]
            s == span + link[l].span[n]
        IN IF n # Null /\ Pass(n, s) THEN Along[l, n, s] ELSE [at |-> at, span |-> span]
      Down[l \in 0..MaxLevel] ==
        IF l = MaxLevel THEN [at |-> Front, span |-> 0]
        ELSE LET from == Down[l + 1] IN Along[l, from.at, from.span]
  IN Down

(* The walk of find and of find by rank ends at the highest level whose    *)
(* next node is the one looked for.                                        *)
Ahead(path, l) == link[l].next[path[l].at]
Highest(L) == CHOOSE l \in L : \A m \in L : m <= l

----------------------------------------------------------------------------
(* _skiplist_insert_node *)
Linked(k, prev, node) ==
  LET next == k.next[prev]
  IN [k EXCEPT !.next = [k.next EXCEPT ![prev] = node, ![node] = next],
               !.prev = [n \in Items |-> IF n = node THEN prev
                                         ELSE IF n = next THEN node ELSE k.prev[n]]]

(* Fault: the next node's span is not shortened by the new one's.          *)
SpannedOnce(k, node, s, level) ==
  [k EXCEPT !.span[node] = s]

(* The span of a new node, and what is left for the node after it.         *)
Spanned(k, node, s, level) ==
  [k EXCEPT !.span = [n \in Items |->
     IF n = node THEN s
     ELSE IF level > 0 /\ n = k.next[node] THEN k.span[n] - (s - 1) ELSE k.span[n]]]

(* level is what _skiplist_rand_level returned.                            *)
skiplist_insert(x, level) ==
  LET path == Path(LAMBDA n, s : cmp(n, x) <= 0)
      Longer(k, n) == IF n = Null THEN k ELSE [k EXCEPT !.span[n] = @ + 1]
      before == Len(SelectSeq(order, LAMBDA y : cmp(y, x) <= 0))
  IN /\ \A i \in 1..Len(order) : order[i] # x
     /\ link' = [l \in Levels |->
                   IF l <= level
                     THEN Spanned(Linked(link[l], path[l].at, x), x,
                                  1 + path[0].span - path[l].span, l)
                     ELSE Longer(link[l], Ahead(path, l))]
     /\ order' = SubSeq(order, 1, before) \o <<x>> \o SubSeq(order, before + 1, Len(order))

(* _skiplist_erase_node *)
Erased(k, node) ==
  LET next == k.next[node]
  IN [next |-> [n \in Items \cup {Front} |->
                  IF n = node THEN Null ELSE IF n = k.prev[node] THEN next ELSE k.next[n]],
      prev |-> [n \in Items |->
                  IF n = node THEN Null ELSE IF n = next THEN k.prev[node] ELSE k.prev[n]],
      span |-> [n \in Items |->
                  IF n = node THEN 0
                  ELSE IF n = next THEN k.span[n] + k.span[node] - 1 ELSE k.span[n]]]

(* _skiplist_find_erase: the levels where the data was met, the highest of *)
(* them, the node found there and its rank.                                *)
Met(path, x) == {l \in Levels : Ahead(path, l) # Null /\ cmp(Ahead(path, l), x) = 0}
Search(x) ==
  LET path == Path(LAMBDA n, s : cmp(n, x) < 0)
      l == Highest(Met(path, x))
      n == Ahead(path, l)
  IN IF Met(path, x) = {} THEN [node |-> Null]
     ELSE [node |-> n, level |-> l, rank |-> path[l].span + link[l].span[n],
           change |-> [m \in Levels |-> Ahead(path, m)]]

skiplist_find(x) == Search(x).node

skiplist_erase(x) ==
  LET found == Search(x)
      Shorter(k, n) == IF n = Null THEN k ELSE [k EXCEPT !.span[n] = @ - 1]
  IN /\ found.node # Null
     /\ link' = [l \in Levels |-> IF l <= found.level THEN Erased(link[l], found.node)
                                  ELSE Shorter(link[l], found.change[l])]
     /\ order' = SelectSeq(order, LAMBDA y : y # found.node)

skiplist_release ==
  /\ order # <<>>
  /\ link' = [l \in Levels |-> [next |-> [n \in Items \cup {Front} |-> Null],
                                prev |-> [n \in Items |-> Null],
                                span |-> [n \in Items |-> 0]]]
  /\ order' = <<>>

----------------------------------------------------------------------------
(* The queries *)

_skiplist_find_node_by_rank(r) ==
  LET path == Path(LAMBDA n, s : s < r)
      hit == {l \in Levels : Ahead(path, l) # Null
                             /\ path[l].span + link[l].span[Ahead(path, l)] = r}
  IN IF hit = {} THEN Null ELSE Ahead(path, Highest(hit))

skiplist_find_from_rank_forward(r, Filter) ==
  LET Look[n \in Items \cup {Null}] ==
        IF n = Null \/ n \in Filter THEN n ELSE Look[link[0].next[n]]
  IN Look[_skiplist_find_node_by_rank(r)]

skiplist_find_from_rank_backward(r, Filter) ==
  LET Look[n \in Items \cup {Null, Front}] ==
        IF n \in {Null, Front} THEN Null ELSE IF n \in Filter THEN n ELSE Look[link[0].prev[n]]
  IN Look[_skiplist_find_node_by_rank(r)]

skiplist_find_list_by_rank(r, scope) ==
  LET Collect[n \in Items \cup {Null}, i \in 0..scope] ==
        IF n = Null \/ i = 0 THEN <<>> ELSE <<n>> \o Collect[link[0].next[n], i - 1]
  IN Collect[_skiplist_find_node_by_rank(r), scope]

skiplist_size == Path(LAMBDA n, s : TRUE)[0].span

Next ==
  \/ \E x \in Items : skiplist_erase(x) \/ \E l \in Levels : skiplist_insert(x, l)
  \/ skiplist_release

Spec == Init /\ [][Next]_vars

----------------------------------------------------------------------------
(* Properties *)

Position(x) == CHOOSE i \in 1..Len(order) : order[i] = x

(* Whatever levels the nodes were given, every query answers what the      *)
(* ordered list says: the element at a rank, the rank and existence of an  *)
(* element equal to the one asked for, the first one at or after (before)  *)
(* a rank that a filter accepts, the slice from a rank, and the size.  The *)
(* spans that all ranks are added up from never drift, on any level, and   *)
(* ties stay in the order of their insertion.                              *)
Ranked ==
  LET n == Len(order) IN
    /\ skiplist_size = n
    /\ \A r \in 1..n + 1 :
         _skiplist_find_node_by_rank(r) = IF r <= n THEN order[r] ELSE Null
    /\ \A x \in Items :
         LET found == Search(x)
             equal == {i \in 1..n : cmp(order[i], x) = 0}
         IN IF equal = {} THEN found.node = Null
            ELSE found.rank \in equal /\ order[found.rank] = found.node
    /\ \A l \in Levels : \A i \in 1..n :
         link[l].span[order[i]] > 0 =>
           LET p == link[l].prev[order[i]]
           IN /\ link[l].next[p] = order[i]
              /\ i = link[l].span[order[i]] + (IF p = Front THEN 0 ELSE Position(p))
    /\ \A r \in 1..n + 1 : \A Filter \in SUBSET Items :
         LET after == {i \in r..n : order[i] \in Filter}
             before == {i \in 1..r : r <= n /\ order[i] \in Filter}
         IN /\ skiplist_find_from_rank_forward(r, Filter) =
                 IF after = {} THEN Null ELSE order[CHOOSE i \in after : \A j \in after : i <= j]
            /\ skiplist_find_from_rank_backward(r, Filter) =
                 IF before = {} THEN Null ELSE order[Highest(before)]
    /\ \A r \in 1..n + 1, scope \in 0..2 :
         skiplist_find_list_by_rank(r, scope) = SubSeq(order, r, IF r + scope - 1 < n THEN r + scope - 1 ELSE n)
=============================================================================
