----------------------------- MODULE SlabProofs ----------------------------
(***************************************************************************)
(* Proofs about mm/slab.c, for pages of any size: after any allocations    *)
(* and frees the chunks tile every page, the free ones are merged, linked  *)
(* in order of address and as many units as page->remain says, and the     *)
(* others are the memory handed out.                                       *)
(***************************************************************************)
EXTENDS ContainersProofs

----------------------------------------------------------------------------
(* The pages' structure; a spot where no chunk begins is blank.            *)
Spots == PAGE_HEAD_SIZE..PAGE_SIZE - 1
Metas == [size : Nat \cup {-1}, alloc : BOOLEAN, next : Int, prev : Int]
PageType == [free : Int, remain : Int, meta : [Spots -> Metas]]

LEMMA SpotNumbers ==
  /\ PAGE_HEAD_SIZE \in Nat /\ PAGE_HEAD_SIZE > 0 /\ PAGE_SIZE \in Nat
  /\ PAGE_HEAD_SIZE + 1 + SLAB_SIZE_MAX <= PAGE_SIZE
  /\ SLAB_SIZE_MAX \in Nat /\ SLAB_SIZE_MINOR \in Nat
  /\ \A s : s \in Spots <=> s \in Int /\ PAGE_HEAD_SIZE <= s /\ s < PAGE_SIZE
  /\ \A s \in Spots : s > 0 /\ s # -1
  BY SlabAssumption DEF Spots

(* The page q is pg but for one link.                                      *)
NextSet(q, pg, s, n) ==
  /\ q \in PageType /\ q.free = pg.free /\ q.remain = pg.remain
  /\ \A t \in Spots :
       /\ q.meta[t].size = pg.meta[t].size /\ q.meta[t].alloc = pg.meta[t].alloc
       /\ q.meta[t].prev = pg.meta[t].prev
       /\ q.meta[t].next = IF t = s THEN n ELSE pg.meta[t].next
PrevSet(q, pg, s, n) ==
  /\ q \in PageType /\ q.free = pg.free /\ q.remain = pg.remain
  /\ \A t \in Spots :
       /\ q.meta[t].size = pg.meta[t].size /\ q.meta[t].alloc = pg.meta[t].alloc
       /\ q.meta[t].next = pg.meta[t].next
       /\ q.meta[t].prev = IF t = s THEN n ELSE pg.meta[t].prev

LEMMA SetNextIs ==
  ASSUME NEW pg \in PageType, NEW s \in Spots \cup {-1}, NEW n \in Int
  PROVE  NextSet(Sl!SetNext(pg, s, n), pg, s, n)
  <1>1. CASE s \in Spots
    <2>1. s > 0
      BY <1>1, SpotNumbers
    <2>2. Sl!SetNext(pg, s, n) = [pg EXCEPT !.meta = [pg.meta EXCEPT ![s] = [pg.meta[s] EXCEPT !.next = n]]]
      BY <2>1 DEF Sl!SetNext
    <2> QED BY <1>1, <2>2 DEF PageType, Metas, NextSet, PrevSet
  <1>2. CASE s = -1
    <2>1. Sl!SetNext(pg, s, n) = pg
      BY <1>2 DEF Sl!SetNext
    <2> QED BY <1>2, <2>1, SpotNumbers DEF NextSet, PrevSet
  <1> QED BY <1>1, <1>2

LEMMA SetPrevIs ==
  ASSUME NEW pg \in PageType, NEW s \in Spots \cup {-1}, NEW n \in Int
  PROVE  PrevSet(Sl!SetPrev(pg, s, n), pg, s, n)
  <1>1. CASE s \in Spots
    <2>1. s > 0
      BY <1>1, SpotNumbers
    <2>2. Sl!SetPrev(pg, s, n) = [pg EXCEPT !.meta = [pg.meta EXCEPT ![s] = [pg.meta[s] EXCEPT !.prev = n]]]
      BY <2>1 DEF Sl!SetPrev
    <2> QED BY <1>1, <2>2 DEF PageType, Metas, NextSet, PrevSet
  <1>2. CASE s = -1
    <2>1. Sl!SetPrev(pg, s, n) = pg
      BY <1>2 DEF Sl!SetPrev
    <2> QED BY <1>2, <2>1, SpotNumbers DEF NextSet, PrevSet
  <1> QED BY <1>1, <1>2

(* _slab_free_erase: m is unlinked.                                        *)
Unlinked(q, pg, m) ==
  /\ q \in PageType /\ q.remain = pg.remain
  /\ q.free = IF m = pg.free THEN pg.meta[m].next ELSE pg.free
  /\ \A t \in Spots :
       /\ q.meta[t].size = pg.meta[t].size /\ q.meta[t].alloc = pg.meta[t].alloc
       /\ q.meta[t].next = IF t = m THEN -1
                           ELSE IF t = pg.meta[m].prev THEN pg.meta[m].next ELSE pg.meta[t].next
       /\ q.meta[t].prev = IF t = m THEN -1
                           ELSE IF t = pg.meta[m].next THEN pg.meta[m].prev ELSE pg.meta[t].prev

LEMMA EraseIs ==
  ASSUME NEW pg \in PageType, NEW m \in Spots, NEW next \in Spots \cup {-1}, NEW prev \in Spots \cup {-1},
         next = pg.meta[m].next, prev = pg.meta[m].prev, next # prev \/ next = -1, m # next, m # prev
  PROVE  Unlinked(Sl!_slab_free_erase(pg, m), pg, m)
  <1> DEFINE a == Sl!SetPrev(pg, next, prev)
             b == Sl!SetNext(a, prev, next)
             c == Sl!SetPrev(b, m, -1)
             d == Sl!SetNext(c, m, -1)
  <1>0. next \in Int /\ prev \in Int /\ -1 \in Int
    BY SpotNumbers
  <1>1. Sl!_slab_free_erase(pg, m) = IF m = pg.free THEN [d EXCEPT !.free = next] ELSE d
    BY DEF Sl!_slab_free_erase
  <1>2. PrevSet(a, pg, next, prev)
    BY <1>0, SetPrevIs
  <1>a. a \in PageType
    BY <1>2 DEF PrevSet
  <1> HIDE DEF a
  <1>3. NextSet(b, a, prev, next)
    BY <1>0, <1>a, SetNextIs
  <1>b. b \in PageType
    BY <1>3 DEF NextSet
  <1> HIDE DEF b
  <1>4. PrevSet(c, b, m, -1)
    BY <1>0, <1>b, SetPrevIs
  <1>c. c \in PageType
    BY <1>4 DEF PrevSet
  <1> HIDE DEF c
  <1>5. NextSet(d, c, m, -1)
    BY <1>0, <1>c, SetNextIs
  <1> HIDE DEF d
  <1>6. PICK q : q = Sl!_slab_free_erase(pg, m)
    OBVIOUS
  <1>7. q \in PageType /\ q.remain = d.remain /\ q.meta = d.meta
        /\ q.free = IF m = pg.free THEN next ELSE d.free
    BY <1>0, <1>1, <1>5, <1>6 DEF PageType, NextSet, PrevSet
  <1> QED BY <1>0, <1>2, <1>3, <1>4, <1>5, <1>6, <1>7 DEF NextSet, PrevSet, Unlinked

(* _slab_free_replace: r takes the place of m.                             *)
Replaced(q, pg, m, r) ==
  /\ q \in PageType /\ q.remain = pg.remain
  /\ q.free = IF m = pg.free THEN r ELSE pg.free
  /\ \A t \in Spots :
       /\ q.meta[t].size = pg.meta[t].size /\ q.meta[t].alloc = pg.meta[t].alloc
       /\ q.meta[t].next = IF t = r THEN pg.meta[m].next
                           ELSE IF t = pg.meta[m].prev THEN r ELSE pg.meta[t].next
       /\ q.meta[t].prev = IF t = r THEN pg.meta[m].prev
                           ELSE IF t = pg.meta[m].next THEN r ELSE pg.meta[t].prev

LEMMA ReplaceIs ==
  ASSUME NEW pg \in PageType, NEW m \in Spots, NEW r \in Spots,
         NEW next \in Spots \cup {-1}, NEW prev \in Spots \cup {-1},
         next = pg.meta[m].next, prev = pg.meta[m].prev, r # next, r # prev
  PROVE  Replaced(Sl!_slab_free_replace(pg, m, r), pg, m, r)
  <1> DEFINE a == Sl!SetNext(pg, prev, r)
             b == Sl!SetPrev(a, next, r)
             c == Sl!SetNext(b, r, next)
             d == Sl!SetPrev(c, r, prev)
  <1>0. next \in Int /\ prev \in Int /\ r \in Int
    BY SpotNumbers
  <1>1. Sl!_slab_free_replace(pg, m, r) = IF m = pg.free THEN [d EXCEPT !.free = r] ELSE d
    BY DEF Sl!_slab_free_replace
  <1>2. NextSet(a, pg, prev, r)
    BY <1>0, SetNextIs
  <1>a. a \in PageType
    BY <1>2 DEF NextSet
  <1> HIDE DEF a
  <1>3. PrevSet(b, a, next, r)
    BY <1>0, <1>a, SetPrevIs
  <1>b. b \in PageType
    BY <1>3 DEF PrevSet
  <1> HIDE DEF b
  <1>4. NextSet(c, b, r, next)
    BY <1>0, <1>b, SetNextIs
  <1>c. c \in PageType
    BY <1>4 DEF NextSet
  <1> HIDE DEF c
  <1>5. PrevSet(d, c, r, prev)
    BY <1>0, <1>c, SetPrevIs
  <1> HIDE DEF d
  <1>6. PICK q : q = Sl!_slab_free_replace(pg, m, r)
    OBVIOUS
  <1>7. q \in PageType /\ q.remain = d.remain /\ q.meta = d.meta
        /\ q.free = IF m = pg.free THEN r ELSE d.free
    BY <1>0, <1>1, <1>5, <1>6 DEF PageType, NextSet, PrevSet
  <1> QED BY <1>0, <1>2, <1>3, <1>4, <1>5, <1>6, <1>7 DEF NextSet, PrevSet, Replaced

(* The free chunks F of a page are linked both ways in address order.      *)
NextOk(F, pg, s) ==
  \/ pg.meta[s].next = -1 /\ \A t \in F : t <= s
  \/ pg.meta[s].next \in F /\ s < pg.meta[s].next /\ \A t \in F : s < t => pg.meta[s].next <= t
PrevOk(F, pg, s) ==
  \/ pg.meta[s].prev = -1 /\ \A t \in F : s <= t
  \/ pg.meta[s].prev \in F /\ pg.meta[s].prev < s /\ \A t \in F : t < s => t <= pg.meta[s].prev
HeadOk(F, pg) == IF F = {} THEN pg.free = -1 ELSE pg.free \in F /\ \A t \in F : pg.free <= t
Strung(F, pg) ==
  F \subseteq Spots /\ HeadOk(F, pg) /\ \A s \in F : NextOk(F, pg, s) /\ PrevOk(F, pg, s)

LEMMA StrungBack ==
  ASSUME NEW pg \in PageType, NEW F, Strung(F, pg), NEW s \in F
  PROVE  /\ pg.meta[s].next \in F => pg.meta[pg.meta[s].next].prev = s
         /\ pg.meta[s].prev \in F => pg.meta[pg.meta[s].prev].next = s
         /\ pg.meta[s].prev = -1 <=> pg.free = s
         /\ pg.meta[s].next \in F \cup {-1} /\ pg.meta[s].prev \in F \cup {-1}
         /\ pg.meta[s].next # s /\ pg.meta[s].prev # s
         /\ pg.meta[s].next # pg.meta[s].prev \/ pg.meta[s].next = -1
         /\ \A t \in F : t \in Spots /\ t \in Int /\ t > 0
  <1>1. \A t \in F : t \in Spots /\ t \in Int /\ t > 0
    BY SpotNumbers DEF Strung
  <1>2. NextOk(F, pg, s) /\ PrevOk(F, pg, s) /\ HeadOk(F, pg)
    BY DEF Strung
  <1>3. pg.meta[s].next \in F => pg.meta[pg.meta[s].next].prev = s
    <2> SUFFICES ASSUME NEW n \in F, n = pg.meta[s].next PROVE pg.meta[n].prev = s
      OBVIOUS
    <2>1. PrevOk(F, pg, n) /\ s < n /\ \A t \in F : s < t => n <= t
      BY <1>1, <1>2 DEF Strung, NextOk
    <2> QED BY <1>1, <2>1 DEF PrevOk
  <1>4. pg.meta[s].prev \in F => pg.meta[pg.meta[s].prev].next = s
    <2> SUFFICES ASSUME NEW n \in F, n = pg.meta[s].prev PROVE pg.meta[n].next = s
      OBVIOUS
    <2>1. NextOk(F, pg, n) /\ n < s /\ \A t \in F : t < s => t <= n
      BY <1>1, <1>2 DEF Strung, PrevOk
    <2> QED BY <1>1, <2>1 DEF NextOk
  <1>5. pg.meta[s].prev = -1 <=> pg.free = s
    BY <1>1, <1>2 DEF PrevOk, HeadOk
  <1> QED BY <1>1, <1>2, <1>3, <1>4, <1>5 DEF NextOk, PrevOk

(* A chunk leaves the list; another one, in the same gap between the rest, *)
(* takes its place; a new one enters between a and b.                      *)
LEMMA StrungUnlinked ==
  ASSUME NEW pg \in PageType, NEW F, Strung(F, pg), NEW m \in F, NEW q, Unlinked(q, pg, m)
  PROVE  Strung(F \ {m}, q)
  <1> DEFINE G == F \ {m}
             n == pg.meta[m].next
             p == pg.meta[m].prev
  <1>1. \A t \in F : t \in Spots /\ t \in Int /\ t > 0
    BY StrungBack
  <1>2. NextOk(F, pg, m) /\ PrevOk(F, pg, m)
    BY DEF Strung
  <1>3. HeadOk(G, q)
    BY <1>1, <1>2 DEF Strung, HeadOk, Unlinked, NextOk
  <1>4. ASSUME NEW s \in G PROVE NextOk(G, q, s)
    <2>1. NextOk(F, pg, s) /\ q.meta[s].next = IF s = p THEN n ELSE pg.meta[s].next
      BY <1>1 DEF Strung, Unlinked
    <2>2. CASE s = p
      <3>1. p \in F /\ p < m /\ \A t \in F : t < m => t <= p
        BY <1>1, <1>2, <2>2 DEF PrevOk
      <3>2. \/ n = -1 /\ \A t \in F : t <= m
            \/ n \in G /\ p < n /\ \A t \in F : m < t => n <= t
        BY <1>1, <1>2, <3>1 DEF NextOk
      <3> QED BY <1>1, <2>1, <2>2, <3>1, <3>2 DEF NextOk
    <2>3. CASE s # p
      <3>1. pg.meta[s].next # m
        BY <1>1, <1>2, <2>1, <2>3, StrungBack
      <3> QED BY <2>1, <2>3, <3>1 DEF NextOk
    <2> QED BY <2>2, <2>3
  <1>5. ASSUME NEW s \in G PROVE PrevOk(G, q, s)
    <2>1. PrevOk(F, pg, s) /\ q.meta[s].prev = IF s = n THEN p ELSE pg.meta[s].prev
      BY <1>1 DEF Strung, Unlinked
    <2>2. CASE s = n
      <3>1. n \in F /\ m < n /\ \A t \in F : m < t => n <= t
        BY <1>1, <1>2, <2>2 DEF NextOk
      <3>2. \/ p = -1 /\ \A t \in F : m <= t
            \/ p \in G /\ p < n /\ \A t \in F : t < m => t <= p
        BY <1>1, <1>2, <3>1 DEF PrevOk
      <3> QED BY <1>1, <2>1, <2>2, <3>1, <3>2 DEF PrevOk
    <2>3. CASE s # n
      <3>1. pg.meta[s].prev # m
        BY <1>1, <1>2, <2>1, <2>3, StrungBack
      <3> QED BY <2>1, <2>3, <3>1 DEF PrevOk
    <2> QED BY <2>2, <2>3
  <1> QED BY <1>1, <1>3, <1>4, <1>5 DEF Strung

LEMMA StrungReplaced ==
  ASSUME NEW pg \in PageType, NEW F, Strung(F, pg), NEW m \in F, NEW r \in Spots, r \notin F,
         \A t \in F \ {m} : t < m <=> t < r, NEW q, Replaced(q, pg, m, r)
  PROVE  Strung((F \ {m}) \cup {r}, q)
  <1> DEFINE G == (F \ {m}) \cup {r}
             n == pg.meta[m].next
             p == pg.meta[m].prev
  <1>1. /\ \A t \in F \cup {r} : t \in Spots /\ t \in Int /\ t > 0
        /\ \A t \in F \ {m} : t # r /\ (t < m <=> t < r) /\ (m < t <=> r < t)
    <2>1. \A t \in F \cup {r} : t \in Spots /\ t \in Int /\ t > 0
      BY StrungBack, SpotNumbers
    <2> QED BY <2>1
  <1>2. NextOk(F, pg, m) /\ PrevOk(F, pg, m)
    BY DEF Strung
  <1>3. HeadOk(G, q)
    <2>1. CASE m = pg.free
      BY <1>1, <2>1 DEF Strung, HeadOk, Replaced
    <2>2. CASE m # pg.free
      BY <1>1, <2>2 DEF Strung, HeadOk, Replaced
    <2> QED BY <2>1, <2>2
  <1>4. ASSUME NEW s \in G PROVE NextOk(G, q, s)
    <2>1. q.meta[s].next = IF s = r THEN n ELSE IF s = p THEN r ELSE pg.meta[s].next
      BY <1>1 DEF Replaced
    <2>2. CASE s = r
      <3>1. n # r /\ n # m
        BY <1>1, <1>2 DEF NextOk
      <3> QED BY <1>1, <1>2, <2>1, <2>2, <3>1 DEF NextOk
    <2>3. CASE s # r /\ s = p
      <3>1. p \in F /\ p < m /\ \A t \in F : t < m => t <= p
        BY <1>1, <1>2, <2>3 DEF PrevOk
      <3> QED BY <1>1, <2>1, <2>3, <3>1 DEF NextOk
    <2>4. CASE s # r /\ s # p
      <3>1. NextOk(F, pg, s) /\ s \in F \ {m}
        BY <2>4 DEF Strung
      <3>2. pg.meta[s].next # m
        BY <2>4, <3>1, StrungBack
      <3> QED BY <1>1, <2>1, <2>4, <3>1, <3>2 DEF NextOk
    <2> QED BY <2>2, <2>3, <2>4
  <1>5. ASSUME NEW s \in G PROVE PrevOk(G, q, s)
    <2>1. q.meta[s].prev = IF s = r THEN p ELSE IF s = n THEN r ELSE pg.meta[s].prev
      BY <1>1 DEF Replaced
    <2>2. CASE s = r
      <3>1. p # r /\ p # m
        BY <1>1, <1>2 DEF PrevOk
      <3> QED BY <1>1, <1>2, <2>1, <2>2, <3>1 DEF PrevOk
    <2>3. CASE s # r /\ s = n
      <3>1. n \in F /\ m < n /\ \A t \in F : m < t => n <= t
        BY <1>1, <1>2, <2>3 DEF NextOk
      <3> QED BY <1>1, <2>1, <2>3, <3>1 DEF PrevOk
    <2>4. CASE s # r /\ s # n
      <3>1. PrevOk(F, pg, s) /\ s \in F \ {m}
        BY <2>4 DEF Strung
      <3>2. pg.meta[s].prev # m
        BY <2>4, <3>1, StrungBack
      <3> QED BY <1>1, <2>1, <2>4, <3>1, <3>2 DEF PrevOk
    <2> QED BY <2>2, <2>3, <2>4
  <1> QED BY <1>1, <1>3, <1>4, <1>5 DEF Strung

Inserted(q, pg, m, a, b) ==
  /\ q \in PageType /\ q.remain = pg.remain
  /\ q.free = IF a = -1 THEN m ELSE pg.free
  /\ \A t \in Spots :
       /\ q.meta[t].size = pg.meta[t].size /\ q.meta[t].alloc = pg.meta[t].alloc
       /\ q.meta[t].next = IF t = m THEN b ELSE IF t = a THEN m ELSE pg.meta[t].next
       /\ q.meta[t].prev = IF t = m THEN a ELSE IF t = b THEN m ELSE pg.meta[t].prev

LEMMA StrungInserted ==
  ASSUME NEW pg \in PageType, NEW F, Strung(F, pg), NEW m \in Spots, m \notin F,
         NEW a, NEW b, (a = -1 /\ b = pg.free) \/ (a \in F /\ a < m /\ b = pg.meta[a].next),
         b = -1 \/ m < b, NEW q, Inserted(q, pg, m, a, b)
  PROVE  Strung(F \cup {m}, q)
  <1> DEFINE G == F \cup {m}
  <1>1. \A t \in G : t \in Spots /\ t \in Int /\ t > 0
    BY StrungBack, SpotNumbers
  <1>2. HeadOk(F, pg) /\ \A s \in F : NextOk(F, pg, s) /\ PrevOk(F, pg, s)
    BY DEF Strung
  <1>3. /\ \/ b = -1 /\ \A t \in F : t < m
           \/ b \in F /\ m < b /\ \A t \in F : m < t => b <= t
        /\ \/ a = -1 /\ \A t \in F : m < t
           \/ a \in F /\ a < m /\ \A t \in F : t < m => t <= a
    <2>1. CASE a = -1 /\ b = pg.free
      BY <1>1, <1>2, <2>1 DEF HeadOk
    <2>2. CASE a \in F /\ a < m /\ b = pg.meta[a].next
      <3>1. NextOk(F, pg, a)
        BY <1>2, <2>2
      <3> QED BY <1>1, <2>2, <3>1 DEF NextOk
    <2> QED BY <2>1, <2>2
  <1>4. HeadOk(G, q)
    BY <1>1, <1>2, <1>3 DEF HeadOk, Inserted
  <1>5. ASSUME NEW s \in G PROVE NextOk(G, q, s)
    <2>1. q.meta[s].next = IF s = m THEN b ELSE IF s = a THEN m ELSE pg.meta[s].next
      BY <1>1 DEF Inserted
    <2>2. CASE s = m
      BY <1>1, <1>3, <2>1, <2>2 DEF NextOk
    <2>3. CASE s # m /\ s = a
      BY <1>1, <1>3, <2>1, <2>3 DEF NextOk
    <2>4. CASE s # m /\ s # a
      BY <1>1, <1>2, <1>3, <2>1, <2>4 DEF NextOk
    <2> QED BY <2>2, <2>3, <2>4
  <1>6. ASSUME NEW s \in G PROVE PrevOk(G, q, s)
    <2>1. q.meta[s].prev = IF s = m THEN a ELSE IF s = b THEN m ELSE pg.meta[s].prev
      BY <1>1 DEF Inserted
    <2>2. CASE s = m
      BY <1>1, <1>3, <2>1, <2>2 DEF PrevOk
    <2>3. CASE s # m /\ s = b
      BY <1>1, <1>3, <2>1, <2>3 DEF PrevOk
    <2>4. CASE s # m /\ s # b
      BY <1>1, <1>2, <1>3, <2>1, <2>4 DEF PrevOk
    <2> QED BY <2>2, <2>3, <2>4
  <1> QED BY <1>1, <1>4, <1>5, <1>6 DEF Strung

(* Only the links of the chunks on the list matter.                        *)
LEMMA StrungSame ==
  ASSUME NEW pg, NEW F, Strung(F, pg), NEW q, q.free = pg.free,
         \A t \in F : q.meta[t].next = pg.meta[t].next /\ q.meta[t].prev = pg.meta[t].prev
  PROVE  Strung(F, q)
  BY DEF Strung, HeadOk, NextOk, PrevOk

(* The chunks of a page, the free ones, those in use, where each ends, and *)
(* the units the free ones hold.                                           *)
Begun(pg) == {s \in Spots : pg.meta[s].size >= 0}
Loose(pg) == {s \in Begun(pg) : ~pg.meta[s].alloc}
InUse(pg) == {s \in Begun(pg) : pg.meta[s].alloc}
Past(pg, s) == s + 1 + pg.meta[s].size
Room(pg) == {u \in Spots : \E s \in Loose(pg) : s <= u /\ u < Past(pg, s)}

(* The chunks leave neither gap nor overlap.                               *)
Chopped(pg) ==
  /\ PAGE_HEAD_SIZE \in Begun(pg)
  /\ \A s \in Begun(pg) : Past(pg, s) = PAGE_SIZE \/ Past(pg, s) \in Begun(pg)
  /\ \A s, t \in Begun(pg) : s < t => Past(pg, s) <= t

(* No two free chunks are neighbours; only they have links.                *)
Apart(pg) == \A s \in Loose(pg) : Past(pg, s) \notin Loose(pg)
Quiet(pg) ==
  \A s \in Spots : /\ pg.meta[s].size = -1 => ~pg.meta[s].alloc
                   /\ s \notin Loose(pg) => pg.meta[s].next = -1 /\ pg.meta[s].prev = -1

PageInv(pg) ==
  /\ pg \in PageType /\ Quiet(pg) /\ Chopped(pg) /\ Apart(pg)
  /\ Strung(Loose(pg), pg)
  /\ pg.remain = Cardinality(Room(pg))

LEMMA ChunkFacts ==
  ASSUME NEW pg \in PageType, Chopped(pg), NEW s \in Begun(pg)
  PROVE  /\ s \in Spots /\ s \in Int /\ s > 0 /\ PAGE_HEAD_SIZE <= s /\ pg.meta[s].size \in Nat
         /\ Past(pg, s) \in Int /\ s < Past(pg, s) /\ Past(pg, s) <= PAGE_SIZE
         /\ Past(pg, s) = s + 1 + pg.meta[s].size
  BY SpotNumbers DEF PageType, Metas, Begun, Chopped, Past

(* A chunk gives its units; the others' stay.                              *)
LEMMA SpotsFinite ==
  ASSUME NEW R \in SUBSET Spots
  PROVE  IsFiniteSet(R) /\ Cardinality(R) \in Nat
  <1>1. PAGE_HEAD_SIZE \in Int /\ PAGE_SIZE - 1 \in Int
    BY SpotNumbers
  <1>2. IsFiniteSet(Spots)
    BY <1>1, FS_Interval DEF Spots
  <1> QED BY <1>2, FS_Subset, FS_CardinalityType

LEMMA RoomFinite == ASSUME NEW pg PROVE IsFiniteSet(Room(pg)) /\ Cardinality(Room(pg)) \in Nat
  <1>1. Room(pg) \in SUBSET Spots
    BY DEF Room
  <1> QED BY <1>1, SpotsFinite

LEMMA IntervalAdds ==
  ASSUME NEW R \in SUBSET Spots, NEW a \in Int, NEW e \in Int, a <= e, R \cap (a..e - 1) = {}
  PROVE  Cardinality(R \cup (a..e - 1)) = Cardinality(R) + (e - a)
  <1>2. IsFiniteSet(R) /\ Cardinality(R) \in Nat
    BY SpotsFinite
  <1>3. e - 1 \in Int
    OBVIOUS
  <1>4. IsFiniteSet(a..e - 1) /\ Cardinality(a..e - 1) = e - a
    <2>1. IsFiniteSet(a..e - 1) /\ Cardinality(a..e - 1) = IF a > e - 1 THEN 0 ELSE (e - 1) - a + 1
      BY <1>3, FS_Interval
    <2> QED BY <2>1
  <1>5. Cardinality(R \cup (a..e - 1)) = Cardinality(R) + Cardinality(a..e - 1) - Cardinality(R \cap (a..e - 1))
    BY <1>2, <1>4, FS_Union
  <1>6. Cardinality(R \cap (a..e - 1)) = 0
    BY FS_EmptySet
  <1> QED BY <1>2, <1>4, <1>5, <1>6

(* One more free chunk m: its units are added to the others'.              *)
LEMMA RoomWith ==
  ASSUME NEW pg \in PageType, NEW z \in PageType, Chopped(pg), NEW m \in InUse(pg),
         \A t \in Spots : /\ z.meta[t].size = pg.meta[t].size
                          /\ z.meta[t].alloc = (pg.meta[t].alloc /\ t # m)
  PROVE  /\ Begun(z) = Begun(pg) /\ Loose(z) = Loose(pg) \cup {m} /\ InUse(z) = InUse(pg) \ {m}
         /\ \A s \in Begun(pg) : Past(z, s) = Past(pg, s)
         /\ Chopped(z) /\ Cardinality(Room(z)) = Cardinality(Room(pg)) + 1 + pg.meta[m].size
  <1>1. Begun(z) = Begun(pg)
    BY DEF Begun
  <1>2. Loose(z) = Loose(pg) \cup {m} /\ InUse(z) = InUse(pg) \ {m}
    BY <1>1 DEF Loose, InUse, Begun
  <1>3. \A s \in Begun(pg) : Past(z, s) = Past(pg, s)
    BY DEF Begun, Past
  <1>4. Chopped(z)
    BY <1>1, <1>3 DEF Chopped
  <1>5. m \in Begun(pg) /\ m \notin Loose(pg) /\ Loose(pg) \subseteq Begun(pg)
    BY DEF InUse, Loose
  <1> DEFINE e == Past(pg, m)
  <1>6. /\ m \in Int /\ e \in Int /\ m < e /\ e <= PAGE_SIZE /\ PAGE_HEAD_SIZE <= m
        /\ e - m = 1 + pg.meta[m].size /\ pg.meta[m].size \in Nat
    BY <1>5, ChunkFacts
  <1>7. Room(z) = Room(pg) \cup (m..e - 1)
    <2>1. \A u \in Spots : u \in m..e - 1 <=> m <= u /\ u < e
      BY <1>6, SpotNumbers
    <2>2. m..e - 1 \subseteq Spots
      BY <1>6, SpotNumbers
    <2>3. \A u \in Spots : (\E s \in Loose(z) : s <= u /\ u < Past(z, s))
                             <=> (\E s \in Loose(pg) : s <= u /\ u < Past(pg, s)) \/ (m <= u /\ u < e)
      BY <1>2, <1>3, <1>5
    <2> QED BY <2>1, <2>2, <2>3 DEF Room
  <1>8. Room(pg) \cap (m..e - 1) = {}
    <2> SUFFICES ASSUME NEW u \in Room(pg), u \in m..e - 1 PROVE FALSE
      OBVIOUS
    <2>1. PICK s \in Loose(pg) : s <= u /\ u < Past(pg, s)
      BY DEF Room
    <2>2. s \in Begun(pg) /\ s # m /\ u \in Int /\ m <= u /\ u < e
      BY <1>5, <1>6
    <2>3. s \in Int /\ Past(pg, s) \in Int
      BY <2>2, ChunkFacts
    <2>4. s < m => Past(pg, s) <= m
      BY <1>5, <2>2 DEF Chopped
    <2>5. m < s => e <= s
      BY <1>5, <2>2 DEF Chopped
    <2> QED BY <1>6, <2>1, <2>2, <2>3, <2>4, <2>5
  <1>9. Cardinality(Room(z)) = Cardinality(Room(pg)) + 1 + pg.meta[m].size
    <2>1. Room(pg) \in SUBSET Spots
      BY DEF Room
    <2>2. Cardinality(Room(pg)) \in Nat /\ Cardinality(Room(z)) = Cardinality(Room(pg)) + (e - m)
      <3>1. PICK R, h : R = Room(pg) /\ h = e
        OBVIOUS
      <3>2. R \in SUBSET Spots /\ h \in Int /\ m <= h /\ R \cap (m..h - 1) = {} /\ Room(z) = R \cup (m..h - 1)
        BY <1>6, <1>7, <1>8, <2>1, <3>1
      <3>3. Cardinality(R \cup (m..h - 1)) = Cardinality(R) + (h - m)
        BY <1>6, <3>2, IntervalAdds
      <3> QED BY <3>1, <3>2, <3>3, RoomFinite
    <2> QED BY <1>6, <2>2
  <1> QED BY <1>1, <1>2, <1>3, <1>4, <1>9

(* The chunk b behind a becomes part of it.                                *)
Fused(q, z, a, b) ==
  \A t \in Spots :
    /\ q.meta[t].size = IF t = a THEN z.meta[a].size + 1 + z.meta[b].size
                        ELSE IF t = b THEN -1 ELSE z.meta[t].size
    /\ q.meta[t].alloc = z.meta[t].alloc

LEMMA FusedIs ==
  ASSUME NEW z \in PageType, NEW q \in PageType, Chopped(z), NEW a \in Loose(z), NEW b \in Loose(z),
         Past(z, a) = b, Fused(q, z, a, b)
  PROVE  /\ Begun(q) = Begun(z) \ {b} /\ Loose(q) = Loose(z) \ {b} /\ InUse(q) = InUse(z)
         /\ Past(q, a) = Past(z, b) /\ \A s \in Begun(z) \ {a, b} : Past(q, s) = Past(z, s)
         /\ Chopped(q) /\ Room(q) = Room(z)
  <1>1. a \in Begun(z) /\ b \in Begun(z) /\ a \in Spots /\ b \in Spots
    BY DEF Loose, Begun
  <1>2. \A s \in Begun(z) : /\ s \in Spots /\ s \in Int /\ s > 0 /\ PAGE_HEAD_SIZE <= s /\ z.meta[s].size \in Nat
                            /\ Past(z, s) \in Int /\ s < Past(z, s) /\ Past(z, s) <= PAGE_SIZE
                            /\ Past(z, s) = s + 1 + z.meta[s].size
    BY ChunkFacts
  <1>3. a < b /\ a \in Int /\ b \in Int
    <2>1. a \in Int /\ Past(z, a) \in Int /\ a < Past(z, a)
      BY <1>1, <1>2
    <2> QED BY <2>1
  <1>4. Begun(q) = Begun(z) \ {b}
    <2>1. z.meta[a].size \in Nat /\ z.meta[b].size \in Nat /\ a # b
      BY <1>1, <1>2, <1>3
    <2>2. z.meta[a].size + 1 + z.meta[b].size >= 0
      BY <2>1
    <2>3. \A s \in Spots : q.meta[s].size >= 0 <=> (z.meta[s].size >= 0 /\ s # b)
      BY <1>1, <2>1, <2>2 DEF Fused
    <2> QED BY <2>3 DEF Begun
  <1>5. Loose(q) = Loose(z) \ {b} /\ InUse(q) = InUse(z)
    <2>1. \A s \in Spots : q.meta[s].alloc = z.meta[s].alloc
      BY DEF Fused
    <2>2. ~z.meta[b].alloc
      BY DEF Loose
    <2> QED BY <1>2, <1>4, <2>1, <2>2 DEF Loose, InUse
  <1>6. Past(q, a) = Past(z, b)
    BY <1>1, <1>2 DEF Fused, Past
  <1>7. \A s \in Begun(z) \ {a, b} : Past(q, s) = Past(z, s)
    BY <1>2 DEF Fused, Past
  <1>8. Chopped(q)
    <2>1. PAGE_HEAD_SIZE \in Begun(q)
      BY <1>1, <1>2, <1>3, <1>4, SpotNumbers DEF Chopped
    <2>2. ASSUME NEW s \in Begun(q) PROVE Past(q, s) = PAGE_SIZE \/ Past(q, s) \in Begun(q)
      <3>1. CASE s = a
        BY <1>1, <1>2, <1>4, <1>6, <3>1 DEF Chopped
      <3>2. CASE s # a
        <4>1. s \in Begun(z) /\ s # b /\ Past(q, s) = Past(z, s)
          BY <1>4, <1>7, <3>2
        <4>2. Past(z, s) # b
          BY <1>1, <1>2, <1>3, <3>2, <4>1 DEF Chopped
        <4> QED BY <1>4, <4>1, <4>2 DEF Chopped
      <3> QED BY <3>1, <3>2
    <2>3. ASSUME NEW s \in Begun(q), NEW t \in Begun(q), s < t PROVE Past(q, s) <= t
      <3>1. s \in Begun(z) /\ t \in Begun(z) /\ s # b /\ t # b
        BY <1>4
      <3>2. CASE s = a
        <4>1. b <= t
          BY <1>1, <2>3, <3>1, <3>2 DEF Chopped
        <4>2. b < t
          BY <1>2, <1>3, <3>1, <4>1
        <4> QED BY <1>1, <1>6, <3>1, <3>2, <4>2 DEF Chopped
      <3>3. CASE s # a
        BY <1>7, <2>3, <3>1, <3>3 DEF Chopped
      <3> QED BY <3>2, <3>3
    <2> QED BY <2>1, <2>2, <2>3 DEF Chopped
  <1>9. Room(q) = Room(z)
    <2>1. ASSUME NEW u \in Spots
          PROVE  (\E s \in Loose(q) : s <= u /\ u < Past(q, s)) <=> (\E s \in Loose(z) : s <= u /\ u < Past(z, s))
      <3>0. Loose(z) \subseteq Begun(z) /\ u \in Int
        BY SpotNumbers DEF Loose
      <3>1. ASSUME NEW s \in Loose(q), s <= u, u < Past(q, s)
            PROVE  \E r \in Loose(z) : r <= u /\ u < Past(z, r)
        <4>1. CASE s = a
          <5>1. u < b \/ b <= u
            BY <1>1, <1>2, <3>0
          <5> QED BY <1>1, <1>6, <3>1, <4>1, <5>1
        <4>2. CASE s # a
          BY <1>5, <1>7, <3>0, <3>1, <4>2
        <4> QED BY <4>1, <4>2
      <3>2. ASSUME NEW s \in Loose(z), s <= u, u < Past(z, s)
            PROVE  \E r \in Loose(q) : r <= u /\ u < Past(q, r)
        <4>0. a \in Loose(q) /\ a # b
          BY <1>1, <1>2, <1>3, <1>5
        <4>1. CASE s = a
          <5>1. u < Past(q, a)
            BY <1>1, <1>2, <1>6, <3>0, <3>2, <4>1
          <5> QED BY <3>2, <4>0, <4>1, <5>1
        <4>2. CASE s = b
          <5>1. a <= u
            BY <1>3, <3>0, <3>2, <4>2
          <5> QED BY <1>6, <3>2, <4>0, <4>2, <5>1
        <4>3. CASE s # a /\ s # b
          BY <1>5, <1>7, <3>0, <3>2, <4>3
        <4> QED BY <4>1, <4>2, <4>3
      <3> QED BY <3>1, <3>2
    <2> QED BY <2>1 DEF Room
  <1> QED BY <1>4, <1>5, <1>6, <1>7, <1>8, <1>9

(* The chunk m is cut in two, the second of which begins at r.             *)
CutAt(q, z, m, used, r) ==
  /\ q.meta[m].size = used /\ q.meta[m].alloc = z.meta[m].alloc
  /\ q.meta[r].size = z.meta[m].size - used - 1 /\ ~q.meta[r].alloc
  /\ \A t \in Spots \ {m, r} : q.meta[t].size = z.meta[t].size /\ q.meta[t].alloc = z.meta[t].alloc

LEMMA CutIs ==
  ASSUME NEW z \in PageType, NEW q \in PageType, Chopped(z), Quiet(z), NEW m \in Loose(z), NEW used \in Nat,
         used + 1 <= z.meta[m].size, NEW r, r = m + 1 + used,
         CutAt(q, z, m, used, r)
  PROVE  /\ r \in Spots /\ r \notin Begun(z) /\ r # m
         /\ Begun(q) = Begun(z) \cup {r} /\ Loose(q) = Loose(z) \cup {r} /\ InUse(q) = InUse(z)
         /\ Past(q, m) = r /\ Past(q, r) = Past(z, m)
         /\ \A s \in Begun(z) \ {m} : Past(q, s) = Past(z, s)
         /\ Chopped(q) /\ Room(q) = Room(z)
  <1>1. m \in Begun(z) /\ m \in Spots
    BY DEF Loose, Begun
  <1>2. \A s \in Begun(z) : /\ s \in Spots /\ s \in Int /\ s > 0 /\ PAGE_HEAD_SIZE <= s /\ z.meta[s].size \in Nat
                            /\ Past(z, s) \in Int /\ s < Past(z, s) /\ Past(z, s) <= PAGE_SIZE
                            /\ Past(z, s) = s + 1 + z.meta[s].size
    BY ChunkFacts
  <1>3. /\ r \in Int /\ m \in Int /\ m < r /\ r < Past(z, m) /\ r \in Spots /\ z.meta[m].size \in Nat
        /\ Past(z, m) = r + 1 + (z.meta[m].size - used - 1) /\ z.meta[m].size - used - 1 \in Nat
    <2>1. /\ m \in Int /\ z.meta[m].size \in Nat /\ Past(z, m) = m + 1 + z.meta[m].size
          /\ Past(z, m) <= PAGE_SIZE /\ PAGE_HEAD_SIZE <= m
      BY <1>1, <1>2
    <2>2. r \in Int /\ m < r /\ r < Past(z, m)
      BY <2>1
    <2>3. r \in Spots
      BY <2>1, <2>2, SpotNumbers
    <2> QED BY <2>1, <2>2, <2>3
  <1>4. r \notin Begun(z)
    <2> SUFFICES ASSUME r \in Begun(z) PROVE FALSE
      OBVIOUS
    <2>1. Past(z, m) <= r /\ Past(z, m) \in Int
      BY <1>1, <1>2, <1>3 DEF Chopped
    <2> QED BY <1>3, <2>1
  <1>5. Begun(q) = Begun(z) \cup {r}
    <2>1. q.meta[m].size >= 0 /\ q.meta[r].size >= 0 /\ z.meta[m].size >= 0
      <3>1. q.meta[m].size \in Nat /\ q.meta[r].size \in Nat /\ z.meta[m].size \in Nat
        BY <1>3 DEF CutAt
      <3> QED BY <3>1
    <2>2. \A s \in Spots \ {m, r} : q.meta[s].size = z.meta[s].size
      BY DEF CutAt
    <2> QED BY <1>1, <1>3, <2>1, <2>2 DEF Begun
  <1>6. Loose(q) = Loose(z) \cup {r} /\ InUse(q) = InUse(z)
    <2>1. ~q.meta[r].alloc /\ \A s \in Begun(z) : q.meta[s].alloc = z.meta[s].alloc
      BY <1>4 DEF CutAt, Begun
    <2> QED BY <1>4, <1>5, <2>1 DEF Loose, InUse
  <1>7. Past(q, m) = r /\ Past(q, r) = Past(z, m)
    <2>1. q.meta[m].size = used /\ q.meta[r].size = z.meta[m].size - used - 1
      BY DEF CutAt
    <2> QED BY <1>3, <2>1 DEF Past
  <1>8. \A s \in Begun(z) \ {m} : Past(q, s) = Past(z, s)
    BY <1>2, <1>4 DEF CutAt, Past
  <1>9. Chopped(q)
    <2>1. PAGE_HEAD_SIZE \in Begun(q)
      BY <1>5 DEF Chopped
    <2>2. ASSUME NEW s \in Begun(q) PROVE Past(q, s) = PAGE_SIZE \/ Past(q, s) \in Begun(q)
      BY <1>1, <1>5, <1>7, <1>8 DEF Chopped
    <2>3. ASSUME NEW s \in Begun(q), NEW t \in Begun(q), s < t PROVE Past(q, s) <= t
      <3>1. CASE s \in Begun(z) \ {m} /\ t \in Begun(z)
        BY <1>8, <2>3, <3>1 DEF Chopped
      <3>2. CASE s \in Begun(z) \ {m} /\ t = r
        <4>1. s \in Int /\ (s < m \/ m < s)
          <5>1. s \in Int /\ s # m /\ m \in Int
            BY <1>2, <1>3, <3>2
          <5> QED BY <5>1
        <4>2. m < s => Past(z, m) <= s
          BY <1>1, <3>2 DEF Chopped
        <4>3. s < m /\ Past(z, m) \in Int
          <5>1. Past(z, m) \in Int
            BY <1>1, <1>2
          <5> QED BY <1>3, <2>3, <3>2, <4>1, <4>2, <5>1
        <4>4. Past(q, s) <= m /\ Past(q, s) \in Int
          BY <1>1, <1>2, <1>8, <3>2, <4>3 DEF Chopped
        <4> QED BY <1>3, <3>2, <4>4
      <3>3. CASE s = m
        <4>1. t = r \/ t \in Begun(z)
          BY <1>5
        <4>2. t \in Begun(z) => Past(z, m) <= t /\ t \in Int /\ Past(z, m) \in Int
          BY <1>1, <1>2, <2>3, <3>3 DEF Chopped
        <4> QED BY <1>3, <1>7, <3>3, <4>1, <4>2
      <3>4. CASE s = r
        <4>1. t \in Begun(z) /\ t \in Int /\ m < t
          BY <1>2, <1>3, <1>5, <2>3, <3>4
        <4> QED BY <1>1, <1>7, <3>4, <4>1 DEF Chopped
      <3> QED BY <1>5, <3>1, <3>2, <3>3, <3>4
    <2> QED BY <2>1, <2>2, <2>3 DEF Chopped
  <1>10. Room(z) = Room(q)
    <2>1. m \in Loose(q) /\ r \in Loose(q)
      BY <1>6
    <2>2. Fused(z, q, m, r)
      <3>1. z.meta[r].size = -1 /\ ~z.meta[r].alloc
        BY <1>3, <1>4 DEF PageType, Metas, Begun, Quiet
      <3>2. q.meta[m].size + 1 + q.meta[r].size = z.meta[m].size
        BY <1>3 DEF CutAt
      <3>3. \A t \in Spots : z.meta[t].alloc \in BOOLEAN /\ q.meta[t].alloc \in BOOLEAN
        BY DEF PageType, Metas
      <3>4. \A t \in Spots : z.meta[t].size = IF t = m THEN q.meta[m].size + 1 + q.meta[r].size
                                               ELSE IF t = r THEN -1 ELSE q.meta[t].size
        BY <3>1, <3>2 DEF CutAt
      <3>5. \A t \in Spots : z.meta[t].alloc = q.meta[t].alloc
        BY <1>3, <3>1, <3>3 DEF CutAt
      <3> QED BY <3>4, <3>5 DEF Fused
    <2> QED BY <1>7, <1>9, <2>1, <2>2, FusedIs
  <1> QED BY <1>1, <1>3, <1>4, <1>5, <1>6, <1>7, <1>8, <1>9, <1>10

(* The meta at m of a page, and the number of free units, are changed.     *)
PutMeta(pg, m, v, n) == [pg EXCEPT !.meta = [pg.meta EXCEPT ![m] = v], !.remain = n]
Put(q, pg, m, v, n) ==
  /\ q \in PageType /\ q.remain = n /\ q.free = pg.free /\ q.meta[m] = v
  /\ \A t \in Spots \ {m} : q.meta[t] = pg.meta[t]

LEMMA PutMetaIs ==
  ASSUME NEW pg \in PageType, NEW m \in Spots, NEW v \in Metas, NEW n \in Int
  PROVE  Put(PutMeta(pg, m, v, n), pg, m, v, n)
  BY DEF PageType, PutMeta, Put

LEMMA PageIs ==
  ASSUME NEW pg \in PageType
  PROVE  /\ pg = [free |-> pg.free, remain |-> pg.remain, meta |-> pg.meta]
         /\ pg.free \in Int /\ pg.remain \in Int
         /\ \A t \in Spots : /\ pg.meta[t] \in Metas /\ pg.meta[t].size \in Nat \cup {-1}
                             /\ pg.meta[t].alloc \in BOOLEAN
                             /\ pg.meta[t].next \in Int /\ pg.meta[t].prev \in Int
  BY DEF PageType, Metas

(* The free chunk m of z, no longer on the list of out, is given away.     *)
GiveAway(out, m) ==
  [out EXCEPT !.meta[m] = [out.meta[m] EXCEPT !.alloc = TRUE, !.next = -1, !.prev = -1],
              !.remain = @ - 1 - out.meta[m].size]
Parted(z, F) == \A s \in F : Past(z, s) \notin F
SameChunks(out, z) ==
  \A t \in Spots : out.meta[t].size = z.meta[t].size /\ out.meta[t].alloc = z.meta[t].alloc
Unlinks(out, z) == \A t \in Spots \ Loose(z) : out.meta[t].next = -1 /\ out.meta[t].prev = -1

Given(q, out, m) ==
  /\ q \in PageType /\ q.free = out.free /\ q.remain = out.remain - 1 - out.meta[m].size
  /\ q.meta[m].size = out.meta[m].size /\ q.meta[m].alloc
  /\ q.meta[m].next = -1 /\ q.meta[m].prev = -1
  /\ \A t \in Spots \ {m} : q.meta[t] = out.meta[t]

LEMMA GiveAwayIs ==
  ASSUME NEW out \in PageType, NEW m \in Spots
  PROVE  Given(GiveAway(out, m), out, m)
  <1> DEFINE v == [out.meta[m] EXCEPT !.alloc = TRUE, !.next = -1, !.prev = -1]
             n == out.remain - 1 - out.meta[m].size
  <1>1. v \in Metas /\ v.size = out.meta[m].size /\ v.alloc /\ v.next = -1 /\ v.prev = -1
    <2>1. PICK w \in Metas : w = out.meta[m]
      BY PageIs
    <2>2. PICK x : x = [w EXCEPT !.alloc = TRUE, !.next = -1, !.prev = -1]
      OBVIOUS
    <2>3. x = [size |-> w.size, alloc |-> TRUE, next |-> -1, prev |-> -1]
      BY <2>2 DEF Metas
    <2>4. x \in Metas /\ x.size = w.size /\ x.alloc /\ x.next = -1 /\ x.prev = -1
      BY <2>3 DEF Metas
    <2> QED BY <2>1, <2>2, <2>4
  <1>2. n \in Int
    BY PageIs
  <1>3. GiveAway(out, m) = PutMeta(out, m, v, n)
    BY DEF GiveAway, PutMeta
  <1> HIDE DEF v
  <1>4. n = out.remain - 1 - out.meta[m].size
    OBVIOUS
  <1> HIDE DEF n
  <1>5. Put(GiveAway(out, m), out, m, v, n)
    BY <1>1, <1>2, <1>3, PutMetaIs
  <1> QED BY <1>1, <1>4, <1>5 DEF Given, Put

LEMMA GivenAway ==
  ASSUME NEW z \in PageType, Chopped(z), Quiet(z), NEW m \in Loose(z), NEW out \in PageType,
         SameChunks(out, z), Unlinks(out, z),
         Parted(z, Loose(z) \ {m}),
         Strung(Loose(z) \ {m}, out), out.remain = Cardinality(Room(z)),
         NEW q, q = GiveAway(out, m)
  PROVE  /\ PageInv(q) /\ InUse(q) = InUse(z) \cup {m}
         /\ \A t \in Spots : q.meta[t].size = z.meta[t].size
  <1>1. m \in Begun(z) /\ m \in Spots /\ ~z.meta[m].alloc
    BY DEF Loose, Begun
  <1>a. Given(q, out, m)
    BY <1>1, GiveAwayIs
  <1>2. q \in PageType /\ q.free = out.free /\ q.remain = out.remain - 1 - out.meta[m].size
    BY <1>a DEF Given
  <1>3. \A t \in Spots : /\ q.meta[t].size = out.meta[t].size
                         /\ q.meta[t].alloc = (t = m \/ out.meta[t].alloc)
                         /\ q.meta[t].next = IF t = m THEN -1 ELSE out.meta[t].next
                         /\ q.meta[t].prev = IF t = m THEN -1 ELSE out.meta[t].prev
    <2>1. \A t \in Spots : q.meta[t].alloc \in BOOLEAN /\ out.meta[t].alloc \in BOOLEAN
      BY <1>2, PageIs
    <2> QED BY <1>a, <2>1 DEF Given
  <1>4. \A t \in Spots : q.meta[t].size = z.meta[t].size /\ z.meta[t].size = q.meta[t].size
    BY <1>3 DEF SameChunks
  <1>5. \A t \in Spots : z.meta[t].alloc = (q.meta[t].alloc /\ t # m)
    <2>1. \A t \in Spots : z.meta[t].alloc \in BOOLEAN
      BY DEF PageType, Metas
    <2> QED BY <1>1, <1>3, <2>1 DEF SameChunks
  <1>6. Begun(q) = Begun(z)
    BY <1>4 DEF Begun
  <1>7. Chopped(q)
    <2>1. \A s \in Begun(z) : Past(q, s) = Past(z, s)
      BY <1>4 DEF Past, Begun
    <2> QED BY <1>6, <2>1 DEF Chopped
  <1>8. m \in InUse(q)
    BY <1>1, <1>3, <1>6 DEF InUse
  <1>9. /\ Loose(z) = Loose(q) \cup {m} /\ InUse(z) = InUse(q) \ {m}
        /\ \A s \in Begun(q) : Past(z, s) = Past(q, s)
        /\ Cardinality(Room(z)) = Cardinality(Room(q)) + 1 + q.meta[m].size
    BY <1>2, <1>4, <1>5, <1>7, <1>8, RoomWith
  <1>10. m \notin Loose(q) /\ Loose(q) = Loose(z) \ {m}
    <2>1. m \notin Loose(q)
      BY <1>8 DEF InUse, Loose
    <2> QED BY <1>9, <2>1
  <1>11. Quiet(q)
    <2>1. ASSUME NEW s \in Spots, q.meta[s].size = -1 PROVE ~q.meta[s].alloc
      <3>1. z.meta[s].size = -1 /\ ~z.meta[s].alloc
        BY <1>4, <2>1 DEF Quiet
      <3>2. s # m
        BY <1>1, <3>1 DEF Begun
      <3> QED BY <1>5, <3>1, <3>2
    <2>2. ASSUME NEW s \in Spots, s \notin Loose(q) PROVE q.meta[s].next = -1 /\ q.meta[s].prev = -1
      BY <1>3, <1>10, <2>2 DEF Unlinks
    <2> QED BY <2>1, <2>2 DEF Quiet
  <1>12. Apart(q)
    BY <1>6, <1>9, <1>10 DEF Apart, Parted, Loose
  <1>13. Strung(Loose(q), q)
    <2>1. \A t \in Loose(q) : q.meta[t].next = out.meta[t].next /\ q.meta[t].prev = out.meta[t].prev
      BY <1>3, <1>10 DEF Loose, Begun
    <2> QED BY <1>2, <1>10, <2>1, StrungSame
  <1>14. q.remain = Cardinality(Room(q))
    <2>2. Cardinality(Room(q)) \in Nat
      BY RoomFinite
    <2>3. q.meta[m].size \in Nat /\ out.meta[m].size = q.meta[m].size
      BY <1>1, <1>3, <1>4, ChunkFacts
    <2> QED BY <1>2, <1>9, <2>2, <2>3
  <1>15. InUse(q) = InUse(z) \cup {m}
    BY <1>8, <1>9
  <1> QED BY <1>2, <1>4, <1>7, <1>11, <1>12, <1>13, <1>14, <1>15 DEF PageInv

(* A chunk that just fits leaves the list.                                 *)
LEMMA TakenWhole ==
  ASSUME NEW pg, PageInv(pg), NEW m \in Loose(pg), NEW q, q = GiveAway(Sl!_slab_free_erase(pg, m), m)
  PROVE  /\ PageInv(q) /\ InUse(q) = InUse(pg) \cup {m}
         /\ \A t \in Spots : q.meta[t].size = pg.meta[t].size
  <1> DEFINE out == Sl!_slab_free_erase(pg, m)
             next == pg.meta[m].next
             prev == pg.meta[m].prev
  <1>1. pg \in PageType /\ Quiet(pg) /\ Chopped(pg) /\ Apart(pg) /\ Strung(Loose(pg), pg)
        /\ pg.remain = Cardinality(Room(pg))
    BY DEF PageInv
  <1>2. /\ next \in Loose(pg) \cup {-1} /\ prev \in Loose(pg) \cup {-1}
        /\ next # m /\ prev # m /\ (next # prev \/ next = -1) /\ m \in Spots
        /\ \A t \in Loose(pg) : t \in Spots
    BY <1>1, StrungBack
  <1>3. Unlinked(out, pg, m)
    BY <1>1, <1>2, EraseIs
  <1>4. out \in PageType /\ out.remain = pg.remain /\ SameChunks(out, pg)
    BY <1>3 DEF Unlinked, SameChunks
  <1>5. Unlinks(out, pg)
    <2> SUFFICES ASSUME NEW t \in Spots \ Loose(pg) PROVE out.meta[t].next = -1 /\ out.meta[t].prev = -1
      BY DEF Unlinks
    <2>1. pg.meta[t].next = -1 /\ pg.meta[t].prev = -1 /\ t # -1
      BY <1>1, SpotNumbers DEF Quiet
    <2>2. t # next /\ t # prev
      BY <1>2, <2>1
    <2> QED BY <1>3, <2>1, <2>2 DEF Unlinked
  <1>6. Strung(Loose(pg) \ {m}, out)
    BY <1>1, <1>3, StrungUnlinked
  <1>7. Parted(pg, Loose(pg) \ {m})
    BY <1>1 DEF Apart, Parted
  <1>8. q = GiveAway(out, m)
    OBVIOUS
  <1> HIDE DEF out
  <1> QED BY <1>1, <1>4, <1>5, <1>6, <1>7, <1>8, GivenAway

(* A larger one is cut, and what is left takes its place on the list.      *)
SplitPage(pg, m, used) ==
  [pg EXCEPT !.meta[m + 1 + used] = [Sl!Blank EXCEPT !.size = pg.meta[m].size - used - 1],
             !.meta[m].size = used]

LEMMA BlankIs == Sl!Blank \in Metas /\ Sl!Blank.size = -1 /\ ~Sl!Blank.alloc
  <1>1. Sl!Blank = [size |-> -1, alloc |-> FALSE, next |-> -1, prev |-> -1]
    BY DEF Sl!Blank
  <1>2. -1 \in Nat \cup {-1} /\ -1 \in Int /\ FALSE \in BOOLEAN
    OBVIOUS
  <1>3. \A n \in Nat \cup {-1}, b \in BOOLEAN, i \in Int :
          [size |-> n, alloc |-> b, next |-> i, prev |-> i] \in Metas
    BY DEF Metas
  <1>4. Sl!Blank \in Metas
    BY <1>1, <1>2, <1>3, Zenon
  <1>5. Sl!Blank.size = -1 /\ ~Sl!Blank.alloc
    BY <1>1
  <1> QED BY <1>4, <1>5

LEMMA SplitPageIs ==
  ASSUME NEW pg \in PageType, NEW m \in Spots, NEW used \in Nat, NEW r \in Spots, r = m + 1 + used, r # m,
         pg.meta[m].size - used - 1 \in Nat, pg.meta[m].size \in Nat
  PROVE  LET q == SplitPage(pg, m, used) IN
           /\ q \in PageType /\ q.free = pg.free /\ q.remain = pg.remain /\ CutAt(q, pg, m, used, r)
           /\ \A t \in Spots : t # r => q.meta[t].next = pg.meta[t].next /\ q.meta[t].prev = pg.meta[t].prev
  <1> DEFINE v == [Sl!Blank EXCEPT !.size = pg.meta[m].size - used - 1]
             w == [pg.meta[m] EXCEPT !.size = used]
  <1>1. v \in Metas /\ v.size = pg.meta[m].size - used - 1 /\ ~v.alloc
    <2>a. Sl!Blank \in Metas /\ ~Sl!Blank.alloc
      BY BlankIs
    <2>1. PICK x \in Metas : x = Sl!Blank /\ ~x.alloc
      BY <2>a
    <2>2. PICK n \in Nat : n = pg.meta[m].size - used - 1
      OBVIOUS
    <2>3. PICK y : y = [x EXCEPT !.size = n]
      OBVIOUS
    <2>4. y \in Metas /\ y.size = n /\ y.alloc = x.alloc
      BY <2>3 DEF Metas
    <2>5. v = y
      BY <2>1, <2>2, <2>3
    <2> QED BY <2>1, <2>2, <2>4, <2>5
  <1>2. /\ w \in Metas /\ w.size = used /\ w.alloc = pg.meta[m].alloc
        /\ w.next = pg.meta[m].next /\ w.prev = pg.meta[m].prev
    <2>1. PICK x \in Metas : x = pg.meta[m]
      BY PageIs
    <2>2. PICK y : y = [x EXCEPT !.size = used]
      OBVIOUS
    <2>3. y \in Metas /\ y.size = used /\ y.alloc = x.alloc /\ y.next = x.next /\ y.prev = x.prev
      BY <2>2 DEF Metas
    <2> QED BY <2>1, <2>2, <2>3
  <1>3. SplitPage(pg, m, used) = PutMeta(PutMeta(pg, r, v, pg.remain), m, w, PutMeta(pg, r, v, pg.remain).remain)
    BY DEF SplitPage, PutMeta, PageType
  <1> HIDE DEF v, w
  <1>a. PICK a : a = PutMeta(pg, r, v, pg.remain)
    OBVIOUS
  <1>b. PICK b : b = PutMeta(a, m, w, a.remain)
    OBVIOUS
  <1>4. Put(a, pg, r, v, pg.remain)
    BY <1>1, <1>a, PageIs, PutMetaIs
  <1>5. Put(b, a, m, w, a.remain)
    <2>1. a \in PageType /\ a.remain \in Int
      BY <1>4, PageIs DEF Put
    <2> QED BY <1>2, <1>b, <2>1, PutMetaIs
  <1>c. b \in PageType /\ b.free = pg.free /\ b.remain = pg.remain
    BY <1>4, <1>5 DEF Put
  <1>6. CutAt(b, pg, m, used, r)
    BY <1>1, <1>2, <1>4, <1>5 DEF CutAt, Put
  <1>7. \A t \in Spots : t # r => b.meta[t].next = pg.meta[t].next /\ b.meta[t].prev = pg.meta[t].prev
    BY <1>2, <1>4, <1>5 DEF Put
  <1>8. SplitPage(pg, m, used) = b
    BY <1>3, <1>a, <1>b
  <1> QED BY <1>c, <1>6, <1>7, <1>8

LEMMA TakenPart ==
  ASSUME NEW pg, PageInv(pg), NEW m \in Loose(pg), NEW sz \in Nat, sz + 1 < pg.meta[m].size,
         NEW q, q = GiveAway(Sl!_slab_free_split(pg, m, sz), m)
  PROVE  /\ PageInv(q) /\ InUse(q) = InUse(pg) \cup {m}
         /\ \A t \in InUse(pg) : q.meta[t].size = pg.meta[t].size
         /\ q.meta[m].size = sz
  <1> DEFINE r == m + 1 + sz
             half == SplitPage(pg, m, sz)
             out == Sl!_slab_free_replace(half, m, r)
             next == pg.meta[m].next
             prev == pg.meta[m].prev
  <1>1. pg \in PageType /\ Quiet(pg) /\ Chopped(pg) /\ Apart(pg) /\ Strung(Loose(pg), pg)
        /\ pg.remain = Cardinality(Room(pg))
    BY DEF PageInv
  <1>2. /\ next \in Loose(pg) \cup {-1} /\ prev \in Loose(pg) \cup {-1}
        /\ next # m /\ prev # m /\ m \in Spots
        /\ \A t \in Loose(pg) : t \in Spots /\ t \in Begun(pg)
    BY <1>1, StrungBack DEF Loose
  <1>3. Sl!_slab_free_split(pg, m, sz) = out
    BY DEF Sl!_slab_free_split, SplitPage, Sl!META_SIZE
  <1>4. /\ m \in Int /\ pg.meta[m].size \in Nat /\ pg.meta[m].size - sz - 1 \in Nat
        /\ sz + 1 <= pg.meta[m].size /\ r \in Spots /\ r # m /\ r \in Int /\ m < r /\ r < Past(pg, m)
    <2>1. /\ m \in Int /\ pg.meta[m].size \in Nat /\ Past(pg, m) = m + 1 + pg.meta[m].size
          /\ Past(pg, m) <= PAGE_SIZE /\ PAGE_HEAD_SIZE <= m /\ Past(pg, m) \in Int
      BY <1>1, <1>2, ChunkFacts
    <2>2. pg.meta[m].size - sz - 1 \in Nat /\ sz + 1 <= pg.meta[m].size /\ r \in Int /\ m < r /\ r < Past(pg, m)
      BY <2>1
    <2>3. r \in Spots
      BY <2>1, <2>2, SpotNumbers
    <2> QED BY <2>1, <2>2, <2>3
  <1>5. PICK h : h = r
    OBVIOUS
  <1>6. /\ half \in PageType /\ half.free = pg.free /\ half.remain = pg.remain /\ CutAt(half, pg, m, sz, h)
        /\ \A t \in Spots : t # h => half.meta[t].next = pg.meta[t].next /\ half.meta[t].prev = pg.meta[t].prev
    BY <1>1, <1>2, <1>4, <1>5, SplitPageIs
  <1>a. h \in Spots /\ h # m /\ h \in Int /\ m < h /\ h < Past(pg, m) /\ out = Sl!_slab_free_replace(half, m, h)
    BY <1>4, <1>5
  <1>b. h = m + 1 + sz
    BY <1>5
  <1> HIDE DEF half, r, out
  <1>7. /\ h \notin Begun(pg) /\ Begun(half) = Begun(pg) \cup {h} /\ Loose(half) = Loose(pg) \cup {h}
        /\ InUse(half) = InUse(pg) /\ Past(half, m) = h /\ Past(half, h) = Past(pg, m)
        /\ \A s \in Begun(pg) \ {m} : Past(half, s) = Past(pg, s)
        /\ Chopped(half) /\ Room(half) = Room(pg)
    BY <1>1, <1>4, <1>6, <1>b, CutIs
  <1>8. Strung(Loose(pg), half)
    <2>1. \A t \in Loose(pg) : half.meta[t].next = pg.meta[t].next /\ half.meta[t].prev = pg.meta[t].prev
      BY <1>2, <1>6, <1>7
    <2> QED BY <1>1, <1>6, <2>1, StrungSame
  <1>9. half.meta[m].next = next /\ half.meta[m].prev = prev
    BY <1>2, <1>6, <1>a
  <1>10. Replaced(out, half, m, h)
    <2>1. h # next /\ h # prev
      <3>1. h # -1
        BY <1>a, SpotNumbers
      <3> QED BY <1>2, <1>7, <3>1
    <2>2. next \in Spots \cup {-1} /\ prev \in Spots \cup {-1}
      BY <1>2
    <2> QED BY <1>2, <1>6, <1>9, <1>a, <2>1, <2>2, ReplaceIs
  <1>11. out \in PageType /\ out.remain = half.remain /\ SameChunks(out, half)
    BY <1>10 DEF Replaced, SameChunks
  <1>12. Strung((Loose(pg) \ {m}) \cup {h}, out)
    <2>1. \A t \in Loose(pg) \ {m} : t < m <=> t < h
      <3> SUFFICES ASSUME NEW t \in Loose(pg), t # m PROVE t < m <=> t < h
        OBVIOUS
      <3>1. t \in Int /\ m \in Int /\ t \in Begun(pg) /\ m \in Begun(pg) /\ Past(pg, m) \in Int
        BY <1>1, <1>2, <1>4, ChunkFacts
      <3>2. m < t => Past(pg, m) <= t
        BY <1>1, <3>1 DEF Chopped
      <3> QED BY <1>a, <3>1, <3>2
    <2>2. h \notin Loose(pg)
      BY <1>2, <1>7
    <2> QED BY <1>6, <1>8, <1>10, <1>a, <2>1, <2>2, StrungReplaced
  <1>13. (Loose(pg) \ {m}) \cup {h} = Loose(half) \ {m}
    BY <1>7, <1>a
  <1>14. Quiet(half)
    <2>1. ASSUME NEW s \in Spots, half.meta[s].size = -1 PROVE ~half.meta[s].alloc
      <3>1. s # m /\ s # h
        <4>1. half.meta[m].size \in Nat /\ half.meta[h].size \in Nat
          BY <1>4, <1>6 DEF CutAt
        <4> QED BY <2>1, <4>1
      <3> QED BY <1>1, <1>6, <2>1, <3>1 DEF CutAt, Quiet
    <2>2. ASSUME NEW s \in Spots, s \notin Loose(half) PROVE half.meta[s].next = -1 /\ half.meta[s].prev = -1
      BY <1>1, <1>6, <1>7, <2>2 DEF Quiet
    <2> QED BY <2>1, <2>2 DEF Quiet
  <1>15. Unlinks(out, half)
    <2> SUFFICES ASSUME NEW t \in Spots \ Loose(half) PROVE out.meta[t].next = -1 /\ out.meta[t].prev = -1
      BY DEF Unlinks
    <2>1. half.meta[t].next = -1 /\ half.meta[t].prev = -1 /\ t # -1
      BY <1>14, SpotNumbers DEF Quiet
    <2>2. t # next /\ t # prev /\ t # h
      BY <1>2, <1>7, <2>1
    <2> QED BY <1>9, <1>10, <2>1, <2>2 DEF Replaced
  <1>16. Parted(half, Loose(half) \ {m})
    <2> SUFFICES ASSUME NEW s \in Loose(half) \ {m} PROVE Past(half, s) \notin Loose(half) \ {m}
      BY DEF Parted
    <2>1. CASE s = h
      <3>1. Past(pg, m) \notin Loose(pg) /\ Past(pg, m) # h
        BY <1>1, <1>7, <1>a DEF Apart
      <3> QED BY <1>7, <2>1, <3>1
    <2>2. CASE s # h
      <3>1. s \in Loose(pg) /\ s \in Begun(pg) /\ Past(half, s) = Past(pg, s)
        BY <1>2, <1>7, <2>2
      <3>2. Past(pg, s) \notin Loose(pg)
        BY <1>1, <3>1 DEF Apart
      <3>3. Past(pg, s) # h
        BY <1>1, <1>7, <1>a, <3>1, SpotNumbers DEF Chopped
      <3> QED BY <1>7, <3>1, <3>2, <3>3
    <2> QED BY <2>1, <2>2
  <1>17. m \in Loose(half)
    BY <1>7
  <1>18. PageInv(q) /\ InUse(q) = InUse(half) \cup {m} /\ \A t \in Spots : q.meta[t].size = half.meta[t].size
    <2>1. out.remain = Cardinality(Room(half))
      BY <1>1, <1>6, <1>7, <1>11
    <2>2. q = GiveAway(out, m) /\ Strung(Loose(half) \ {m}, out)
      BY <1>3, <1>12, <1>13
    <2> QED BY <1>6, <1>7, <1>11, <1>14, <1>15, <1>16, <1>17, <2>1, <2>2, GivenAway
  <1>19. \A t \in InUse(pg) : t \in Spots /\ t # m /\ t # h
    BY <1>7 DEF InUse, Loose, Begun
  <1> QED BY <1>2, <1>6, <1>7, <1>18, <1>19 DEF CutAt

(* _slab_alloc, once the chunk m is found.                                 *)
LEMMA TakenIs ==
  ASSUME NEW pg, PageInv(pg), NEW m \in Loose(pg), NEW sz \in Nat, sz <= pg.meta[m].size,
         NEW q, q = Sl!Taken(pg, m, sz)
  PROVE  /\ PageInv(q) /\ InUse(q) = InUse(pg) \cup {m}
         /\ \A t \in InUse(pg) : q.meta[t].size = pg.meta[t].size
         /\ sz <= q.meta[m].size
  <1>1. pg.meta[m].size \in Nat /\ m \in Spots /\ \A t \in InUse(pg) : t \in Spots
    <2>1. m \in Begun(pg) /\ pg \in PageType /\ Chopped(pg)
      BY DEF Loose, PageInv
    <2> QED BY <2>1, ChunkFacts DEF InUse, Begun
  <1>2. CASE pg.meta[m].size <= sz + 1
    <2>1. q = GiveAway(Sl!_slab_free_erase(pg, m), m)
      BY <1>2 DEF Sl!Taken, Sl!META_SIZE, GiveAway
    <2> QED BY <1>1, <2>1, TakenWhole
  <1>3. CASE ~(pg.meta[m].size <= sz + 1)
    <2>1. q = GiveAway(Sl!_slab_free_split(pg, m, sz), m)
      BY <1>3 DEF Sl!Taken, Sl!META_SIZE, GiveAway
    <2>2. sz + 1 < pg.meta[m].size
      BY <1>1, <1>3
    <2> QED BY <2>1, <2>2, TakenPart
  <1> QED BY <1>2, <1>3

(* Only the apartness of free chunks may be missing; F are the free ones   *)
(* on the list.                                                            *)
Almost(z, F) ==
  /\ z \in PageType /\ Chopped(z) /\ Strung(F, z) /\ z.remain = Cardinality(Room(z))
  /\ \A s \in Spots : /\ z.meta[s].size = -1 => ~z.meta[s].alloc
                      /\ s \notin F => z.meta[s].next = -1 /\ z.meta[s].prev = -1

(* A chunk grows, a meta is made blank.                                    *)
Grown(z, a, b) == [z EXCEPT !.meta[a].size = @ + 1 + z.meta[b].size]
Blanked(z, b) == [z EXCEPT !.meta[b] = Sl!Blank]

LEMMA GrownIs ==
  ASSUME NEW z \in PageType, NEW a \in Begun(z), NEW b \in Begun(z)
  PROVE  /\ Grown(z, a, b) \in PageType /\ Grown(z, a, b).free = z.free /\ Grown(z, a, b).remain = z.remain
         /\ Grown(z, a, b).meta[a].size = z.meta[a].size + 1 + z.meta[b].size
         /\ \A t \in Spots : /\ t # a => Grown(z, a, b).meta[t].size = z.meta[t].size
                             /\ Grown(z, a, b).meta[t].alloc = z.meta[t].alloc
                             /\ Grown(z, a, b).meta[t].next = z.meta[t].next
                             /\ Grown(z, a, b).meta[t].prev = z.meta[t].prev
  <1>1. a \in Spots /\ b \in Spots /\ z.meta[a].size \in Nat /\ z.meta[b].size \in Nat
    BY PageIs DEF Begun
  <1>2. PICK n \in Nat : n = z.meta[a].size + 1 + z.meta[b].size
    BY <1>1
  <1> DEFINE w == [z.meta[a] EXCEPT !.size = n]
  <1>3. /\ w \in Metas /\ w.size = n /\ w.alloc = z.meta[a].alloc
        /\ w.next = z.meta[a].next /\ w.prev = z.meta[a].prev
    <2>1. PICK x \in Metas : x = z.meta[a]
      BY <1>1, PageIs
    <2>2. PICK y : y = [x EXCEPT !.size = n]
      OBVIOUS
    <2>3. y \in Metas /\ y.size = n /\ y.alloc = x.alloc /\ y.next = x.next /\ y.prev = x.prev
      BY <2>2 DEF Metas
    <2> QED BY <2>1, <2>2, <2>3
  <1>4. Grown(z, a, b) = PutMeta(z, a, w, z.remain)
    BY <1>1, <1>2 DEF Grown, PutMeta, PageType
  <1> HIDE DEF w
  <1>5. PICK q : q = Grown(z, a, b)
    OBVIOUS
  <1>6. Put(q, z, a, w, z.remain)
    BY <1>1, <1>3, <1>4, <1>5, PageIs, PutMetaIs
  <1>7. q \in PageType /\ q.free = z.free /\ q.remain = z.remain /\ q.meta[a].size = n
    BY <1>3, <1>6 DEF Put
  <1>8. \A t \in Spots : /\ t # a => q.meta[t].size = z.meta[t].size
                         /\ q.meta[t].alloc = z.meta[t].alloc
                         /\ q.meta[t].next = z.meta[t].next
                         /\ q.meta[t].prev = z.meta[t].prev
    BY <1>3, <1>6 DEF Put
  <1> QED BY <1>2, <1>5, <1>7, <1>8

LEMMA BlankedIs ==
  ASSUME NEW z \in PageType, NEW b \in Spots
  PROVE  Put(Blanked(z, b), z, b, Sl!Blank, z.remain)
  <1>1. Blanked(z, b) = PutMeta(z, b, Sl!Blank, z.remain)
    BY DEF Blanked, PutMeta, PageType
  <1> QED BY <1>1, BlankIs, PageIs, PutMetaIs

(* After a chunk a swallowed its successor b, by any order of the writes.  *)
LEMMA Swallowed ==
  ASSUME NEW z, NEW F, Almost(z, F), NEW a \in Loose(z), NEW b \in Loose(z), Past(z, a) = b,
         NEW q \in PageType, Fused(q, z, a, b), q.remain = z.remain, NEW G, Strung(G, q),
         \A s \in Spots \ G : q.meta[s].next = -1 /\ q.meta[s].prev = -1
  PROVE  /\ Almost(q, G) /\ Loose(q) = Loose(z) \ {b} /\ InUse(q) = InUse(z)
         /\ Past(q, a) = Past(z, b) /\ \A s \in Begun(z) \ {a, b} : Past(q, s) = Past(z, s)
         /\ \A t \in InUse(z) : q.meta[t].size = z.meta[t].size
  <1>1. z \in PageType /\ Chopped(z)
    BY DEF Almost
  <1>2. /\ Loose(q) = Loose(z) \ {b} /\ InUse(q) = InUse(z)
        /\ Past(q, a) = Past(z, b) /\ \A s \in Begun(z) \ {a, b} : Past(q, s) = Past(z, s)
        /\ Chopped(q) /\ Room(q) = Room(z)
    BY <1>1, FusedIs
  <1>3. \A t \in InUse(z) : q.meta[t].size = z.meta[t].size
    BY DEF InUse, Loose, Begun, Fused
  <1>4. \A s \in Spots : q.meta[s].size = -1 => ~q.meta[s].alloc
    <2> SUFFICES ASSUME NEW s \in Spots, q.meta[s].size = -1 PROVE ~q.meta[s].alloc
      OBVIOUS
    <2>1. ~z.meta[a].alloc /\ ~z.meta[b].alloc /\ q.meta[s].alloc = z.meta[s].alloc
      BY DEF Loose, Fused
    <2>2. s \notin {a, b} => z.meta[s].size = -1
      BY DEF Fused
    <2> QED BY <2>1, <2>2 DEF Almost
  <1>5. Almost(q, G)
    BY <1>2, <1>4 DEF Almost
  <1> QED BY <1>2, <1>3, <1>5

(* The free chunk m swallows the one behind it, e, and takes its place.    *)
LEMMA JoinedIs ==
  ASSUME NEW z, NEW F, Almost(z, F), NEW m \in Loose(z), m \notin F, NEW e \in F, F \subseteq Loose(z),
         Past(z, m) = e,
         NEW q, q = Blanked(Sl!_slab_free_replace(Grown(z, m, e), e, m), e)
  PROVE  /\ Almost(q, (F \ {e}) \cup {m}) /\ Loose(q) = Loose(z) \ {e} /\ InUse(q) = InUse(z)
         /\ Past(q, m) = Past(z, e) /\ \A s \in Begun(z) \ {m, e} : Past(q, s) = Past(z, s)
         /\ \A t \in InUse(z) : q.meta[t].size = z.meta[t].size
         /\ q.meta[m].next = z.meta[e].next /\ q.meta[m].prev = z.meta[e].prev
  <1> DEFINE next == z.meta[e].next
             prev == z.meta[e].prev
  <1>1. PICK g : g = Grown(z, m, e)
    OBVIOUS
  <1>2. PICK r : r = Sl!_slab_free_replace(g, e, m)
    OBVIOUS
  <1>3. z \in PageType /\ Strung(F, z) /\ Chopped(z)
    BY DEF Almost
  <1>4. m \in Begun(z) /\ e \in Begun(z) /\ m \in Spots /\ e \in Spots
    BY DEF Loose, Begun
  <1>5. m \in Int /\ e \in Int /\ m < e /\ m > 0
    <2>1. m \in Int /\ m > 0 /\ e \in Int /\ Past(z, m) \in Int /\ m < Past(z, m)
      BY <1>3, <1>4, ChunkFacts
    <2> QED BY <2>1
  <1>6. /\ next \in F \cup {-1} /\ prev \in F \cup {-1} /\ next # e /\ prev # e
        /\ \A t \in F : t \in Spots
    BY <1>3, StrungBack
  <1>7. /\ g \in PageType /\ g.free = z.free /\ g.remain = z.remain
        /\ g.meta[m].size = z.meta[m].size + 1 + z.meta[e].size
        /\ \A t \in Spots : /\ t # m => g.meta[t].size = z.meta[t].size
                            /\ g.meta[t].alloc = z.meta[t].alloc
                            /\ g.meta[t].next = z.meta[t].next
                            /\ g.meta[t].prev = z.meta[t].prev
    BY <1>1, <1>3, <1>4, GrownIs
  <1>8. Replaced(r, g, e, m)
    <2>1. next \in Spots \cup {-1} /\ prev \in Spots \cup {-1} /\ m # next /\ m # prev
      BY <1>5, <1>6
    <2>2. next = g.meta[e].next /\ prev = g.meta[e].prev
      BY <1>4, <1>7
    <2> QED BY <1>2, <1>4, <1>7, <2>1, <2>2, ReplaceIs
  <1>9. Put(q, r, e, Sl!Blank, r.remain)
    <2>1. r \in PageType
      BY <1>8 DEF Replaced
    <2> QED BY <1>1, <1>2, <1>4, <2>1, BlankedIs
  <1>10. q \in PageType /\ q.remain = z.remain /\ q.free = r.free
    BY <1>7, <1>8, <1>9 DEF Put, Replaced
  <1>11. Fused(q, z, m, e)
    <2> SUFFICES ASSUME NEW t \in Spots
                 PROVE  /\ q.meta[t].size = IF t = m THEN z.meta[m].size + 1 + z.meta[e].size
                                            ELSE IF t = e THEN -1 ELSE z.meta[t].size
                        /\ q.meta[t].alloc = z.meta[t].alloc
      BY DEF Fused
    <2>1. CASE t = e
      <3>1. q.meta[t].size = -1 /\ ~q.meta[t].alloc /\ ~z.meta[t].alloc
        BY <1>9, <2>1, BlankIs DEF Put, Loose
      <3>2. q.meta[t].alloc \in BOOLEAN /\ z.meta[t].alloc \in BOOLEAN
        BY <1>3, <1>10, PageIs
      <3> QED BY <1>5, <2>1, <3>1, <3>2
    <2>2. CASE t # e
      <3>1. q.meta[t] = r.meta[t]
        BY <1>9, <2>2 DEF Put
      <3>2. r.meta[t].size = g.meta[t].size /\ r.meta[t].alloc = g.meta[t].alloc
        BY <1>8 DEF Replaced
      <3> QED BY <1>7, <2>2, <3>1, <3>2
    <2> QED BY <2>1, <2>2
  <1>12. Strung((F \ {e}) \cup {m}, q)
    <2>1. Strung(F, g)
      <3>1. \A t \in F : g.meta[t].next = z.meta[t].next /\ g.meta[t].prev = z.meta[t].prev
        BY <1>6, <1>7
      <3> QED BY <1>3, <1>7, <3>1, StrungSame
    <2>2. \A t \in F \ {e} : t < e <=> t < m
      <3> SUFFICES ASSUME NEW t \in F, t # e PROVE t < e <=> t < m
        OBVIOUS
      <3>1. t \in Begun(z) /\ t # m
        BY DEF Loose
      <3>2. t \in Int
        BY <1>3, <3>1, ChunkFacts
      <3>3. m < t => e <= t
        BY <1>3, <1>4, <3>1 DEF Chopped
      <3> QED BY <1>5, <3>1, <3>2, <3>3
    <2>3. Strung((F \ {e}) \cup {m}, r)
      BY <1>4, <1>7, <1>8, <2>1, <2>2, StrungReplaced
    <2>4. \A t \in (F \ {e}) \cup {m} : q.meta[t].next = r.meta[t].next /\ q.meta[t].prev = r.meta[t].prev
      BY <1>4, <1>5, <1>6, <1>9 DEF Put
    <2> QED BY <1>10, <2>3, <2>4, StrungSame
  <1>13. \A s \in Spots \ ((F \ {e}) \cup {m}) : q.meta[s].next = -1 /\ q.meta[s].prev = -1
    <2> SUFFICES ASSUME NEW s \in Spots, s \notin F \/ s = e, s # m
                 PROVE  q.meta[s].next = -1 /\ q.meta[s].prev = -1
      OBVIOUS
    <2>1. CASE s = e
      BY <1>9, <2>1 DEF Put, Sl!Blank
    <2>2. CASE s # e
      <3>1. z.meta[s].next = -1 /\ z.meta[s].prev = -1 /\ s # -1
        BY <2>2, SpotNumbers DEF Almost
      <3>2. s # next /\ s # prev
        BY <1>6, <2>2, <3>1
      <3>3. g.meta[e].next = next /\ g.meta[e].prev = prev
        BY <1>4, <1>7
      <3>4. r.meta[s].next = -1 /\ r.meta[s].prev = -1
        BY <1>7, <1>8, <3>1, <3>2, <3>3 DEF Replaced
      <3> QED BY <1>9, <2>2, <3>4 DEF Put
    <2> QED BY <2>1, <2>2
  <1>14. q.meta[m].next = next /\ q.meta[m].prev = prev
    BY <1>4, <1>5, <1>7, <1>8, <1>9 DEF Put, Replaced
  <1>15. e \in Loose(z)
    OBVIOUS
  <1> HIDE DEF next, prev
  <1>16. /\ Almost(q, (F \ {e}) \cup {m}) /\ Loose(q) = Loose(z) \ {e} /\ InUse(q) = InUse(z)
         /\ Past(q, m) = Past(z, e) /\ \A s \in Begun(z) \ {m, e} : Past(q, s) = Past(z, s)
         /\ \A t \in InUse(z) : q.meta[t].size = z.meta[t].size
    BY <1>10, <1>11, <1>12, <1>13, <1>15, Swallowed
  <1> QED BY <1>14, <1>16 DEF next, prev

(* The free chunk p before m on the list swallows m.                       *)
JoinPrev(z, p, m) ==
  LET after == z.meta[m].next
  IN [Sl!SetPrev(Sl!SetNext(z, p, after), after, p)
        EXCEPT !.meta[p].size = @ + 1 + z.meta[m].size, !.meta[m] = Sl!Blank]

Touching(z, F, p, m) ==
  /\ Almost(z, F) /\ F \subseteq Loose(z)
  /\ p \in F /\ m \in Loose(z) /\ Past(z, p) = m

OneLess(q, z, G, a, b) ==
  /\ Almost(q, G) /\ Loose(q) = Loose(z) \ {b} /\ InUse(q) = InUse(z)
  /\ Past(q, a) = Past(z, b) /\ \A s \in Begun(z) \ {a, b} : Past(q, s) = Past(z, s)
  /\ \A t \in InUse(z) : q.meta[t].size = z.meta[t].size

LEMMA JoinPrevIs ==
  ASSUME NEW z, NEW F, NEW m, NEW p, Touching(z, F, p, m), m \in F,
         z.meta[m].prev = p, NEW q, q = JoinPrev(z, p, m)
  PROVE  OneLess(q, z, F \ {m}, p, m)
  <1>0. Almost(z, F) /\ F \subseteq Loose(z) /\ p \in F /\ Past(z, p) = m
    BY DEF Touching
  <1> DEFINE after == z.meta[m].next
  <1>1. PICK a : a = Sl!SetNext(z, p, after)
    OBVIOUS
  <1>2. PICK b : b = Sl!SetPrev(a, after, p)
    OBVIOUS
  <1>3. z \in PageType /\ Strung(F, z) /\ Chopped(z)
    BY <1>0 DEF Almost
  <1>4. m \in Begun(z) /\ p \in Begun(z) /\ m \in Spots /\ p \in Spots /\ m \in Loose(z) /\ p \in Loose(z)
    BY <1>0 DEF Loose, Begun
  <1>5. m \in Int /\ p \in Int /\ p < m /\ p > 0
    <2>1. m \in Int /\ p > 0 /\ p \in Int /\ Past(z, p) \in Int /\ p < Past(z, p)
      BY <1>3, <1>4, ChunkFacts
    <2> QED BY <1>0, <2>1
  <1>6. /\ after \in F \cup {-1} /\ after # m /\ after # p
        /\ z.meta[p].next = m /\ z.free # m
        /\ \A t \in F : t \in Spots
    <2>1. /\ after \in F \cup {-1} /\ after # m /\ (after # p \/ after = -1)
          /\ z.meta[p].next = m /\ (z.free = m <=> p = -1)
          /\ \A t \in F : t \in Spots
      BY <1>0, <1>3, StrungBack
    <2> QED BY <1>5, <2>1
  <1>7. after \in Spots \cup {-1} /\ after \in Int /\ p \in Int
    <2>1. after \in Spots \cup {-1}
      BY <1>6
    <2>2. after \in Int
      BY <1>3, <1>4, PageIs
    <2> QED BY <1>5, <2>1, <2>2
  <1>8. NextSet(a, z, p, after)
    BY <1>1, <1>3, <1>4, <1>7, SetNextIs
  <1>9. a \in PageType
    BY <1>8 DEF NextSet
  <1>10. PrevSet(b, a, after, p)
    BY <1>2, <1>7, <1>9, SetPrevIs
  <1>11. /\ b \in PageType /\ b.free = z.free /\ b.remain = z.remain
         /\ \A t \in Spots : /\ b.meta[t].size = z.meta[t].size /\ b.meta[t].alloc = z.meta[t].alloc
                             /\ b.meta[t].next = IF t = p THEN after ELSE z.meta[t].next
                             /\ b.meta[t].prev = IF t = after THEN p ELSE z.meta[t].prev
    BY <1>8, <1>10 DEF NextSet, PrevSet
  <1>12. PICK g : g = Grown(b, p, m)
    OBVIOUS
  <1>13. q = Blanked(g, m)
    <2>1. b.meta[m].size = z.meta[m].size
      BY <1>4, <1>11
    <2>2. q = [b EXCEPT !.meta[p].size = @ + 1 + z.meta[m].size, !.meta[m] = Sl!Blank]
      BY <1>1, <1>2 DEF JoinPrev
    <2>3. g = [b EXCEPT !.meta[p].size = @ + 1 + z.meta[m].size]
      BY <1>12, <2>1 DEF Grown
    <2> QED BY <1>11, <2>2, <2>3 DEF Blanked, PageType
  <1>14. p \in Begun(b) /\ m \in Begun(b)
    BY <1>4, <1>11 DEF Begun
  <1>15. /\ g \in PageType /\ g.free = b.free /\ g.remain = b.remain
         /\ g.meta[p].size = b.meta[p].size + 1 + b.meta[m].size
         /\ \A t \in Spots : /\ t # p => g.meta[t].size = b.meta[t].size
                             /\ g.meta[t].alloc = b.meta[t].alloc
                             /\ g.meta[t].next = b.meta[t].next
                             /\ g.meta[t].prev = b.meta[t].prev
    BY <1>11, <1>12, <1>14, GrownIs
  <1>16. Put(q, g, m, Sl!Blank, g.remain)
    BY <1>4, <1>13, <1>15, BlankedIs
  <1>17. q \in PageType /\ q.remain = z.remain /\ q.free = z.free
    BY <1>11, <1>15, <1>16 DEF Put
  <1>18. Fused(q, z, p, m)
    <2> SUFFICES ASSUME NEW t \in Spots
                 PROVE  /\ q.meta[t].size = IF t = p THEN z.meta[p].size + 1 + z.meta[m].size
                                            ELSE IF t = m THEN -1 ELSE z.meta[t].size
                        /\ q.meta[t].alloc = z.meta[t].alloc
      BY DEF Fused
    <2>1. CASE t = m
      <3>1. q.meta[t].size = -1 /\ ~q.meta[t].alloc /\ ~z.meta[t].alloc
        BY <1>4, <1>16, <2>1, BlankIs DEF Put, Loose
      <3>2. q.meta[t].alloc \in BOOLEAN /\ z.meta[t].alloc \in BOOLEAN
        BY <1>3, <1>17, PageIs
      <3> QED BY <1>5, <2>1, <3>1, <3>2
    <2>2. CASE t # m
      <3>1. q.meta[t] = g.meta[t]
        BY <1>16, <2>2 DEF Put
      <3>2. b.meta[p].size = z.meta[p].size /\ b.meta[m].size = z.meta[m].size
        BY <1>4, <1>11
      <3> QED BY <1>11, <1>15, <2>2, <3>1, <3>2
    <2> QED BY <2>1, <2>2
  <1>19. PICK u : u = Sl!_slab_free_erase(z, m)
    OBVIOUS
  <1>20. Unlinked(u, z, m)
    <2>1. p \in Spots \cup {-1} /\ after = z.meta[m].next /\ p = z.meta[m].prev /\ m # p /\ m # after
      BY <1>4, <1>5, <1>6
    <2> QED BY <1>3, <1>4, <1>6, <1>7, <1>19, <2>1, EraseIs
  <1>21. Strung(F \ {m}, q)
    <2>1. Strung(F \ {m}, u)
      BY <1>3, <1>20, StrungUnlinked
    <2>2. \A t \in F \ {m} : q.meta[t].next = u.meta[t].next /\ q.meta[t].prev = u.meta[t].prev
      <3> SUFFICES ASSUME NEW t \in F \ {m}
                   PROVE  q.meta[t].next = u.meta[t].next /\ q.meta[t].prev = u.meta[t].prev
        OBVIOUS
      <3>1. t \in Spots /\ q.meta[t] = g.meta[t]
        BY <1>6, <1>16 DEF Put
      <3>2. /\ q.meta[t].next = IF t = p THEN after ELSE z.meta[t].next
            /\ q.meta[t].prev = IF t = after THEN p ELSE z.meta[t].prev
        BY <1>11, <1>15, <3>1
      <3> QED BY <1>20, <3>1, <3>2 DEF Unlinked
    <2>3. q.free = u.free
      BY <1>6, <1>17, <1>20 DEF Unlinked
    <2> QED BY <2>1, <2>2, <2>3, StrungSame
  <1>22. \A s \in Spots \ (F \ {m}) : q.meta[s].next = -1 /\ q.meta[s].prev = -1
    <2> SUFFICES ASSUME NEW s \in Spots, s \notin F \/ s = m
                 PROVE  q.meta[s].next = -1 /\ q.meta[s].prev = -1
      OBVIOUS
    <2>1. CASE s = m
      BY <1>16, <2>1 DEF Put, Sl!Blank
    <2>2. CASE s # m
      <3>1. z.meta[s].next = -1 /\ z.meta[s].prev = -1 /\ s # -1
        BY <1>0, <2>2, SpotNumbers DEF Almost
      <3>2. s # after /\ s # p
        BY <1>0, <1>6, <2>2, <3>1
      <3>3. b.meta[s].next = -1 /\ b.meta[s].prev = -1
        BY <1>11, <3>1, <3>2
      <3> QED BY <1>15, <1>16, <2>2, <3>3 DEF Put
    <2> QED BY <2>1, <2>2
  <1> HIDE DEF after
  <1> QED BY <1>0, <1>4, <1>17, <1>18, <1>21, <1>22, Swallowed DEF OneLess

(* The chunk p before m, which is not on the list, swallows it.            *)
LEMMA GrownIntoIs ==
  ASSUME NEW z, NEW F, NEW m, NEW p, Touching(z, F, p, m), m \notin F,
         NEW q, q = Blanked(Grown(z, p, m), m)
  PROVE  /\ Almost(q, F) /\ Loose(q) = Loose(z) \ {m} /\ InUse(q) = InUse(z)
         /\ Past(q, p) = Past(z, m) /\ \A s \in Begun(z) \ {p, m} : Past(q, s) = Past(z, s)
         /\ \A t \in InUse(z) : q.meta[t].size = z.meta[t].size
  <1>0. Almost(z, F) /\ F \subseteq Loose(z) /\ p \in F /\ m \in Loose(z) /\ Past(z, p) = m
    BY DEF Touching
  <1>1. PICK g : g = Grown(z, p, m)
    OBVIOUS
  <1>2. z \in PageType /\ Strung(F, z) /\ Chopped(z)
    BY <1>0 DEF Almost
  <1>3. m \in Begun(z) /\ p \in Begun(z) /\ m \in Spots /\ p \in Spots /\ p \in Loose(z) /\ p # m
        /\ \A t \in F : t \in Spots
    BY <1>0 DEF Loose, Begun
  <1>4. /\ g \in PageType /\ g.free = z.free /\ g.remain = z.remain
        /\ g.meta[p].size = z.meta[p].size + 1 + z.meta[m].size
        /\ \A t \in Spots : /\ t # p => g.meta[t].size = z.meta[t].size
                            /\ g.meta[t].alloc = z.meta[t].alloc
                            /\ g.meta[t].next = z.meta[t].next
                            /\ g.meta[t].prev = z.meta[t].prev
    BY <1>1, <1>2, <1>3, GrownIs
  <1>5. Put(q, g, m, Sl!Blank, g.remain)
    BY <1>1, <1>3, <1>4, BlankedIs
  <1>6. q \in PageType /\ q.remain = z.remain /\ q.free = z.free
    BY <1>4, <1>5 DEF Put
  <1>7. Fused(q, z, p, m)
    <2> SUFFICES ASSUME NEW t \in Spots
                 PROVE  /\ q.meta[t].size = IF t = p THEN z.meta[p].size + 1 + z.meta[m].size
                                            ELSE IF t = m THEN -1 ELSE z.meta[t].size
                        /\ q.meta[t].alloc = z.meta[t].alloc
      BY DEF Fused
    <2>1. CASE t = m
      <3>1. q.meta[t].size = -1 /\ ~q.meta[t].alloc /\ ~z.meta[t].alloc
        BY <1>0, <1>5, <2>1, BlankIs DEF Put, Loose
      <3>2. q.meta[t].alloc \in BOOLEAN /\ z.meta[t].alloc \in BOOLEAN
        BY <1>2, <1>6, PageIs
      <3> QED BY <1>3, <2>1, <3>1, <3>2
    <2>2. CASE t # m
      <3>1. q.meta[t] = g.meta[t]
        BY <1>5, <2>2 DEF Put
      <3> QED BY <1>4, <2>2, <3>1
    <2> QED BY <2>1, <2>2
  <1>8. Strung(F, q)
    <2>1. \A t \in F : q.meta[t].next = z.meta[t].next /\ q.meta[t].prev = z.meta[t].prev
      BY <1>3, <1>4, <1>5 DEF Put
    <2> QED BY <1>2, <1>6, <2>1, StrungSame
  <1>9. \A s \in Spots \ F : q.meta[s].next = -1 /\ q.meta[s].prev = -1
    <2> SUFFICES ASSUME NEW s \in Spots, s \notin F PROVE q.meta[s].next = -1 /\ q.meta[s].prev = -1
      OBVIOUS
    <2>1. z.meta[s].next = -1 /\ z.meta[s].prev = -1
      BY <1>0 DEF Almost
    <2>2. CASE s = m
      BY <1>5, <2>2 DEF Put, Sl!Blank
    <2>3. CASE s # m
      BY <1>4, <1>5, <2>1, <2>3 DEF Put
    <2> QED BY <2>2, <2>3
  <1> QED BY <1>0, <1>3, <1>6, <1>7, <1>8, <1>9, Swallowed

(* The chunk m in use is marked free; it is not yet on the list.           *)
LEMMA FreedIs ==
  ASSUME NEW pg, PageInv(pg), NEW m \in InUse(pg), NEW z, z = Sl!Freed(pg, m)
  PROVE  /\ Almost(z, Loose(pg)) /\ m \notin Loose(pg) /\ Parted(z, Loose(pg))
         /\ Loose(z) = Loose(pg) \cup {m} /\ InUse(z) = InUse(pg) \ {m}
         /\ \A t \in Spots : z.meta[t].size = pg.meta[t].size
  <1>1. /\ pg \in PageType /\ Quiet(pg) /\ Chopped(pg) /\ Apart(pg) /\ Strung(Loose(pg), pg)
        /\ pg.remain = Cardinality(Room(pg))
    BY DEF PageInv
  <1>2. m \in Begun(pg) /\ m \in Spots /\ m \notin Loose(pg) /\ pg.meta[m].size \in Nat
    <2>1. m \in Begun(pg)
      BY DEF InUse
    <2> QED BY <1>1, <2>1, ChunkFacts DEF InUse, Loose
  <1> DEFINE w == [pg.meta[m] EXCEPT !.alloc = FALSE]
  <1>3. /\ w \in Metas /\ w.size = pg.meta[m].size /\ ~w.alloc
        /\ w.next = pg.meta[m].next /\ w.prev = pg.meta[m].prev
    <2>1. PICK x \in Metas : x = pg.meta[m]
      BY <1>1, <1>2, PageIs
    <2>2. PICK y : y = [x EXCEPT !.alloc = FALSE]
      OBVIOUS
    <2>3. y \in Metas /\ y.size = x.size /\ ~y.alloc /\ y.next = x.next /\ y.prev = x.prev
      BY <2>2 DEF Metas
    <2> QED BY <2>1, <2>2, <2>3
  <1>4. PICK n \in Nat : n = Cardinality(Room(pg)) + 1 + pg.meta[m].size
    BY <1>2, RoomFinite
  <1>5. z = PutMeta(pg, m, w, n)
    <2>1. pg.remain + pg.meta[m].size + 1 = n
      BY <1>1, <1>2, <1>4, RoomFinite
    <2> QED BY <1>1, <1>2, <2>1 DEF Sl!Freed, Sl!META_SIZE, PutMeta, PageType
  <1> HIDE DEF w
  <1>6. Put(z, pg, m, w, n)
    BY <1>1, <1>2, <1>3, <1>5, PutMetaIs
  <1>7. /\ z \in PageType /\ z.free = pg.free /\ z.remain = n
        /\ \A t \in Spots : /\ z.meta[t].size = pg.meta[t].size
                            /\ z.meta[t].next = pg.meta[t].next /\ z.meta[t].prev = pg.meta[t].prev
    BY <1>3, <1>6 DEF Put
  <1>8. \A t \in Spots : z.meta[t].alloc = (pg.meta[t].alloc /\ t # m)
    <2>1. \A t \in Spots : z.meta[t].alloc \in BOOLEAN /\ pg.meta[t].alloc \in BOOLEAN
      BY <1>1, <1>7, PageIs
    <2> QED BY <1>3, <1>6, <2>1 DEF Put
  <1>9. /\ Begun(z) = Begun(pg) /\ Loose(z) = Loose(pg) \cup {m} /\ InUse(z) = InUse(pg) \ {m}
        /\ \A s \in Begun(pg) : Past(z, s) = Past(pg, s)
        /\ Chopped(z) /\ Cardinality(Room(z)) = n
    BY <1>1, <1>4, <1>7, <1>8, RoomWith
  <1>10. Strung(Loose(pg), z)
    <2>1. \A t \in Loose(pg) : z.meta[t].next = pg.meta[t].next /\ z.meta[t].prev = pg.meta[t].prev
      BY <1>7 DEF Loose, Begun
    <2> QED BY <1>1, <1>7, <2>1, StrungSame
  <1>11. Parted(z, Loose(pg))
    BY <1>1, <1>9 DEF Apart, Parted, Loose
  <1>12. Almost(z, Loose(pg))
    <2>1. \A s \in Spots : z.meta[s].size = -1 => ~z.meta[s].alloc
      BY <1>1, <1>7, <1>8 DEF Quiet
    <2>2. \A s \in Spots : s \notin Loose(pg) => z.meta[s].next = -1 /\ z.meta[s].prev = -1
      BY <1>1, <1>7 DEF Quiet
    <2> QED BY <1>7, <1>9, <1>10, <2>1, <2>2 DEF Almost
  <1> QED BY <1>2, <1>7, <1>9, <1>11, <1>12

LEMMA Settled ==
  ASSUME NEW q, NEW F, Almost(q, F), F = Loose(q), Parted(q, F)
  PROVE  PageInv(q)
  BY DEF Almost, Parted, PageInv, Apart, Quiet

(* The chunk m enters the list between neighbours it does not touch.       *)
LEMMA IsolatedIs ==
  ASSUME NEW z, NEW F, Almost(z, F), NEW m \in Loose(z), m \notin F, Loose(z) = F \cup {m}, Parted(z, F),
         Past(z, m) \notin F, \A s \in F : Past(z, s) # m,
         NEW a, NEW b, (a = -1 /\ b = z.free) \/ (a \in F /\ a < m /\ b = z.meta[a].next),
         b = -1 \/ m < b, NEW q, Inserted(q, z, m, a, b)
  PROVE  /\ PageInv(q) /\ InUse(q) = InUse(z)
         /\ \A t \in Spots : q.meta[t].size = z.meta[t].size
  <1>1. z \in PageType /\ Chopped(z) /\ Strung(F, z) /\ z.remain = Cardinality(Room(z))
    BY DEF Almost
  <1>2. m \in Spots /\ m \in Begun(z)
    BY DEF Loose, Begun
  <1>3. /\ q \in PageType /\ q.remain = z.remain
        /\ \A t \in Spots : q.meta[t].size = z.meta[t].size /\ q.meta[t].alloc = z.meta[t].alloc
    BY DEF Inserted
  <1>4. Begun(q) = Begun(z)
    BY <1>3 DEF Begun
  <1>5. Loose(q) = Loose(z) /\ InUse(q) = InUse(z)
    BY <1>3, <1>4 DEF Loose, InUse, Begun
  <1>6. ASSUME NEW s \in Begun(z) PROVE Past(q, s) = Past(z, s)
    <2>1. q.meta[s].size = z.meta[s].size
      BY <1>3 DEF Begun
    <2> QED BY <2>1 DEF Past
  <1>7. Chopped(q)
    BY <1>1, <1>4, <1>6 DEF Chopped
  <1>8. Room(q) = Room(z)
    <2>1. \A s \in Loose(z) : Past(q, s) = Past(z, s)
      BY <1>6 DEF Loose
    <2> QED BY <1>5, <2>1 DEF Room
  <1>9. Strung(F \cup {m}, q)
    BY <1>1, <1>2, StrungInserted
  <1>10. ASSUME NEW s \in Spots, s \notin F \cup {m} PROVE q.meta[s].next = -1 /\ q.meta[s].prev = -1
    <2>1. z.meta[s].next = -1 /\ z.meta[s].prev = -1 /\ s # -1
      BY <1>10, SpotNumbers DEF Almost
    <2>2. s # a
      BY <1>10, <2>1
    <2>3. s # b
      <3>1. b \in F \cup {-1}
        <4>1. CASE b = z.free
          BY <1>1, <4>1 DEF Strung, HeadOk
        <4>2. CASE a \in F /\ b = z.meta[a].next
          BY <1>1, <4>2, StrungBack
        <4> QED BY <4>1, <4>2
      <3> QED BY <1>10, <2>1, <3>1
    <2> QED BY <1>10, <2>1, <2>2, <2>3 DEF Inserted
  <1>11. Almost(q, F \cup {m})
    <2>1. \A s \in Spots : q.meta[s].size = -1 => ~q.meta[s].alloc
      BY <1>3 DEF Almost
    <2> QED BY <1>1, <1>3, <1>7, <1>8, <1>9, <1>10, <2>1 DEF Almost
  <1>12. Parted(q, F \cup {m})
    <2> SUFFICES ASSUME NEW s \in F \cup {m} PROVE Past(q, s) \notin F \cup {m}
      BY DEF Parted
    <2>1. s \in Begun(z) /\ Past(q, s) = Past(z, s)
      BY <1>6 DEF Loose
    <2>2. CASE s = m
      <3>1. Past(z, m) # m
        BY <1>1, <1>2, ChunkFacts
      <3> QED BY <2>1, <2>2, <3>1
    <2>3. CASE s # m
      BY <2>1, <2>3 DEF Parted
    <2> QED BY <2>2, <2>3
  <1>13. F \cup {m} = Loose(q)
    BY <1>5
  <1>14. PageInv(q)
    BY <1>11, <1>12, <1>13, Settled
  <1> QED BY <1>3, <1>5, <1>14

(* _slab_free_quick_merge                                                  *)
LEMMA NextIsFreeIs ==
  ASSUME NEW z \in PageType, Chopped(z), NEW s \in Loose(z)
  PROVE  Sl!NextIsFree(z, s) <=> Past(z, s) \in Loose(z)
  <1>1. s \in Begun(z)
    BY DEF Loose
  <1>2. PICK e : e = Past(z, s)
    OBVIOUS
  <1>3. s + 1 + z.meta[s].size = e
    BY <1>2 DEF Past
  <1>4. Sl!NextIsFree(z, s) <=> e < PAGE_SIZE /\ ~z.meta[e].alloc
    <2>1. Sl!NextIsFree(z, s) <=> s + 1 + z.meta[s].size < PAGE_SIZE /\ ~z.meta[s + 1 + z.meta[s].size].alloc
      BY Zenon DEF Sl!NextIsFree, Sl!META_SIZE
    <2> QED BY <1>3, <2>1, Zenon
  <1>5. e \in Int /\ PAGE_SIZE \in Int /\ (e = PAGE_SIZE \/ e \in Begun(z))
    <2>1. e \in Int
      BY <1>1, <1>2, ChunkFacts
    <2>2. PAGE_SIZE \in Int
      BY SpotNumbers
    <2> QED BY <1>1, <1>2, <2>1, <2>2 DEF Chopped
  <1>6. e \in Begun(z) => e < PAGE_SIZE
    BY SpotNumbers DEF Begun
  <1>7. e \in Loose(z) <=> e \in Begun(z) /\ ~z.meta[e].alloc
    BY DEF Loose
  <1>8. e < PAGE_SIZE <=> e \in Begun(z)
    BY <1>5, <1>6
  <1> QED BY <1>2, <1>4, <1>7, <1>8

(* Merged when the chunk behind m is free: m takes its place, and the free *)
(* chunk before m, when it touches m, swallows both.                       *)
Rejoined(prev, m, j) ==
  IF prev > 0 /\ prev + 1 + j.meta[prev].size = m THEN JoinPrev(j, prev, m) ELSE j
MergedWith(z, m, e) ==
  Rejoined(z.meta[e].prev, m, Blanked(Sl!_slab_free_replace(Grown(z, m, e), e, m), e))
MergedInto(z, p, m) ==
  Rejoined(z.meta[m].prev, p, Blanked(Grown(z, p, m), m))

LEMMA MergedWithIs ==
  ASSUME NEW z, NEW m
  PROVE  /\ Sl!Merged(z, m, TRUE) = MergedWith(z, m, Past(z, m))
         /\ Sl!Merged(z, m, FALSE) = MergedInto(z, m, Past(z, m))
  BY DEF Sl!Merged, Sl!META_SIZE, Grown, Blanked, JoinPrev, Rejoined, MergedWith, MergedInto, Past

LEMMA MergedIs ==
  ASSUME NEW z, NEW F, Almost(z, F), NEW m \in Loose(z), m \notin F, Loose(z) = F \cup {m}, Parted(z, F),
         Past(z, m) \in F, NEW q, q = MergedWith(z, m, Past(z, m))
  PROVE  /\ PageInv(q) /\ InUse(q) = InUse(z)
         /\ \A t \in InUse(z) : q.meta[t].size = z.meta[t].size
  <1>1. z \in PageType /\ Chopped(z) /\ Strung(F, z)
    BY DEF Almost
  <1>2. PICK e \in F : e = Past(z, m)
    OBVIOUS
  <1>3. PICK prev : prev = z.meta[e].prev
    OBVIOUS
  <1>4. PICK j : j = Blanked(Sl!_slab_free_replace(Grown(z, m, e), e, m), e)
    OBVIOUS
  <1>5. /\ \A s \in F \cup {m} : s \in Begun(z) /\ s \in Spots /\ s \in Int /\ s > 0
                                 /\ Past(z, s) \in Int /\ s < Past(z, s)
        /\ m < e
    <2>1. \A s \in F \cup {m} : s \in Begun(z)
      BY DEF Loose
    <2>2. \A s \in F \cup {m} : s \in Begun(z) /\ s \in Spots /\ s \in Int /\ s > 0
                                 /\ Past(z, s) \in Int /\ s < Past(z, s)
      BY <1>1, <2>1, ChunkFacts
    <2> QED BY <1>2, <2>2
  <1>6. /\ prev \in F \cup {-1} /\ prev # e
        /\ \/ prev = -1 /\ \A t \in F : e <= t
           \/ prev \in F /\ prev < e /\ \A t \in F : t < e => t <= prev
    <2>1. PrevOk(F, z, e)
      BY <1>1 DEF Strung
    <2>2. prev # e
      BY <1>1, <1>3, StrungBack
    <2> QED BY <1>3, <2>1, <2>2 DEF PrevOk
  <1>7. /\ Almost(j, (F \ {e}) \cup {m}) /\ Loose(j) = Loose(z) \ {e} /\ InUse(j) = InUse(z)
        /\ Past(j, m) = Past(z, e) /\ \A s \in Begun(z) \ {m, e} : Past(j, s) = Past(z, s)
        /\ \A t \in InUse(z) : j.meta[t].size = z.meta[t].size
        /\ j.meta[m].prev = prev
    BY <1>2, <1>3, <1>4, JoinedIs
  <1>8. q = IF prev > 0 /\ prev + 1 + j.meta[prev].size = m THEN JoinPrev(j, prev, m) ELSE j
    <2>1. q = Rejoined(prev, m, j)
      BY <1>2, <1>3, <1>4 DEF MergedWith
    <2> QED BY <2>1 DEF Rejoined
  <1>g. PICK G : G = (F \ {e}) \cup {m}
    OBVIOUS
  <1>9. G = Loose(j) /\ m # e /\ Almost(j, G)
    <2>1. m # e
      BY <1>5
    <2> QED BY <1>7, <1>g, <2>1
  <1>10. Past(z, e) \notin F /\ Past(z, e) # m
    <2>1. Past(z, e) # m
      BY <1>5
    <2> QED BY <2>1 DEF Parted
  <1>11. \A s \in F \ {e} : Past(j, s) = Past(z, s) /\ Past(z, s) \notin F
    BY <1>5, <1>7 DEF Parted
  <1>12. CASE prev > 0 /\ prev + 1 + j.meta[prev].size = m
    <2>1. prev \in F \ {e} /\ prev # m /\ Past(j, prev) = m /\ q = JoinPrev(j, prev, m)
      <3>1. prev \in F \ {e} /\ prev # m
        BY <1>6, <1>12
      <3>2. Past(j, prev) = m
        BY <1>12 DEF Past
      <3> QED BY <1>8, <1>12, <3>1, <3>2
    <2>2. prev \in G /\ m \in G /\ G \subseteq Loose(j) /\ j.meta[m].prev = prev
      BY <1>7, <1>9, <1>g, <2>1
    <2>3. /\ Almost(q, G \ {m}) /\ Loose(q) = Loose(j) \ {m} /\ InUse(q) = InUse(j)
          /\ Past(q, prev) = Past(j, m) /\ \A s \in Begun(j) \ {prev, m} : Past(q, s) = Past(j, s)
          /\ \A t \in InUse(j) : q.meta[t].size = j.meta[t].size
      <3>1. Touching(j, G, prev, m)
        BY <1>9, <2>1, <2>2 DEF Touching
      <3>2. m \in G /\ j.meta[m].prev = prev /\ q = JoinPrev(j, prev, m)
        BY <2>1, <2>2
      <3>3. OneLess(q, j, G \ {m}, prev, m)
        BY <3>1, <3>2, JoinPrevIs
      <3> QED BY <3>3 DEF OneLess
    <2>4. G \ {m} = Loose(q) /\ G \ {m} = F \ {e}
      BY <1>9, <1>g, <2>3
    <2>5. Parted(q, G \ {m})
      <3> SUFFICES ASSUME NEW s \in F \ {e} PROVE Past(q, s) \notin F
        BY <2>4 DEF Parted
      <3>1. CASE s = prev
        BY <1>7, <1>10, <2>3, <3>1
      <3>2. CASE s # prev
        <4>1. s \in Begun(j) /\ s # m
          BY <1>9, <1>g DEF Loose
        <4> QED BY <1>11, <2>3, <3>2, <4>1
      <3> QED BY <3>1, <3>2
    <2> QED BY <1>7, <2>3, <2>4, <2>5, Settled
  <1>13. CASE ~(prev > 0 /\ prev + 1 + j.meta[prev].size = m)
    <2>1. q = j
      BY <1>8, <1>13
    <2>2. Parted(j, G)
      <3> SUFFICES ASSUME NEW s \in G PROVE Past(j, s) \notin G
        BY DEF Parted
      <3>1. CASE s = m
        BY <1>7, <1>10, <1>g, <3>1
      <3>2. CASE s # m
        <4>1. s \in F \ {e} /\ Past(j, s) = Past(z, s) /\ Past(z, s) \notin F
          BY <1>11, <1>g, <3>2
        <4> SUFFICES ASSUME Past(z, s) = m PROVE FALSE
          BY <1>g, <4>1
        <4>2. s < m
          BY <1>5, <4>1
        <4>3. s < e
          BY <1>5, <4>1, <4>2
        <4>4. prev \in F /\ prev < e /\ s <= prev
          BY <1>5, <1>6, <4>1, <4>3
        <4>5. s < prev => m <= prev
          BY <1>1, <1>5, <4>1, <4>4 DEF Chopped
        <4>6. m < prev => e <= prev
          BY <1>1, <1>2, <1>5, <4>4 DEF Chopped
        <4>7. s = prev
          BY <1>5, <4>1, <4>4, <4>5, <4>6
        <4>8. prev > 0 /\ prev + 1 + j.meta[prev].size = m
          BY <1>5, <4>1, <4>7 DEF Past
        <4> QED BY <1>13, <4>8
      <3> QED BY <3>1, <3>2
    <2> QED BY <1>7, <1>9, <2>1, <2>2, Settled
  <1> QED BY <1>12, <1>13

(* Merged when the chunk before m, prev, is free and the one behind is not.*)
Freeing(z, F, m) ==
  Almost(z, F) /\ m \in Loose(z) /\ m \notin F /\ Loose(z) = F \cup {m} /\ Parted(z, F)

LEMMA MergedBackIs ==
  ASSUME NEW z, NEW F, NEW m, NEW p, Freeing(z, F, m), Past(z, m) \notin F, p \in F, Past(z, p) = m,
         NEW q, q = MergedInto(z, p, m)
  PROVE  /\ PageInv(q) /\ InUse(q) = InUse(z)
         /\ \A t \in InUse(z) : q.meta[t].size = z.meta[t].size
  <1>0. Almost(z, F) /\ m \in Loose(z) /\ m \notin F /\ Loose(z) = F \cup {m} /\ Parted(z, F)
    BY DEF Freeing
  <1>1. m \in Spots /\ F \subseteq Begun(z)
    BY <1>0 DEF Loose, Begun
  <1>2. z.meta[m].prev = -1
    BY <1>0, <1>1 DEF Almost
  <1>3. q = Blanked(Grown(z, p, m), m)
    <2>1. ~(-1 > 0)
      OBVIOUS
    <2> QED BY <1>2, <2>1 DEF MergedInto, Rejoined
  <1>4. /\ Almost(q, F) /\ Loose(q) = Loose(z) \ {m} /\ InUse(q) = InUse(z)
        /\ Past(q, p) = Past(z, m) /\ \A s \in Begun(z) \ {p, m} : Past(q, s) = Past(z, s)
        /\ \A t \in InUse(z) : q.meta[t].size = z.meta[t].size
    <2>1. Touching(z, F, p, m)
      BY <1>0 DEF Touching
    <2> QED BY <1>0, <1>3, <2>1, GrownIntoIs
  <1>5. F = Loose(q)
    <2>1. Loose(q) = Loose(z) \ {m}
      BY <1>4
    <2> QED BY <1>0, <2>1
  <1>6. Parted(q, F)
    BY <1>0, <1>1, <1>4 DEF Parted
  <1> QED BY <1>4, <1>5, <1>6, Settled

(* A set of integers bounded by m has a greatest element.                  *)
LEMMA GreatestBelow ==
  ASSUME NEW m \in Int, NEW T \in SUBSET Int, T # {}, \A t \in T : t <= m
  PROVE  \E g \in T : \A t \in T : t <= g
  <1> DEFINE D == {n \in Nat : m - n \in T}
  <1>1. \A t \in T : m - t \in D
    <2> SUFFICES ASSUME NEW t \in T PROVE m - t \in Nat /\ m - (m - t) = t
      OBVIOUS
    <2> QED OBVIOUS
  <1>2. D \in SUBSET Nat /\ D # {}
    BY <1>1
  <1>3. PICK d \in D : \A k \in D : d <= k
    BY <1>2, LeastNat
  <1>4. d \in Nat /\ m - d \in T
    OBVIOUS
  <1>5. ASSUME NEW t \in T PROVE t <= m - d
    <2>1. d <= m - t /\ t \in Int
      BY <1>1, <1>3
    <2> QED BY <1>4, <2>1
  <1> HIDE DEF D
  <1> QED BY <1>4, <1>5

(* From the first free chunk the search arrives at the last one before m.  *)
LEMMA LastBeforeIs ==
  ASSUME NEW z, NEW F, Almost(z, F), NEW m \in Spots, m \notin F, F # {}, z.free < m
  PROVE  LET p == Sl!LastBefore(z, m) IN p \in F /\ p < m /\ \A t \in F : t < m => t <= p
  <1> DEFINE w == CHOOSE f : f = [s \in DOMAIN z.meta |-> IF z.meta[s].next < 0 \/ m < z.meta[s].next
                                                          THEN s ELSE f[z.meta[s].next]]
  <1>1. Sl!LastBefore(z, m) = w[z.free]
    BY DEF Sl!LastBefore
  <1>2. z \in PageType /\ Strung(F, z) /\ DOMAIN z.meta = Spots
    BY DEF Almost, PageType
  <1>3. m \in Int /\ \A t \in F : t \in Spots /\ t \in Int /\ t > 0 /\ t # m
    <2>1. \A t \in F : t \in Spots
      BY <1>2 DEF Strung
    <2> QED BY <2>1, SpotNumbers
  <1>4. z.free \in F /\ \A t \in F : z.free <= t
    BY <1>2 DEF Strung, HeadOk
  <1>5. PICK p \in F : p < m /\ \A t \in F : t < m => t <= p
    <2> DEFINE T == {t \in F : t < m}
    <2>1. T \in SUBSET Int /\ T # {} /\ \A t \in T : t <= m
      BY <1>3, <1>4
    <2>2. \E g \in T : \A t \in T : t <= g
      BY <1>3, <2>1, GreatestBelow
    <2> QED BY <2>2
  <1>6. \A s \in F : NextOk(F, z, s)
    BY <1>2 DEF Strung
  <1>7. \A s \in Spots \ F : z.meta[s].next = -1
    BY DEF Almost
  <1>8. ASSUME NEW s \in F, s < m PROVE IF z.meta[s].next < 0 \/ m < z.meta[s].next THEN s = p
                                        ELSE z.meta[s].next \in F /\ s < z.meta[s].next /\ z.meta[s].next < m
    <2>1. PICK n : n = z.meta[s].next
      OBVIOUS
    <2>2. \/ n = -1 /\ \A t \in F : t <= s
          \/ n \in F /\ s < n /\ \A t \in F : s < t => n <= t
      BY <1>6, <2>1 DEF NextOk
    <2>3. CASE n = -1 /\ \A t \in F : t <= s
      BY <1>3, <1>5, <1>8, <2>1, <2>3
    <2>4. CASE n \in F /\ s < n /\ \A t \in F : s < t => n <= t
      BY <1>3, <1>5, <1>8, <2>1, <2>4
    <2> QED BY <2>2, <2>3, <2>4
  <1>9. ASSUME NEW s \in F, ~(s < m) PROVE z.meta[s].next < 0 \/ m < z.meta[s].next
    BY <1>3, <1>6, <1>9 DEF NextOk
  <1>10. w = [s \in Spots |-> IF z.meta[s].next < 0 \/ m < z.meta[s].next THEN s ELSE w[z.meta[s].next]]
    <2> DEFINE f == [s \in Spots |-> IF s \in F /\ s < m THEN p ELSE s]
    <2>1. ASSUME NEW s \in Spots
          PROVE  f[s] = IF z.meta[s].next < 0 \/ m < z.meta[s].next THEN s ELSE f[z.meta[s].next]
      <3>1. CASE s \in F /\ s < m
        <4>1. PICK n : n = z.meta[s].next
          OBVIOUS
        <4>2. IF n < 0 \/ m < n THEN s = p ELSE n \in F /\ n < m
          BY <1>8, <3>1, <4>1
        <4>3. n \in F /\ n < m => f[n] = p
          BY <1>3
        <4> QED BY <3>1, <4>1, <4>2, <4>3
      <3>2. CASE ~(s \in F /\ s < m)
        <4>1. z.meta[s].next < 0 \/ m < z.meta[s].next
          BY <1>7, <1>9, <3>2
        <4> QED BY <3>2, <4>1
      <3> QED BY <3>1, <3>2
    <2>2. f = [s \in Spots |-> IF z.meta[s].next < 0 \/ m < z.meta[s].next THEN s ELSE f[z.meta[s].next]]
      BY <2>1
    <2>3. w = CHOOSE g : g = [s \in Spots |-> IF z.meta[s].next < 0 \/ m < z.meta[s].next
                                              THEN s ELSE g[z.meta[s].next]]
      BY <1>2
    <2> HIDE DEF f, w
    <2> QED BY <2>2, <2>3
  <1> HIDE DEF w
  <1>11. \A s \in F : w[s] = IF z.meta[s].next < 0 \/ m < z.meta[s].next THEN s ELSE w[z.meta[s].next]
    BY <1>3, <1>10
  <1>12. \A s \in F : s < m => w[s] = p
    <2> SUFFICES ASSUME NEW s \in F, s < m, w[s] # p PROVE FALSE
      OBVIOUS
    <2> DEFINE T == {t \in F : t < m /\ w[t] # p}
    <2>1. T \in SUBSET Int /\ T # {} /\ \A t \in T : t <= m
      BY <1>3
    <2>2. PICK g \in T : \A t \in T : t <= g
      BY <1>3, <2>1, GreatestBelow
    <2>3. g \in F /\ g < m /\ w[g] # p
      OBVIOUS
    <2>4. PICK n : n = z.meta[g].next
      OBVIOUS
    <2>5. IF n < 0 \/ m < n THEN g = p ELSE n \in F /\ g < n /\ n < m
      BY <1>8, <2>3, <2>4
    <2>6. w[g] = IF n < 0 \/ m < n THEN g ELSE w[n]
      BY <1>11, <2>3, <2>4
    <2>7. n \in F /\ g < n /\ n < m => w[n] = p
      BY <1>3, <2>2, <2>3
    <2> QED BY <2>3, <2>5, <2>6, <2>7
  <1> QED BY <1>1, <1>4, <1>5, <1>12

(* What the search for a fit finds is free and large enough.               *)
LEMMA FirstFitIs ==
  ASSUME NEW pg, PageInv(pg), NEW sz \in Nat, Sl!FirstFit(pg, sz) > 0
  PROVE  LET m == Sl!FirstFit(pg, sz) IN m \in Loose(pg) /\ sz <= pg.meta[m].size
  <1> DEFINE F == Loose(pg)
             w == CHOOSE f : f = [s \in {-1} \cup DOMAIN pg.meta |->
                                    IF s <= 0 THEN -1 ELSE IF pg.meta[s].size >= sz THEN s
                                    ELSE f[pg.meta[s].next]]
  <1>1. Sl!FirstFit(pg, sz) = IF pg.remain < sz + 1 THEN -1 ELSE w[pg.free]
    BY DEF Sl!FirstFit, Sl!META_SIZE
  <1>2. pg \in PageType /\ Strung(F, pg) /\ DOMAIN pg.meta = Spots /\ Quiet(pg) /\ Chopped(pg)
    BY DEF PageInv, PageType
  <1>3. \A t \in F : t \in Spots /\ t \in Int /\ t > 0 /\ pg.meta[t].size \in Nat
    <2>1. \A t \in F : t \in Begun(pg)
      BY DEF Loose
    <2> QED BY <1>2, <2>1, ChunkFacts
  <1>4. pg.free \in F \cup {-1}
    BY <1>2 DEF Strung, HeadOk
  <1>5. \A s \in F : \/ pg.meta[s].next = -1
                     \/ pg.meta[s].next \in F /\ s < pg.meta[s].next /\ \A t \in F : s < t => pg.meta[s].next <= t
    BY <1>2 DEF Strung, NextOk
  <1>6. \A s \in Spots \ F : pg.meta[s].next = -1
    BY <1>2 DEF Quiet
  <1>7. w = [s \in {-1} \cup Spots |-> IF s <= 0 THEN -1 ELSE IF pg.meta[s].size >= sz THEN s
                                       ELSE w[pg.meta[s].next]]
    <2> DEFINE From(s) == {r \in F : s <= r /\ pg.meta[r].size >= sz}
               Least(s) == CHOOSE r \in From(s) : \A k \in From(s) : r <= k
               f == [s \in {-1} \cup Spots |->
                       IF s <= 0 THEN -1 ELSE IF pg.meta[s].size >= sz THEN s
                       ELSE IF s \in F /\ From(s) # {} THEN Least(s) ELSE -1]
    <2>1. ASSUME NEW s \in {-1} \cup Spots
          PROVE  f[s] = IF s <= 0 THEN -1 ELSE IF pg.meta[s].size >= sz THEN s ELSE f[pg.meta[s].next]
      <3>0. PICK n : n = pg.meta[s].next
        OBVIOUS
      <3>1. CASE s <= 0 \/ pg.meta[s].size >= sz
        BY <3>1
      <3>2. CASE ~(s <= 0 \/ pg.meta[s].size >= sz) /\ n = -1
        <4>1. s \in Spots /\ f[-1] = -1
          BY <3>2
        <4>2. s \in F => From(s) = {}
          <5> SUFFICES ASSUME s \in F, NEW r \in F, s <= r, pg.meta[r].size >= sz PROVE FALSE
            OBVIOUS
          <5>1. r <= s
            <6>1. NextOk(F, pg, s)
              BY <1>2 DEF Strung
            <6>2. n \in F => n # -1
              BY <1>3
            <6> QED BY <3>0, <3>2, <6>1, <6>2 DEF NextOk
          <5>2. r = s
            BY <1>3, <5>1
          <5> QED BY <3>2, <5>2
        <4> HIDE DEF Least
        <4> QED BY <3>0, <3>2, <4>1, <4>2
      <3>3. CASE ~(s <= 0 \/ pg.meta[s].size >= sz) /\ n # -1
        <4>1. s \in F /\ n \in F /\ s < n /\ \A t \in F : s < t => n <= t
          BY <1>5, <1>6, <3>0, <3>3, SpotNumbers
        <4>2. From(s) = From(n)
          <5>1. ASSUME NEW r \in F, pg.meta[r].size >= sz PROVE s <= r <=> n <= r
            <6>1. r # s
              BY <3>3, <5>1
            <6> QED BY <1>3, <4>1, <6>1
          <5> QED BY <5>1
        <4>3. n \in Spots /\ ~(n <= 0)
          BY <1>3, <4>1
        <4>4. pg.meta[n].size >= sz => From(n) # {} /\ Least(n) = n
          <5> SUFFICES ASSUME pg.meta[n].size >= sz PROVE From(n) # {} /\ Least(n) = n
            OBVIOUS
          <5>1. n \in From(n) /\ \A k \in From(n) : n <= k
            BY <1>3, <4>1
          <5>2. \A r \in From(n) : (\A k \in From(n) : r <= k) => r = n
            BY <1>3, <5>1
          <5> HIDE DEF From
          <5> QED BY <5>1, <5>2
        <4>5. Least(s) = Least(n)
          BY <4>2
        <4> HIDE DEF From, Least
        <4> QED BY <3>0, <3>3, <4>1, <4>2, <4>3, <4>4, <4>5
      <3> QED BY <3>1, <3>2, <3>3
    <2> HIDE DEF From, Least
    <2>2. f = [s \in {-1} \cup Spots |-> IF s <= 0 THEN -1 ELSE IF pg.meta[s].size >= sz THEN s
                                         ELSE f[pg.meta[s].next]]
      BY <2>1
    <2>3. w = CHOOSE g : g = [s \in {-1} \cup Spots |-> IF s <= 0 THEN -1 ELSE IF pg.meta[s].size >= sz THEN s
                                                        ELSE g[pg.meta[s].next]]
      BY <1>2
    <2> HIDE DEF f, w
    <2> QED BY <2>2, <2>3
  <1> HIDE DEF w
  <1>8. w[-1] = -1
    BY <1>7
  <1>9. \A s \in F : w[s] = IF pg.meta[s].size >= sz THEN s ELSE w[pg.meta[s].next]
    <2> SUFFICES ASSUME NEW s \in F PROVE w[s] = IF pg.meta[s].size >= sz THEN s ELSE w[pg.meta[s].next]
      OBVIOUS
    <2>1. s \in {-1} \cup Spots /\ ~(s <= 0)
      BY <1>3
    <2> QED BY <1>7, <2>1
  <1> DEFINE Good(r) == r = -1 \/ (r \in F /\ sz <= pg.meta[r].size)
  <1>10. \A s \in F : Good(w[s])
    <2> SUFFICES ASSUME NEW s \in F, ~Good(w[s]) PROVE FALSE
      OBVIOUS
    <2> DEFINE T == {t \in F : ~Good(w[t])}
    <2>1. PAGE_SIZE \in Int /\ T \in SUBSET Int /\ T # {} /\ \A t \in T : t <= PAGE_SIZE
      <3>1. \A t \in F : t \in Int /\ t <= PAGE_SIZE
        BY <1>3, SpotNumbers
      <3> QED BY <3>1, SpotNumbers
    <2>2. PICK g \in T : \A t \in T : t <= g
      BY <2>1, GreatestBelow
    <2>3. g \in F /\ ~Good(w[g])
      OBVIOUS
    <2>4. PICK n : n = pg.meta[g].next
      OBVIOUS
    <2>5. n = -1 \/ (n \in F /\ g < n)
      BY <1>5, <2>3, <2>4
    <2>6. w[g] = IF pg.meta[g].size >= sz THEN g ELSE w[n]
      BY <1>9, <2>3, <2>4
    <2>7. n \in F /\ g < n => Good(w[n])
      BY <1>3, <2>2, <2>3
    <2>8. pg.meta[g].size \in Nat
      BY <1>3, <2>3
    <2>9. pg.meta[g].size >= sz => sz <= pg.meta[g].size
      BY <2>8
    <2> QED BY <1>8, <2>3, <2>5, <2>6, <2>7, <2>9
  <1>11. Good(w[pg.free])
    BY <1>4, <1>8, <1>10
  <1> QED BY <1>1, <1>11

(* slab_free, whatever the neighbours of the chunk m.                      *)
LEMMA ReturnedIs ==
  ASSUME NEW z, NEW F, Almost(z, F), NEW m \in Loose(z), m \notin F, Loose(z) = F \cup {m}, Parted(z, F),
         NEW q, q = Sl!Returned(z, m)
  PROVE  /\ PageInv(q) /\ InUse(q) = InUse(z)
         /\ \A t \in InUse(z) : q.meta[t].size = z.meta[t].size
  <1>1. z \in PageType /\ Chopped(z) /\ Strung(F, z)
    BY DEF Almost
  <1>2. /\ m \in Begun(z) /\ m \in Spots /\ m \in Int /\ m > 0
        /\ \A t \in F : t \in Begun(z) /\ t \in Spots /\ t \in Int /\ t > 0 /\ t # m
                        /\ Past(z, t) \in Int /\ t < Past(z, t)
    <2>1. m \in Begun(z) /\ \A t \in F : t \in Begun(z)
      BY DEF Loose
    <2> QED BY <1>1, <2>1, ChunkFacts
  <1>3. HeadOk(F, z) /\ \A s \in F : NextOk(F, z, s)
    BY <1>1 DEF Strung
  <1>4. z.meta[m].next = -1 /\ z.meta[m].prev = -1
    BY <1>2 DEF Almost
  <1>5. Past(z, m) # m
    BY <1>1, <1>2, ChunkFacts
  <1>6. \A t \in Spots : /\ z.meta[t].size \in Nat \cup {-1} /\ z.meta[t].alloc \in BOOLEAN
                         /\ z.meta[t].next \in Int /\ z.meta[t].prev \in Int
    BY <1>1, PageIs
  <1>7. \A t \in InUse(z) : t \in Spots
    BY DEF InUse, Begun
  <1>8. CASE Sl!NextIsFree(z, m)
    <2>1. Past(z, m) \in F
      BY <1>1, <1>5, <1>8, NextIsFreeIs
    <2>2. q = MergedWith(z, m, Past(z, m))
      BY <1>8, MergedWithIs DEF Sl!Returned
    <2> QED BY <2>1, <2>2, MergedIs
  <1>9. CASE ~Sl!NextIsFree(z, m) /\ z.free < 0
    <2>1. F = {} /\ z.free = -1
      BY <1>2, <1>3, <1>9 DEF HeadOk
    <2>2. Past(z, m) \notin F
      BY <2>1
    <2>3. q = [z EXCEPT !.free = m]
      BY <1>9 DEF Sl!Returned
    <2>4. q \in PageType /\ q.free = m /\ q.remain = z.remain /\ q.meta = z.meta
      BY <1>1, <1>2, <2>3 DEF PageType
    <2>5. Inserted(q, z, m, -1, -1)
      <3>1. \A t \in Spots : t # -1
        BY SpotNumbers
      <3> QED BY <1>4, <2>4, <3>1 DEF Inserted
    <2>6. PageInv(q) /\ InUse(q) = InUse(z) /\ \A t \in Spots : q.meta[t].size = z.meta[t].size
      BY <2>1, <2>2, <2>5, IsolatedIs
    <2> QED BY <1>7, <2>6
  <1>10. CASE ~Sl!NextIsFree(z, m) /\ ~(z.free < 0) /\ m < z.free
    <2>1. z.free \in F /\ \A t \in F : z.free <= t
      BY <1>3, <1>10 DEF HeadOk
    <2>2. Past(z, m) \notin F
      BY <1>1, <1>10, NextIsFreeIs
    <2>3. \A s \in F : Past(z, s) # m
      BY <1>2, <1>10, <2>1
    <2>4. PICK b \in F : b = z.free
      BY <2>1
    <2>5. PICK x : x = Sl!SetNext(z, m, b)
      OBVIOUS
    <2>6. PICK y : y = Sl!SetPrev(x, b, m)
      OBVIOUS
    <2>7. q = [y EXCEPT !.free = m]
      BY <1>10, <2>4, <2>5, <2>6 DEF Sl!Returned
    <2>8. NextSet(x, z, m, b)
      BY <1>1, <1>2, <2>5, SetNextIs
    <2>9. x \in PageType
      BY <2>8 DEF NextSet
    <2>10. PrevSet(y, x, b, m)
      BY <1>2, <2>6, <2>9, SetPrevIs
    <2>11. y \in PageType
      BY <2>10 DEF PrevSet
    <2>12. q \in PageType /\ q.free = m /\ q.remain = y.remain /\ q.meta = y.meta
      BY <1>2, <2>7, <2>11 DEF PageType
    <2>13. Inserted(q, z, m, -1, b)
      <3>1. \A t \in Spots : t # -1
        BY SpotNumbers
      <3> QED BY <1>2, <1>4, <2>8, <2>10, <2>12, <3>1 DEF NextSet, PrevSet, Inserted
    <2>14. b = z.free /\ m < b
      BY <1>10, <2>4
    <2>15. PageInv(q) /\ InUse(q) = InUse(z) /\ \A t \in Spots : q.meta[t].size = z.meta[t].size
      BY <2>2, <2>3, <2>13, <2>14, IsolatedIs
    <2> QED BY <1>7, <2>15
  <1>11. CASE ~Sl!NextIsFree(z, m) /\ ~(z.free < 0) /\ ~(m < z.free)
    <2>1. z.free \in F /\ z.free < m
      <3>1. z.free \in F
        BY <1>3, <1>11 DEF HeadOk
      <3> QED BY <1>2, <1>11, <3>1
    <2>2. PICK p : p = Sl!LastBefore(z, m)
      OBVIOUS
    <2>3. p \in F /\ p < m /\ \A t \in F : t < m => t <= p
      BY <1>2, <2>1, <2>2, LastBeforeIs
    <2>4. Past(z, m) \notin F
      BY <1>1, <1>11, NextIsFreeIs
    <2>5. p \in Loose(z) /\ Past(z, p) \notin F
      BY <2>3 DEF Parted
    <2>6. Sl!NextIsFree(z, p) <=> Past(z, p) = m
      <3>1. Sl!NextIsFree(z, p) <=> Past(z, p) \in Loose(z)
        BY <1>1, <2>5, NextIsFreeIs
      <3> QED BY <2>5, <3>1
    <2>7. q = IF Sl!NextIsFree(z, p) THEN MergedInto(z, p, Past(z, p)) ELSE Sl!_slab_free_insert(z, p, m)
      BY <1>11, <2>2, MergedWithIs DEF Sl!Returned
    <2>8. CASE Past(z, p) = m
      <3>1. q = MergedInto(z, p, m)
        BY <2>6, <2>7, <2>8
      <3>2. Freeing(z, F, m)
        BY DEF Freeing
      <3> QED BY <2>3, <2>4, <2>8, <3>1, <3>2, MergedBackIs
    <2>9. CASE Past(z, p) # m
      <3>1. \A s \in F : Past(z, s) # m
        <4> SUFFICES ASSUME NEW s \in F, Past(z, s) = m PROVE FALSE
          OBVIOUS
        <4>1. s < m /\ s <= p
          BY <1>2, <2>3
        <4>2. s < p => m <= p
          BY <1>1, <1>2, <2>3 DEF Chopped
        <4> QED BY <1>2, <2>3, <2>9, <4>1, <4>2
      <3>2. PICK n : n = z.meta[p].next
        OBVIOUS
      <3>3. (n = -1 \/ (n \in F /\ p < n)) /\ n \in Int
        BY <1>2, <1>3, <1>6, <2>3, <3>2 DEF NextOk
      <3>4. PICK y : y = IF n > 0 THEN Sl!SetPrev(Sl!SetNext(z, m, n), n, m) ELSE z
        OBVIOUS
      <3>5. PICK u : u = Sl!SetPrev(y, m, p)
        OBVIOUS
      <3>6. q = Sl!SetNext(u, p, m)
        BY <2>6, <2>7, <2>9, <3>2, <3>4, <3>5 DEF Sl!_slab_free_insert
      <3>7. /\ y \in PageType /\ y.free = z.free /\ y.remain = z.remain
            /\ \A t \in Spots : /\ y.meta[t].size = z.meta[t].size /\ y.meta[t].alloc = z.meta[t].alloc
                                /\ y.meta[t].next = IF t = m THEN n ELSE z.meta[t].next
                                /\ y.meta[t].prev = IF t = n THEN m ELSE z.meta[t].prev
        <4>1. CASE n = -1
          <5>1. y = z /\ \A t \in Spots : t # n
            BY <3>4, <4>1, SpotNumbers
          <5> QED BY <1>1, <1>4, <4>1, <5>1
        <4>2. CASE n \in F
          <5>1. PICK x : x = Sl!SetNext(z, m, n)
            OBVIOUS
          <5>2. y = Sl!SetPrev(x, n, m) /\ n \in Spots \cup {-1}
            BY <1>2, <3>4, <4>2, <5>1
          <5>3. NextSet(x, z, m, n)
            BY <1>1, <1>2, <3>3, <5>1, SetNextIs
          <5>4. x \in PageType
            BY <5>3 DEF NextSet
          <5>5. PrevSet(y, x, n, m)
            BY <1>2, <5>2, <5>4, SetPrevIs
          <5> QED BY <5>3, <5>5 DEF NextSet, PrevSet
        <4> QED BY <3>3, <4>1, <4>2
      <3>8. PrevSet(u, y, m, p)
        BY <1>2, <2>3, <3>5, <3>7, SetPrevIs
      <3>9. u \in PageType
        BY <3>8 DEF PrevSet
      <3>10. NextSet(q, u, p, m)
        BY <1>2, <2>3, <3>6, <3>9, SetNextIs
      <3>11. Inserted(q, z, m, p, n)
        <4>1. p # -1 /\ p # m
          BY <1>2, <2>3
        <4> QED BY <3>7, <3>8, <3>10, <4>1 DEF NextSet, PrevSet, Inserted
      <3>12. n = -1 \/ m < n
        <4>1. n \in F => n < m \/ m < n
          BY <1>2
        <4>2. n \in F /\ n < m => n <= p
          BY <2>3
        <4> QED BY <1>2, <2>3, <3>3, <4>1, <4>2
      <3>13. PageInv(q) /\ InUse(q) = InUse(z) /\ \A t \in Spots : q.meta[t].size = z.meta[t].size
        BY <2>3, <2>4, <3>1, <3>2, <3>11, <3>12, IsolatedIs
      <3> QED BY <1>7, <3>13
    <2> QED BY <2>8, <2>9
  <1> QED BY <1>8, <1>9, <1>10, <1>11

LEMMA FreeIs ==
  ASSUME NEW pg, PageInv(pg), NEW m \in InUse(pg), NEW q, q = Sl!Returned(Sl!Freed(pg, m), m)
  PROVE  /\ PageInv(q) /\ InUse(q) = InUse(pg) \ {m}
         /\ \A t \in InUse(q) : q.meta[t].size = pg.meta[t].size
  <1>1. PICK z : z = Sl!Freed(pg, m)
    OBVIOUS
  <1>2. /\ Almost(z, Loose(pg)) /\ m \notin Loose(pg) /\ Parted(z, Loose(pg))
        /\ Loose(z) = Loose(pg) \cup {m} /\ InUse(z) = InUse(pg) \ {m}
        /\ \A t \in Spots : z.meta[t].size = pg.meta[t].size
    BY <1>1, FreedIs
  <1>3. /\ PageInv(q) /\ InUse(q) = InUse(z)
        /\ \A t \in InUse(z) : q.meta[t].size = z.meta[t].size
    <2>1. q = Sl!Returned(z, m) /\ m \in Loose(z)
      BY <1>1, <1>2
    <2> QED BY <1>2, <2>1, ReturnedIs
  <1>4. \A t \in InUse(z) : t \in Spots
    BY DEF InUse, Begun
  <1> QED BY <1>2, <1>3, <1>4

(* A page is given back when none of it is in use.                         *)
LEMMA EmptyIs ==
  ASSUME NEW q, PageInv(q)
  PROVE  q.remain + PAGE_HEAD_SIZE = PAGE_SIZE <=> InUse(q) = {}
  <1>1. q \in PageType /\ Chopped(q) /\ Apart(q) /\ q.remain = Cardinality(Room(q))
    BY DEF PageInv
  <1>2. IsFiniteSet(Spots) /\ Cardinality(Spots) + PAGE_HEAD_SIZE = PAGE_SIZE
    <2>1. PAGE_HEAD_SIZE \in Int /\ PAGE_SIZE - 1 \in Int /\ PAGE_SIZE \in Int /\ PAGE_HEAD_SIZE <= PAGE_SIZE - 1
      BY SpotNumbers
    <2>2. Cardinality(Spots) = (PAGE_SIZE - 1) - PAGE_HEAD_SIZE + 1 /\ IsFiniteSet(Spots)
      BY <2>1, FS_Interval DEF Spots
    <2> QED BY <2>1, <2>2
  <1>3. Room(q) \subseteq Spots /\ Cardinality(Room(q)) \in Nat /\ Cardinality(Spots) \in Nat
    BY <1>2, RoomFinite, FS_CardinalityType DEF Room
  <1>4. q.remain + PAGE_HEAD_SIZE = PAGE_SIZE <=> Cardinality(Room(q)) = Cardinality(Spots)
    BY <1>1, <1>2, <1>3, SpotNumbers
  <1>5. Cardinality(Room(q)) = Cardinality(Spots) <=> Room(q) = Spots
    BY <1>2, <1>3, FS_Subset
  <1>6. \A s \in Begun(q) : s \in Spots /\ s \in Int /\ Past(q, s) \in Int /\ s < Past(q, s)
    BY <1>1, ChunkFacts
  <1>7. ASSUME Room(q) = Spots, NEW t \in InUse(q) PROVE FALSE
    <2>1. t \in Begun(q) /\ t \notin Loose(q)
      BY DEF InUse, Loose
    <2>2. PICK s \in Loose(q) : s <= t /\ t < Past(q, s)
      BY <1>6, <1>7, <2>1 DEF Room
    <2>3. s \in Begun(q) /\ s # t
      BY <2>1 DEF Loose
    <2>4. s < t => Past(q, s) <= t
      BY <1>1, <2>1, <2>3 DEF Chopped
    <2> QED BY <1>6, <2>1, <2>2, <2>3, <2>4
  <1>8. ASSUME InUse(q) = {} PROVE Room(q) = Spots
    <2>1. Begun(q) = Loose(q)
      BY <1>8 DEF InUse, Loose
    <2>2. PICK h : h = PAGE_HEAD_SIZE
      OBVIOUS
    <2>3. h \in Loose(q) /\ Past(q, h) = PAGE_SIZE
      BY <1>1, <2>1, <2>2 DEF Chopped, Apart
    <2>4. ASSUME NEW u \in Spots PROVE h <= u /\ u < Past(q, h)
      BY <2>2, <2>3, SpotNumbers
    <2> QED BY <2>3, <2>4 DEF Room
  <1> QED BY <1>4, <1>5, <1>7, <1>8

(* A new page is one free chunk, which serves every request.               *)
LEMMA FreshIs ==
  /\ PageInv(Sl!Fresh) /\ InUse(Sl!Fresh) = {}
  /\ \A sz \in 1..SLAB_SIZE_MAX : Sl!FirstFit(Sl!Fresh, sz) > 0
  <1> DEFINE h == PAGE_HEAD_SIZE
             all == PAGE_SIZE - PAGE_HEAD_SIZE
  <1>1. h \in Nat /\ h > 0 /\ PAGE_SIZE \in Nat /\ all \in Nat /\ all - 1 \in Nat /\ SLAB_SIZE_MAX \in Nat
        /\ SLAB_SIZE_MAX <= all - 1 /\ h \in Spots
    <2>1. h \in Nat /\ h > 0 /\ PAGE_SIZE \in Nat /\ h + 1 + SLAB_SIZE_MAX <= PAGE_SIZE /\ SLAB_SIZE_MAX \in Nat
      BY SpotNumbers
    <2>2. h \in Spots
      BY <2>1, SpotNumbers
    <2> QED BY <2>1, <2>2
  <1>2. PICK f : f = Sl!Fresh
    OBVIOUS
  <1>3. PICK n \in Nat : n = all - 1
    BY <1>1
  <1>4. PICK v : v = [Sl!Blank EXCEPT !.size = n]
    OBVIOUS
  <1>5. f = [free |-> h, remain |-> all, meta |-> [s \in Spots |-> IF s = h THEN v ELSE Sl!Blank]]
    <2>1. PAGE_SIZE - PAGE_HEAD_SIZE - Sl!META_SIZE = n
      BY <1>3 DEF Sl!META_SIZE
    <2>2. f = [Sl!NoPage EXCEPT !.free = h, !.remain = all, !.meta[h] = [Sl!Blank EXCEPT !.size = n]]
      BY <1>2, <2>1 DEF Sl!Fresh
    <2>4. PICK b : b = Sl!Blank
      OBVIOUS
    <2>5. Sl!NoPage = [free |-> -1, remain |-> 0, meta |-> [s \in Spots |-> b]]
      BY <2>4 DEF Sl!NoPage, Spots
    <2>6. f = [free |-> h, remain |-> all, meta |-> [s \in Spots |-> IF s = h THEN v ELSE b]]
      BY <1>1, <1>4, <2>2, <2>5
    <2> QED BY <2>4, <2>6
  <1>7. v \in Metas /\ v.size = n /\ ~v.alloc /\ v.next = -1 /\ v.prev = -1
    <2>1. PICK x \in Metas : x = Sl!Blank
      BY BlankIs
    <2>2. ~x.alloc /\ x.next = -1 /\ x.prev = -1
      BY <2>1 DEF Sl!Blank
    <2>3. PICK y : y = [x EXCEPT !.size = n]
      OBVIOUS
    <2>4. y \in Metas /\ y.size = n /\ y.alloc = x.alloc /\ y.next = x.next /\ y.prev = x.prev
      BY <2>3 DEF Metas
    <2> QED BY <1>4, <2>1, <2>2, <2>3, <2>4
  <1>8. /\ f \in PageType /\ f.free = h /\ f.remain = all
        /\ \A s \in Spots : f.meta[s] = IF s = h THEN v ELSE Sl!Blank
    BY <1>1, <1>5, <1>7, BlankIs DEF PageType
  <1>9. /\ f.meta[h].size = n /\ \A s \in Spots : ~f.meta[s].alloc /\ f.meta[s].next = -1 /\ f.meta[s].prev = -1
        /\ \A s \in Spots \ {h} : f.meta[s].size = -1
    BY <1>1, <1>7, <1>8 DEF Sl!Blank
  <1>10. Begun(f) = {h} /\ Loose(f) = {h} /\ InUse(f) = {} /\ Past(f, h) = PAGE_SIZE
    <2>1. Begun(f) = {h}
      <3>1. \A s \in Spots : f.meta[s].size >= 0 <=> s = h
        <4>1. n >= 0 /\ ~(-1 >= 0)
          BY <1>3
        <4> QED BY <1>9, <4>1
      <3> QED BY <1>1, <3>1 DEF Begun
    <2>2. Past(f, h) = PAGE_SIZE
      BY <1>1, <1>3, <1>9 DEF Past
    <2> QED BY <1>1, <1>9, <2>1, <2>2 DEF Loose, InUse
  <1>11. PAGE_SIZE \notin Spots
    BY SpotNumbers
  <1>12. Chopped(f) /\ Apart(f) /\ Quiet(f)
    <2>1. Chopped(f)
      BY <1>1, <1>10 DEF Chopped
    <2>2. Apart(f)
      BY <1>1, <1>10, <1>11 DEF Apart
    <2> QED BY <1>9, <2>1, <2>2 DEF Quiet
  <1>13. Strung({h}, f)
    BY <1>1, <1>8, <1>9 DEF Strung, HeadOk, NextOk, PrevOk
  <1>14. Cardinality(Room(f)) = all
    <2>1. \A u \in Spots : h <= u /\ u < Past(f, h)
      BY <1>10, SpotNumbers
    <2>2. Room(f) = Spots
      BY <1>10, <2>1 DEF Room
    <2>3. h \in Int /\ PAGE_SIZE - 1 \in Int /\ h <= PAGE_SIZE - 1
      BY <1>1
    <2>4. Cardinality(Spots) = (PAGE_SIZE - 1) - h + 1
      BY <2>3, FS_Interval DEF Spots
    <2> QED BY <1>1, <2>2, <2>4
  <1>15. PageInv(f)
    BY <1>8, <1>10, <1>12, <1>13, <1>14 DEF PageInv
  <1>16. ASSUME NEW sz \in 1..SLAB_SIZE_MAX PROVE Sl!FirstFit(f, sz) > 0
    <2> DEFINE w == CHOOSE g : g = [s \in {-1} \cup DOMAIN f.meta |->
                                      IF s <= 0 THEN -1 ELSE IF f.meta[s].size >= sz THEN s
                                      ELSE g[f.meta[s].next]]
               k == [s \in {-1} \cup DOMAIN f.meta |-> IF s = h THEN h ELSE -1]
    <2>0. DOMAIN f.meta = Spots /\ \A s \in Spots : ~(s <= 0) /\ s # -1
      BY <1>8, SpotNumbers DEF PageType
    <2>a. sz \in Nat /\ sz <= n /\ n >= sz /\ sz > 0
      BY <1>1, <1>3
    <2>1. k = [s \in {-1} \cup DOMAIN f.meta |-> IF s <= 0 THEN -1 ELSE IF f.meta[s].size >= sz THEN s
                                                 ELSE k[f.meta[s].next]]
      <3>1. ASSUME NEW s \in {-1} \cup DOMAIN f.meta
            PROVE  k[s] = IF s <= 0 THEN -1 ELSE IF f.meta[s].size >= sz THEN s ELSE k[f.meta[s].next]
        <4>1. CASE s = -1
          BY <1>1, <4>1
        <4>2. CASE s = h
          BY <1>1, <1>9, <2>0, <2>a, <4>2
        <4>3. CASE s # -1 /\ s # h
          <5>1. s \in Spots /\ ~(s <= 0) /\ f.meta[s].size = -1 /\ f.meta[s].next = -1
            BY <1>9, <2>0, <4>3
          <5>2. ~(f.meta[s].size >= sz) /\ k[-1] = -1
            BY <1>1, <2>a, <5>1
          <5> QED BY <4>3, <5>1, <5>2
        <4> QED BY <4>1, <4>2, <4>3
      <3> QED BY <3>1
    <2> HIDE DEF k
    <2>2. w = [s \in {-1} \cup DOMAIN f.meta |-> IF s <= 0 THEN -1 ELSE IF f.meta[s].size >= sz THEN s
                                                 ELSE w[f.meta[s].next]]
      BY <2>1
    <2>3. Sl!FirstFit(f, sz) = IF f.remain < sz + 1 THEN -1 ELSE w[f.free]
      BY DEF Sl!FirstFit, Sl!META_SIZE
    <2> HIDE DEF w
    <2>4. w[h] = h
      BY <1>1, <1>9, <2>0, <2>2, <2>a
    <2>5. ~(f.remain < sz + 1)
      BY <1>1, <1>3, <1>8, <2>a
    <2> QED BY <1>1, <1>8, <2>3, <2>4, <2>5
  <1> QED BY <1>2, <1>10, <1>15, <1>16

(* The four lists: every page is on one of them at most, and once.         *)
Listing(ls) ==
  /\ ls \in [Sl!Lists -> Seq(Pages)]
  /\ \A l \in Sl!Lists : OnceEach(ls[l])
  /\ \A l, k \in Sl!Lists : l # k => Elements(ls[l]) \cap Elements(ls[k]) = {}
OnList(ls, x) == \E l \in Sl!Lists : x \in Elements(ls[l])

LEMMA RemoveFirstIs ==
  ASSUME NEW T, NEW s \in Seq(T), OnceEach(s), NEW e
  PROVE  /\ Sl!RemoveFirst(s, e) \in Seq(T) /\ OnceEach(Sl!RemoveFirst(s, e))
         /\ Elements(Sl!RemoveFirst(s, e)) = Elements(s) \ {e}
  <1>1. CASE e \notin Elements(s)
    <2>1. ~(\E i \in 1..Len(s) : s[i] = e)
      BY <1>1 DEF Elements
    <2>2. Sl!RemoveFirst(s, e) = s
      BY <2>1 DEF Sl!RemoveFirst
    <2> QED BY <1>1, <2>2
  <1>2. CASE e \in Elements(s)
    <2> DEFINE I == {i \in 1..Len(s) : s[i] = e}
    <2>0. Len(s) \in Nat
      BY LenProperties
    <2>1. I \in SUBSET Nat /\ I # {}
      BY <1>2, <2>0 DEF Elements
    <2>2. \E k \in I : \A i \in I : k <= i
      BY <2>1, LeastNat
    <2>3. PICK k : k = Sl!Min(I)
      OBVIOUS
    <2>4. k \in I
      BY <2>2, <2>3 DEF Sl!Min
    <2>5. k \in 1..Len(s) /\ s[k] = e
      BY <2>4
    <2>6. Sl!SelectInSeq(s, LAMBDA v : v = e) = k
      BY <2>1, <2>3 DEF Sl!SelectInSeq
    <2>7. Sl!RemoveFirst(s, e) = SubSeq(s, 1, k - 1) \o SubSeq(s, k + 1, Len(s))
      BY <2>5, <2>6 DEF Sl!RemoveFirst, Sl!RemoveAt
    <2>8. PICK a : a = SubSeq(s, 1, k - 1)
      OBVIOUS
    <2>9. PICK b : b = SubSeq(s, k + 1, Len(s))
      OBVIOUS
    <2> HIDE DEF I
    <2>10. /\ a \in Seq(T) /\ Len(a) = k - 1 /\ \A i \in 1..k - 1 : a[i] = s[i]
      <3>1. 1 \in 1..Len(s) + 1 /\ k - 1 \in 0..Len(s) /\ k \in Int
        BY <2>0, <2>5
      <3>2. /\ SubSeq(s, 1, k - 1) \in Seq(T)
            /\ Len(SubSeq(s, 1, k - 1)) = IF 1 <= k - 1 THEN (k - 1) - 1 + 1 ELSE 0
            /\ \A i \in 1..((k - 1) - 1 + 1) : SubSeq(s, 1, k - 1)[i] = s[1 + i - 1]
        <4>1. \A i \in 1..k - 1 : s[i] \in T
          BY <2>0, <2>5
        <4> QED BY <3>1, <4>1, SubSeqProperties
      <3> QED BY <2>5, <2>8, <3>1, <3>2
    <2>11. /\ b \in Seq(T) /\ Len(b) = Len(s) - k /\ \A i \in 1..Len(s) - k : b[i] = s[k + i]
      <3>1. k + 1 \in 1..Len(s) + 1 /\ Len(s) \in 0..Len(s) /\ k \in Int
        BY <2>0, <2>5
      <3>2. /\ SubSeq(s, k + 1, Len(s)) \in Seq(T)
            /\ Len(SubSeq(s, k + 1, Len(s))) = IF k + 1 <= Len(s) THEN Len(s) - (k + 1) + 1 ELSE 0
            /\ \A i \in 1..(Len(s) - (k + 1) + 1) : SubSeq(s, k + 1, Len(s))[i] = s[(k + 1) + i - 1]
        <4>1. \A i \in k + 1..Len(s) : s[i] \in T
          BY <2>0, <2>5
        <4> QED BY <2>0, <3>1, <4>1, SubSeqProperties
      <3>3. Len(s) - (k + 1) + 1 = Len(s) - k /\ \A i \in 1..Len(s) - k : (k + 1) + i - 1 = k + i
        BY <2>0, <3>1
      <3>4. k <= Len(s)
        BY <2>5
      <3>5. Len(b) = Len(s) - k
        <4>1. ~(k + 1 <= Len(s)) => Len(s) - k = 0
          BY <2>0, <3>1, <3>4
        <4> QED BY <2>9, <3>2, <3>3, <4>1
      <3>6. \A i \in 1..Len(s) - k : b[i] = s[k + i]
        BY <2>9, <3>2, <3>3
      <3> QED BY <2>9, <3>2, <3>5, <3>6
    <2>12. \A i \in 1..Len(s) : i < k => i \in 1..k - 1
      BY <2>0, <2>5
    <2>13. \A i \in 1..Len(s) : i > k => i - k \in 1..Len(s) - k /\ k + (i - k) = i
      BY <2>0, <2>5
    <2>14. \A i \in 1..k - 1 : i \in 1..Len(s) /\ i # k
      BY <2>0, <2>5
    <2>15. \A i \in 1..Len(s) - k : k + i \in 1..Len(s) /\ k + i # k
      BY <2>0, <2>5
    <2>16. Elements(a) \cup Elements(b) = Elements(s) \ {e}
      <3>1. ASSUME NEW i \in 1..k - 1 PROVE a[i] \in Elements(s) \ {e}
        BY <2>5, <2>10, <2>14 DEF Elements, OnceEach
      <3>2. ASSUME NEW i \in 1..Len(s) - k PROVE b[i] \in Elements(s) \ {e}
        BY <2>5, <2>11, <2>15 DEF Elements, OnceEach
      <3>3. ASSUME NEW i \in 1..Len(s), s[i] # e PROVE s[i] \in Elements(a) \cup Elements(b)
        <4>1. i < k \/ i > k
          BY <2>0, <2>5, <3>3
        <4>2. CASE i < k
          <5>1. i \in 1..Len(a) /\ a[i] = s[i]
            BY <2>10, <2>12, <4>2
          <5> QED BY <5>1 DEF Elements
        <4>3. CASE i > k
          <5>1. i - k \in 1..Len(b) /\ b[i - k] = s[i]
            BY <2>11, <2>13, <4>3
          <5> QED BY <5>1 DEF Elements
        <4> QED BY <4>1, <4>2, <4>3
      <3>4. Elements(a) \subseteq Elements(s) \ {e} /\ Elements(b) \subseteq Elements(s) \ {e}
        BY <2>10, <2>11, <3>1, <3>2 DEF Elements
      <3>5. Elements(s) \ {e} \subseteq Elements(a) \cup Elements(b)
        <4> SUFFICES ASSUME NEW x \in Elements(s) \ {e} PROVE x \in Elements(a) \cup Elements(b)
          OBVIOUS
        <4>1. PICK i \in 1..Len(s) : x = s[i]
          BY DEF Elements
        <4> QED BY <3>3, <4>1
      <3> QED BY <3>4, <3>5
    <2>17. OnceEach(a) /\ OnceEach(b)
      <3>1. ASSUME NEW i \in 1..k - 1, NEW h \in 1..k - 1, a[i] = a[h] PROVE i = h
        BY <2>10, <2>14, <3>1 DEF OnceEach
      <3>2. ASSUME NEW i \in 1..Len(s) - k, NEW h \in 1..Len(s) - k, b[i] = b[h] PROVE i = h
        <4>1. k + i = k + h
          BY <2>11, <2>15, <3>2 DEF OnceEach
        <4> QED BY <2>0, <2>5, <4>1
      <3> QED BY <2>10, <2>11, <3>1, <3>2 DEF OnceEach
    <2>18. Elements(a) \cap Elements(b) = {}
      <3> SUFFICES ASSUME NEW i \in 1..k - 1, NEW h \in 1..Len(s) - k, a[i] = b[h] PROVE FALSE
        BY <2>10, <2>11 DEF Elements
      <3>1. i = k + h
        BY <2>10, <2>11, <2>14, <2>15 DEF OnceEach
      <3> QED BY <2>0, <2>5, <3>1
    <2>19. Sl!RemoveFirst(s, e) = a \o b
      BY <2>7, <2>8, <2>9
    <2> QED BY <2>10, <2>11, <2>16, <2>17, <2>18, <2>19, ConcatElements
  <1> QED BY <1>1, <1>2

LEMMA UnlistedIs ==
  ASSUME NEW ls, Listing(ls), NEW p, NEW u, u = Sl!Unlisted(ls, p)
  PROVE  Listing(u) /\ (\A x : OnList(u, x) <=> OnList(ls, x) /\ x # p)
  <1>1. u = [l \in Sl!Lists |-> Sl!RemoveFirst(ls[l], p)]
    BY DEF Sl!Unlisted
  <1>2. \A l \in Sl!Lists : ls[l] \in Seq(Pages) /\ OnceEach(ls[l])
    BY DEF Listing
  <1>3. \A l \in Sl!Lists : /\ u[l] \in Seq(Pages) /\ OnceEach(u[l])
                            /\ Elements(u[l]) = Elements(ls[l]) \ {p}
    <2> SUFFICES ASSUME NEW l \in Sl!Lists
                 PROVE  /\ u[l] \in Seq(Pages) /\ OnceEach(u[l])
                        /\ Elements(u[l]) = Elements(ls[l]) \ {p}
      OBVIOUS
    <2>1. PICK s \in Seq(Pages) : s = ls[l] /\ OnceEach(s)
      BY <1>2
    <2>2. u[l] = Sl!RemoveFirst(s, p)
      BY <1>1, <2>1
    <2> QED BY <2>1, <2>2, RemoveFirstIs
  <1>4. u \in [Sl!Lists -> Seq(Pages)]
    <2>1. \A l \in Sl!Lists : Sl!RemoveFirst(ls[l], p) \in Seq(Pages)
      BY <1>1, <1>3
    <2> QED BY <1>1, <2>1
  <1>5. \A l, k \in Sl!Lists : l # k => Elements(u[l]) \cap Elements(u[k]) = {}
    BY <1>3 DEF Listing
  <1> QED BY <1>3, <1>4, <1>5 DEF Listing, OnList

LEMMA RelistedIs ==
  ASSUME NEW ls, Listing(ls), NEW p \in Pages, NEW l \in Sl!Lists, NEW r, r = Sl!Relisted(ls, p, l)
  PROVE  Listing(r) /\ (\A x : OnList(r, x) <=> OnList(ls, x) \/ x = p)
  <1>1. PICK u : u = Sl!Unlisted(ls, p)
    OBVIOUS
  <1>2. Listing(u) /\ (\A x : OnList(u, x) <=> OnList(ls, x) /\ x # p)
    BY <1>1, UnlistedIs
  <1>3. r = [u EXCEPT ![l] = <<p>> \o u[l]]
    BY <1>1 DEF Sl!Relisted
  <1>4. u \in [Sl!Lists -> Seq(Pages)] /\ OnceEach(u[l]) /\ u[l] \in Seq(Pages)
    BY <1>2 DEF Listing
  <1>5. <<p>> \in Seq(Pages) /\ Elements(<<p>>) = {p} /\ OnceEach(<<p>>)
    <2>1. <<p>> \in Seq(Pages) /\ Len(<<p>>) = 1 /\ <<p>>[1] = p
      OBVIOUS
    <2>2. 1..Len(<<p>>) = {1}
      BY <2>1
    <2> QED BY <2>1, <2>2 DEF Elements, OnceEach
  <1>6. p \notin Elements(u[l])
    BY <1>2 DEF OnList
  <1>7. PICK w : w = <<p>> \o u[l]
    OBVIOUS
  <1>8. w \in Seq(Pages) /\ Elements(w) = {p} \cup Elements(u[l]) /\ OnceEach(w)
    <2>1. PICK s \in Seq(Pages) : s = <<p>> /\ Elements(s) = {p} /\ OnceEach(s)
      BY <1>5
    <2>2. PICK t \in Seq(Pages) : t = u[l]
      BY <1>4
    <2>3. Elements(s) \cap Elements(t) = {} /\ OnceEach(t) /\ w = s \o t
      BY <1>4, <1>6, <1>7, <2>1, <2>2
    <2>4. /\ s \o t \in Seq(Pages) /\ OnceEach(s \o t)
          /\ Elements(s \o t) = Elements(s) \cup Elements(t)
      <3>1. OnceEach(s) /\ OnceEach(t) /\ Elements(s) \cap Elements(t) = {}
        BY <1>5, <2>1, <2>3
      <3>2. s \o t \in Seq(Pages) /\ Elements(s \o t) = Elements(s) \cup Elements(t)
        BY ConcatElements
      <3>3. OnceEach(s) /\ OnceEach(t) /\ Elements(s) \cap Elements(t) = {} => OnceEach(s \o t)
        BY ConcatElements
      <3> QED BY <3>1, <3>2, <3>3
    <2> QED BY <2>1, <2>2, <2>3, <2>4
  <1>9. r \in [Sl!Lists -> Seq(Pages)] /\ r[l] = w /\ \A k \in Sl!Lists \ {l} : r[k] = u[k]
    BY <1>3, <1>4, <1>7, <1>8
  <1>10. \A k \in Sl!Lists : OnceEach(r[k])
    BY <1>2, <1>8, <1>9 DEF Listing
  <1>11. \A k, h \in Sl!Lists : k # h => Elements(r[k]) \cap Elements(r[h]) = {}
    <2>1. \A k \in Sl!Lists : p \notin Elements(u[k])
      BY <1>2 DEF OnList
    <2>2. \A k, h \in Sl!Lists : k # h => Elements(u[k]) \cap Elements(u[h]) = {}
      BY <1>2 DEF Listing
    <2>3. \A k \in Sl!Lists \ {l} : /\ Elements(r[k]) = Elements(u[k])
                                  /\ Elements(r[l]) \cap Elements(u[k]) = {}
                                  /\ Elements(u[k]) \cap Elements(r[l]) = {}
      BY <1>8, <1>9, <2>1, <2>2
    <2> SUFFICES ASSUME NEW k \in Sl!Lists, NEW h \in Sl!Lists, k # h
                 PROVE  Elements(r[k]) \cap Elements(r[h]) = {}
      OBVIOUS
    <2>4. CASE k = l
      BY <2>3, <2>4
    <2>5. CASE h = l
      BY <2>3, <2>5
    <2>6. CASE k # l /\ h # l
      BY <2>2, <2>3, <2>6
    <2> QED BY <2>4, <2>5, <2>6
  <1>12. \A x : OnList(r, x) <=> OnList(ls, x) \/ x = p
    <2>1. \A x : OnList(r, x) <=> OnList(u, x) \/ x = p
      BY <1>8, <1>9 DEF OnList
    <2> QED BY <1>2, <2>1
  <1> QED BY <1>9, <1>10, <1>11, <1>12 DEF Listing

(* What a page says, as Tiled says it.                                     *)
LEMMA ExtremesAre ==
  ASSUME NEW T \in SUBSET Int, NEW m \in T
  PROVE  /\ (\A t \in T : m <= t) => Sl!Lowest(T) = m
         /\ (\A t \in T : t <= m) => Sl!Highest(T) = m
  <1>1. ASSUME \A t \in T : m <= t PROVE Sl!Lowest(T) = m
    <2>1. \A x \in T : (\A y \in T : x <= y) => x = m
      BY <1>1
    <2>2. Sl!Min(T) = m
      BY <1>1, <2>1 DEF Sl!Min
    <2> QED BY <2>2 DEF Sl!Lowest
  <1>2. ASSUME \A t \in T : t <= m PROVE Sl!Highest(T) = m
    <2>1. \A x \in T : (\A y \in T : x >= y) => x = m
      BY <1>2
    <2>2. \A y \in T : m >= y
      BY <1>2
    <2>3. Sl!Max(T) = m
      BY <2>1, <2>2 DEF Sl!Max
    <2> QED BY <2>3 DEF Sl!Highest
  <1> QED BY <1>1, <1>2

LEMMA ChunksAre ==
  ASSUME NEW pg, PageInv(pg)
  PROVE  /\ Sl!Chunks(pg) = Begun(pg) /\ Sl!FreeChunks(pg) = Loose(pg) /\ DOMAIN pg.meta = Spots
         /\ \A s \in Begun(pg) : Sl!End(pg, s) = Past(pg, s)
  <1>1. pg \in PageType /\ Quiet(pg) /\ DOMAIN pg.meta = Spots
    BY DEF PageInv, PageType
  <1>2. ASSUME NEW s \in Spots PROVE pg.meta[s] # Sl!Blank <=> s \in Begun(pg)
    <2>1. PICK w \in Metas : w = pg.meta[s]
      BY <1>1, PageIs
    <2>2. CASE w.size >= 0
      <3>1. w # Sl!Blank
        <4>1. Sl!Blank.size = -1
          BY BlankIs
        <4> QED BY <2>2, <4>1
      <3> QED BY <2>1, <2>2, <3>1 DEF Begun
    <2>3. CASE ~(w.size >= 0)
      <3>1. s \notin Begun(pg)
        BY <2>1, <2>3 DEF Begun
      <3>2. w.size = -1
        BY <2>3 DEF Metas
      <3>3. ~w.alloc /\ w.next = -1 /\ w.prev = -1
        BY <1>1, <2>1, <3>1, <3>2 DEF Quiet, Loose
      <3>4. PICK v \in Metas : v = Sl!Blank
        BY BlankIs
      <3>5. v.size = -1 /\ ~v.alloc /\ v.next = -1 /\ v.prev = -1
        BY <3>4 DEF Sl!Blank
      <3>6. w = v
        BY <3>2, <3>3, <3>5 DEF Metas
      <3> QED BY <2>1, <3>1, <3>4, <3>6
    <2> QED BY <2>2, <2>3
  <1>3. Sl!Chunks(pg) = Begun(pg)
    BY <1>1, <1>2 DEF Sl!Chunks, Begun
  <1>4. Sl!FreeChunks(pg) = Loose(pg)
    BY <1>3 DEF Sl!FreeChunks, Loose
  <1> QED BY <1>1, <1>3, <1>4 DEF Sl!End, Sl!META_SIZE, Past

LEMMA CoveredIs ==
  ASSUME NEW pg, PageInv(pg)
  PROVE  Sl!Covered(pg)
  <1>1. Chopped(pg) /\ Apart(pg)
    BY DEF PageInv
  <1>2. /\ Sl!Chunks(pg) = Begun(pg)
        /\ \A s \in Begun(pg) : Sl!End(pg, s) = Past(pg, s)
    BY ChunksAre
  <1>3. ASSUME NEW s \in Begun(pg), Past(pg, s) # PAGE_SIZE
        PROVE  Past(pg, s) \in Begun(pg) /\ (pg.meta[s].alloc \/ pg.meta[Past(pg, s)].alloc)
    <2>1. PICK e \in Begun(pg) : e = Past(pg, s)
      BY <1>1, <1>3 DEF Chopped
    <2>2. s \in Loose(pg) => e \notin Loose(pg)
      BY <1>1, <2>1 DEF Apart
    <2> QED BY <2>1, <2>2 DEF Loose
  <1> QED BY <1>1, <1>2, <1>3 DEF Sl!Covered, Chopped

LEMMA SlCardinality == ASSUME NEW T PROVE Sl!Cardinality(T) = Cardinality(T)
  BY DEF Sl!Cardinality, Cardinality

LEMMA FreeListedIs ==
  ASSUME NEW pg, PageInv(pg)
  PROVE  Sl!FreeListed(pg)
  <1>1. /\ Strung(Loose(pg), pg) /\ pg.remain = Cardinality(Room(pg))
    BY DEF PageInv
  <1>2. /\ Sl!FreeChunks(pg) = Loose(pg) /\ DOMAIN pg.meta = Spots
        /\ \A s \in Loose(pg) : Sl!End(pg, s) = Past(pg, s)
    BY ChunksAre DEF Loose
  <1>3. PICK F : F = Loose(pg)
    OBVIOUS
  <1>4. \A s \in F : s \in Int
    BY <1>3, SpotNumbers DEF Loose, Begun
  <1>5. HeadOk(F, pg) /\ \A s \in F : NextOk(F, pg, s) /\ PrevOk(F, pg, s)
    BY <1>1, <1>3 DEF Strung
  <1>6. pg.free = Sl!Lowest(F)
    <2>1. CASE F = {}
      BY <1>5, <2>1 DEF HeadOk, Sl!Lowest
    <2>2. CASE F # {}
      BY <1>4, <1>5, <2>2, ExtremesAre DEF HeadOk
    <2> QED BY <2>1, <2>2
  <1>7. ASSUME NEW s \in F PROVE pg.meta[s].next = Sl!Lowest({t \in F : s < t})
    <2>1. PICK T : T = {t \in F : s < t}
      OBVIOUS
    <2>2. T \in SUBSET Int /\ \A t : t \in T <=> t \in F /\ s < t
      BY <1>4, <2>1
    <2>3. PICK n : n = pg.meta[s].next
      OBVIOUS
    <2>4. \/ n = -1 /\ \A t \in F : t <= s
          \/ n \in F /\ s < n /\ \A t \in F : s < t => n <= t
      BY <1>5, <2>3 DEF NextOk
    <2>5. CASE n = -1 /\ \A t \in F : t <= s
      <3>1. T = {}
        BY <1>4, <2>2, <2>5
      <3> QED BY <2>1, <2>3, <2>5, <3>1 DEF Sl!Lowest
    <2>6. CASE n \in F /\ s < n /\ \A t \in F : s < t => n <= t
      <3>1. n \in T /\ \A t \in T : n <= t
        BY <2>2, <2>6
      <3> QED BY <2>1, <2>2, <2>3, <3>1, ExtremesAre
    <2> QED BY <2>4, <2>5, <2>6
  <1>8. ASSUME NEW s \in F PROVE pg.meta[s].prev = Sl!Highest({t \in F : t < s})
    <2>1. PICK T : T = {t \in F : t < s}
      OBVIOUS
    <2>2. T \in SUBSET Int /\ \A t : t \in T <=> t \in F /\ t < s
      BY <1>4, <2>1
    <2>3. PICK n : n = pg.meta[s].prev
      OBVIOUS
    <2>4. \/ n = -1 /\ \A t \in F : s <= t
          \/ n \in F /\ n < s /\ \A t \in F : t < s => t <= n
      BY <1>5, <2>3 DEF PrevOk
    <2>5. CASE n = -1 /\ \A t \in F : s <= t
      <3>1. T = {}
        BY <1>4, <2>2, <2>5
      <3> QED BY <2>1, <2>3, <2>5, <3>1 DEF Sl!Highest
    <2>6. CASE n \in F /\ n < s /\ \A t \in F : t < s => t <= n
      <3>1. n \in T /\ \A t \in T : t <= n
        BY <2>2, <2>6
      <3> QED BY <2>1, <2>2, <2>3, <3>1, ExtremesAre
    <2> QED BY <2>4, <2>5, <2>6
  <1>9. {u \in DOMAIN pg.meta : \E s \in F : s <= u /\ u < Sl!End(pg, s)} = Room(pg)
    BY <1>2, <1>3 DEF Room
  <1>10. Sl!FreeChunks(pg) = F
    BY <1>2, <1>3
  <1>11. Sl!Linked(F, pg)
    BY <1>1, <1>6, <1>7, <1>8, <1>9, SlCardinality DEF Sl!Linked
  <1> QED BY <1>10, <1>11 DEF Sl!FreeListed

(* The pages, their lists and what is lent.                                *)
Loans == [page : Pages, at : Spots, size : Nat]
SlInv ==
  /\ Listing(list) /\ page \in [Pages -> PageType] /\ lent \subseteq Loans
  /\ \A x \in lent : /\ OnList(list, x.page) /\ x.at \in InUse(page[x.page])
                     /\ x.size <= page[x.page].meta[x.at].size
  /\ \A p \in Pages : OnList(list, p) =>
       /\ PageInv(page[p]) /\ InUse(page[p]) # {}
       /\ \A m \in InUse(page[p]) : \E x \in lent : x.page = p /\ x.at = m
  /\ \A x, y \in lent : x.page = y.page /\ x.at = y.at => x = y

LEMMA ListedIs ==
  ASSUME Listing(list), NEW p \in Pages
  PROVE  /\ p \in Sl!Mapped <=> OnList(list, p)
         /\ OnList(list, p) => \E l \in Sl!Lists : /\ Sl!Contains(list[l], p)
                                                   /\ \A k \in Sl!Lists \ {l} : ~Sl!Contains(list[k], p)
  <1>1. \A l \in Sl!Lists : Sl!Contains(list[l], p) <=> p \in Elements(list[l])
    BY DEF Sl!Contains, Elements
  <1>2. p \in Sl!Mapped <=> OnList(list, p)
    BY <1>1 DEF Sl!Mapped, OnList
  <1>3. ASSUME OnList(list, p)
        PROVE  \E l \in Sl!Lists : /\ Sl!Contains(list[l], p)
                                   /\ \A k \in Sl!Lists \ {l} : ~Sl!Contains(list[k], p)
    <2>1. PICK l \in Sl!Lists : p \in Elements(list[l])
      BY <1>3 DEF OnList
    <2>2. \A k \in Sl!Lists \ {l} : p \notin Elements(list[k])
      BY <2>1 DEF Listing
    <2> QED BY <1>1, <2>1, <2>2
  <1> QED BY <1>2, <1>3

LEMMA SlImplies == SlInv => Sl!Tiled
  <1> SUFFICES ASSUME SlInv PROVE Sl!Tiled
    OBVIOUS
  <1>1. Listing(list) /\ lent \subseteq Loans
    BY DEF SlInv
  <1>2. \A p \in Pages : p \in Sl!Mapped <=> OnList(list, p)
    BY <1>1, ListedIs
  <1>3. \A x \in lent : x.page \in Pages
    BY <1>1 DEF Loans
  <1>4. Sl!Mapped = {x.page : x \in lent}
    <2>1. ASSUME NEW p \in Sl!Mapped PROVE \E x \in lent : p = x.page
      <3>1. p \in Pages
        BY DEF Sl!Mapped
      <3>2. OnList(list, p)
        BY <1>2, <3>1
      <3> QED BY <3>1, <3>2 DEF SlInv
    <2>2. ASSUME NEW x \in lent PROVE x.page \in Sl!Mapped
      <3>1. OnList(list, x.page)
        BY DEF SlInv
      <3> QED BY <1>2, <1>3, <3>1
    <2> QED BY <2>1, <2>2
  <1>5. ASSUME NEW p \in Sl!Mapped
        PROVE  /\ Sl!Covered(page[p]) /\ Sl!FreeListed(page[p])
               /\ {x.at : x \in Sl!LentOf(p)} = Sl!Chunks(page[p]) \ Sl!FreeChunks(page[p])
               /\ \A x \in Sl!LentOf(p) : /\ x.size <= page[p].meta[x.at].size
                                          /\ \A y \in Sl!LentOf(p) : x.at = y.at => x = y
               /\ \E l \in Sl!Lists : /\ Sl!Contains(list[l], p)
                                      /\ \A k \in Sl!Lists \ {l} : ~Sl!Contains(list[k], p)
    <2>1. p \in Pages
      BY DEF Sl!Mapped
    <2>2. OnList(list, p)
      BY <1>2, <2>1
    <2>3. PageInv(page[p]) /\ \A m \in InUse(page[p]) : \E x \in lent : x.page = p /\ x.at = m
      BY <2>1, <2>2 DEF SlInv
    <2>4. Sl!Covered(page[p]) /\ Sl!FreeListed(page[p])
      BY <2>3, CoveredIs, FreeListedIs
    <2>5. Sl!Chunks(page[p]) \ Sl!FreeChunks(page[p]) = InUse(page[p])
      <3>1. Sl!Chunks(page[p]) = Begun(page[p]) /\ Sl!FreeChunks(page[p]) = Loose(page[p])
        BY <2>3, ChunksAre
      <3> QED BY <3>1 DEF InUse, Loose
    <2>6. \A x : x \in Sl!LentOf(p) <=> x \in lent /\ x.page = p
      BY DEF Sl!LentOf
    <2>7. \A x \in Sl!LentOf(p) : /\ x.at \in InUse(page[p]) /\ x.size <= page[p].meta[x.at].size
                                  /\ \A y \in Sl!LentOf(p) : x.at = y.at => x = y
      BY <2>6 DEF SlInv
    <2>8. {x.at : x \in Sl!LentOf(p)} = InUse(page[p])
      BY <2>3, <2>6, <2>7
    <2>9. \E l \in Sl!Lists : /\ Sl!Contains(list[l], p)
                              /\ \A k \in Sl!Lists \ {l} : ~Sl!Contains(list[k], p)
      BY <1>1, <2>1, <2>2, ListedIs
    <2> QED BY <2>4, <2>5, <2>7, <2>8, <2>9
  <1> QED BY <1>4, <1>5 DEF Sl!Tiled

(* A page that is full changes lists; so does one of whose chunks one is   *)
(* freed.                                                                  *)
LEMMA SlListsAre ==
  /\ Sl!Lists = {"minor", "common", "alloc_minor", "alloc_common"}
  /\ \A sz \in Nat : sz <= SLAB_SIZE_MAX => Sl!ListFor(sz) \in {"minor", "common"}
  /\ \A sz \in Int : Sl!ListFor(sz) \in {"minor", "common", "none"}
  BY DEF Sl!Lists, Sl!ListFor

LEMMA WithoutFullIs ==
  ASSUME NEW ls, Listing(ls), NEW p \in Pages, OnList(ls, p), NEW pg, NEW l, NEW r,
         r = Sl!WithoutFull(ls, pg, p, l)
  PROVE  Listing(r) /\ (\A x : OnList(r, x) <=> OnList(ls, x))
  <1>1. PICK k : k = IF l = "minor" THEN "alloc_minor" ELSE "alloc_common"
    OBVIOUS
  <1>2. k \in Sl!Lists
    BY <1>1, SlListsAre
  <1>3. r = Sl!Relisted(ls, p, k) \/ r = ls
    BY <1>1 DEF Sl!WithoutFull
  <1>4. CASE r = Sl!Relisted(ls, p, k)
    <2>1. Listing(r) /\ (\A x : OnList(r, x) <=> OnList(ls, x) \/ x = p)
      BY <1>2, <1>4, RelistedIs
    <2> QED BY <2>1
  <1> QED BY <1>3, <1>4

LEMMA ListedForFreeIs ==
  ASSUME NEW ls, Listing(ls), NEW p \in Pages, OnList(ls, p), NEW sz \in Int, NEW r,
         r = Sl!ListedForFree(ls, p, sz)
  PROVE  Listing(r) /\ (\A x : OnList(r, x) <=> OnList(ls, x))
  <1>1. PICK k : k = Sl!ListFor(sz)
    OBVIOUS
  <1>2. k = "none" \/ k \in Sl!Lists
    BY <1>1, SlListsAre
  <1>3. r = IF k = "none" THEN ls ELSE Sl!Relisted(ls, p, k)
    BY <1>1 DEF Sl!ListedForFree
  <1>4. CASE k # "none"
    <2>1. Listing(r) /\ (\A x : OnList(r, x) <=> OnList(ls, x) \/ x = p)
      BY <1>2, <1>3, <1>4, RelistedIs
    <2> QED BY <2>1
  <1> QED BY <1>3, <1>4

(* What slab_alloc comes down to: in page p, which is pg, the chunk m fits.*)
Serves(sz, p, pg, m, l, ls) ==
  /\ p \in Pages /\ PageInv(pg) /\ m \in Loose(pg) /\ sz <= pg.meta[m].size
  /\ IF OnList(list, p) THEN pg = page[p] ELSE InUse(pg) = {}
  /\ Listing(ls) /\ \A x : OnList(ls, x) <=> OnList(list, x) \/ x = p
  /\ m = Sl!FirstFit(pg, sz) /\ Sl!ServedFrom(p, pg, ls, l, sz)

LEMMA SlServes ==
  ASSUME SlInv, NEW sz \in 1..SLAB_SIZE_MAX, Sl!slab_alloc(sz)
  PROVE  \E p, pg, m, l, ls : Serves(sz, p, pg, m, l, ls)
  <1>0. Listing(list) /\ sz \in Nat /\ sz <= SLAB_SIZE_MAX
    BY SpotNumbers DEF SlInv
  <1>1. PICK l \in Sl!Lists : l = Sl!ListFor(sz)
    BY <1>0, SlListsAre
  <1>2. PICK s \in Seq(Pages) : s = list[l]
    BY <1>0 DEF Listing
  <1>3. Sl!ServedBy(l, sz)
    BY <1>1 DEF Sl!slab_alloc
  <1>4. \/ \E i \in Sl!Serving(l, sz) : Sl!ServedFrom(list[l][i], page[list[l][i]], list, l, sz)
        \/ /\ Sl!Mapped # Pages
           /\ Sl!ServedFrom(Sl!NewPage, Sl!Fresh, Sl!Relisted(list, Sl!NewPage, l), l, sz)
    BY <1>3 DEF Sl!ServedBy
  <1>5. CASE \E i \in Sl!Serving(l, sz) : Sl!ServedFrom(list[l][i], page[list[l][i]], list, l, sz)
    <2>1. PICK i \in Sl!Serving(l, sz) : Sl!ServedFrom(list[l][i], page[list[l][i]], list, l, sz)
      BY <1>5
    <2>2. PICK p : p = s[i]
      OBVIOUS
    <2>3. Sl!ServedFrom(p, page[p], list, l, sz)
      BY <1>2, <2>1, <2>2
    <2>4. i \in 1..Len(s) /\ Sl!FirstFit(page[p], sz) > 0
      <3>1. i \in DOMAIN s /\ Sl!FirstFit(page[p], sz) > 0
        BY <1>2, <2>1, <2>2 DEF Sl!Serving
      <3> QED BY <3>1, LenProperties
    <2>5. p \in Pages /\ p \in Elements(s)
      BY <2>2, <2>4 DEF Elements
    <2>6. OnList(list, p)
      BY <1>1, <1>2, <2>5 DEF OnList
    <2>7. PICK pg : pg = page[p]
      OBVIOUS
    <2>8. PageInv(pg)
      BY <2>5, <2>6, <2>7 DEF SlInv
    <2>9. PICK m : m = Sl!FirstFit(pg, sz)
      OBVIOUS
    <2>10. m \in Loose(pg) /\ sz <= pg.meta[m].size
      BY <1>0, <2>4, <2>7, <2>8, <2>9, FirstFitIs
    <2>11. \A x : OnList(list, x) <=> OnList(list, x) \/ x = p
      BY <2>6
    <2>12. Sl!ServedFrom(p, pg, list, l, sz)
      BY <2>3, <2>7
    <2>13. Serves(sz, p, pg, m, l, list)
      BY <1>0, <2>5, <2>6, <2>7, <2>8, <2>9, <2>10, <2>11, <2>12 DEF Serves
    <2> QED BY <2>13
  <1>6. CASE /\ Sl!Mapped # Pages
             /\ Sl!ServedFrom(Sl!NewPage, Sl!Fresh, Sl!Relisted(list, Sl!NewPage, l), l, sz)
    <2>1. \E q \in Pages : q \notin Sl!Mapped
      BY <1>6 DEF Sl!Mapped
    <2>2. PICK p : p = Sl!NewPage
      OBVIOUS
    <2>3. p \in Pages /\ p \notin Sl!Mapped
      BY <2>1, <2>2 DEF Sl!NewPage
    <2>4. ~OnList(list, p)
      BY <1>0, <2>3, ListedIs
    <2>5. PICK pg : pg = Sl!Fresh
      OBVIOUS
    <2>6. PICK m : m = Sl!FirstFit(pg, sz)
      OBVIOUS
    <2>7. PageInv(pg) /\ InUse(pg) = {} /\ m > 0
      BY <1>0, <2>5, <2>6, FreshIs
    <2>8. m \in Loose(pg) /\ sz <= pg.meta[m].size
      BY <1>0, <2>6, <2>7, FirstFitIs
    <2>9. PICK ls : ls = Sl!Relisted(list, p, l)
      OBVIOUS
    <2>10. Listing(ls) /\ (\A x : OnList(ls, x) <=> OnList(list, x) \/ x = p)
      BY <1>0, <2>3, <2>9, RelistedIs
    <2>11. Sl!ServedFrom(p, pg, ls, l, sz)
      BY <1>6, <2>2, <2>5, <2>9
    <2>12. Serves(sz, p, pg, m, l, ls)
      BY <2>3, <2>4, <2>6, <2>7, <2>8, <2>10, <2>11 DEF Serves
    <2> QED BY <2>12
  <1> QED BY <1>4, <1>5, <1>6

LEMMA SlAlloc ==
  ASSUME SlInv, NEW sz \in 1..SLAB_SIZE_MAX, Sl!slab_alloc(sz)
  PROVE  SlInv'
  <1>1. PICK p, pg, m, l, ls : Serves(sz, p, pg, m, l, ls)
    BY SlServes
  <1>2. p \in Pages /\ PageInv(pg) /\ m \in Loose(pg) /\ sz <= pg.meta[m].size /\ sz \in Nat
    BY <1>1, SpotNumbers DEF Serves
  <1>3. PICK q : q = Sl!Taken(pg, m, sz)
    OBVIOUS
  <1>4. /\ PageInv(q) /\ InUse(q) = InUse(pg) \cup {m} /\ sz <= q.meta[m].size
        /\ \A t \in InUse(pg) : q.meta[t].size = pg.meta[t].size
    BY <1>2, <1>3, TakenIs
  <1>5. PICK x : x = [page |-> p, at |-> m, size |-> sz]
    OBVIOUS
  <1>6. x.page = p /\ x.at = m /\ x.size = sz
    BY <1>5
  <1>7. /\ lent' = lent \cup {x} /\ page' = [page EXCEPT ![p] = q]
        /\ list' = Sl!WithoutFull(ls, q, p, l)
    <2>1. m = Sl!FirstFit(pg, sz) /\ Sl!ServedFrom(p, pg, ls, l, sz)
      BY <1>1 DEF Serves
    <2> QED BY <1>3, <1>5, <2>1 DEF Sl!ServedFrom
  <1>8. page \in [Pages -> PageType] /\ lent \subseteq Loans
    BY DEF SlInv
  <1>9. page' \in [Pages -> PageType] /\ page'[p] = q /\ \A o \in Pages \ {p} : page'[o] = page[o]
    <2>1. q \in PageType
      BY <1>4 DEF PageInv
    <2> QED BY <1>2, <1>7, <1>8, <2>1
  <1>10. Listing(list') /\ \A o : OnList(list', o) <=> OnList(list, o) \/ o = p
    <2>1. /\ Listing(ls) /\ \A o : OnList(ls, o) <=> OnList(list, o) \/ o = p
      BY <1>1 DEF Serves
    <2>2. Listing(list') /\ (\A o : OnList(list', o) <=> OnList(ls, o))
      BY <1>2, <1>7, <2>1, WithoutFullIs
    <2> QED BY <2>1, <2>2
  <1>11. x \in Loans
    <2>1. m \in Spots
      BY <1>2 DEF Loose, Begun
    <2> QED BY <1>2, <1>5, <2>1 DEF Loans
  <1>12. IF OnList(list, p) THEN pg = page[p] ELSE InUse(pg) = {}
    BY <1>1 DEF Serves
  <1>13. \A y \in lent : y.page = p => OnList(list, p) /\ pg = page[p] /\ y.at \in InUse(pg)
    BY <1>12 DEF SlInv
  <1>14. m \notin InUse(pg)
    BY <1>2 DEF InUse, Loose
  <1>15. ASSUME NEW y \in lent'
         PROVE  /\ OnList(list', y.page) /\ y.at \in InUse(page'[y.page])
                /\ y.size <= page'[y.page].meta[y.at].size
    <2>1. CASE y = x
      BY <1>4, <1>6, <1>9, <1>10, <2>1
    <2>2. CASE y # x
      <3>1. y \in lent /\ y.page \in Pages
        BY <1>7, <1>8, <2>2 DEF Loans
      <3>2. /\ OnList(list, y.page) /\ y.at \in InUse(page[y.page])
            /\ y.size <= page[y.page].meta[y.at].size
        BY <3>1 DEF SlInv
      <3>3. CASE y.page = p
        <4>1. pg = page[p] /\ y.at \in InUse(pg) /\ y.at \in InUse(q)
          BY <1>4, <1>13, <3>1, <3>3
        <4>2. q.meta[y.at].size = pg.meta[y.at].size
          BY <1>4, <4>1
        <4> QED BY <1>9, <1>10, <3>2, <3>3, <4>1, <4>2
      <3>4. CASE y.page # p
        BY <1>9, <1>10, <3>1, <3>2, <3>4
      <3> QED BY <3>3, <3>4
    <2> QED BY <2>1, <2>2
  <1>16. ASSUME NEW o \in Pages, OnList(list', o)
         PROVE  /\ PageInv(page'[o]) /\ InUse(page'[o]) # {}
                /\ \A t \in InUse(page'[o]) : \E y \in lent' : y.page = o /\ y.at = t
    <2>1. CASE o = p
      <3>1. ASSUME NEW t \in InUse(q) PROVE \E y \in lent' : y.page = p /\ y.at = t
        <4>1. CASE t = m
          BY <1>6, <1>7, <4>1
        <4>2. CASE t # m
          <5>1. t \in InUse(pg)
            BY <1>4, <4>2
          <5>2. OnList(list, p) /\ pg = page[p]
            BY <1>12, <5>1
          <5>3. \E y \in lent : y.page = p /\ y.at = t
            BY <1>2, <5>1, <5>2 DEF SlInv
          <5> QED BY <1>7, <5>3
        <4> QED BY <4>1, <4>2
      <3>2. m \in InUse(q)
        BY <1>4
      <3> QED BY <1>4, <1>9, <2>1, <3>1, <3>2
    <2>2. CASE o # p
      <3>1. OnList(list, o) /\ page'[o] = page[o]
        BY <1>9, <1>10, <1>16, <2>2
      <3>2. /\ PageInv(page[o]) /\ InUse(page[o]) # {}
            /\ \A t \in InUse(page[o]) : \E y \in lent : y.page = o /\ y.at = t
        BY <3>1 DEF SlInv
      <3> QED BY <1>7, <3>1, <3>2
    <2> QED BY <2>1, <2>2
  <1>17. ASSUME NEW y \in lent', NEW z \in lent', y.page = z.page, y.at = z.at PROVE y = z
    <2>1. \A w \in lent : w.page # p \/ w.at # m
      BY <1>13, <1>14
    <2>2. y \in lent /\ z \in lent => y = z
      BY <1>17 DEF SlInv
    <2> QED BY <1>6, <1>7, <1>17, <2>1, <2>2
  <1>18. lent' \subseteq Loans
    BY <1>7, <1>8, <1>11
  <1> QED BY <1>9, <1>10, <1>15, <1>16, <1>17, <1>18 DEF SlInv

LEMMA NoPageIs == Sl!NoPage \in PageType
  <1>1. PICK b \in Metas : b = Sl!Blank
    BY BlankIs
  <1>2. Sl!NoPage = [free |-> -1, remain |-> 0, meta |-> [s \in Spots |-> b]]
    BY <1>1 DEF Sl!NoPage, Spots
  <1> QED BY <1>2 DEF PageType

LEMMA SlFree ==
  ASSUME SlInv, NEW x \in lent, Sl!slab_free(x)
  PROVE  SlInv'
  <1>1. page \in [Pages -> PageType] /\ lent \subseteq Loans /\ Listing(list)
    BY DEF SlInv
  <1>2. PICK p \in Pages : p = x.page
    BY <1>1 DEF Loans
  <1>3. PICK m : m = x.at
    OBVIOUS
  <1>4. OnList(list, p) /\ m \in InUse(page[p]) /\ PageInv(page[p])
    <2>1. OnList(list, p) /\ m \in InUse(page[p])
      BY <1>2, <1>3 DEF SlInv
    <2> QED BY <2>1 DEF SlInv
  <1>5. PICK pg : pg = page[p]
    OBVIOUS
  <1>6. PICK q : q = Sl!Returned(Sl!Freed(pg, m), m)
    OBVIOUS
  <1>7. PICK ls : ls = Sl!ListedForFree(list, p, pg.meta[m].size)
    OBVIOUS
  <1>8. /\ page' = [page EXCEPT ![p] = IF q.remain + PAGE_HEAD_SIZE = PAGE_SIZE THEN Sl!NoPage ELSE q]
        /\ list' = IF q.remain + PAGE_HEAD_SIZE = PAGE_SIZE THEN Sl!Unlisted(ls, p) ELSE ls
        /\ lent' = lent \ {x}
    <2>1. Sl!TakenBack(x, q, ls)
      BY <1>2, <1>3, <1>5, <1>6, <1>7 DEF Sl!slab_free
    <2> QED BY <1>2, <2>1 DEF Sl!TakenBack
  <1>9. /\ PageInv(q) /\ InUse(q) = InUse(pg) \ {m}
        /\ \A t \in InUse(q) : q.meta[t].size = pg.meta[t].size
    BY <1>4, <1>5, <1>6, FreeIs
  <1>10. q.remain + PAGE_HEAD_SIZE = PAGE_SIZE <=> InUse(q) = {}
    BY <1>9, EmptyIs
  <1>11. pg.meta[m].size \in Int
    <2>1. pg \in PageType /\ m \in Begun(pg) /\ Chopped(pg)
      BY <1>4, <1>5 DEF PageInv, InUse
    <2> QED BY <2>1, ChunkFacts
  <1>12. Listing(ls) /\ (\A o : OnList(ls, o) <=> OnList(list, o))
    BY <1>1, <1>4, <1>7, <1>11, ListedForFreeIs
  <1>13. PICK r : r = IF InUse(q) = {} THEN Sl!NoPage ELSE q
    OBVIOUS
  <1>14. r \in PageType
    BY <1>9, <1>13, NoPageIs DEF PageInv
  <1>15. page' \in [Pages -> PageType] /\ page'[p] = r /\ \A o \in Pages \ {p} : page'[o] = page[o]
    <2>1. page' = [page EXCEPT ![p] = r]
      BY <1>8, <1>10, <1>13
    <2> QED BY <1>1, <1>14, <2>1
  <1>16. Listing(list') /\ \A o : OnList(list', o) <=> OnList(list, o) /\ (o # p \/ InUse(q) # {})
    <2>1. CASE InUse(q) = {}
      <3>1. list' = Sl!Unlisted(ls, p)
        BY <1>8, <1>10, <2>1
      <3>2. Listing(list') /\ (\A o : OnList(list', o) <=> OnList(ls, o) /\ o # p)
        BY <1>12, <3>1, UnlistedIs
      <3> QED BY <1>12, <2>1, <3>2
    <2>2. CASE InUse(q) # {}
      <3>1. list' = ls
        BY <1>8, <1>10, <2>2
      <3> QED BY <1>12, <2>2, <3>1
    <2> QED BY <2>1, <2>2
  <1>17. ASSUME NEW y \in lent'
         PROVE  /\ OnList(list', y.page) /\ y.at \in InUse(page'[y.page])
                /\ y.size <= page'[y.page].meta[y.at].size
    <2>1. y \in lent /\ y # x /\ y.page \in Pages
      BY <1>1, <1>8 DEF Loans
    <2>2. /\ OnList(list, y.page) /\ y.at \in InUse(page[y.page])
          /\ y.size <= page[y.page].meta[y.at].size
      BY <2>1 DEF SlInv
    <2>3. CASE y.page = p
      <3>1. y.at # m
        BY <1>2, <1>3, <2>1, <2>3 DEF SlInv
      <3>2. y.at \in InUse(q)
        BY <1>5, <1>9, <2>2, <2>3, <3>1
      <3>3. page'[p] = q /\ OnList(list', p)
        BY <1>4, <1>13, <1>15, <1>16, <3>2
      <3>4. q.meta[y.at].size = pg.meta[y.at].size
        BY <1>9, <3>2
      <3> QED BY <1>5, <2>2, <2>3, <3>2, <3>3, <3>4
    <2>4. CASE y.page # p
      BY <1>15, <1>16, <2>1, <2>2, <2>4
    <2> QED BY <2>3, <2>4
  <1>18. ASSUME NEW o \in Pages, OnList(list', o)
         PROVE  /\ PageInv(page'[o]) /\ InUse(page'[o]) # {}
                /\ \A t \in InUse(page'[o]) : \E y \in lent' : y.page = o /\ y.at = t
    <2>0. /\ OnList(list, o)
          /\ \A t \in InUse(page[o]) : \E y \in lent : y.page = o /\ y.at = t
      <3>1. OnList(list, o)
        BY <1>16, <1>18
      <3> QED BY <3>1 DEF SlInv
    <2>1. CASE o = p
      <3>1. InUse(q) # {} /\ page'[p] = q
        BY <1>13, <1>15, <1>16, <1>18, <2>1
      <3>2. ASSUME NEW t \in InUse(q) PROVE \E y \in lent' : y.page = p /\ y.at = t
        <4>1. t \in InUse(page[p]) /\ t # m
          BY <1>5, <1>9
        <4>2. PICK y \in lent : y.page = p /\ y.at = t
          BY <2>0, <2>1, <4>1
        <4>3. y # x
          BY <1>3, <4>1, <4>2
        <4> QED BY <1>8, <4>2, <4>3
      <3> QED BY <1>9, <2>1, <3>1, <3>2
    <2>2. CASE o # p
      <3>1. page'[o] = page[o]
        BY <1>15, <2>2
      <3>2. PageInv(page[o]) /\ InUse(page[o]) # {}
        BY <2>0 DEF SlInv
      <3>3. ASSUME NEW t \in InUse(page[o]) PROVE \E y \in lent' : y.page = o /\ y.at = t
        <4>1. PICK y \in lent : y.page = o /\ y.at = t
          BY <2>0
        <4>2. y # x
          BY <1>2, <2>2, <4>1
        <4> QED BY <1>8, <4>1, <4>2
      <3> QED BY <3>1, <3>2, <3>3
    <2> QED BY <2>1, <2>2
  <1>19. \A y, z \in lent' : y.page = z.page /\ y.at = z.at => y = z
    BY <1>8 DEF SlInv
  <1>20. lent' \subseteq Loans
    BY <1>1, <1>8
  <1> QED BY <1>15, <1>16, <1>17, <1>18, <1>19, <1>20 DEF SlInv

LEMMA SlInit == Sl!Init => SlInv
  <1> SUFFICES ASSUME Sl!Init PROVE SlInv
    OBVIOUS
  <1>1. page = [p \in Pages |-> Sl!NoPage] /\ list = [l \in Sl!Lists |-> <<>>] /\ lent = {}
    BY DEF Sl!Init
  <1>2. <<>> \in Seq(Pages) /\ Elements(<<>>) = {} /\ OnceEach(<<>>)
    <2>1. <<>> \in Seq(Pages) /\ Len(<<>>) = 0 /\ 1..0 = {}
      OBVIOUS
    <2> QED BY <2>1 DEF Elements, OnceEach
  <1>3. Listing(list) /\ \A x : ~OnList(list, x)
    BY <1>1, <1>2 DEF Listing, OnList
  <1>4. page \in [Pages -> PageType]
    BY <1>1, NoPageIs
  <1> QED BY <1>1, <1>3, <1>4 DEF SlInv

LEMMA SlNext == ASSUME SlInv, [Sl!Next]_(Sl!vars) PROVE SlInv'
  <1>1. CASE Sl!Next
    BY <1>1, SlAlloc, SlFree DEF Sl!Next
  <1>2. CASE UNCHANGED Sl!vars
    <2>1. page' = page /\ list' = list /\ lent' = lent
      BY <1>2 DEF Sl!vars
    <2> QED BY <2>1 DEF SlInv
  <1> QED BY <1>1, <1>2

LEMMA SlRefines ==
  /\ MCInit => Sl!Init
  /\ [MCNext]_allVars => [Sl!Next]_(Sl!vars)
  BY DEF MCInit, MCNext, allVars, slVars, Sl!vars

(* mm/slab.c: whatever was allocated and freed before, in pages of any     *)
(* size, every page is tiled by its chunks, the free ones are merged and   *)
(* linked in order, the others are the memory handed out.                  *)
THEOREM PagesAreTiled == MCSpec => []Tiled
  <1>1. SlInv => Tiled
    BY SlImplies DEF Tiled
  <1>2. MCInit => SlInv
    BY SlRefines, SlInit
  <1>3. SlInv /\ [MCNext]_allVars => SlInv'
    BY SlRefines, SlNext
  <1> QED BY <1>1, <1>2, <1>3, PTL DEF MCSpec
=============================================================================
