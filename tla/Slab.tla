-------------------------------- MODULE Slab -------------------------------
(***************************************************************************)
(* mm/slab.c.  A page is tiled by chunks, each behind a meta_t; the free   *)
(* ones are linked in address order.  Sizes and shifts count units of the  *)
(* alignment, 8 bytes, so META_SIZE is 1.  slab_alloc and slab_free run to *)
(* their end in one step ("thread unsafe", slab.h).  The bytes of a meta_t *)
(* that was merged away are blank here; nothing reads them again.          *)
(***************************************************************************)
EXTENDS Integers, Sequences, SequencesExt

CONSTANTS PAGE_SIZE, PAGE_HEAD_SIZE, SLAB_SIZE_MINOR, SLAB_SIZE_MAX,
          Pages       \* the pages posix_memalign can return

VARIABLES
  page,    \* page_t and the metas of every page
  list,    \* the four global lists of pages
  lent     \* history: the memory handed out, with the size asked for

vars == <<page, list, lent>>

META_SIZE == 1
Lists == {"minor", "common", "alloc_minor", "alloc_common"}
Blank == [size |-> -1, alloc |-> FALSE, next |-> -1, prev |-> -1]
NoPage == [free |-> -1, remain |-> 0, meta |-> [s \in PAGE_HEAD_SIZE..PAGE_SIZE - 1 |-> Blank]]

Init ==
  /\ page = [p \in Pages |-> NoPage]
  /\ list = [l \in Lists |-> <<>>]
  /\ lent = {}

Mapped == {p \in Pages : \E l \in Lists : Contains(list[l], p)}

(* _slab_free_page *)
ListFor(sz) == IF sz <= SLAB_SIZE_MINOR THEN "minor"
               ELSE IF sz <= SLAB_SIZE_MAX THEN "common" ELSE "none"

(* list_del, and list_add at the front of list l.                          *)
Unlisted(ls, p) == [l \in Lists |-> RemoveFirst(ls[l], p)]
Relisted(ls, p, l) == [Unlisted(ls, p) EXCEPT ![l] = <<p>> \o @]

----------------------------------------------------------------------------
(* The free list of a page pg.  SetNext and SetPrev do nothing at the end  *)
(* of the list, where the shift is -1.                                     *)

SetNext(pg, s, n) == IF s > 0 THEN [pg EXCEPT !.meta[s].next = n] ELSE pg
SetPrev(pg, s, n) == IF s > 0 THEN [pg EXCEPT !.meta[s].prev = n] ELSE pg

_slab_free_insert(pg, m, new) ==
  LET next == pg.meta[m].next
      linked == IF next > 0 THEN SetPrev(SetNext(pg, new, next), next, new) ELSE pg
  IN SetNext(SetPrev(linked, new, m), m, new)

_slab_free_erase(pg, m) ==
  LET next == pg.meta[m].next
      prev == pg.meta[m].prev
      out == SetNext(SetPrev(SetNext(SetPrev(pg, next, prev), prev, next), m, -1), m, -1)
  IN IF m = pg.free THEN [out EXCEPT !.free = next] ELSE out

_slab_free_replace(pg, m, r) ==
  LET next == pg.meta[m].next
      prev == pg.meta[m].prev
      in == SetPrev(SetNext(SetPrev(SetNext(pg, prev, r), next, r), r, next), r, prev)
  IN IF m = pg.free THEN [in EXCEPT !.free = r] ELSE in

(* Fault: a chunk that grew forwards is not merged with the one before it. *)
MergedNextOnly(pg, m, replace) ==
  LET next == m + META_SIZE + pg.meta[m].size
      grown == [pg EXCEPT !.meta[m].size = @ + META_SIZE + pg.meta[next].size]
  IN [IF replace THEN _slab_free_replace(grown, next, m) ELSE grown EXCEPT !.meta[next] = Blank]

(* The chunk at m swallows the free one behind it, whose place in the list *)
(* it takes when replace; then the free chunk before it swallows both.     *)
Merged(pg, m, replace) ==
  LET next == m + META_SIZE + pg.meta[m].size
      prev == pg.meta[next].prev
      grown == [pg EXCEPT !.meta[m].size = @ + META_SIZE + pg.meta[next].size]
      joined == [IF replace THEN _slab_free_replace(grown, next, m) ELSE grown
                   EXCEPT !.meta[next] = Blank]
      after == joined.meta[m].next
  IN IF prev > 0 /\ prev + META_SIZE + joined.meta[prev].size = m
       THEN [SetPrev(SetNext(joined, prev, after), after, prev)
               EXCEPT !.meta[prev].size = @ + META_SIZE + joined.meta[m].size, !.meta[m] = Blank]
       ELSE joined

(* _slab_free_quick_merge applies when the chunk behind m is free.         *)
NextIsFree(pg, m) ==
  LET next == m + META_SIZE + pg.meta[m].size
  IN next < PAGE_SIZE /\ ~pg.meta[next].alloc

(* The chunk at m gives up what lies behind its first used units.          *)
_slab_free_split(pg, m, used) ==
  LET split == m + META_SIZE + used
      cut == [pg EXCEPT !.meta[split] = [Blank EXCEPT !.size = pg.meta[m].size - used - META_SIZE],
                        !.meta[m].size = used]
  IN _slab_free_replace(cut, m, split)

----------------------------------------------------------------------------
(* The first free chunk of the page that is large enough, or -1.           *)
FirstFit(pg, sz) ==
  LET From[s \in {-1} \cup DOMAIN pg.meta] ==
        IF s <= 0 THEN -1 ELSE IF pg.meta[s].size >= sz THEN s ELSE From[pg.meta[s].next]
  IN IF pg.remain < sz + META_SIZE THEN -1 ELSE From[pg.free]

(* _slab_alloc: the page after the chunk at m was taken.                   *)
Taken(pg, m, sz) ==
  LET out == IF pg.meta[m].size <= sz + META_SIZE THEN _slab_free_erase(pg, m)
             ELSE _slab_free_split(pg, m, sz)
  IN [out EXCEPT !.meta[m] = [out.meta[m] EXCEPT !.alloc = TRUE, !.next = -1, !.prev = -1],
                 !.remain = @ - META_SIZE - out.meta[m].size]

(* _slab_page_erase: a page that is nearly full leaves the list it served. *)
WithoutFull(ls, pg, p, l) ==
  IF pg.remain < (IF l = "minor" THEN SLAB_SIZE_MINOR ELSE SLAB_SIZE_MAX)
    THEN Relisted(ls, p, IF l = "minor" THEN "alloc_minor" ELSE "alloc_common")
    ELSE ls

Fresh ==
  [NoPage EXCEPT !.free = PAGE_HEAD_SIZE, !.remain = PAGE_SIZE - PAGE_HEAD_SIZE,
                 !.meta[PAGE_HEAD_SIZE] = [Blank EXCEPT !.size = PAGE_SIZE - PAGE_HEAD_SIZE - META_SIZE]]

(* sz units from the page p, which is pg, while the lists are ls.          *)
ServedFrom(p, pg, ls, l, sz) ==
  LET m == FirstFit(pg, sz)
  IN /\ page' = [page EXCEPT ![p] = Taken(pg, m, sz)]
     /\ list' = WithoutFull(ls, Taken(pg, m, sz), p, l)
     /\ lent' = lent \cup {[page |-> p, at |-> m, size |-> sz]}

(* From the first page of list l that serves, or from a new one.           *)
Serving(l, sz) == {i \in DOMAIN list[l] : FirstFit(page[list[l][i]], sz) > 0}
NewPage == CHOOSE p \in Pages : p \notin Mapped

ServedBy(l, sz) ==
  \/ \E i \in Serving(l, sz) : /\ \A j \in Serving(l, sz) : i <= j
                               /\ ServedFrom(list[l][i], page[list[l][i]], list, l, sz)
  \/ /\ Serving(l, sz) = {} /\ Mapped # Pages
     /\ ServedFrom(NewPage, Fresh, Relisted(list, NewPage, l), l, sz)

slab_alloc(sz) == sz \in 1..SLAB_SIZE_MAX /\ ServedBy(ListFor(sz), sz)

(* The free chunk before m, where the list starts before m.                *)
LastBefore(pg, m) ==
  LET From[s \in DOMAIN pg.meta] ==
        IF pg.meta[s].next < 0 \/ m < pg.meta[s].next THEN s ELSE From[pg.meta[s].next]
  IN From[pg.free]

(* The chunk at m, no longer allocated, enters the free list.              *)
Returned(pg, m) ==
  IF NextIsFree(pg, m) THEN Merged(pg, m, TRUE)
  ELSE IF pg.free < 0 THEN [pg EXCEPT !.free = m]
  ELSE IF m < pg.free THEN [SetPrev(SetNext(pg, m, pg.free), pg.free, m) EXCEPT !.free = m]
  ELSE LET prev == LastBefore(pg, m)
       IN IF NextIsFree(pg, prev) THEN Merged(pg, prev, FALSE) ELSE _slab_free_insert(pg, prev, m)

(* _slab_page_insert: the size of the chunk decides the page's list, which *)
(* for a chunk beyond SLAB_SIZE_MAX, taken because it just fitted, stays.  *)
ListedForFree(ls, p, size) ==
  IF ListFor(size) = "none" THEN ls ELSE Relisted(ls, p, ListFor(size))

Freed(pg, m) == [pg EXCEPT !.meta[m].alloc = FALSE, !.remain = @ + pg.meta[m].size + META_SIZE]

(* x was returned, which left its page pg and the lists ls: a page without *)
(* memory in use is unmapped.                                              *)
TakenBack(x, pg, ls) ==
  LET empty == pg.remain + PAGE_HEAD_SIZE = PAGE_SIZE
  IN /\ page' = [page EXCEPT ![x.page] = IF empty THEN NoPage ELSE pg]
     /\ list' = IF empty THEN Unlisted(ls, x.page) ELSE ls
     /\ lent' = lent \ {x}

slab_free(x) ==
  /\ x \in lent /\ page[x.page].meta[x.at].alloc
  /\ TakenBack(x, Returned(Freed(page[x.page], x.at), x.at),
               ListedForFree(list, x.page, page[x.page].meta[x.at].size))

Next == (\E sz \in 1..SLAB_SIZE_MAX : slab_alloc(sz)) \/ (\E x \in lent : slab_free(x))

Spec == Init /\ [][Next]_vars

----------------------------------------------------------------------------
(* Properties *)

Chunks(pg) == {s \in DOMAIN pg.meta : pg.meta[s] # Blank}
FreeChunks(pg) == {s \in Chunks(pg) : ~pg.meta[s].alloc}
End(pg, s) == s + META_SIZE + pg.meta[s].size
LentOf(p) == {x \in lent : x.page = p}

Lowest(T) == IF T = {} THEN -1 ELSE Min(T)
Highest(T) == IF T = {} THEN -1 ELSE Max(T)

(* The chunks begin behind the head of the page and leave neither gap nor  *)
(* overlap; no two free ones are neighbours.                               *)
Covered(pg) ==
  /\ PAGE_HEAD_SIZE \in Chunks(pg)
  /\ \A s \in Chunks(pg) : \/ End(pg, s) = PAGE_SIZE
                           \/ /\ End(pg, s) \in Chunks(pg)
                              /\ pg.meta[s].alloc \/ pg.meta[End(pg, s)].alloc
  /\ \A s, t \in Chunks(pg) : s < t => End(pg, s) <= t

(* The chunks F, all free, are linked both ways in address order from      *)
(* page->free, and page->remain is what they hold.                         *)
Linked(F, pg) ==
  /\ pg.free = Lowest(F)
  /\ \A s \in F : /\ pg.meta[s].next = Lowest({t \in F : s < t})
                  /\ pg.meta[s].prev = Highest({t \in F : t < s})
  /\ pg.remain = Cardinality({u \in DOMAIN pg.meta : \E s \in F : s <= u /\ u < End(pg, s)})

FreeListed(pg) == Linked(FreeChunks(pg), pg)

(* After any sequence of allocations and frees every page is tiled by its  *)
(* chunks; the allocated ones are the memory handed out, each once and as  *)
(* large as asked for; the free ones are merged ("merge after free if      *)
(* possible", slab.h) and linked.  A page is on one list while any of its  *)
(* memory is out, and given back when none is.                             *)
Tiled ==
  /\ Mapped = {x.page : x \in lent}
  /\ \A p \in Mapped :
       /\ Covered(page[p]) /\ FreeListed(page[p])
       /\ {x.at : x \in LentOf(p)} = Chunks(page[p]) \ FreeChunks(page[p])
       /\ \A x \in LentOf(p) : /\ x.size <= page[p].meta[x.at].size
                               /\ \A y \in LentOf(p) : x.at = y.at => x = y
       /\ \E l \in Lists : Contains(list[l], p) /\ \A k \in Lists \ {l} : ~Contains(list[k], p)
=============================================================================
