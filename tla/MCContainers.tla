---------------------------- MODULE MCContainers ---------------------------
(* The containers and allocators, none of which uses another: a behaviour  *)
(* is one of a single component, the focus, while the others stay as they  *)
(* were created.                                                           *)
(*                                                                         *)
(* Rbtree: six keys, where deletions need every rotation.  Skiplist: five  *)
(* elements, two of them equal, on three levels.  Buddy: eight smallest    *)
(* blocks.  Slab: two pages of 12 units, requests of up to three.  Hash:   *)
(* five elements in two chains.  Idtable: six ids for four slots,          *)
(* colliding and wrapping around.                                          *)
EXTENDS Buffer

CONSTANTS Data, m_size, MaxCount, HashKey,   \* Hash's, with the key of every datum
          Ids, IdSlots,                      \* Idtable's
          Order,                             \* Buddy's
          PAGE_SIZE, PAGE_HEAD_SIZE,         \* Slab's, in units of 8 bytes
          SLAB_SIZE_MINOR, SLAB_SIZE_MAX, Pages

ASSUME HashAssumption == m_size \in Nat \ {0} /\ MaxCount \in Nat /\ HashKey \in [Data -> Nat]
ASSUME IdtableAssumption == Ids \subseteq Nat /\ IdSlots \in Nat \ {0}
ASSUME BuddyAssumption == Order \in Nat \ {0}
ASSUME SlabAssumption ==
  /\ PAGE_HEAD_SIZE \in Nat \ {0} /\ SLAB_SIZE_MINOR \in Nat /\ SLAB_SIZE_MAX \in Nat
  /\ PAGE_SIZE \in Nat /\ PAGE_HEAD_SIZE + 1 + SLAB_SIZE_MAX <= PAGE_SIZE

VARIABLES focus,
          tree, rbcall, stored,
          link, order,
          state, bcall, held,
          page, list, lent,
          htable, entered, lost,
          slots, kept, cut

SkRank == [x \in 1..5 |-> IF x = 4 THEN 2 ELSE x]
SquareKeys == [d \in Data |-> d * d + d]
HashEach(d) == HashKey[d]
HashCmp(a, b) == IF a = b THEN 0 ELSE 1

Rb == INSTANCE Rbtree WITH Keys <- 1..6, call <- rbcall
Sk == INSTANCE Skiplist WITH Items <- 1..5, ItemRank <- SkRank, MaxLevel <- 3
Bu == INSTANCE Buddy WITH call <- bcall
Sl == INSTANCE Slab
Ha == INSTANCE Hash WITH HashOf <- HashEach, cmp <- HashCmp
Id == INSTANCE Idtable

rbVars == <<tree, rbcall, stored>>
skVars == <<link, order>>
buVars == <<state, bcall, held>>
slVars == <<page, list, lent>>
haVars == <<htable, entered, lost>>
idVars == <<slots, kept, cut>>
allVars == <<focus, vars, rbVars, skVars, buVars, slVars, haVars, idVars>>

MCInit ==
  /\ focus \in {"buffer", "rbtree", "skiplist", "buddy", "slab", "hash", "idtable"}
  /\ Init /\ Rb!Init /\ Sk!Init /\ Bu!Init /\ Sl!Init /\ Ha!Init /\ Id!Init

MCNext ==
  /\ IF focus = "buffer" THEN Next ELSE UNCHANGED vars
  /\ IF focus = "rbtree" THEN Rb!Next ELSE UNCHANGED rbVars
  /\ IF focus = "skiplist" THEN Sk!Next ELSE UNCHANGED skVars
  /\ IF focus = "buddy" THEN Bu!Next ELSE UNCHANGED buVars
  /\ IF focus = "slab" THEN Sl!Next ELSE UNCHANGED slVars
  /\ IF focus = "hash" THEN Ha!Next ELSE UNCHANGED haVars
  /\ IF focus = "idtable" THEN Id!Next ELSE UNCHANGED idVars
  /\ UNCHANGED focus

MCSpec == MCInit /\ [][MCNext]_allVars

(* rbtree.c: between calls a red-black search tree of what was inserted    *)
(* and not deleted; see RedBlack in module Rbtree.                         *)
RedBlack == focus = "rbtree" => Rb!RedBlack

(* skiplist.c: every query agrees with the ordered list, spans never       *)
(* drift; see Ranked in module Skiplist.                                   *)
Ranked == focus = "skiplist" => Sk!Ranked

(* buddy.c: the tree says exactly which blocks are in use, after           *)
(* buddy_realloc too; see Indexed in module Buddy.                         *)
Indexed == focus = "buddy" => Bu!Indexed

(* buddy.c: buddy_alloc fails only when no block of the size is free; see  *)
(* NullMeansFull in module Buddy.                                          *)
NullMeansFull == Bu!NullMeansFull

(* slab.c: every page is tiled by its chunks, free neighbours are merged;  *)
(* see Tiled in module Slab.                                               *)
Tiled == focus = "slab" => Sl!Tiled

(* hash.c: what is found is what was inserted and not removed, but for the *)
(* entries hash_remove cuts off; see Found in module Hash.                 *)
Found == focus = "hash" => Ha!Found

(* idtable.c: every id is found until a removal opens a gap before it; see *)
(* FindsAll in module Idtable.                                             *)
FindsAll == focus = "idtable" => Id!FindsAll
=============================================================================
