------------------------------- MODULE Buddy -------------------------------
(***************************************************************************)
(* mm/buddy.c.  Sizes and offsets count minimal units, so the pool has     *)
(* 2^Order of them and the index tree 2^(Order+1) entries, entry 0 unused. *)
(* Every turn of a loop over the tree is a step.                           *)
(***************************************************************************)
EXTENDS Integers

CONSTANT Order   \* max_order - min_order

VARIABLES
  state,   \* buddy->tree: the state of every index
  call,    \* the call in progress, its request and its loop variables
  held     \* history: the blocks handed out and not given back

vars == <<state, call, held>>

(* 1 << k *)
Pow2[k \in Nat] == IF k = 0 THEN 1 ELSE 2 * Pow2[k - 1]

pool_size == Pow2[Order]
tree_size == 2 * pool_size
Null == -1
Full == {"USED", "FULL"}

(* ILOG2, and the block an index stands for.                               *)
ILOG2(n) == CHOOSE k \in 0..Order + 1 : Pow2[k] <= n /\ n < Pow2[k + 1]
ROUNDUP(n) == IF n = 1 THEN 1 ELSE Pow2[ILOG2(n - 1) + 1]
SizeFromIndex(i) == pool_size \div Pow2[ILOG2(i)]
ShiftFromIndex(i) == SizeFromIndex(i) * (i - Pow2[ILOG2(i)])
Block(i) == [at |-> ShiftFromIndex(i), size |-> SizeFromIndex(i)]

Idle == [op |-> "idle"]

(* buddy_init *)
Init ==
  /\ state = [i \in 1..tree_size - 1 |-> "UNUSED"]
  /\ call = Idle
  /\ held = {}

----------------------------------------------------------------------------
(* The search for a block of the given size; old is what buddy_realloc     *)
(* frees afterwards, Null for buddy_alloc.                                 *)
Search(size, old) == [op |-> "alloc", index |-> 1, size |-> size, old |-> old, mem |-> Null]

Freeing(offset) == [op |-> "find", index |-> 1, offset |-> offset, current |-> 0, step |-> pool_size]

(* Fault: a failed buddy_realloc keeps the old block allocated and the     *)
(* caller, told NULL, forgets it.                                          *)
AnsweredKeepsOld(mem) == call' = IF mem = Null \/ call.old = Null THEN Idle ELSE Freeing(call.old)

(* buddy_alloc returns mem, Null for nothing; buddy_realloc goes on to     *)
(* free the old block in both cases.                                       *)
Answered(mem) == call' = IF call.old = Null THEN Idle ELSE Freeing(call.old)

buddy_alloc(n) ==
  /\ call = Idle
  /\ call' = Search(ROUNDUP(n), Null)
  /\ UNCHANGED <<state, held>>

buddy_free(b) ==
  /\ call = Idle /\ b \in held
  /\ call' = Freeing(b.at)
  /\ held' = held \ {b}
  /\ UNCHANGED state

(* The size of the old block only bounds the memcpy.  A request for more   *)
(* than the pool fails at once, one for nothing is a buddy_free.           *)
buddy_realloc(b, n) ==
  /\ call = Idle /\ b \in held
  /\ call' = IF n \in 1..pool_size THEN Search(ROUNDUP(n), b.at) ELSE Freeing(b.at)
  /\ held' = held \ {b}
  /\ UNCHANGED state

(* Fault: only a left child's brother is tried.                            *)
BrotherOnly(i) == IF i % 2 = 1 THEN Null ELSE i + 1

(* After an index that cannot serve: its right brother, or the right       *)
(* brother of the first ancestor that is a left child, or none.            *)
NextIndex(i) ==
  LET Up[j \in 1..tree_size - 1] == IF j % 2 = 1 /\ j > 1 THEN Up[j \div 2] ELSE j
  IN IF Up[i] = 1 THEN Null ELSE Up[i] + 1

AllocTurn ==
  LET i == call.index
      size == SizeFromIndex(i)
      descend == size > call.size /\ state[i] \in {"UNUSED", "SPLIT"}
  IN /\ call.op = "alloc"
     /\ \/ /\ state[i] = "UNUSED" /\ size = call.size
           /\ state' = [state EXCEPT ![i] = "USED"]
           /\ held' = held \cup {Block(i)}
           /\ call' = [call EXCEPT !.op = "full", !.mem = ShiftFromIndex(i)]
        \/ /\ descend
           /\ state' = [state EXCEPT ![i] = "SPLIT"]
           /\ call' = [call EXCEPT !.index = 2 * i]
           /\ UNCHANGED held
        \/ /\ ~descend /\ ~(state[i] = "UNUSED" /\ size = call.size)
           /\ IF NextIndex(i) = Null
                THEN Answered(Null)
                ELSE call' = [call EXCEPT !.index = NextIndex(i)]
           /\ UNCHANGED <<state, held>>

(* Both of index's pair are taken: so is their parent.                     *)
Pair(i) == {2 * (i \div 2), 2 * (i \div 2) + 1}
FullTurn ==
  LET i == call.index
  IN /\ call.op = "full"
     /\ IF i > 1 /\ \A j \in Pair(i) : state[j] \in Full
          THEN /\ state' = [state EXCEPT ![i \div 2] = "FULL"]
               /\ call' = [call EXCEPT !.index = i \div 2]
              ELSE Answered(call.mem) /\ UNCHANGED state
     /\ UNCHANGED held

(* buddy_free goes down to the block by dichotomy.                         *)
FindTurn ==
  LET i == call.index
      half == call.step \div 2
      right == call.offset >= call.current + half
  IN /\ call.op = "find"
     /\ IF state[i] = "USED"
          THEN /\ state' = [state EXCEPT ![i] = "UNUSED"]
               /\ call' = [op |-> "merge", index |-> i, loop |-> i]
          ELSE /\ call' = [call EXCEPT !.index = 2 * i + (IF right THEN 1 ELSE 0), !.step = half,
                                       !.current = @ + (IF right THEN half ELSE 0)]
               /\ UNCHANGED state
     /\ UNCHANGED held

MergeTurn ==
  LET i == call.loop
  IN /\ call.op = "merge"
     /\ IF i > 1 /\ \A j \in Pair(i) : state[j] = "UNUSED"
          THEN /\ state' = [state EXCEPT ![i \div 2] = "UNUSED"]
               /\ call' = [call EXCEPT !.loop = i \div 2]
          ELSE call' = [call EXCEPT !.op = "unfull", !.loop = call.index] /\ UNCHANGED state
     /\ UNCHANGED held

UnfullTurn ==
  LET i == call.loop
  IN /\ call.op = "unfull"
     /\ IF i > 1 /\ state[i \div 2] = "FULL"
          THEN /\ state' = [state EXCEPT ![i \div 2] = "SPLIT"]
               /\ call' = [call EXCEPT !.loop = i \div 2]
          ELSE call' = Idle /\ UNCHANGED state
     /\ UNCHANGED held

Next ==
  \/ \E n \in 1..pool_size : buddy_alloc(n)
  \/ \E b \in held : buddy_free(b) \/ \E n \in 0..pool_size + 1 : buddy_realloc(b, n)
  \/ AllocTurn \/ FullTurn \/ FindTurn \/ MergeTurn \/ UnfullTurn

Spec == Init /\ [][Next]_vars

----------------------------------------------------------------------------
(* Properties *)

(* Between calls the index tree says exactly which memory is in use: its   *)
(* USED blocks are the blocks the program holds (what it passed to         *)
(* buddy_realloc it no longer holds, whatever that answered), nothing is   *)
(* marked below a used or an unused block, a block is FULL when both its   *)
(* halves are taken and SPLIT when they are not and not both unused        *)
(* ("merge tree-brother to upper level when du free", buddy.h).            *)
Indexed ==
  call = Idle =>
    /\ held = {Block(i) : i \in {i \in DOMAIN state : state[i] = "USED"}}
    /\ \A i \in DOMAIN state : 2 * i < tree_size =>
         LET below == {state[2 * i], state[2 * i + 1]}
         IN IF below = {"UNUSED"}
              THEN state[i] \in {"UNUSED", "USED"}
              ELSE state[i] = IF below \subseteq Full THEN "FULL" ELSE "SPLIT"

(* buddy_alloc gives up only when every block of the rounded size, at a    *)
(* multiple of that size, overlaps one in use: however the pool was split  *)
(* and merged before, it never loses track of free memory.                 *)
NullMeansFull ==
  [][call.op = "alloc" /\ call'.op \in {"idle", "find"} =>
       \A k \in 0..pool_size \div call.size - 1 :
         \E i \in DOMAIN state :
           /\ state[i] = "USED"
           /\ ShiftFromIndex(i) < (k + 1) * call.size
           /\ k * call.size < ShiftFromIndex(i) + SizeFromIndex(i)]_vars
=============================================================================
