----------------------------- MODULE Coroutine -----------------------------
(***************************************************************************)
(* core/coroutine.c: coroutines are named by their place in units, an      *)
(* array that doubles.  A coroutine that has ended leaves its unit, the    *)
(* stack and the function with it, to a free list.  There is one thread:   *)
(* what the main program or the coroutine that runs calls next is any of   *)
(* the calls the assertions let it make.                                   *)
(***************************************************************************)
EXTENDS Integers, Sequences, FiniteSets

CONSTANTS Units,              \* the units malloc can return
          Funcs,              \* functions given to crt_new
          CRT_DEFAULT_SIZE,
          MaxCapacity         \* bound on c->capacity

VARIABLES
  units, count, capacity, freelst,
  running,     \* c->current
  unit,        \* each unit's func and status, status DEAD before malloc returned it
  asked,       \* history: the function crt_new was called with last, for each unit
  recycled     \* history: the units that came from the free list last time

vars == <<units, count, capacity, freelst, running, unit, asked, recycled>>

NoUnit == "none"
CRT_INVALID_ID == -1
Func0 == CHOOSE f \in Funcs : TRUE

(* crt_create *)
Init ==
  /\ units = [i \in 0..CRT_DEFAULT_SIZE - 1 |-> NoUnit]
  /\ count = 0 /\ capacity = CRT_DEFAULT_SIZE /\ freelst = <<>>
  /\ running = CRT_INVALID_ID
  /\ unit = [u \in Units |-> [func |-> Func0, status |-> "CRT_DEAD"]]
  /\ asked = [u \in Units |-> Func0] /\ recycled = {}

(* slist_push_back and slist_pop_back                                      *)
PushBack(l, u) == Append(l, u)
PopBack(l) == SubSeq(l, 1, Len(l) - 1)

(* The unit of a new coroutine: the last of the free list, as it is, or a  *)
(* new one.                                                                *)
Fresh == {u \in Units : unit[u].status = "CRT_DEAD"}
Recycled == IF freelst = <<>> THEN {} ELSE {freelst[Len(freelst)]}

(* Where it is put: behind the last slot of a full array, else in the      *)
(* first empty slot from count on.                                         *)
Place ==
  LET Slot(i) == (i + count) % capacity
      i == CHOOSE j \in 0..capacity - 1 : units[Slot(j)] = NoUnit
                    /\ \A m \in 0..j - 1 : units[Slot(m)] # NoUnit
  IN IF count >= capacity THEN capacity ELSE Slot(i)

crt_new(f) ==
  /\ count >= capacity => 2 * capacity <= MaxCapacity
  /\ \E u \in IF Recycled # {} THEN Recycled ELSE Fresh :
       /\ capacity' = IF count >= capacity THEN 2 * capacity ELSE capacity
       /\ units' = [i \in 0..capacity' - 1 |-> IF i = Place THEN u
                                               ELSE IF i < capacity THEN units[i] ELSE NoUnit]
       /\ unit' = [unit EXCEPT ![u] = [func |-> IF Recycled # {} THEN @.func ELSE f,
                                       status |-> "CRT_INIT"]]
       /\ asked' = [asked EXCEPT ![u] = f]
       /\ recycled' = IF Recycled # {} THEN recycled \cup {u} ELSE recycled
  /\ freelst' = IF Recycled # {} THEN PopBack(freelst) ELSE freelst
  /\ count' = count + 1
  /\ UNCHANGED running

(* With the start of _crt_main for a coroutine that has not run.           *)
crt_resume(id) ==
  /\ running < 0 /\ units[id] # NoUnit
  /\ unit' = [unit EXCEPT ![units[id]].status = "CRT_RUNNING"]
  /\ running' = id
  /\ UNCHANGED <<units, count, capacity, freelst, asked, recycled>>

crt_yield ==
  /\ running >= 0
  /\ unit' = [unit EXCEPT ![units[running]].status = "CRT_SUSPEND"]
  /\ running' = CRT_INVALID_ID
  /\ UNCHANGED <<units, count, capacity, freelst, asked, recycled>>

(* Fault: the slot of a coroutine that ended is not cleared.               *)
MainKeepsSlot ==
  /\ running >= 0
  /\ freelst' = PushBack(freelst, units[running])
  /\ count' = count - 1
  /\ running' = CRT_INVALID_ID
  /\ UNCHANGED <<units, capacity, unit, asked, recycled>>

(* func has returned; the unit's status stays RUNNING.                     *)
_crt_main ==
  /\ running >= 0
  /\ freelst' = PushBack(freelst, units[running])
  /\ units' = [units EXCEPT ![running] = NoUnit]
  /\ count' = count - 1
  /\ running' = CRT_INVALID_ID
  /\ UNCHANGED <<capacity, unit, asked, recycled>>

crt_status(id) == IF units[id] = NoUnit THEN "CRT_DEAD" ELSE unit[units[id]].status

(* The units in use and the free ones are released; with the crt_create of *)
(* the next one.                                                           *)
crt_release ==
  /\ running < 0
  /\ units' = [i \in 0..CRT_DEFAULT_SIZE - 1 |-> NoUnit]
  /\ count' = 0 /\ capacity' = CRT_DEFAULT_SIZE /\ freelst' = <<>>
  /\ unit' = [u \in Units |-> [func |-> Func0, status |-> "CRT_DEAD"]]
  /\ asked' = [u \in Units |-> Func0] /\ recycled' = {}
  /\ UNCHANGED running

Next ==
  \/ \E f \in Funcs : crt_new(f)
  \/ \E id \in 0..capacity - 1 : crt_resume(id)
  \/ crt_yield \/ _crt_main \/ crt_release

Spec == Init /\ [][Next]_vars

----------------------------------------------------------------------------
(* Properties *)

Taken == {i \in 0..capacity - 1 : units[i] # NoUnit}
Busy == {units[i] : i \in Taken}
Free == {freelst[j] : j \in 1..Len(freelst)}

(* Every unit allocated is in one slot or in the free list, and once;      *)
(* count is the number of slots taken, so that crt_new finds a slot; the   *)
(* slot that runs, and no other, holds a RUNNING unit, so that crt_resume  *)
(* never meets its assert(0); whichever coroutines create others, yield or *)
(* end.  And what runs in a slot is the function crt_new was given, except *)
(* in a unit from the free list, which keeps its first one.                *)
Slots ==
  /\ count = Cardinality(Taken) /\ Cardinality(Busy) = count
  /\ Cardinality(Free) = Len(freelst)
  /\ Busy \cap Free = {} /\ Busy \cup Free = Units \ Fresh
  /\ \A i \in Taken : crt_status(i) = "CRT_RUNNING" <=> i = running
  /\ \A u \in Busy \ recycled : unit[u].func = asked[u]
=============================================================================
