----------------------------- MODULE MCControl -----------------------------
(* Timer, Task, Fsm, Coroutine and Dirty, the single-threaded parts that   *)
(* call back into the application.  None uses another (a task's timer is   *)
(* abstract in Task): a behaviour is one of a single component, the focus, *)
(* while the others stay as they were created.                             *)
(*                                                                         *)
(* Task: three steps, resumptions from one step back to two forward.  Fsm: *)
(* two statuses and two results, up to three rules of which some collide,  *)
(* triggers nested twice.  Coroutine: three units in an array that grows   *)
(* from 2 to 4.  Dirty: all texts of up to four bytes, 9 the first byte of *)
(* a double one and 2, in texts of up to three, the upper case of 1; words *)
(* that overlap, contain each other, share their first character or hold   *)
(* a DIRTY_REPLACE_CHAR, and a hash that collides, once for a prefix that  *)
(* ends within a character.                                                *)
EXTENDS Timer, Sequences

CONSTANTS Steps, MaxRuns, MaxResumes,                                       \* Task's
          FsmSize, Statuses, Events, RetCodes, MaxRules, MaxNesting,        \* Fsm's
          Units, Funcs, CRT_DEFAULT_SIZE, MaxCapacity,                      \* Coroutine's
          Files, Texts, MAX_DIRTY_WORDS_COUNT, GB_SPEC_CHAR,                \* Dirty's
          DIRTY_REPLACE_CHAR, tolower(_), HashOf(_)

ASSUME TaskAssumption == 0 \notin Steps /\ MaxRuns \in Nat /\ MaxResumes \in Nat
ASSUME FsmAssumption ==
  /\ FsmSize \in Nat /\ FsmSize >= 2
  /\ Statuses \subseteq Nat \ {0} /\ Events \subseteq Nat /\ RetCodes \subseteq Nat
ASSUME CoroutineAssumption ==
  /\ "none" \notin Units /\ Funcs # {} /\ CRT_DEFAULT_SIZE \in Nat \ {0}
(* A word is not empty and does not end within its first character; lower  *)
(* case is a matter of single bytes.                                       *)
ASSUME DirtyAssumption ==
  /\ MAX_DIRTY_WORDS_COUNT \in Nat /\ GB_SPEC_CHAR \in Nat
  /\ DIRTY_REPLACE_CHAR \in 0..255 /\ DIRTY_REPLACE_CHAR < GB_SPEC_CHAR
  /\ tolower(DIRTY_REPLACE_CHAR) = DIRTY_REPLACE_CHAR
  /\ \A b \in 0..255 : tolower(b) \in 0..255 /\ (tolower(b) < GB_SPEC_CHAR <=> b < GB_SPEC_CHAR)
  /\ Files # {} /\ Files \subseteq Seq(Seq(0..255))
  /\ \A lines \in Files : \A n \in 1..Len(lines) :
       lines[n] # <<>> /\ (lines[n][1] >= GB_SPEC_CHAR => Len(lines[n]) >= 2)
  /\ Texts \subseteq Seq(0..255)

VARIABLES focus,
          head, task_current, next, prev, timer_id, timers, task_pc, pending, done, timed,
          runs, resumes, freed, crash,
          status_table, events_table, rules_table, fsm_current, calls, inside, reentered,
          units, count, capacity, freelst, running, unit, asked, recycled,
          table, fn, src, given, cursor, step, lens, dpc, answer

FsmHash(r) == r.status + 1 + r.ret

MCLower(b) == IF b = 2 THEN 1 ELSE b
MCHash(w) == Len(w) % 2
MCFiles == {<<<<2, 3>>, <<9, 1>>, <<3, 3, 1>>, <<3>>>>, <<<<1, 1>>, <<1, 3, 3, 3>>, <<3, 9, 1>>, <<3, 3>>>>,
            <<<<9, 3, 9, 9>>, <<9, 3>>>>, <<<<3, 9, 1, 1>>, <<3, 3>>, <<1>>, <<3, 0>>>>}
MCTexts == UNION {[1..n -> IF n = 4 THEN {1, 3, 9} ELSE {1, 2, 3, 9}] : n \in 0..4}

Ta == INSTANCE Task WITH Null <- 0, Jumps <- {-1, 0, 1, 2}, current <- task_current, pc <- task_pc
Fs == INSTANCE Fsm WITH RuleHash <- FsmHash, current <- fsm_current
Co == INSTANCE Coroutine
Di == INSTANCE Dirty WITH i <- cursor, key <- lens, ret <- answer

taVars == <<head, task_current, next, prev, timer_id, timers, task_pc, pending, done, timed,
            runs, resumes, freed, crash>>
fsVars == <<status_table, events_table, rules_table, fsm_current, calls, inside, reentered>>
coVars == <<units, count, capacity, freelst, running, unit, asked, recycled>>
diVars == <<table, fn, src, given, cursor, step, lens, dpc, answer>>
allVars == <<focus, timerVars, taVars, fsVars, coVars, diVars>>

MCInit ==
  /\ focus \in {"timer", "task", "fsm", "coroutine", "dirty"}
  /\ TimerInit /\ Ta!Init /\ Fs!Init /\ Co!Init /\ Di!Init
  /\ focus # "dirty" => table = Di!Loaded(CHOOSE f \in Files : TRUE)

MCNext ==
  /\ IF focus = "timer" THEN TimerNext ELSE UNCHANGED timerVars
  /\ IF focus = "task" THEN Ta!Next ELSE UNCHANGED taVars
  /\ IF focus = "fsm" THEN Fs!Next ELSE UNCHANGED fsVars
  /\ IF focus = "coroutine" THEN Co!Next ELSE UNCHANGED coVars
  /\ IF focus = "dirty" THEN Di!Next ELSE UNCHANGED diVars
  /\ UNCHANGED focus

MCSpec == MCInit /\ [][MCNext]_allVars /\ TimerFairness /\ Ta!Fairness

(* task.c: the ring of steps is whole; see OneRing in module Task.         *)
OneRing == focus = "task" => Ta!OneRing

(* task.c: a run without a timer completes once and nothing stray reaches  *)
(* the task; see CompletesOnce in module Task.                             *)
CompletesOnce == focus = "task" => Ta!CompletesOnce

(* task.c: a started task finishes unless its steps go on pushing others;  *)
(* see Finishes in module Task.                                            *)
Finishes == Ta!Finishes

(* fsm.c: a handler's answer leads where the exact rule, else the wildcard *)
(* rule says; see Legal in module Fsm.                                     *)
Legal == Fs!Legal

(* fsm.c: enter and exit callbacks alternate across nested triggers; see   *)
(* Paired in module Fsm.                                                   *)
Paired == focus = "fsm" => Fs!Paired

(* coroutine.c: slots, units and the free list agree, and a coroutine runs *)
(* its own function unless its unit was used before; see Slots in module   *)
(* Coroutine.                                                              *)
Slots == focus = "coroutine" => Co!Slots

(* dirty.c: dirty_replace leaves no dirty word and touches nothing else;   *)
(* see Cleaned in module Dirty.                                            *)
Cleaned == focus = "dirty" => Di!Cleaned
=============================================================================
