-------------------------------- MODULE Task -------------------------------
(***************************************************************************)
(* logic/task.c: an asynchronous task is a ring of steps.  _task_run runs  *)
(* them one after the other until one answers that it waits for a          *)
(* notification; task_step_resume continues from there, and a one-shot     *)
(* timer fails the task when it takes too long.  Everything happens in one *)
(* thread, the application's loop, which polls the notifications and the   *)
(* timers and releases a task it sees finished.  The ring is edited at any *)
(* of these points, by the callbacks too; a run is started by the loop,    *)
(* when none is under way.                                                 *)
(***************************************************************************)
EXTENDS Integers, Sequences

CONSTANTS Steps,       \* the step objects
          Null,        \* NULL
          Jumps,       \* step arguments of task_step_resume
          MaxRuns,     \* bound on the calls of task_run
          MaxResumes   \* bound on the resumptions with TASK_RET_NEXT

VARIABLES
  head, current,   \* t->head, t->current
  next, prev,      \* the links of the steps; NULL outside the ring
  timer_id,        \* t->timer_id: the run that registered it, 0 = INVALID
  timers,          \* the timers registered with _task_timeout and not fired
  pc,              \* "app", or "run" inside the loop of _task_run
  pending,         \* steps whose notification is still to come
  done,            \* history: callbacks made during this run of the task
  timed,           \* history: some task_run was given a timer
  runs, resumes,   \* calls so far
  freed,           \* task_release was called
  crash            \* NULL was dereferenced, or a freed task touched

ring == <<head, next, prev>>
vars == <<head, current, next, prev, timer_id, timers, pc, pending, done,
          timed, runs, resumes, freed, crash>>

Linked == {s \in Steps : next[s] # Null}

(* task_create and task_step_create *)
Init ==
  /\ head = Null /\ current = Null
  /\ next = [s \in Steps |-> Null] /\ prev = [s \in Steps |-> Null]
  /\ timer_id = 0 /\ timers = {}
  /\ pc = "app" /\ pending = {} /\ done = <<>> /\ timed = FALSE
  /\ runs = 0 /\ resumes = 0 /\ freed = FALSE /\ crash = FALSE

App == pc = "app" /\ ~freed /\ ~crash

(* The ring may be edited whenever the task exists: by the application, by *)
(* the run function of the current step, while the task waits, and, as on_ *)
(* success and on_fail are the last calls of a run, by these.              *)
Alive == ~freed /\ ~crash

----------------------------------------------------------------------------
(* Fault: a step pushed onto a ring is linked to itself.                   *)
PushBackAlone(s) ==
  /\ Alive /\ s \notin Linked
  /\ head' = IF head = Null THEN s ELSE head
  /\ next' = [next EXCEPT ![s] = s] /\ prev' = [prev EXCEPT ![s] = s]
  /\ UNCHANGED <<current, timer_id, timers, pc, pending, done, timed, runs, resumes, freed, crash>>

(* The caller sees to it that no step is pushed that is in the ring.       *)
task_push_back_step(s) ==
  /\ Alive /\ s \notin Linked
  /\ IF head = Null
       THEN head' = s /\ next' = [next EXCEPT ![s] = s] /\ prev' = [prev EXCEPT ![s] = s]
       ELSE /\ next' = [next EXCEPT ![prev[head]] = s, ![s] = head]
            /\ prev' = [prev EXCEPT ![s] = prev[head], ![head] = s]
            /\ UNCHANGED head
  /\ UNCHANGED <<current, timer_id, timers, pc, pending, done, timed, runs, resumes, freed, crash>>

(* task_erase_step does not move t->head: the callers modelled here never  *)
(* erase the first step, nor one that is in use.                           *)
task_erase_step(s) ==
  /\ Alive /\ s \in Linked \ (pending \cup {head, current})
  /\ next' = [next EXCEPT ![prev[s]] = next[s], ![s] = Null]
  /\ prev' = [prev EXCEPT ![next[s]] = prev[s], ![s] = Null]
  /\ UNCHANGED <<head, current, timer_id, timers, pc, pending, done, timed, runs, resumes, freed, crash>>

(* task_run, with a timer and a timeout or without, up to the loop of      *)
(* _task_run.                                                              *)
task_run(timer) ==
  /\ App /\ head # Null /\ current = Null /\ runs < MaxRuns
  /\ current' = head /\ pc' = "run"
  /\ runs' = runs + 1 /\ done' = <<>>
  /\ timed' = (timed \/ timer)
  /\ IF timer THEN timer_id' = runs + 1 /\ timers' = timers \cup {runs + 1}
              ELSE UNCHANGED <<timer_id, timers>>
  /\ UNCHANGED <<ring, pending, resumes, freed, crash>>

(* on_success or on_fail, after which the task has no current step.        *)
Complete(how) ==
  /\ done' = done \o <<how>>
  /\ current' = Null
  /\ pc' = "app"

(* Fault: a failing step is reported, and the loop goes on.                *)
StepReturnsFallThrough(ret) ==
  /\ pc = "run"
  /\ \/ ret = "NEXT" /\ next[current] # head
        /\ current' = next[current] /\ UNCHANGED <<pc, pending, done>>
     \/ ret = "NEXT" /\ next[current] = head /\ Complete("success") /\ UNCHANGED pending
     \/ ret = "RUNNING" /\ pc' = "app" /\ pending' = pending \cup {current}
        /\ UNCHANGED <<current, done>>
     \/ ret = "SUCCESS" /\ Complete("success") /\ UNCHANGED pending
     \/ ret = "FAIL" /\ done' = done \o <<"fail">> /\ current' = next[current]
        /\ UNCHANGED <<pc, pending>>
  /\ UNCHANGED <<ring, timer_id, timers, timed, runs, resumes, freed, crash>>

(* One iteration of _task_run: the step's run function returns ret.        *)
StepReturns(ret) ==
  /\ pc = "run"
  /\ \/ ret = "NEXT" /\ next[current] # head
        /\ current' = next[current] /\ UNCHANGED <<pc, pending, done>>
     \/ ret = "NEXT" /\ next[current] = head /\ Complete("success") /\ UNCHANGED pending
     \/ ret = "RUNNING" /\ pc' = "app" /\ pending' = pending \cup {current}
        /\ UNCHANGED <<current, done>>
     \/ ret = "SUCCESS" /\ Complete("success") /\ UNCHANGED pending
     \/ ret = "FAIL" /\ Complete("fail") /\ UNCHANGED pending
  /\ UNCHANGED <<ring, timer_id, timers, timed, runs, resumes, freed, crash>>

(* t->current after n links forwards, or -n backwards.                     *)
Moved(n) ==
  LET link == IF n > 0 THEN next ELSE prev
      Walk[i \in Nat] == IF i = 0 THEN current ELSE link[Walk[i - 1]]
  IN Walk[IF n > 0 THEN n ELSE -n]

(* A resumption of a task that was released touches freed memory, and one  *)
(* that must move from no current step dereferences NULL.                  *)
Stray(ret, n) == freed \/ (ret = "NEXT" /\ n # 0 /\ current = Null)

(* Fault: a resumption that completes the task leaves t->current alone.    *)
ResumeKeepsCurrent(ts, ret, n) ==
  /\ pc = "app" /\ ~crash /\ ts \in pending
  /\ ret = "NEXT" => resumes < MaxResumes
  /\ pending' = pending \ {ts}
  /\ resumes' = resumes + (IF ret = "NEXT" THEN 1 ELSE 0)
  /\ crash' = Stray(ret, n)
  /\ IF ret = "NEXT" /\ ~Stray(ret, n) /\ Moved(n) # Null
       THEN current' = Moved(n) /\ pc' = "run" /\ UNCHANGED done
       ELSE UNCHANGED <<current, pc, done>>
  /\ UNCHANGED <<ring, timer_id, timers, timed, runs, freed>>

(* task_step_resume(ts, ret, n), called when the notification ts waits for *)
(* arrives.                                                                *)
task_step_resume(ts, ret, n) ==
  /\ pc = "app" /\ ~crash /\ ts \in pending
  /\ ret = "NEXT" => resumes < MaxResumes
  /\ pending' = pending \ {ts}
  /\ resumes' = resumes + (IF ret = "NEXT" THEN 1 ELSE 0)
  /\ crash' = Stray(ret, n)
  /\ \/ Stray(ret, n) /\ UNCHANGED <<current, pc, done>>
     \/ /\ ~Stray(ret, n) /\ ret = "NEXT"
        /\ current' = Moved(n)
        /\ pc' = IF current' = Null THEN "app" ELSE "run"
        /\ UNCHANGED done
     \/ ~Stray(ret, n) /\ ret = "SUCCESS" /\ Complete("success")
     \/ ~Stray(ret, n) /\ ret = "FAIL" /\ Complete("fail")
  /\ UNCHANGED <<ring, timer_id, timers, timed, runs, freed>>

(* timer_poll finds the task's timer due: _task_timeout.                   *)
_task_timeout(i) ==
  /\ pc = "app" /\ ~crash /\ i \in timers
  /\ timers' = timers \ {i}
  /\ crash' = freed
  /\ IF freed THEN UNCHANGED <<current, pc, done, timer_id>>
              ELSE Complete("timeout") /\ timer_id' = 0
  /\ UNCHANGED <<ring, pending, timed, runs, resumes, freed>>

task_is_finished == current = Null

(* task_release of a task that was run and is finished.                    *)
task_release ==
  /\ App /\ runs > 0 /\ task_is_finished
  /\ freed' = TRUE
  /\ timers' = timers \ {timer_id} /\ timer_id' = 0
  /\ UNCHANGED <<ring, current, pc, pending, done, timed, runs, resumes, crash>>

Results == {"NEXT", "SUCCESS", "FAIL"}
Notify == \E ts \in Steps, ret \in Results, n \in Jumps : task_step_resume(ts, ret, n)
RunSteps == \E ret \in Results \cup {"RUNNING"} : StepReturns(ret)
Timeout == \E i \in timers : _task_timeout(i)

Next ==
  \/ \E s \in Steps : task_push_back_step(s) \/ task_erase_step(s)
  \/ \E timer \in BOOLEAN : task_run(timer)
  \/ RunSteps \/ Notify \/ Timeout \/ task_release

Spec == Init /\ [][Next]_vars

(* Run functions return, timers are polled, and a task that no timer       *)
(* watches gets the notifications it waits for; others may be lost.        *)
Fairness ==
  /\ WF_vars(RunSteps) /\ WF_vars(Timeout)
  /\ WF_vars(timers = {} /\ Notify)
FairSpec == Spec /\ Fairness

----------------------------------------------------------------------------
(* Properties *)

(* The ring is closed and doubly linked: next and prev undo each other on  *)
(* the linked steps, the head is one of them, and the task's positions and *)
(* counters are what their types say.                                      *)
TypeOK ==
  /\ next \in [Steps -> Steps \cup {Null}] /\ prev \in [Steps -> Steps \cup {Null}]
  /\ head \in Steps \cup {Null}
  /\ head = Null <=> Linked = {}
  /\ head # Null => head \in Linked
  /\ \A s \in Linked : next[s] \in Linked /\ prev[s] \in Linked
                       /\ prev[next[s]] = s /\ next[prev[s]] = s
  /\ \A s \in Steps \ Linked : prev[s] = Null
  /\ current \in Linked \cup {Null}
  /\ pending \subseteq Steps
  /\ pc \in {"app", "run"} /\ (pc = "run" => current # Null)
  /\ timer_id \in 0..MaxRuns /\ timers \subseteq 1..MaxRuns
  /\ runs \in 0..MaxRuns /\ resumes \in 0..MaxResumes
  /\ timed \in BOOLEAN /\ freed \in BOOLEAN /\ crash \in BOOLEAN

(* Every step that was pushed and not erased is met by walking next from   *)
(* the head, and the links agree in both directions: no sequence of pushes *)
(* and erasures, made between runs, by a running step, by a callback or    *)
(* while the task waits, cuts the ring in two.                             *)
OneRing ==
  /\ TypeOK
  /\ \A S \in SUBSET Linked :
       (head \in S /\ \A s \in S : next[s] \in S) => S = Linked

(* A run of the task calls exactly one of on_success and on_fail, and it   *)
(* does so when, and only when, the task becomes finished ("task           *)
(* complete", task.c), as long as the task was never given a timer: a late *)
(* notification is a second completion after a timeout, and so is the      *)
(* timer, which only task_release unregisters.  As long, no notification   *)
(* reaches a task that was released, and none moves on from a NULL step.   *)
CompletesOnce ==
  ~timed => /\ runs > 0 /\ current = Null => Len(done) = 1
            /\ current # Null => done = <<>>
            /\ ~crash

(* What task.h says of the last step: "if last step and return             *)
(* TASK_RET_NEXT, then go loop to head step".                              *)
LoopsToHead ==
  [][(StepReturns("NEXT") /\ next[current] = head) => current' = head]_vars

(* A task that was started finishes, even when every notification is lost, *)
(* provided a timer watches it, and unless its own run functions push new  *)
(* steps ahead of it for ever.                                             *)
Finishes == <>[][pc = "run" => UNCHANGED ring]_vars => (current # Null ~> current = Null)
=============================================================================
