------------------------------- MODULE Timer -------------------------------
(***************************************************************************)
(* base/timer.c: timers kept in a minimum heap (module Heap) ordered by    *)
(* their expiry time.  timer_poll(timer, now) runs the callback of every   *)
(* timer due before now.  The node it found at the top of the heap is used *)
(* again after its callback returned; a callback may have registered other *)
(* timers in between, and time has gone on.                                *)
(*                                                                         *)
(* A timer is named by its heap key (node->timer_id), time is a number     *)
(* (tv_t with util_time_add and util_time_compare as + and <), the rank of *)
(* an element its expiry time.  The heap's bound on its insertions is one  *)
(* on the calls of timer_register; Erases is {"live"} when timers are      *)
(* unregistered, {} otherwise.                                             *)
(***************************************************************************)
EXTENDS Heap

CONSTANTS Intervals,  \* interval arguments; 0 is NULL: fire once
          Delays,     \* delay arguments
          MaxTime     \* bound on the clock

ASSUME TimesAssumption ==
  /\ Intervals \subseteq Nat /\ Delays \subseteq Nat /\ MaxTime \in Nat
  /\ \A t \in 0..MaxTime, d \in Intervals \cup Delays : t + d \in Ranks

VARIABLES    \* and those of timer->heap, module Heap's
  clock,     \* what gettimeofday returns
  now,       \* the argument of the running timer_poll
  tpc,       \* "app", "poll" (at the head of its loop), "cb" (in a callback),
             \* "release" (in timer_release) or "gone"
  top,       \* the node whose callback runs
  interval,  \* node->interval_time of each timer
  ran        \* history: the timers the running timer_poll has fired

timerVars == <<vars, clock, now, tpc, top, interval, ran>>

(* timer_create_heap *)
TimerInit ==
  /\ Init
  /\ clock = 0 /\ now = 0 /\ tpc = "app" /\ top = 0
  /\ interval = [k \in {} |-> 0]
  /\ ran = {}

Tick ==
  /\ clock < MaxTime
  /\ clock' = clock + 1
  /\ UNCHANGED <<vars, now, tpc, top, interval, ran>>

(* Fault: the delay is taken for the expiry time.                          *)
ExpiryDelayOnly(delay) == delay

(* util_time_add(&now, delay, &node->expire_time) after gettimeofday       *)
Expiry(delay) == clock + delay

(* timer_register, by the application or from a callback.                  *)
timer_register(iv, delay) ==
  /\ tpc \in {"app", "cb"}
  /\ heap_insert(Expiry(delay))
  /\ interval' = [k \in DOMAIN interval \cup {next_key} |->
                    IF k = next_key THEN iv ELSE interval[k]]
  /\ UNCHANGED <<clock, now, tpc, top, ran>>

(* timer_unregister, never from a callback (timer.h).                      *)
timer_unregister(k) ==
  /\ tpc = "app"
  /\ heap_erase(k)
  /\ UNCHANGED <<clock, now, tpc, top, interval, ran>>

(* timer_poll is called with the current time; an empty heap is left alone. *)
timer_poll ==
  /\ tpc = "app" /\ Ready
  /\ size > 0
  /\ now' = clock /\ tpc' = "poll" /\ ran' = {}
  /\ UNCHANGED <<vars, clock, top, interval>>

(* Fault: the loop is left after the first timer.                          *)
PollTopOnce ==
  /\ tpc = "poll" /\ Ready
  /\ IF size > 0 /\ ran = {} /\ Rank(0) < now
       THEN tpc' = "cb" /\ top' = array[0].key /\ ran' = ran \cup {array[0].key}
       ELSE tpc' = "app" /\ UNCHANGED <<top, ran>>
  /\ UNCHANGED <<vars, clock, now, interval>>

(* The head of the loop: call the earliest timer back if it is due, return *)
(* otherwise.                                                              *)
PollTop ==
  /\ tpc = "poll" /\ Ready
  /\ IF size > 0 /\ Rank(0) < now
       THEN tpc' = "cb" /\ top' = array[0].key /\ ran' = ran \cup {array[0].key}
       ELSE tpc' = "app" /\ UNCHANGED <<top, ran>>
  /\ UNCHANGED <<vars, clock, now, interval>>

(* Fault: the new expiry time of a continual timer is left zero.           *)
CallbackReturnsEarlier(ret) ==
  /\ tpc = "cb" /\ Ready
  /\ IF ret >= 0 /\ interval[top] > 0
       THEN heap_update(top, 0)
       ELSE heap_pop
  /\ tpc' = "poll"
  /\ UNCHANGED <<clock, now, top, interval, ran>>

(* The callback returns: a continual timer is due again interval_time      *)
(* after now, any other is popped off the heap and freed.                  *)
CallbackReturns(ret) ==
  /\ tpc = "cb" /\ Ready
  /\ IF ret >= 0 /\ interval[top] > 0
       THEN heap_update(top, now + interval[top])
       ELSE heap_pop
  /\ tpc' = "poll"
  /\ UNCHANGED <<clock, now, top, interval, ran>>

(* timer_release pops and frees every node, then the heap.                 *)
timer_release ==
  /\ tpc \in {"app", "release"} /\ Ready
  /\ IF size > 0
       THEN heap_pop /\ tpc' = "release"
       ELSE tpc' = "gone" /\ UNCHANGED vars
  /\ UNCHANGED <<clock, now, top, interval, ran>>

HeapStep ==
  /\ Loop
  /\ UNCHANGED <<clock, now, tpc, top, interval, ran>>

TimerNext ==
  \/ Tick
  \/ \E iv \in Intervals, delay \in Delays : timer_register(iv, delay)
  \/ \E k \in EraseKeys : timer_unregister(k)
  \/ timer_poll
  \/ PollTop
  \/ \E ret \in {-1, 0} : CallbackReturns(ret)
  \/ timer_release
  \/ HeapStep

TimerSpec == TimerInit /\ [][TimerNext]_timerVars

(* The thread inside timer_poll keeps running, and callbacks return.       *)
TimerFairness ==
  /\ WF_timerVars(PollTop) /\ WF_timerVars(HeapStep)
  /\ WF_timerVars(\E ret \in {-1, 0} : CallbackReturns(ret))

----------------------------------------------------------------------------
(* Properties *)

(* The heap keeps its own invariant under the calls timer.c makes, each    *)
(* registered timer has its interval, and the poll's time is not ahead of  *)
(* the clock.                                                              *)
TimerTypeOK ==
  /\ TypeOK /\ KeysHold
  /\ clock \in 0..MaxTime /\ now \in 0..clock
  /\ tpc \in {"app", "poll", "cb", "release", "gone"}
  /\ DOMAIN held \subseteq DOMAIN interval
  /\ interval \in [DOMAIN interval -> Intervals]
  /\ ran \subseteq DOMAIN interval

(* The node timer_poll updates or frees after a callback is the one whose  *)
(* callback ran: no timer a callback registers gets in front of it.  The   *)
(* heap underneath keeps every key's element where its table says.         *)
RunsItsOwn ==
  /\ TimerTypeOK
  /\ (tpc = "cb" /\ pc = "idle") => size > 0 /\ array[0].key = top

(* One timer_poll runs the callback of a timer at most once, continual     *)
(* timers and timers registered by callbacks included, and when it returns *)
(* no timer that was due is left in the heap, as long as no unregistration *)
(* put a node of the heap below a larger parent.                           *)
EachDueOnce ==
  [][/\ (tpc = "poll" /\ tpc' = "cb") => top' \notin ran
     /\ (tpc = "poll" /\ tpc' = "app" /\ ~misplaced) =>
          \A k \in DOMAIN held : held[k] >= now]_timerVars

(* timer.c calls the heap only in ways base/heap.c keeps its order under:  *)
(* one call at a time, and heap_update never with an earlier time.         *)
HeapUse == Spec

(* timer_poll returns, whatever the callbacks register: its own loop ends, *)
(* and so do the rotation loops of the heap it calls.                      *)
PollReturns == tpc = "poll" ~> tpc = "app"
=============================================================================
