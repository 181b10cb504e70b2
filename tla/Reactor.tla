------------------------------ MODULE Reactor ------------------------------
(***************************************************************************)
(* net/reactor.c over net/reactor_epoll.c: one thread waits for events and *)
(* calls the handlers they belong to.  A batch of events is fetched at     *)
(* once; the callbacks made for one of them may register, unregister, free *)
(* and allocate handlers that later events of the same batch point to.     *)
(* Unregistered handlers are therefore remembered in a list, expired, that *)
(* the dispatch loop consults and empties when the batch is done.          *)
(*                                                                         *)
(* A handler is named by its address, so one that is freed and allocated   *)
(* again is the same member of Handlers.  Each has a descriptor of its     *)
(* own.  A failing epoll_wait returns before anything changed and is not a *)
(* step of the model.                                                      *)
(***************************************************************************)
EXTENDS Naturals

CONSTANTS Handlers,
          SelfStop   \* in_func and out_func may unregister their own handler

ASSUME SelfStopAssumption == SelfStop \in BOOLEAN

VARIABLES
  live,      \* the handlers that are allocated
  interest,  \* what the kernel watches for each: {} when not registered
  batch,     \* events[i..]: handler -> event types still to be processed
  expired,   \* epoll->expired
  rpc,       \* "app" outside reactor_dispatch, "loop" at the head of its
             \* loop, else the callback that runs: "in", "out" or "close"
  cur, type, \* the event being processed
  gone       \* history: handlers unregistered since the batch was fetched

vars == <<live, interest, batch, expired, rpc, cur, type, gone>>
loopVars == <<batch, rpc, cur, type>>

Masks == {{"IN"}, {"IN", "OUT"}}   \* the masks connector.c and acceptor.c use
Empty == [h \in {} |-> {}]
Callbacks == {"in", "out", "close"}

(* reactor_create, epoll_init *)
Init ==
  /\ live = Handlers /\ interest = [h \in Handlers |-> {}]
  /\ batch = Empty /\ expired = {}
  /\ rpc = "app" /\ cur \in Handlers /\ type = {}
  /\ gone = {}

----------------------------------------------------------------------------
(* epoll_ctl fails, without effect, when ADD meets a registered descriptor *)
(* or MOD and DEL an unregistered one.                                     *)

epoll_register(h, mask) ==
  /\ interest' = [interest EXCEPT ![h] = IF @ = {} THEN mask ELSE @]
  /\ UNCHANGED <<live, expired, loopVars, gone>>

epoll_modify(h, mask) ==
  /\ interest' = [interest EXCEPT ![h] = IF @ = {} THEN @ ELSE mask]
  /\ UNCHANGED <<live, expired, loopVars, gone>>

epoll_unregister(h) ==
  /\ expired' = expired \cup {h}
  /\ interest' = [interest EXCEPT ![h] = {}]
  /\ gone' = gone \cup {h}
  /\ UNCHANGED <<live, loopVars>>

(* The owner of a handler frees it (con_release, acc_release) when it is   *)
(* unregistered; a later MALLOC may return the same address.               *)
Free(h) ==
  /\ interest[h] = {} /\ h \in live
  /\ live' = live \ {h}
  /\ UNCHANGED <<interest, expired, loopVars, gone>>

Alloc(h) ==
  /\ h \notin live
  /\ live' = live \cup {h}
  /\ UNCHANGED <<interest, expired, loopVars, gone>>

----------------------------------------------------------------------------
(* epoll_dispatch *)

(* epoll_wait: some registered handlers, each with some of the events it   *)
(* asked for; errors are always reported, and a hang-up, which is handled  *)
(* like input.                                                             *)
EventTypes(h) == (SUBSET (interest[h] \cup {"IN", "ERR"})) \ {{}}

epoll_wait ==
  /\ rpc = "app"
  /\ \E S \in SUBSET {h \in Handlers : interest[h] # {}} :
       \E b \in [S -> SUBSET {"IN", "OUT", "ERR"}] :
         /\ \A h \in S : b[h] \in EventTypes(h)
         /\ batch' = b
  /\ rpc' = "loop" /\ gone' = {}
  /\ UNCHANGED <<live, interest, expired, cur, type>>

(* The callback that follows p for an event of type t.                     *)
AfterOut(t) == IF "ERR" \in t THEN "close" ELSE "loop"
AfterIn(t) == IF "OUT" \in t THEN "out" ELSE AfterOut(t)
First(t) == IF "IN" \in t THEN "in" ELSE AfterIn(t)

(* Fault: the list is not consulted.                                       *)
SkippedNever(h) == FALSE

Skipped(h) == h \in expired

(* One turn of the loop.                                                   *)
NextEvent(h) ==
  /\ rpc = "loop" /\ h \in DOMAIN batch
  /\ batch' = [g \in DOMAIN batch \ {h} |-> batch[g]]
  /\ IF Skipped(h)
       THEN UNCHANGED <<rpc, cur, type>>
       ELSE cur' = h /\ type' = batch[h] /\ rpc' = First(batch[h])
  /\ UNCHANGED <<live, interest, expired, gone>>

(* A callback returns, ok or < 0: a failing in_func or out_func is         *)
(* followed by close_func, and that by the next event.                     *)
CallbackReturns(ok) ==
  /\ rpc \in Callbacks
  /\ rpc' = CASE rpc = "in" /\ ok -> AfterIn(type)
              [] rpc = "out" /\ ok -> AfterOut(type)
              [] rpc # "close" /\ ~ok -> "close"
              [] rpc = "close" -> "loop"
  /\ UNCHANGED <<live, interest, batch, expired, cur, type, gone>>

(* Fault: the list is left as it is.                                       *)
EndWithoutClean ==
  /\ rpc = "loop" /\ DOMAIN batch = {}
  /\ rpc' = "app"
  /\ UNCHANGED <<live, interest, batch, expired, cur, type, gone>>

(* The batch is done: slist_clean(epoll->expired).                         *)
EndDispatch ==
  /\ rpc = "loop" /\ DOMAIN batch = {}
  /\ expired' = {} /\ rpc' = "app"
  /\ UNCHANGED <<live, interest, batch, cur, type, gone>>

----------------------------------------------------------------------------
(* The application, between dispatches or from inside a callback.          *)
Calling == rpc = "app" \/ rpc \in Callbacks
MayStop(h) == SelfStop \/ rpc \in {"app", "close"} \/ h # cur

App ==
  /\ Calling
  /\ \E h \in Handlers :
       \/ h \in live /\ \E m \in Masks : epoll_register(h, m) \/ epoll_modify(h, m)
       \/ h \in live /\ MayStop(h) /\ epoll_unregister(h)
       \/ MayStop(h) /\ Free(h)
       \/ Alloc(h)

Dispatch ==
  \/ \E h \in Handlers : NextEvent(h)
  \/ \E ok \in BOOLEAN : CallbackReturns(ok)
  \/ EndDispatch

(* reactor_release, and reactor_create of the next one.  The handlers are  *)
(* not the reactor's; those it watched are registered nowhere.             *)
reactor_release ==
  /\ rpc = "app" /\ (expired # {} \/ \E h \in Handlers : interest[h] # {})
  /\ interest' = [h \in Handlers |-> {}] /\ expired' = {} /\ gone' = {}
  /\ UNCHANGED <<live, loopVars>>

Next == App \/ epoll_wait \/ Dispatch \/ reactor_release
Spec == Init /\ [][Next]_vars

(* The thread calls reactor_dispatch again and again, and callbacks return *)
(* whatever they do before.                                                *)
Fairness == SF_vars(epoll_wait) /\ SF_vars(Dispatch)
FairSpec == Spec /\ Fairness

----------------------------------------------------------------------------
(* Properties *)

(* Only allocated handlers are watched, and a batch only holds handlers    *)
(* that were.                                                              *)
TypeOK ==
  /\ live \subseteq Handlers
  /\ interest \in [Handlers -> {{}} \cup Masks]
  /\ \A h \in Handlers : interest[h] # {} => h \in live
  /\ DOMAIN batch \subseteq Handlers
  /\ \A h \in DOMAIN batch : batch[h] \in (SUBSET {"IN", "OUT", "ERR"}) \ {{}}
  /\ expired \subseteq Handlers /\ gone \subseteq Handlers
  /\ rpc \in {"app", "loop"} \cup Callbacks /\ (rpc = "app" => DOMAIN batch = {})
  /\ cur \in Handlers /\ type \subseteq {"IN", "OUT", "ERR"}

(* A callback is only ever made to a handler that is allocated, registered *)
(* and has been so since the event was fetched: no callback of the same    *)
(* batch that unregistered, freed or replaced it makes the dispatch loop   *)
(* use a dangling pointer or deliver an old event to a new connection.     *)
NoStaleCallback ==
  [][(rpc' # rpc /\ rpc' \in Callbacks) =>
       cur' \in live /\ interest[cur'] # {} /\ cur' \notin gone]_vars

(* No handler's events are held back for ever: one that was unregistered   *)
(* and registered again is served again.                                   *)
Forgotten == \A h \in Handlers : h \in expired ~> h \notin expired
=============================================================================
