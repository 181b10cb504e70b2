----------------------------- MODULE NetProofs -----------------------------
(***************************************************************************)
(* Proofs about the components of module MCNet.  The reactor, for any set  *)
(* of handlers: as long as in_func and out_func do not unregister their    *)
(* own handler, no callback reaches a stale one.  The acceptor, for any    *)
(* table of descriptors, however it is started and stopped: who owns which. *)
(***************************************************************************)
EXTENDS MCNet, NatLemmas, SequenceTheorems

----------------------------------------------------------------------------
(* The reactor.                                                            *)

Good(h) == h \in live /\ interest[h] # {} /\ h \notin gone

(* Why one look at the list, before the first callback of an event, is     *)
(* enough: what was unregistered since the batch was fetched is in the     *)
(* list, so every event left in the batch is skipped or belongs to a good  *)
(* handler, and the current handler stays good until its close_func, which *)
(* is the last callback of its event.                                      *)
StaleInv ==
  /\ TypeOK
  /\ rpc # "app" => gone \subseteq expired
  /\ \A h \in DOMAIN batch : h \in expired \/ Good(h)
  /\ rpc \in {"in", "out"} => Good(cur)

(* No handler is registered.                                               *)
LEMMA InitStale == Init => StaleInv
  BY DEF Init, StaleInv, TypeOK, Empty, Masks, Callbacks, Good

(* epoll_register and epoll_modify.                                        *)
LEMMA RegisterStale ==
  ASSUME StaleInv, NEW h \in Handlers, h \in live, NEW m \in Masks,
         epoll_register(h, m) \/ epoll_modify(h, m)
  PROVE  StaleInv'
<1>1. /\ live' = live /\ expired' = expired /\ gone' = gone
      /\ batch' = batch /\ rpc' = rpc /\ cur' = cur /\ type' = type
  BY DEF epoll_register, epoll_modify, loopVars
<1>2. m # {}
  BY DEF Masks
<1>3. /\ interest' \in [Handlers -> {{}} \cup Masks]
      /\ \A g \in Handlers : interest'[g] # {} => interest[g] # {} \/ g = h
      /\ \A g \in Handlers : interest[g] # {} => interest'[g] # {}
  BY <1>2 DEF StaleInv, TypeOK, epoll_register, epoll_modify
<1>4. TypeOK'
  BY <1>1, <1>3 DEF StaleInv, TypeOK
<1>5. \A g \in Handlers : Good(g) => Good(g)'
  BY <1>1, <1>3 DEF Good
<1>6. DOMAIN batch \subseteq Handlers /\ cur \in Handlers
  BY DEF StaleInv, TypeOK
<1>7. \A g \in DOMAIN batch : g \in expired \/ Good(g)'
  BY <1>5, <1>6 DEF StaleInv
<1>8. rpc \in {"in", "out"} => Good(cur)'
  BY <1>1, <1>5, <1>6 DEF StaleInv, Good
<1> QED BY <1>1, <1>4, <1>7, <1>8 DEF StaleInv, Good

(* epoll_unregister puts the handler on the list, which makes its          *)
(* remaining event harmless.                                               *)
LEMMA UnregisterStale ==
  ASSUME StaleInv, NEW h \in Handlers, h \in live, rpc \notin {"in", "out"} \/ h # cur,
         epoll_unregister(h)
  PROVE  StaleInv'
<1>1. /\ live' = live /\ expired' = expired \cup {h} /\ gone' = gone \cup {h}
      /\ batch' = batch /\ rpc' = rpc /\ cur' = cur /\ type' = type
      /\ interest' = [interest EXCEPT ![h] = {}]
  BY DEF epoll_unregister, loopVars
<1>2. TypeOK'
  BY <1>1 DEF StaleInv, TypeOK
<1>3. \A g \in Handlers : g # h /\ Good(g) => Good(g)'
  BY <1>1 DEF Good, StaleInv, TypeOK
<1>4. DOMAIN batch \subseteq Handlers /\ cur \in Handlers
  BY DEF StaleInv, TypeOK
<1>5. \A g \in DOMAIN batch : g \in expired' \/ Good(g)'
  BY <1>1, <1>3, <1>4 DEF StaleInv
<1>6. rpc \in {"in", "out"} => Good(cur)'
  BY <1>1, <1>3, <1>4 DEF StaleInv, Good
<1> QED BY <1>1, <1>2, <1>5, <1>6 DEF StaleInv, Good

(* A handler that is freed is not registered, so none that is good for a   *)
(* callback is lost.                                                       *)
LEMMA FreeStale ==
  ASSUME StaleInv, NEW h \in Handlers, Free(h)
  PROVE  StaleInv'
<1>1. /\ live' = live \ {h} /\ interest[h] = {}
      /\ UNCHANGED <<interest, expired, batch, rpc, cur, type, gone>>
  BY DEF Free, loopVars
<1>2. TypeOK'
  BY <1>1 DEF StaleInv, TypeOK
<1>3. \A g \in Handlers : Good(g) => Good(g)'
  BY <1>1 DEF Good
<1>4. DOMAIN batch \subseteq Handlers /\ cur \in Handlers
  BY DEF StaleInv, TypeOK
<1>5. \A g \in DOMAIN batch : g \in expired \/ Good(g)'
  BY <1>3, <1>4 DEF StaleInv
<1>6. rpc \in {"in", "out"} => Good(cur)'
  BY <1>1, <1>3, <1>4 DEF StaleInv, Good
<1> QED BY <1>1, <1>2, <1>5, <1>6 DEF StaleInv, Good

(* An address that comes back is neither registered nor forgotten.         *)
LEMMA AllocStale ==
  ASSUME StaleInv, NEW h \in Handlers, Alloc(h)
  PROVE  StaleInv'
<1>1. /\ live' = live \cup {h}
      /\ UNCHANGED <<interest, expired, batch, rpc, cur, type, gone>>
  BY DEF Alloc, loopVars
<1>2. TypeOK'
  BY <1>1 DEF StaleInv, TypeOK
<1>3. \A g : Good(g) => Good(g)'
  BY <1>1 DEF Good
<1> QED BY <1>1, <1>2, <1>3 DEF StaleInv, Good

(* A new batch only holds registered handlers, and none of them is gone.   *)
LEMMA WaitStale == ASSUME StaleInv, epoll_wait PROVE StaleInv'
<1>1. /\ rpc' = "loop" /\ gone' = {}
      /\ UNCHANGED <<live, interest, expired, cur, type>>
  BY DEF epoll_wait
<1>2. /\ DOMAIN batch' \subseteq {h \in Handlers : interest[h] # {}}
      /\ \A h \in DOMAIN batch' : batch'[h] \in (SUBSET {"IN", "OUT", "ERR"}) \ {{}}
  <2>1. PICK S \in SUBSET {h \in Handlers : interest[h] # {}} :
          \E b \in [S -> SUBSET {"IN", "OUT", "ERR"}] :
            (\A h \in S : b[h] \in EventTypes(h)) /\ batch' = b
    BY DEF epoll_wait
  <2>2. PICK b \in [S -> SUBSET {"IN", "OUT", "ERR"}] :
          (\A h \in S : b[h] \in EventTypes(h)) /\ batch' = b
    BY <2>1
  <2>3. \A h \in S : b[h] # {}
    BY <2>2 DEF EventTypes
  <2> QED BY <2>1, <2>2, <2>3
<1>3. \A h \in DOMAIN batch' : Good(h)'
  BY <1>1, <1>2 DEF Good, StaleInv, TypeOK
<1>4. TypeOK'
  BY <1>1, <1>2 DEF StaleInv, TypeOK, Callbacks
<1> QED BY <1>1, <1>3, <1>4 DEF StaleInv

(* The loop calls a handler that is not on the list.                       *)
LEMMA NextEventStale ==
  ASSUME StaleInv, NEW h \in Handlers, NextEvent(h)
  PROVE  StaleInv'
<1>1. /\ rpc = "loop" /\ h \in DOMAIN batch
      /\ batch' = [g \in DOMAIN batch \ {h} |-> batch[g]]
      /\ UNCHANGED <<live, interest, expired, gone>>
      /\ IF h \in expired THEN UNCHANGED <<rpc, cur, type>>
                          ELSE cur' = h /\ type' = batch[h] /\ rpc' = First(batch[h])
  BY DEF NextEvent, Skipped
<1>2. First(batch[h]) \in {"loop"} \cup Callbacks
  BY DEF First, AfterIn, AfterOut, Callbacks
<1>3. rpc' \in {"loop"} \cup Callbacks /\ rpc' # "app"
  BY <1>1, <1>2 DEF Callbacks
<1>4. TypeOK'
  BY <1>1, <1>3 DEF StaleInv, TypeOK
<1>5. \A g \in DOMAIN batch' : g \in expired' \/ Good(g)'
  BY <1>1 DEF StaleInv, Good
<1>6. rpc' \in {"in", "out"} => Good(cur)'
  BY <1>1 DEF StaleInv, Good
<1>7. gone' \subseteq expired'
  BY <1>1 DEF StaleInv
<1> QED BY <1>4, <1>5, <1>6, <1>7 DEF StaleInv

(* in_func is followed by out_func and close_func of the same handler.     *)
LEMMA ReturnStale ==
  ASSUME StaleInv, NEW ok \in BOOLEAN, CallbackReturns(ok)
  PROVE  StaleInv'
<1>1. /\ rpc \in Callbacks
      /\ UNCHANGED <<live, interest, batch, expired, cur, type, gone>>
  BY DEF CallbackReturns
<1>2. /\ rpc' \in {"loop"} \cup Callbacks
      /\ rpc' \in {"in", "out"} => rpc \in {"in", "out"}
  BY DEF CallbackReturns, AfterIn, AfterOut, Callbacks
<1>3. rpc # "app" /\ rpc' # "app"
  BY <1>1, <1>2 DEF Callbacks
<1>4. TypeOK'
  BY <1>1, <1>2, <1>3 DEF StaleInv, TypeOK
<1>5. \A g : Good(g) => Good(g)'
  BY <1>1 DEF Good
<1>6. rpc' \in {"in", "out"} => Good(cur)'
  BY <1>1, <1>2 DEF StaleInv, Good
<1> QED BY <1>1, <1>3, <1>4, <1>5, <1>6 DEF StaleInv

(* The list is emptied when no event is left that it guards.               *)
LEMMA EndStale == ASSUME StaleInv, EndDispatch PROVE StaleInv'
  BY DEF StaleInv, EndDispatch, TypeOK, Good

(* Between dispatches no event is left and no callback runs.               *)
LEMMA ReleaseStale == ASSUME StaleInv, reactor_release PROVE StaleInv'
<1>1. /\ rpc = "app" /\ rpc' = "app" /\ DOMAIN batch' = {}
      /\ UNCHANGED <<live, batch, cur, type>>
      /\ interest' = [h \in Handlers |-> {}] /\ expired' = {} /\ gone' = {}
  BY DEF reactor_release, loopVars, StaleInv, TypeOK
<1>2. TypeOK'
  BY <1>1 DEF StaleInv, TypeOK
<1> QED BY <1>1, <1>2 DEF StaleInv

(* Every step keeps the invariant when a callback leaves its own handler   *)
(* registered.                                                             *)
LEMMA NextStale == ASSUME ~SelfStop, StaleInv, [Next]_vars PROVE StaleInv'
<1>1. CASE App
  <2>1. PICK h \in Handlers :
          \/ h \in live /\ \E m \in Masks : epoll_register(h, m) \/ epoll_modify(h, m)
          \/ h \in live /\ MayStop(h) /\ epoll_unregister(h)
          \/ MayStop(h) /\ Free(h)
          \/ Alloc(h)
    BY <1>1 DEF App
  <2>2. MayStop(h) => rpc \notin {"in", "out"} \/ h # cur
    BY DEF MayStop
  <2> QED BY <2>1, <2>2, RegisterStale, UnregisterStale, FreeStale, AllocStale
<1>2. CASE epoll_wait
  BY <1>2, WaitStale
<1>3. CASE Dispatch
  BY <1>3, NextEventStale, ReturnStale, EndStale DEF Dispatch
<1>4. CASE reactor_release
  BY <1>4, ReleaseStale
<1>5. CASE UNCHANGED vars
  BY <1>5 DEF vars, StaleInv, TypeOK, Good
<1> QED BY <1>1, <1>2, <1>3, <1>4, <1>5 DEF Next

(* The types of Reactor, for any set of handlers.                          *)
THEOREM TypeCorrect == ASSUME ~SelfStop PROVE Spec => []TypeOK
<1>1. StaleInv => TypeOK
  BY DEF StaleInv
<1> QED BY <1>1, InitStale, NextStale, PTL DEF Spec

(* A step that starts a callback starts it for a good handler.             *)
LEMMA StartsGood ==
  ASSUME StaleInv, Next, rpc' # rpc, rpc' \in Callbacks
  PROVE  cur' \in live /\ interest[cur'] # {} /\ cur' \notin gone
<1>1. CASE App
  BY <1>1 DEF App, epoll_register, epoll_modify, epoll_unregister, Free, Alloc, loopVars
<1>2. CASE epoll_wait
  BY <1>2 DEF epoll_wait, Callbacks
<1>3. CASE \E h \in Handlers : NextEvent(h)
  <2>1. PICK h \in Handlers : NextEvent(h)
    BY <1>3
  <2>2. h \in DOMAIN batch /\ h \notin expired /\ cur' = h
    BY <2>1 DEF NextEvent, Skipped
  <2> QED BY <2>2 DEF StaleInv, Good
<1>4. CASE \E ok \in BOOLEAN : CallbackReturns(ok)
  <2>1. PICK ok \in BOOLEAN : CallbackReturns(ok)
    BY <1>4
  <2>2. rpc \in {"in", "out"} /\ cur' = cur
    BY <2>1 DEF CallbackReturns, AfterIn, AfterOut, Callbacks
  <2> QED BY <2>2 DEF StaleInv, Good
<1>5. CASE EndDispatch
  BY <1>5 DEF EndDispatch, Callbacks
<1>6. CASE reactor_release
  BY <1>6 DEF reactor_release, loopVars
<1> QED BY <1>1, <1>2, <1>3, <1>4, <1>5, <1>6 DEF Next, Dispatch

(* epoll_dispatch with its expired list makes callbacks only to handlers   *)
(* that are allocated and registered since the event was fetched, if no    *)
(* in_func or out_func unregisters its own handler.                        *)
THEOREM NoStaleCallbackHolds == ASSUME ~SelfStop PROVE Spec => NoStaleCallback
<1>1. StaleInv /\ [Next]_vars =>
        [(rpc' # rpc /\ rpc' \in Callbacks) =>
           cur' \in live /\ interest[cur'] # {} /\ cur' \notin gone]_vars
  BY StartsGood
<1> QED BY <1>1, InitStale, NextStale, PTL DEF Spec, NoStaleCallback

----------------------------------------------------------------------------
(* The acceptor.                                                           *)

(* Each component of MCNet takes its own steps or stays as it is.          *)
LEMMA AcRefines ==
  /\ MCInit => Ac!Init
  /\ [MCNext]_allVars => [Ac!Next]_(Ac!vars)
  BY DEF MCInit, MCNext, allVars, acVars, Ac!vars

(* The descriptor the kernel hands out is a free one.                      *)
LEMMA LowestIsFree ==
  ASSUME Ac!FreeFds # {}
  PROVE  Ac!Lowest \in Ac!FreeFds
  <1>1. Ac!FreeFds \in SUBSET Nat
    BY FdsAssumption DEF Ac!FreeFds
  <1>2. \E f \in Ac!FreeFds : \A g \in Ac!FreeFds : f <= g
    BY <1>1, LeastNat
  <1> QED BY <1>2 DEF Ac!Lowest

(* The only listener is the socket of an allocated acceptor, which has it  *)
(* from acc_create until it is stopped; after that its number is free as   *)
(* long as nobody opens a descriptor.                                      *)
AcTypes ==
  /\ fds \in [Fds -> {"free", "listener", "accepted", "app"}]
  /\ afd \in Fds \cup {Ac!INVALID_SOCK}
  /\ alive \in BOOLEAN /\ watched \in BOOLEAN /\ wrong \in BOOLEAN /\ opened \in BOOLEAN
  /\ apc \in {"app", "on_read", "close"}
  /\ apc # "app" => alive

AcInv ==
  /\ AcTypes
  /\ \A f \in Fds : fds[f] = "listener" => alive /\ f = afd
  /\ watched => alive /\ afd \in Fds
  /\ alive /\ afd \in Fds /\ ~opened => fds[afd] \in {"listener", "free"}
  /\ watched /\ ~opened => fds[afd] = "listener"
  /\ wrong => opened

LEMMA AcInit == Ac!Init => AcInv
  BY DEF Ac!Init, AcInv, AcTypes

LEMMA AcStep == AcInv /\ [Ac!Next]_(Ac!vars) => AcInv'
  <1> SUFFICES ASSUME AcInv, [Ac!Next]_(Ac!vars) PROVE AcInv'
    OBVIOUS
  <1>a. Ac!INVALID_SOCK \notin Fds
    BY FdsAssumption DEF Ac!INVALID_SOCK
  <1>b. Ac!FreeFds # {} => Ac!Lowest \in Fds /\ fds[Ac!Lowest] = "free"
    BY LowestIsFree DEF Ac!FreeFds
  <1>c. Ac!Holds <=> afd \in Fds /\ fds[afd] = "listener"
    BY <1>a DEF Ac!Holds, AcInv, AcTypes
  <1>1. CASE UNCHANGED Ac!vars
    BY <1>1 DEF Ac!vars, AcInv, AcTypes
  <1>2. ASSUME NEW h \in BOOLEAN, Ac!acc_create(h) PROVE AcInv'
    <2>1. CASE Ac!FreeFds = {}
      BY <1>2, <1>a, <2>1 DEF Ac!acc_create, AcInv, AcTypes
    <2>2. CASE Ac!FreeFds # {}
      <3>1. PICK n \in Fds : n = Ac!Lowest /\ fds[n] = "free"
        BY <1>b, <2>2
      <3>2. /\ afd' = n /\ fds' = [fds EXCEPT ![n] = "listener"]
            /\ ~alive /\ alive' = TRUE /\ opened' = FALSE /\ wrong' = FALSE
            /\ apc = "app" /\ UNCHANGED <<watched, apc>>
        BY <1>2, <2>2, <3>1 DEF Ac!acc_create
      <3> QED BY <3>1, <3>2 DEF AcInv, AcTypes
    <2> QED BY <2>1, <2>2
  <1>3. CASE Ac!acc_start
    BY <1>3, <1>a DEF Ac!acc_start, AcInv, AcTypes
  (* What acc_stop does, in acc_release and a failing callback as well.    *)
  <1>4. ASSUME alive, Ac!Stopped, afd' = afd, alive' \in BOOLEAN, apc' \in {"app", "on_read", "close"},
               apc' # "app" => alive'
        PROVE  AcInv'
    <2>1. CASE afd \in Fds
      <3>1. /\ watched' = FALSE /\ fds' = [fds EXCEPT ![afd] = "free"] /\ opened' = opened
            /\ wrong' = (wrong \/ fds[afd] \in {"accepted", "app"})
        BY <1>a, <1>4, <2>1 DEF Ac!Stopped
      <3>2. wrong' \in BOOLEAN /\ (wrong' => opened')
        BY <1>4, <2>1, <3>1 DEF AcInv, AcTypes
      <3>3. /\ fds' \in [Fds -> {"free", "listener", "accepted", "app"}]
            /\ fds'[afd] = "free" /\ \A f \in Fds : fds'[f] # "listener"
        BY <2>1, <3>1 DEF AcInv, AcTypes
      <3>4. AcTypes'
        BY <1>4, <2>1, <3>1, <3>2, <3>3 DEF AcInv, AcTypes
      <3> QED BY <1>4, <2>1, <3>1, <3>2, <3>3, <3>4 DEF AcInv
    <2>2. CASE afd \notin Fds
      <3>1. UNCHANGED <<fds, watched, opened, wrong>>
        BY <1>a, <1>4, <2>2 DEF Ac!Stopped, AcInv, AcTypes
      <3> QED BY <1>4, <2>2, <3>1 DEF AcInv, AcTypes
    <2> QED BY <2>1, <2>2
  <1>5. CASE Ac!acc_stop
    <2>1. /\ alive /\ Ac!Stopped /\ afd' = afd /\ alive' = alive /\ apc' = apc
      BY <1>5 DEF Ac!acc_stop
    <2> QED BY <1>4, <2>1 DEF AcInv, AcTypes
  <1>6. CASE Ac!acc_release \/ Ac!_acc_close
    <2>1. /\ alive /\ Ac!Stopped /\ afd' = afd /\ alive' = FALSE /\ apc' = "app"
      BY <1>6 DEF Ac!acc_release, Ac!_acc_close, Ac!Released, AcInv, AcTypes
    <2> QED BY <1>4, <2>1
  <1>7. CASE Ac!_acc_read
    <2>1. /\ watched /\ UNCHANGED <<afd, alive, watched, opened, wrong>>
          /\ apc' \in {"app", "on_read", "close"}
      BY <1>7 DEF Ac!_acc_read
    <2>2. fds' = fds \/ (Ac!FreeFds # {} /\ fds' = [fds EXCEPT ![Ac!Lowest] = "accepted"])
      BY <1>7 DEF Ac!_acc_read
    <2>3. ASSUME NEW f \in Fds PROVE fds'[f] = fds[f] \/ (fds[f] = "free" /\ fds'[f] = "accepted")
      BY <1>b, <2>2 DEF AcInv, AcTypes
    <2>4. fds' \in [Fds -> {"free", "listener", "accepted", "app"}]
      BY <1>b, <2>2 DEF AcInv, AcTypes
    <2>5. ~opened => fds[afd] = "listener"
      BY <2>1 DEF AcInv
    <2> QED BY <2>1, <2>3, <2>4, <2>5 DEF AcInv, AcTypes
  <1>8. ASSUME NEW ok \in BOOLEAN, Ac!OnReadReturns(ok) PROVE AcInv'
    BY <1>8 DEF Ac!OnReadReturns, AcInv, AcTypes
  <1>9. CASE Ac!Open
    <2>1. PICK n \in Fds : fds[n] = "free" /\ fds' = [fds EXCEPT ![n] = "app"]
      BY <1>9, <1>b DEF Ac!Open
    <2>2. /\ UNCHANGED <<afd, alive, watched, apc, wrong>>
          /\ opened' = (opened \/ ~Ac!Holds)
      BY <1>9 DEF Ac!Open
    <2>3. opened' \in BOOLEAN /\ (opened => opened') /\ (~opened' => afd \in Fds /\ fds[afd] = "listener")
      BY <1>c, <2>2 DEF AcInv, AcTypes, Ac!Holds
    <2>4. fds' \in [Fds -> {"free", "listener", "accepted", "app"}]
      BY <2>1 DEF AcInv, AcTypes
    <2>5. \A f \in Fds : fds'[f] = IF f = n THEN "app" ELSE fds[f]
      BY <2>1 DEF AcInv, AcTypes
    <2>6. ~opened' => fds'[afd] = "listener"
      BY <2>1, <2>3, <2>5
    <2> QED BY <2>1, <2>2, <2>3, <2>4, <2>5, <2>6 DEF AcInv, AcTypes
  <1>10. ASSUME NEW f \in Fds, Ac!Close(f) PROVE AcInv'
    <2>1. /\ fds[f] \in {"app", "accepted"} /\ fds' = [fds EXCEPT ![f] = "free"]
          /\ watched' = (watched /\ f # afd)
          /\ UNCHANGED <<afd, alive, apc, opened, wrong>>
      BY <1>10 DEF Ac!Close
    <2>2. fds' \in [Fds -> {"free", "listener", "accepted", "app"}]
      BY <2>1 DEF AcInv, AcTypes
    <2>3. \A g \in Fds : fds'[g] = IF g = f THEN "free" ELSE fds[g]
      BY <2>1 DEF AcInv, AcTypes
    <2>4. watched' \in BOOLEAN /\ (watched' => watched /\ f # afd)
      BY <2>1 DEF AcInv, AcTypes
    <2> QED BY <2>1, <2>2, <2>3, <2>4 DEF AcInv, AcTypes
  <1> QED BY <1>1, <1>2, <1>3, <1>5, <1>6, <1>7, <1>8, <1>9, <1>10 DEF Ac!Next

(* An acceptor closes and watches only the socket it opened while nobody   *)
(* can have got its number, and leaves none open when it is freed.         *)
THEOREM AcceptorOwns == MCSpec => []Owned
  <1>1. AcInv => Owned
    BY FdsAssumption DEF AcInv, AcTypes, Owned, Ac!Owned, Ac!Holds, Ac!INVALID_SOCK
  <1> QED BY <1>1, AcRefines, AcInit, AcStep, PTL DEF MCSpec

----------------------------------------------------------------------------
(* The websocket connection: what is written.                              *)

LEMMA WsRefines ==
  /\ MCInit => Ws!Init
  /\ [MCNext]_allVars => [Ws!Next]_(Ws!vars)
  BY DEF MCInit, MCNext, allVars, wsVars, Ws!vars

(* A buffer's record, with what it holds from a set T.                     *)
Holds(b, T) == b \in [data : Seq(T), pos : Nat] /\ b.pos + Len(b.data) <= BufSize

LEMMA RoomIs ==
  ASSUME NEW T, NEW b, Holds(b, T)
  PROVE  /\ b.data \in Seq(T) /\ Len(b.data) \in Nat /\ b.pos \in Nat
         /\ BufSize \in Nat /\ b.pos + Len(b.data) <= BufSize
         /\ Ws!Room(b) \in Nat /\ Ws!Room(b) = BufSize - b.pos - Len(b.data)
  BY WsAssumption DEF Holds, Ws!Room

LEMMA WrittenIs ==
  ASSUME NEW T, NEW b, Holds(b, T), NEW s, NEW t, SubSeq(s, 1, Ws!Smaller(Len(s), Ws!Room(b))) = t
  PROVE  Ws!Written(b, s) = [data |-> b.data \o t, pos |-> b.pos]
  <1>1. Ws!Written(b, s) = [b EXCEPT !.data = b.data \o t]
    BY DEF Ws!Written
  <1>2. \A D, P, x : b \in [data : D, pos : P] => [b EXCEPT !.data = x] = [data |-> x, pos |-> b.pos]
    OBVIOUS
  <1> QED BY <1>1, <1>2 DEF Holds

(* What there is room for is appended as it is.                            *)
LEMMA WrittenFits ==
  ASSUME NEW T, NEW b, Holds(b, T), NEW s \in Seq(T), Len(s) <= Ws!Room(b)
  PROVE  /\ Holds(Ws!Written(b, s), T)
         /\ Ws!Written(b, s).data = b.data \o s
         /\ Ws!Written(b, s).pos = b.pos
  <1>1. Len(s) \in Nat
    OBVIOUS
  <1>2. Ws!Smaller(Len(s), Ws!Room(b)) = Len(s)
    BY <1>1, RoomIs DEF Ws!Smaller
  <1>3. SubSeq(s, 1, Ws!Smaller(Len(s), Ws!Room(b))) = s
    BY <1>2
  <1>4. Ws!Written(b, s) = [data |-> b.data \o s, pos |-> b.pos]
    BY <1>3, WrittenIs
  <1>5. b.data \o s \in Seq(T) /\ Len(b.data \o s) = Len(b.data) + Len(s)
    BY RoomIs
  <1>6. b.pos + (Len(b.data) + Len(s)) <= BufSize
    BY <1>1, RoomIs
  <1> QED BY <1>4, <1>5, <1>6, RoomIs DEF Holds

(* Otherwise its beginning is.                                             *)
LEMMA WrittenHolds ==
  ASSUME NEW T, NEW b, Holds(b, T), NEW s \in Seq(T)
  PROVE  Holds(Ws!Written(b, s), T)
  <1> DEFINE n == Ws!Smaller(Len(s), Ws!Room(b))
             t == SubSeq(s, 1, n)
  <1>1. Len(s) \in Nat
    OBVIOUS
  <1>2. n \in Nat /\ n <= Len(s) /\ n <= Ws!Room(b)
    BY <1>1, RoomIs DEF Ws!Smaller
  <1>3. t \in Seq(T) /\ Len(t) = n
    <2> HIDE DEF n
    <2> QED BY <1>2
  <1>4. Ws!Written(b, s) = [data |-> b.data \o t, pos |-> b.pos]
    BY WrittenIs
  <1> HIDE DEF t, n
  <1>5. b.data \o t \in Seq(T) /\ Len(b.data \o t) = Len(b.data) + n
    <2>1. b.data \in Seq(T)
      BY RoomIs
    <2> QED BY <1>3, <2>1
  <1>6. b.pos + (Len(b.data) + n) <= BufSize
    BY <1>2, RoomIs
  <1> QED BY <1>4, <1>5, <1>6, RoomIs DEF Holds

(* Reading takes from the front.                                           *)
LEMMA TakenHolds ==
  ASSUME NEW T, NEW b, Holds(b, T), NEW n \in Nat, n <= Len(b.data)
  PROVE  /\ Holds(Ws!Taken(b, n), T)
         /\ Ws!Taken(b, n).data = SubSeq(b.data, n + 1, Len(b.data))
  <1> DEFINE d == b.data
             p == b.pos
  <1>1. BufSize \in Nat /\ d \in Seq(T) /\ Len(d) \in Nat /\ p \in Nat /\ p + Len(d) <= BufSize /\ n <= Len(d)
    BY RoomIs
  <1>2. Ws!Smaller(n, Len(d)) = n
    BY <1>1 DEF Ws!Smaller
  <1>3. Ws!Taken(b, n) = [data |-> SubSeq(d, n + 1, Len(d)),
                          pos |-> IF p + n > BufSize \div 2 THEN 0 ELSE p + n]
    BY <1>2 DEF Ws!Taken
  <1> HIDE DEF d, p
  <1>4. SubSeq(d, n + 1, Len(d)) \in Seq(T) /\ Len(SubSeq(d, n + 1, Len(d))) = Len(d) - n
    BY <1>1
  <1>5. \A q : q = 0 \/ q = p + n => q \in Nat /\ q + (Len(d) - n) <= BufSize
    BY <1>1
  <1> DEFINE q == IF p + n > BufSize \div 2 THEN 0 ELSE p + n
  <1>6. q = 0 \/ q = p + n
    OBVIOUS
  <1>7. Ws!Taken(b, n) = [data |-> SubSeq(d, n + 1, Len(d)), pos |-> q]
    BY <1>3
  <1> HIDE DEF q
  <1>8. q \in Nat /\ q + Len(SubSeq(d, n + 1, Len(d))) <= BufSize
    BY <1>4, <1>5, <1>6
  <1>9. Ws!Taken(b, n).data = SubSeq(d, n + 1, Len(d)) /\ Ws!Taken(b, n).pos = q
    BY <1>7
  <1>10. Ws!Taken(b, n) \in [data : Seq(T), pos : Nat]
    BY <1>4, <1>7, <1>8
  <1>11. Holds(Ws!Taken(b, n), T)
    BY <1>8, <1>9, <1>10 DEF Holds
  <1> QED BY <1>9, <1>11 DEF d


(* What is owed is on the wire or waits, and it does not wait unwatched.   *)
OutCells == {"head", "size", "data", "answer", "stray"}
Waits(d) == \E i \in 1..Len(d) : d[i] # "stray"

OutInv ==
  /\ Holds(wbuf, OutCells) /\ wire \in Seq(OutCells)
  /\ owed = wire \o wbuf.data
  /\ up /\ Waits(wbuf.data) => "OUT" \in ws_interest

LEMMA OutInit == Ws!Init => OutInv
  <1> SUFFICES ASSUME Ws!Init PROVE OutInv
    OBVIOUS
  <1>1. wbuf = [data |-> <<>>, pos |-> 0] /\ wire = <<>> /\ owed = <<>>
    BY DEF Ws!Init, Ws!Buf
  <1>2. <<>> \in Seq(OutCells) /\ Len(<<>>) = 0 /\ <<>> \o <<>> = <<>>
    BY EmptySeq, ConcatEmptySeq
  <1>3. wbuf \in [data : Seq(OutCells), pos : Nat] /\ wbuf.data = <<>> /\ wbuf.pos = 0
    BY <1>1, <1>2
  <1>4. BufSize \in Nat /\ ~Waits(<<>>)
    BY <1>2, WsAssumption DEF Waits
  <1> QED BY <1>1, <1>2, <1>3, <1>4 DEF OutInv, Holds

(* What is appended joins what is owed.                                    *)
LEMMA OutGrows ==
  ASSUME OutInv, NEW s \in Seq(OutCells), wbuf'.data = wbuf.data \o s, owed' = owed \o s, wire' = wire
  PROVE  owed' = wire' \o wbuf'.data
  <1>1. wbuf.data \in Seq(OutCells)
    BY RoomIs DEF OutInv
  <1>2. wire \in Seq(OutCells) /\ owed = wire \o wbuf.data
    BY DEF OutInv
  <1>3. (wire \o wbuf.data) \o s = wire \o (wbuf.data \o s)
    <2> DEFINE d == wbuf.data
    <2>1. d \in Seq(OutCells)
      BY <1>1
    <2> HIDE DEF d
    <2>2. Groups(wire, d, s)
      BY <1>2, <2>1, Regroup
    <2> QED BY <2>2 DEF Groups, d
  <1> QED BY <1>2, <1>3

LEMMA CellsAre ==
  ASSUME NEW S, NEW n \in Nat, NEW c \in S
  PROVE  Ws!Cells(n, c) \in Seq(S) /\ Len(Ws!Cells(n, c)) = n
  BY DEF Ws!Cells

LEMMA OneCell ==
  ASSUME NEW S, NEW c \in S
  PROVE  <<c>> \in Seq(S) /\ Len(<<c>>) = 1 /\ <<c>>[1] = c
  OBVIOUS

(* wsconn_send: a frame that fits goes out whole and is watched; of one    *)
(* that does not, a stray byte at most.                                    *)
LEMMA SendOut ==
  ASSUME OutInv, NEW n \in SendLens, Ws!wsconn_send(n)
  PROVE  OutInv'
  <1>1. n \in Nat /\ Ws!HeaderLen(n) \in Nat /\ Ws!HeaderLen(n) >= 1
    BY WsAssumption DEF Ws!HeaderLen
  <1>2. Holds(wbuf, OutCells) /\ wire' = wire /\ up' = up
    BY DEF OutInv, Ws!wsconn_send
  <1>3. wbuf.data \in Seq(OutCells) /\ Len(wbuf.data) \in Nat /\ Ws!Room(wbuf) \in Nat
    BY <1>2, RoomIs
  <1>4. CASE Ws!Fits(n)
    <2> DEFINE one == Ws!FirstByte
               rest == Ws!Body(n)
               b == Ws!Written(wbuf, one)
    <2>1. one \in Seq(OutCells) /\ Len(one) = 1
      <3>1. "head" \in OutCells
        BY DEF OutCells
      <3> QED BY <3>1, OneCell DEF Ws!FirstByte
    <2>2. rest \in Seq(OutCells) /\ Len(rest) = (Ws!HeaderLen(n) - 1) + n
      <3>1. Ws!HeaderLen(n) - 1 \in Nat
        BY <1>1
      <3>2. /\ Ws!Cells(Ws!HeaderLen(n) - 1, "size") \in Seq(OutCells)
            /\ Len(Ws!Cells(Ws!HeaderLen(n) - 1, "size")) = Ws!HeaderLen(n) - 1
            /\ Ws!Cells(n, "data") \in Seq(OutCells) /\ Len(Ws!Cells(n, "data")) = n
        <4>1. "size" \in OutCells /\ "data" \in OutCells
          BY DEF OutCells
        <4> QED BY <1>1, <3>1, <4>1, CellsAre
      <3> QED BY <3>2, ConcatProperties DEF Ws!Body
    <2>3. wbuf' = Ws!Written(b, rest) /\ owed' = owed \o one \o rest
          /\ ws_interest' = IF up THEN {"IN", "OUT"} ELSE ws_interest
      BY <1>4 DEF Ws!wsconn_send
    <2> HIDE DEF one, rest, b
    <2>4. Ws!Room(wbuf) >= n + Ws!HeaderLen(n)
      BY <1>4 DEF Ws!Fits
    <2>5. Holds(b, OutCells) /\ b.data = wbuf.data \o one /\ b.pos = wbuf.pos
      <3>1. Len(one) <= Ws!Room(wbuf)
        BY <1>1, <1>3, <2>1, <2>4
      <3> QED BY <1>2, <2>1, <3>1, WrittenFits DEF b
    <2>6. Holds(wbuf', OutCells) /\ wbuf'.data = b.data \o rest
      <3>1. Len(b.data) = Len(wbuf.data) + 1
        <4>1. Len(wbuf.data \o one) = Len(wbuf.data) + Len(one)
          BY <1>3, <2>1, ConcatProperties
        <4> QED BY <2>1, <2>5, <4>1
      <3>2. /\ Ws!Room(b) = BufSize - b.pos - Len(b.data)
            /\ Ws!Room(wbuf) = BufSize - wbuf.pos - Len(wbuf.data)
            /\ wbuf.pos \in Nat /\ BufSize \in Nat
        BY <1>2, <2>5, RoomIs
      <3>3. Len(rest) <= Ws!Room(b)
        <4>1. Ws!Room(b) = Ws!Room(wbuf) - 1
          <5>1. Len(wbuf.data) \in Nat
            BY <1>2, RoomIs
          <5> QED BY <2>5, <3>1, <3>2, <5>1
        <4>2. Ws!HeaderLen(n) - 1 \in Nat /\ Ws!Room(wbuf) \in Nat /\ n \in Nat
          BY <1>1, <1>2, RoomIs
        <4> QED BY <1>1, <2>2, <2>4, <4>1, <4>2
      <3> QED BY <2>2, <2>3, <2>5, <3>3, WrittenFits
    <2>7. owed' = wire' \o wbuf'.data
      <3>1. one \o rest \in Seq(OutCells)
        BY <2>1, <2>2, ConcatProperties
      <3>2. wire \in Seq(OutCells) /\ owed \in Seq(OutCells)
        BY <1>3, ConcatProperties DEF OutInv
      <3>3. wbuf'.data = wbuf.data \o (one \o rest)
        <4>1. (wbuf.data \o one) \o rest = wbuf.data \o (one \o rest)
          <5> DEFINE d == wbuf.data
          <5>1. d \in Seq(OutCells)
            BY <1>3
          <5> HIDE DEF d
          <5>2. Groups(d, one, rest)
            BY <2>1, <2>2, <5>1, Regroup
          <5> QED BY <5>2 DEF Groups, d
        <4> QED BY <2>5, <2>6, <4>1
      <3>4. owed' = owed \o (one \o rest)
        <4>1. Groups(owed, one, rest)
          BY <2>1, <2>2, <3>2, Regroup
        <4> QED BY <2>3, <4>1 DEF Groups
      <3> QED BY <1>2, <3>1, <3>3, <3>4, OutGrows
    <2> QED BY <1>2, <2>3, <2>6, <2>7 DEF OutInv
  <1>5. CASE ~Ws!Fits(n)
    <2>1. /\ wbuf' = Ws!Written(wbuf, <<"stray">>) /\ ws_interest' = ws_interest
          /\ owed' = IF Ws!Room(wbuf) > 0 THEN Append(owed, "stray") ELSE owed
      BY <1>5 DEF Ws!wsconn_send
    <2>2. <<"stray">> \in Seq(OutCells) /\ Len(<<"stray">>) = 1 /\ <<"stray">>[1] = "stray"
      <3>1. "stray" \in OutCells
        BY DEF OutCells
      <3> QED BY <3>1, OneCell
    <2>3. CASE Ws!Room(wbuf) > 0
      <3>1. Holds(wbuf', OutCells) /\ wbuf'.data = wbuf.data \o <<"stray">>
        <4>1. Len(<<"stray">>) <= Ws!Room(wbuf)
          BY <1>3, <2>2, <2>3
        <4> QED BY <1>2, <2>1, <2>2, <4>1, WrittenFits
      <3>2. owed' = owed \o <<"stray">>
        <4>1. owed \in Seq(OutCells)
          BY <1>3, ConcatProperties DEF OutInv
        <4> QED BY <2>1, <2>3, <4>1, AppendIsConcat
      <3>3. owed' = wire' \o wbuf'.data
        BY <1>2, <2>2, <3>1, <3>2, OutGrows
      <3>4. Waits(wbuf'.data) => Waits(wbuf.data)
        <4>1. ASSUME NEW i \in 1..Len(wbuf'.data), wbuf'.data[i] # "stray" PROVE Waits(wbuf.data)
          <5>1. Len(wbuf'.data) = Len(wbuf.data) + 1
            BY <1>3, <2>2, <3>1, ConcatProperties
          <5>2. wbuf'.data[i] = IF i <= Len(wbuf.data) THEN wbuf.data[i] ELSE <<"stray">>[i - Len(wbuf.data)]
            BY <1>3, <2>2, <3>1, <5>1, ConcatProperties
          <5>3. i \in 1..Len(wbuf.data) \/ (i - Len(wbuf.data) = 1 /\ ~(i <= Len(wbuf.data)))
            BY <1>3, <5>1
          <5>4. i \in 1..Len(wbuf.data) => i <= Len(wbuf.data)
            BY <1>3
          <5> QED BY <2>2, <4>1, <5>2, <5>3, <5>4 DEF Waits
        <4> QED BY <4>1 DEF Waits
      <3> QED BY <1>2, <2>1, <3>1, <3>3, <3>4 DEF OutInv
    <2>4. CASE ~(Ws!Room(wbuf) > 0)
      <3>1. Ws!Smaller(1, Ws!Room(wbuf)) = 0
        BY <1>3, <2>4 DEF Ws!Smaller
      <3>2. SubSeq(<<"stray">>, 1, Ws!Smaller(Len(<<"stray">>), Ws!Room(wbuf))) = <<>>
        BY <2>2, <3>1, SubSeqEmpty
      <3>3. Ws!Written(wbuf, <<"stray">>) = [data |-> wbuf.data \o <<>>, pos |-> wbuf.pos]
        BY <1>2, <3>2, WrittenIs
      <3>4. wbuf.data \o <<>> = wbuf.data
        BY <1>3, ConcatEmptySeq
      <3>5. Holds(wbuf', OutCells)
        BY <1>2, <2>1, <2>2, WrittenHolds
      <3>6. wbuf'.data = wbuf.data /\ owed' = owed
        BY <2>1, <2>4, <3>3, <3>4
      <3> QED BY <1>2, <2>1, <3>5, <3>6 DEF OutInv
    <2> QED BY <2>3, <2>4
  <1> QED BY <1>4, <1>5

(* _wsconn_handshake: the answer goes out whole, or not at all.            *)
LEMMA HandshakeOut ==
  ASSUME OutInv, NEW rest, Ws!_wsconn_handshake(rest)
  PROVE  OutInv'
  <1> DEFINE cells == Ws!Cells(AnswerLen, "answer")
  <1>1. wire' = wire /\ up' = up /\ Holds(wbuf, OutCells)
    BY DEF OutInv, Ws!_wsconn_handshake
  <1>2. \/ UNCHANGED <<wbuf, owed, ws_interest>>
        \/ /\ Ws!Room(wbuf) >= AnswerLen /\ ws_interest' = {"IN", "OUT"}
           /\ wbuf' = Ws!Written(wbuf, cells) /\ owed' = owed \o cells
    BY DEF Ws!_wsconn_handshake
  <1>3. AnswerLen \in Nat /\ cells \in Seq(OutCells) /\ Len(cells) = AnswerLen
    <2>1. "answer" \in OutCells
      BY DEF OutCells
    <2> QED BY <2>1, WsAssumption, CellsAre
  <1> HIDE DEF cells
  <1>4. CASE UNCHANGED <<wbuf, owed, ws_interest>>
    BY <1>1, <1>4 DEF OutInv
  <1>5. CASE /\ Ws!Room(wbuf) >= AnswerLen /\ ws_interest' = {"IN", "OUT"}
             /\ wbuf' = Ws!Written(wbuf, cells) /\ owed' = owed \o cells
    <2>1. Len(cells) <= Ws!Room(wbuf)
      BY <1>1, <1>3, <1>5, RoomIs
    <2>2. Holds(wbuf', OutCells) /\ wbuf'.data = wbuf.data \o cells
      BY <1>1, <1>3, <1>5, <2>1, WrittenFits
    <2>3. owed' = wire' \o wbuf'.data
      BY <1>1, <1>3, <1>5, <2>2, OutGrows
    <2> QED BY <1>1, <1>5, <2>2, <2>3 DEF OutInv
  <1> QED BY <1>2, <1>4, <1>5

(* _wsconn_write: what a write takes leaves in order, and output events    *)
(* are given up only when nothing is left.                                 *)
LEMMA WriteOut ==
  ASSUME OutInv, NEW n \in 1..BufSize, Ws!WriteSome(n)
  PROVE  OutInv'
  <1> DEFINE d == wbuf.data
             left == SubSeq(d, n + 1, Len(d))
             part == SubSeq(d, 1, n)
  <1>1. Holds(wbuf, OutCells) /\ n \in 1..Len(d) /\ up' = up /\ owed' = owed
    BY DEF OutInv, Ws!WriteSome
  <1>2. d \in Seq(OutCells) /\ Len(d) \in Nat /\ n \in Nat /\ n <= Len(d)
    <2>1. d \in Seq(OutCells) /\ Len(d) \in Nat
      BY <1>1, RoomIs
    <2> HIDE DEF d
    <2> QED BY <1>1, <2>1
  <1>3. wbuf' = Ws!Taken(wbuf, n) /\ wire' = wire \o part
        /\ ws_interest' = IF n = Len(d) THEN {"IN"} ELSE ws_interest
    BY DEF Ws!WriteSome
  <1>4. Holds(wbuf', OutCells) /\ wbuf'.data = left
    BY <1>1, <1>2, <1>3, TakenHolds
  <1>5. owed = wire \o d /\ wire \in Seq(OutCells) /\ (up /\ Waits(d) => "OUT" \in ws_interest)
    BY DEF OutInv
  <1> HIDE DEF d
  <1>6. part \in Seq(OutCells) /\ left \in Seq(OutCells) /\ Len(left) = Len(d) - n
        /\ \A i \in 1..Len(left) : left[i] = d[i + n] /\ i + n \in 1..Len(d)
    BY <1>2
  <1>7. part \o left = d
    BY <1>2, <1>6, SMTT(20)
  <1> HIDE DEF left, part
  <1>8. owed' = wire' \o wbuf'.data
    <2>1. Groups(wire, part, left)
      BY <1>5, <1>6, Regroup
    <2> QED BY <1>1, <1>3, <1>4, <1>5, <1>7, <2>1 DEF Groups
  <1>9. wire' \in Seq(OutCells)
    BY <1>3, <1>5, <1>6, ConcatProperties
  <1>10. Waits(left) => Waits(d) /\ n # Len(d)
    BY <1>2, <1>6 DEF Waits
  <1> QED BY <1>1, <1>3, <1>4, <1>5, <1>8, <1>9, <1>10 DEF OutInv

(* The other steps leave the output alone, or end the connection.          *)
LEMMA OutKept ==
  ASSUME OutInv, UNCHANGED <<wbuf, wire, owed>>,
         up' => up, up' => ws_interest \subseteq ws_interest'
  PROVE  OutInv'
  BY DEF OutInv

LEMMA OutNext == OutInv /\ [Ws!Next]_(Ws!vars) => OutInv'
  <1> SUFFICES ASSUME OutInv, [Ws!Next]_(Ws!vars) PROVE OutInv'
    OBVIOUS
  <1>1. CASE Ws!wsconn_start
    BY <1>1, OutKept DEF Ws!wsconn_start, Ws!history
  <1>2. CASE Ws!wsconn_stop \/ Ws!wsconn_release
    BY <1>2, OutKept DEF Ws!wsconn_stop, Ws!wsconn_release
  <1>3. CASE \E n \in SendLens : Ws!wsconn_send(n)
    BY <1>3, SendOut
  <1>4. CASE \E rest \in Residue : Ws!_wsconn_handshake(rest)
    BY <1>4, HandshakeOut
  <1>5. CASE \E n \in 1..BufSize : Ws!WriteSome(n)
    BY <1>5, WriteOut
  <1>6. CASE \E n \in 1..BufSize : \E o \in BOOLEAN : Ws!ReadSome(n, o)
    BY <1>6, OutKept DEF Ws!ReadSome
  <1>7. CASE \E res \in -1..BufSize : Ws!OnReadReturns(res)
    BY <1>7, OutKept DEF Ws!OnReadReturns
  <1>8. CASE Ws!ReadFails \/ Ws!RequestIncomplete \/ Ws!OnBuildReturns
    BY <1>8, OutKept DEF Ws!ReadFails, Ws!RequestIncomplete, Ws!OnBuildReturns
  <1>9. CASE Ws!FrameIncomplete \/ Ws!FrameRefused \/ Ws!_wsconn_frame
    BY <1>9, OutKept DEF Ws!FrameIncomplete, Ws!FrameRefused, Ws!_wsconn_frame
  <1>10. CASE Ws!WriteNothing \/ Ws!WriteFails \/ Ws!_wsconn_close \/ Ws!OnCloseReturns
    BY <1>10, OutKept DEF Ws!WriteNothing, Ws!WriteFails, Ws!_wsconn_close, Ws!OnCloseReturns
  <1>11. CASE UNCHANGED Ws!vars
    BY <1>11, OutKept DEF Ws!vars
  <1> QED BY <1>1, <1>2, <1>3, <1>4, <1>5, <1>6, <1>7, <1>8, <1>9, <1>10, <1>11 DEF Ws!Next

(* net/wsconn.c, for any requests, frames, buffer size and limits: what is *)
(* written are the answer and whole frames, apart from stray first bytes,  *)
(* and nothing waits without output events being asked for.                *)
THEOREM FramesGoOutWhole == MCSpec => []Framed
  <1>1. OutInv => Framed
    BY DEF OutInv, Framed, Ws!Framed, Waits
  <1> QED BY <1>1, WsRefines, OutInit, OutNext, PTL DEF MCSpec


----------------------------------------------------------------------------
(* The websocket connection: what is read.                                 *)

FrameCells ==
  [t : {"op"}, v : Nat] \cup [t : {"len"}, masked : BOOLEAN, form : {2, 4, 10}, v : Nat]
    \cup [t : {"ext", "mask"}] \cup [t : {"pay"}, v : Nat \X Nat, on : BOOLEAN]
StreamCells == FrameCells \cup [t : {"line"}, v : STRING] \cup [t : {"blank"}]

HeaderSize(f) == f.form + (IF f.masked THEN 4 ELSE 0)
LenCell(f) == [t |-> "len", masked |-> f.masked, form |-> f.form, v |-> f.len]

LEMMA HeaderIs ==
  ASSUME NEW f \in Frames
  PROVE  /\ Ws!Header(f) \in Seq(FrameCells) /\ Len(Ws!Header(f)) = HeaderSize(f)
         /\ Ws!Header(f)[2] = LenCell(f)
         /\ HeaderSize(f) \in Nat /\ HeaderSize(f) >= 2 /\ f.len \in Nat
  <1> DEFINE m == IF f.masked THEN 4 ELSE 0
             op == [t |-> "op", v |-> f.op]
             len == LenCell(f)
             two == <<op, len>>
             ext == Ws!Cells(f.form - 2, [t |-> "ext"])
             mask == Ws!Cells(m, [t |-> "mask"])
  <1>1. /\ f.op \in Nat /\ f.masked \in BOOLEAN /\ f.form \in {2, 4, 10} /\ f.len \in Nat
        /\ f.form - 2 \in Nat /\ m \in Nat
    BY DEF Frames
  <1>2. op \in FrameCells
    BY <1>1 DEF FrameCells
  <1>3. len \in FrameCells
    BY <1>1 DEF FrameCells, LenCell
  <1>4. [t |-> "ext"] \in FrameCells /\ [t |-> "mask"] \in FrameCells
    BY DEF FrameCells
  <1>5. ext \in Seq(FrameCells) /\ Len(ext) = f.form - 2 /\ mask \in Seq(FrameCells) /\ Len(mask) = m
    <2> HIDE DEF m
    <2> QED BY <1>1, <1>4, CellsAre
  <1>6. Ws!Header(f) = (two \o ext) \o mask
    BY DEF Ws!Header, LenCell
  <1> HIDE DEF op, len, ext, mask
  <1>7. two \in Seq(FrameCells) /\ Len(two) = 2 /\ two[2] = len
    BY <1>2, <1>3
  <1> HIDE DEF two
  <1>8. two \o ext \in Seq(FrameCells) /\ Len(two \o ext) = 2 + (f.form - 2) /\ (two \o ext)[2] = len
    <2>1. 2 \in 1..(Len(two) + Len(ext)) /\ 2 <= Len(two)
      BY <1>1, <1>5, <1>7
    <2>2. /\ two \o ext \in Seq(FrameCells) /\ Len(two \o ext) = Len(two) + Len(ext)
          /\ \A i \in 1..Len(two) + Len(ext) :
               (two \o ext)[i] = IF i <= Len(two) THEN two[i] ELSE ext[i - Len(two)]
      BY <1>5, <1>7, ConcatProperties
    <2> QED BY <1>5, <1>7, <2>1, <2>2
  <1> DEFINE w == two \o ext
  <1>9. w \in Seq(FrameCells) /\ Len(w) = f.form /\ w[2] = len
    BY <1>1, <1>8
  <1> HIDE DEF w
  <1>10. /\ w \o mask \in Seq(FrameCells) /\ Len(w \o mask) = f.form + m
         /\ (w \o mask)[2] = len
    <2>1. 2 \in 1..(Len(w) + Len(mask)) /\ 2 <= Len(w)
      BY <1>1, <1>5, <1>9
    <2>2. /\ w \o mask \in Seq(FrameCells) /\ Len(w \o mask) = Len(w) + Len(mask)
          /\ \A i \in 1..Len(w) + Len(mask) :
               (w \o mask)[i] = IF i <= Len(w) THEN w[i] ELSE mask[i - Len(w)]
      BY <1>5, <1>9, ConcatProperties
    <2> QED BY <1>5, <1>9, <2>1, <2>2
  <1>11. f.form + m \in Nat /\ f.form + m >= 2
    BY <1>1
  <1> QED BY <1>1, <1>6, <1>10, <1>11 DEF w, HeaderSize, len

LEMMA PayloadIs ==
  ASSUME NEW k \in Nat, NEW f \in Frames
  PROVE  /\ Ws!Payload(k, f) \in Seq(FrameCells) /\ Len(Ws!Payload(k, f)) = f.len
         /\ Ws!Plain(k, f) \in Seq(FrameCells) /\ Len(Ws!Plain(k, f)) = f.len
  <1>1. f.masked \in BOOLEAN /\ f.len \in Nat
    BY DEF Frames
  <1>2. \A i \in 1..f.len : \A b \in BOOLEAN : [t |-> "pay", v |-> <<k, i>>, on |-> b] \in FrameCells
    BY <1>1 DEF FrameCells
  <1>3. \A n \in Nat : \A S : \A g \in [1..n -> S] : g \in Seq(S) /\ Len(g) = n
    OBVIOUS
  <1>4. Ws!Payload(k, f) \in [1..f.len -> FrameCells]
    BY <1>1, <1>2 DEF Ws!Payload
  <1>5. Ws!Plain(k, f) \in [1..f.len -> FrameCells]
    BY <1>1, <1>2 DEF Ws!Plain
  <1> QED BY <1>1, <1>3, <1>4, <1>5

LEMMA BytesAre ==
  ASSUME NEW k \in Nat, NEW f \in Frames
  PROVE  /\ Ws!Bytes(k, f) \in Seq(FrameCells) /\ Len(Ws!Bytes(k, f)) = HeaderSize(f) + f.len
         /\ Ws!Bytes(k, f)[2] = LenCell(f)
         /\ \A i \in 1..f.len : Ws!Bytes(k, f)[HeaderSize(f) + i] = Ws!Payload(k, f)[i]
  <1> DEFINE h == Ws!Header(f)
             p == Ws!Payload(k, f)
  <1>1. /\ h \in Seq(FrameCells) /\ Len(h) = HeaderSize(f) /\ h[2] = LenCell(f)
        /\ HeaderSize(f) \in Nat /\ HeaderSize(f) >= 2 /\ f.len \in Nat
    BY HeaderIs
  <1>2. p \in Seq(FrameCells) /\ Len(p) = f.len
    BY PayloadIs
  <1>3. Ws!Bytes(k, f) = h \o p
    BY DEF Ws!Bytes
  <1> HIDE DEF h, p
  <1>4. /\ h \o p \in Seq(FrameCells) /\ Len(h \o p) = HeaderSize(f) + f.len
        /\ \A i \in 1..HeaderSize(f) + f.len :
             (h \o p)[i] = IF i <= HeaderSize(f) THEN h[i] ELSE p[i - HeaderSize(f)]
    <2>1. /\ h \o p \in Seq(FrameCells) /\ Len(h \o p) = Len(h) + Len(p)
          /\ \A i \in 1..Len(h) + Len(p) :
               (h \o p)[i] = IF i <= Len(h) THEN h[i] ELSE p[i - Len(h)]
      BY <1>1, <1>2, ConcatProperties
    <2> QED BY <1>1, <1>2, <2>1
  <1> DEFINE s == HeaderSize(f)
             n == f.len
  <1>5. s \in Nat /\ n \in Nat /\ s >= 2
    BY <1>1
  <1> HIDE DEF s, n
  <1>6. 2 \in 1..s + n /\ 2 <= s
    BY <1>5
  <1>7. \A i \in 1..n : s + i \in 1..s + n /\ ~(s + i <= s) /\ (s + i) - s = i
    BY <1>5
  <1>8. \A i \in 1..n : (h \o p)[s + i] = p[i]
    BY <1>4, <1>7 DEF s, n
  <1> QED BY <1>1, <1>3, <1>4, <1>6, <1>8 DEF s, n, p

(* The stream of the first k frames, and the payload of the first k.       *)
Stream(fr) ==
  CHOOSE Upto : Upto = [k \in Nat |-> IF k = 0 THEN <<>> ELSE Upto[k - 1] \o Ws!Bytes(k, fr[k])]
Content(fr) ==
  CHOOSE Upto : Upto = [k \in Nat |-> IF k = 0 THEN <<>> ELSE Upto[k - 1] \o Ws!Plain(k, fr[k])]

LEMMA StreamIs ==
  ASSUME NEW fr \in Seq(Frames)
  PROVE  /\ Ws!Encoded(fr) = Stream(fr)[Len(fr)]
         /\ Stream(fr)[0] = <<>>
         /\ \A k \in Nat : Stream(fr)[k + 1] = Stream(fr)[k] \o Ws!Bytes(k + 1, fr[k + 1])
         /\ Grows(Stream(fr), Len(fr), FrameCells)
  <1> DEFINE u == Stream(fr)
             piece == [j \in Nat |-> Ws!Bytes(j + 1, fr[j + 1])]
  <1>1. \A k \in Nat : k # 0 => k - 1 \in Nat /\ (k - 1) + 1 = k
    OBVIOUS
  <1>2. \A j \in Nat : piece[j] = Ws!Bytes(j + 1, fr[j + 1])
    OBVIOUS
  <1>3. \A k \in Nat : k # 0 => piece[k - 1] = Ws!Bytes(k, fr[k])
    <2> HIDE DEF piece
    <2> QED BY <1>1, <1>2
  <1> HIDE DEF piece
  <1>4. \E f : f = [k \in Nat |-> IF k = 0 THEN <<>> ELSE f[k - 1] \o Ws!Bytes(k, fr[k])]
    <2>1. PICK f : f = [k \in Nat |-> IF k = 0 THEN <<>> ELSE f[k - 1] \o piece[k - 1]]
      BY JoinExists
    <2>2. [k \in Nat |-> IF k = 0 THEN <<>> ELSE f[k - 1] \o piece[k - 1]]
            = [k \in Nat |-> IF k = 0 THEN <<>> ELSE f[k - 1] \o Ws!Bytes(k, fr[k])]
      BY <1>3
    <2>3. f = [k \in Nat |-> IF k = 0 THEN <<>> ELSE f[k - 1] \o Ws!Bytes(k, fr[k])]
      BY <2>1, <2>2
    <2> QED BY <2>3
  <1>5. u = [k \in Nat |-> IF k = 0 THEN <<>> ELSE u[k - 1] \o Ws!Bytes(k, fr[k])]
    BY <1>4 DEF Stream
  <1>6. Ws!Encoded(fr) = u[Len(fr)]
    BY DEF Ws!Encoded, Stream
  <1> HIDE DEF u
  <1>7. Joins(u, piece)
    BY <1>3, <1>5 DEF Joins
  <1>8. \A i \in 0..Len(fr) - 1 : piece[i] \in Seq(FrameCells)
    <2>1. TAKE i \in 0..Len(fr) - 1
    <2>2. i \in Nat /\ i + 1 \in Nat /\ i + 1 \in 1..Len(fr)
      OBVIOUS
    <2>3. fr[i + 1] \in Frames
      BY <2>2, ElementOfSeq
    <2> QED BY <1>2, <2>2, <2>3, BytesAre
  <1>9. Len(fr) \in Nat
    OBVIOUS
  <1>10. Grows(u, Len(fr), FrameCells)
    BY <1>7, <1>8, <1>9, JoinGrows
  <1>11. u[0] = <<>> /\ \A k \in Nat : u[k + 1] = u[k] \o piece[k]
    BY <1>7, JoinSteps
  <1> QED BY <1>2, <1>6, <1>10, <1>11 DEF u

LEMMA ContentIs ==
  ASSUME NEW fr \in Seq(Frames)
  PROVE  /\ Content(fr)[0] = <<>>
         /\ \A k \in Nat : Content(fr)[k + 1] = Content(fr)[k] \o Ws!Plain(k + 1, fr[k + 1])
         /\ Grows(Content(fr), Len(fr), FrameCells)
  <1> DEFINE u == Content(fr)
             piece == [j \in Nat |-> Ws!Plain(j + 1, fr[j + 1])]
  <1>1. \A k \in Nat : k # 0 => k - 1 \in Nat /\ (k - 1) + 1 = k
    OBVIOUS
  <1>2. \A j \in Nat : piece[j] = Ws!Plain(j + 1, fr[j + 1])
    OBVIOUS
  <1>3. \A k \in Nat : k # 0 => piece[k - 1] = Ws!Plain(k, fr[k])
    <2> HIDE DEF piece
    <2> QED BY <1>1, <1>2
  <1> HIDE DEF piece
  <1>4. \E f : f = [k \in Nat |-> IF k = 0 THEN <<>> ELSE f[k - 1] \o Ws!Plain(k, fr[k])]
    <2>1. PICK f : f = [k \in Nat |-> IF k = 0 THEN <<>> ELSE f[k - 1] \o piece[k - 1]]
      BY JoinExists
    <2>2. [k \in Nat |-> IF k = 0 THEN <<>> ELSE f[k - 1] \o piece[k - 1]]
            = [k \in Nat |-> IF k = 0 THEN <<>> ELSE f[k - 1] \o Ws!Plain(k, fr[k])]
      BY <1>3
    <2>3. f = [k \in Nat |-> IF k = 0 THEN <<>> ELSE f[k - 1] \o Ws!Plain(k, fr[k])]
      BY <2>1, <2>2
    <2> QED BY <2>3
  <1>5. u = [k \in Nat |-> IF k = 0 THEN <<>> ELSE u[k - 1] \o Ws!Plain(k, fr[k])]
    BY <1>4 DEF Content
  <1> HIDE DEF u
  <1>7. Joins(u, piece)
    BY <1>3, <1>5 DEF Joins
  <1>8. \A i \in 0..Len(fr) - 1 : piece[i] \in Seq(FrameCells)
    <2>1. TAKE i \in 0..Len(fr) - 1
    <2>2. i \in Nat /\ i + 1 \in Nat /\ i + 1 \in 1..Len(fr)
      OBVIOUS
    <2>3. fr[i + 1] \in Frames
      BY <2>2, ElementOfSeq
    <2> QED BY <1>2, <2>2, <2>3, PayloadIs
  <1>9. Len(fr) \in Nat
    OBVIOUS
  <1>10. Grows(u, Len(fr), FrameCells)
    BY <1>7, <1>8, <1>9, JoinGrows
  <1>11. u[0] = <<>> /\ \A k \in Nat : u[k + 1] = u[k] \o piece[k]
    BY <1>7, JoinSteps
  <1> QED BY <1>2, <1>10, <1>11 DEF u

LEMMA ContentIsSent == Ws!Sent = Content(script.frames)[Len(script.frames)]
  BY DEF Ws!Sent, Content


LEMMA CancelLeft ==
  ASSUME NEW S, NEW s \in Seq(S), NEW t \in Seq(S), NEW v \in Seq(S), s \o t = s \o v
  PROVE  t = v
  BY ConcatSimplifications

Past(d, n) == SubSeq(d, n + 1, Len(d))

LEMMA PastIs ==
  ASSUME NEW S, NEW d \in Seq(S), NEW n \in 0..Len(d)
  PROVE  /\ Past(d, n) \in Seq(S) /\ Len(Past(d, n)) = Len(d) - n
         /\ \A i \in 1..Len(d) - n : Past(d, n)[i] = d[n + i]
  <1>1. Len(d) \in Nat /\ n \in Nat /\ n <= Len(d)
    OBVIOUS
  <1> QED BY <1>1 DEF Past

(* The cells s follow the first n of d in the stream d, r.                 *)
Follows(d, n, r, s) == Past(d, n) \o r = s

(* Two ways of cutting one stream: where the first part of one reaches     *)
(* beyond that of the other.                                               *)
LEMMA DropFront ==
  ASSUME NEW S, NEW d \in Seq(S), NEW r \in Seq(S), NEW a \in Seq(S), NEW b \in Seq(S),
         d \o r = a \o b, Len(a) <= Len(d)
  PROVE  /\ Past(d, Len(a)) \in Seq(S) /\ Follows(d, Len(a), r, b)
         /\ \A j \in 1..Len(a) : d[j] = a[j]
  <1> DEFINE n == Len(a)
             w == SubSeq(d, n + 1, Len(d))
  <1>1. n \in Nat /\ Len(d) \in Nat /\ Len(r) \in Nat /\ Len(b) \in Nat
    OBVIOUS
  <1>2. /\ Len(d \o r) = Len(d) + Len(r)
        /\ \A j \in 1..Len(d) + Len(r) : (d \o r)[j] = IF j <= Len(d) THEN d[j] ELSE r[j - Len(d)]
    BY ConcatProperties
  <1>3. /\ Len(a \o b) = n + Len(b)
        /\ \A j \in 1..n + Len(b) : (a \o b)[j] = IF j <= n THEN a[j] ELSE b[j - n]
    BY ConcatProperties
  <1>4. Len(d) + Len(r) = n + Len(b)
    BY <1>2, <1>3
  <1> HIDE DEF n
  <1>5. n <= Len(d)
    BY DEF n
  <1>6. w \in Seq(S) /\ Len(w) = Len(d) - n /\ \A j \in 1..Len(d) - n : w[j] = d[n + j]
    BY <1>1, <1>5
  <1> HIDE DEF w
  <1>7. w \o r \in Seq(S) /\ Len(w \o r) = Len(w) + Len(r)
        /\ \A j \in 1..Len(w) + Len(r) : (w \o r)[j] = IF j <= Len(w) THEN w[j] ELSE r[j - Len(w)]
    BY <1>6, ConcatProperties
  <1>8. Len(w \o r) = Len(b)
    BY <1>1, <1>4, <1>6, <1>7
  <1>9. ASSUME NEW j \in 1..Len(w \o r) PROVE (w \o r)[j] = b[j]
    <2>1. /\ n + j \in 1..Len(d) + Len(r) /\ n + j \in 1..n + Len(b) /\ ~(n + j <= n) /\ (n + j) - n = j
          /\ j \in 1..Len(w) + Len(r)
      BY <1>1, <1>4, <1>7, <1>8
    <2>2. b[j] = IF n + j <= Len(d) THEN d[n + j] ELSE r[(n + j) - Len(d)]
      BY <1>2, <1>3, <2>1
    <2>3. (w \o r)[j] = IF j <= Len(w) THEN w[j] ELSE r[j - Len(w)]
      BY <1>7, <2>1
    <2>4. CASE j <= Len(d) - n
      <3>1. n + j <= Len(d) /\ j \in 1..Len(d) - n
        BY <1>1, <2>1, <2>4
      <3> QED BY <1>6, <2>2, <2>3, <2>4, <3>1
    <2>5. CASE ~(j <= Len(d) - n)
      <3>1. ~(n + j <= Len(d)) /\ (n + j) - Len(d) = j - (Len(d) - n)
        BY <1>1, <2>1, <2>5
      <3> QED BY <1>6, <2>2, <2>3, <2>5, <3>1
    <2> QED BY <2>4, <2>5
  <1>10. w \o r = b
    BY <1>7, <1>8, <1>9, SeqEqual
  <1>11. ASSUME NEW j \in 1..n PROVE d[j] = a[j]
    <2>1. j \in 1..Len(d) + Len(r) /\ j \in 1..n + Len(b) /\ j <= n /\ j <= Len(d)
      BY <1>1, <1>5
    <2> QED BY <1>2, <1>3, <2>1
  <1> QED BY <1>6, <1>10, <1>11 DEF n, w, Past, Follows

LEMMA DropRest ==
  \A S : \A d, r, a, b \in Seq(S) : d \o r = a \o b /\ Len(a) <= Len(d) => Follows(d, Len(a), r, b)
  BY DropFront

LEMMA FrameCellsStream == ASSUME NEW s \in Seq(FrameCells) PROVE s \in Seq(StreamCells)
  <1>1. FrameCells \subseteq StreamCells
    BY DEF StreamCells
  <1> QED BY <1>1, SeqMonotonic

(* What follows k frames of the stream, unless it is nothing, begins with  *)
(* the next.                                                               *)
LEMMA NextFrame ==
  ASSUME NEW fr \in Seq(Frames), NEW k \in 0..Len(fr), NEW r \in Seq(StreamCells), r # <<>>,
         Stream(fr)[k] \o r = Stream(fr)[Len(fr)]
  PROVE  /\ k + 1 \in 1..Len(fr)
         /\ \E rest \in Seq(StreamCells) : /\ r = Ws!Bytes(k + 1, fr[k + 1]) \o rest
                                           /\ Stream(fr)[k + 1] \o rest = Stream(fr)[Len(fr)]
  <1> DEFINE all == Stream(fr)[Len(fr)]
             u == Stream(fr)[k]
             w == Stream(fr)[k + 1]
             f == Ws!Bytes(k + 1, fr[k + 1])
  <1>1. Len(fr) \in Nat /\ k \in Nat /\ k <= Len(fr)
    OBVIOUS
  <1>2. Grows(Stream(fr), Len(fr), FrameCells) /\ w = u \o f
    BY <1>1, StreamIs
  <1>3. all \in Seq(StreamCells) /\ u \in Seq(StreamCells)
    <2>1. Len(fr) \in 0..Len(fr)
      BY <1>1
    <2> QED BY <1>2, <2>1, FrameCellsStream DEF Grows
  <1>4. u \o r = all
    OBVIOUS
  <1>5. k + 1 \in 1..Len(fr)
    <2> SUFFICES ASSUME k = Len(fr) PROVE FALSE
      BY <1>1
    <2>1. u = all
      OBVIOUS
    <2> HIDE DEF u, all
    <2>2. u \o r = u
      BY <1>4, <2>1
    <2> QED BY <1>3, <2>2, ConcatEqualIffEmpty
  <1>6. PICK rest \in Seq(FrameCells) : all = w \o rest
    <2>1. Len(fr) \in 0..Len(fr) /\ k + 1 \in 0..Len(fr)
      BY <1>1, <1>5
    <2> QED BY <1>2, <2>1 DEF Grows
  <1>7. fr[k + 1] \in Frames /\ k + 1 \in Nat
    BY <1>1, <1>5, ElementOfSeq
  <1>8. f \in Seq(StreamCells) /\ rest \in Seq(StreamCells)
    BY <1>7, BytesAre, FrameCellsStream
  <1> HIDE DEF all, u, w, f
  <1>9. (u \o f) \o rest = u \o (f \o rest) /\ f \o rest \in Seq(StreamCells)
    <2>1. Groups(u, f, rest)
      BY <1>3, <1>8, Regroup
    <2>2. f \o rest \in Seq(StreamCells)
      BY <1>8, ConcatProperties
    <2> QED BY <2>1, <2>2 DEF Groups
  <1>10. u \o r = u \o (f \o rest)
    BY <1>2, <1>4, <1>6, <1>9
  <1>11. r = f \o rest
    BY <1>3, <1>9, <1>10, CancelLeft
  <1>12. w \o rest = all
    BY <1>6
  <1> QED BY <1>5, <1>8, <1>11, <1>12 DEF all, u, w, f


Flip(c) == [c EXCEPT !.on = ~@]

LEMMA FlipIs == \A x, y : Flip([t |-> "pay", v |-> x, on |-> y]) = [t |-> "pay", v |-> x, on |-> ~y]
  BY DEF Flip

(* d begins with the whole of frame k, and rest follows it in d and r.     *)
Parsed(k, f, d, r, rest) ==
  LET n == Ws!Total(d[2])
      u == Ws!Unmasked(d)
  IN /\ n \in 0..Len(d)
     /\ u \in Seq(StreamCells) /\ Len(u) = Len(d) /\ u[2] = d[2]
     /\ SubSeq(u, n - d[2].v + 1, n) = Ws!Plain(k, f)
     /\ Past(u, n) \o r = rest

(* _wsconn_frame on a complete frame: what it unmasks is the payload, and  *)
(* what follows the frame is left as it was.                               *)
LEMMA FrameAt ==
  ASSUME NEW k \in Nat, NEW f \in Frames, NEW d \in Seq(StreamCells), NEW r \in Seq(StreamCells),
         NEW rest \in Seq(StreamCells), d \o r = Ws!Bytes(k, f) \o rest, Ws!Complete(d)
  PROVE  Parsed(k, f, d, r, rest)
  <1> DEFINE b == Ws!Bytes(k, f)
             h == HeaderSize(f)
             v == f.len
             n == h + v
             u == Ws!Unmasked(d)
             Cell(i) == IF f.masked /\ i > h /\ i <= n THEN [d[i] EXCEPT !.on = ~@] ELSE d[i]
  <1>1. h \in Nat /\ h >= 2 /\ v \in Nat /\ f.masked \in BOOLEAN
    BY HeaderIs DEF Frames
  <1>2. /\ b \in Seq(StreamCells) /\ Len(b) = n /\ b[2] = LenCell(f)
        /\ \A i \in 1..v : b[h + i] = Ws!Payload(k, f)[i]
    BY BytesAre, FrameCellsStream
  <1>3. Len(d) \in Nat /\ Len(d) >= 2 /\ Ws!Total(d[2]) <= Len(d)
    BY DEF Ws!Complete
  <1>4. d[2] = LenCell(f)
    <2>1. 2 \in 1..Len(d) /\ 2 \in 1..Len(b)
      BY <1>1, <1>2, <1>3
    <2>2. (d \o r)[2] = d[2]
      BY <2>1
    <2>3. (b \o rest)[2] = b[2]
      <3> HIDE DEF b
      <3> QED BY <1>2, <2>1
    <2> HIDE DEF b
    <2> QED BY <1>2, <2>2, <2>3 DEF b
  <1>5. Ws!Total(d[2]) = n /\ d[2].v = v /\ d[2].masked = f.masked
    <2>1. /\ LenCell(f).v = f.len /\ LenCell(f).masked = f.masked /\ LenCell(f).form = f.form
      BY DEF LenCell
    <2> QED BY <1>4, <2>1 DEF Ws!Total, HeaderSize
  <1> HIDE DEF b, h, v
  <1>6. n \in Nat /\ n <= Len(d) /\ n - v = h
    BY <1>1, <1>3, <1>5
  <1> HIDE DEF n
  <1>7. /\ Past(d, n) \o r = rest
        /\ \A j \in 1..n : d[j] = b[j]
    <2>1. d \o r = b \o rest /\ Len(b) <= Len(d) /\ b \in Seq(StreamCells)
      BY <1>2, <1>6 DEF b
    <2>2. Past(d, Len(b)) \o r = rest
      BY <2>1, DropRest DEF Follows
    <2>3. \A j \in 1..Len(b) : d[j] = b[j]
      BY <2>1, DropFront
    <2> QED BY <1>2, <2>2, <2>3
  <1>8. u = [i \in 1..Len(d) |-> Cell(i)]
    BY <1>5, <1>6 DEF Ws!Unmasked
  <1>9. ASSUME NEW i \in 1..Len(d), i > h, i <= n
        PROVE  /\ i - h \in 1..v
               /\ Cell(i) = [t |-> "pay", v |-> <<k, i - h>>, on |-> FALSE]
    <2>1. i - h \in 1..v /\ h + (i - h) = i /\ i \in 1..n
      BY <1>1, <1>9 DEF n
    <2>2. d[i] = Ws!Payload(k, f)[i - h]
      BY <1>2, <1>7, <2>1
    <2>3. d[i] = [t |-> "pay", v |-> <<k, i - h>>, on |-> f.masked]
      BY <2>1, <2>2 DEF Ws!Payload, v
    <2>4. f.masked => [d[i] EXCEPT !.on = ~@] = [t |-> "pay", v |-> <<k, i - h>>, on |-> FALSE]
      <3> SUFFICES ASSUME f.masked = TRUE
                   PROVE  [d[i] EXCEPT !.on = ~@] = [t |-> "pay", v |-> <<k, i - h>>, on |-> FALSE]
        BY <1>1
      <3>1. \A x, y : Flip([t |-> "pay", v |-> x, on |-> y]) = [t |-> "pay", v |-> x, on |-> ~y]
        BY FlipIs
      <3>2. d[i] = [t |-> "pay", v |-> <<k, i - h>>, on |-> TRUE]
        BY <2>3
      <3>3. [d[i] EXCEPT !.on = ~@] = Flip(d[i])
        BY DEF Flip
      <3> DEFINE x == <<k, i - h>>
      <3>4. Flip(d[i]) = Flip([t |-> "pay", v |-> x, on |-> TRUE])
        BY <3>2
      <3> HIDE DEF x
      <3>5. Flip(d[i]) = [t |-> "pay", v |-> x, on |-> ~TRUE]
        BY <3>1, <3>4, Zenon
      <3>6. Flip(d[i]) = [t |-> "pay", v |-> x, on |-> FALSE]
        BY <3>5, Zenon
      <3> QED BY <3>3, <3>6 DEF x
    <2> QED BY <1>1, <1>9, <2>1, <2>3, <2>4
  <1>10. ASSUME NEW i \in 1..Len(d), ~(i > h /\ i <= n) PROVE Cell(i) = d[i]
    BY <1>10
  <1>11. ASSUME NEW i \in 1..Len(d) PROVE Cell(i) \in StreamCells
    <2>1. CASE i > h /\ i <= n
      <3>1. i - h \in Nat /\ FALSE \in BOOLEAN
        <4>1. i - h \in 1..v
          BY <1>9, <2>1
        <4> QED BY <4>1
      <3>2. [t |-> "pay", v |-> <<k, i - h>>, on |-> FALSE] \in FrameCells
        BY <3>1 DEF FrameCells
      <3> QED BY <1>9, <2>1, <3>2 DEF StreamCells
    <2>2. CASE ~(i > h /\ i <= n)
      <3> HIDE DEF Cell
      <3> QED BY <1>10, <2>2, ElementOfSeq
    <2> QED BY <2>1, <2>2
  <1>12. \A i \in 1..Len(d) : u[i] = Cell(i)
    <2> HIDE DEF Cell, u
    <2> QED BY <1>8
  <1>13. u \in Seq(StreamCells) /\ Len(u) = Len(d)
    <2> HIDE DEF Cell
    <2>1. u \in [1..Len(d) -> StreamCells]
      BY <1>8, <1>11
    <2>2. \A m \in Nat : \A S : \A g \in [1..m -> S] : g \in Seq(S) /\ Len(g) = m
      OBVIOUS
    <2> HIDE DEF u
    <2> QED BY <1>3, <2>1, <2>2
  <1> HIDE DEF Cell, u
  <1>14. SubSeq(u, n - v + 1, n) = Ws!Plain(k, f)
    <2> DEFINE w == SubSeq(u, h + 1, n)
               q == Ws!Plain(k, f)
    <2>1. w \in Seq(StreamCells) /\ Len(w) = v /\ \A i \in 1..v : w[i] = u[h + i] /\ h + i \in 1..Len(d)
      BY <1>1, <1>6, <1>13 DEF n
    <2>2. q \in Seq(StreamCells) /\ Len(q) = v
      BY PayloadIs, FrameCellsStream DEF v
    <2>3. ASSUME NEW i \in 1..v PROVE w[i] = q[i]
      <3>1. h + i > h /\ h + i <= n /\ (h + i) - h = i
        BY <1>1, <1>6 DEF n
      <3>2. w[i] = Cell(h + i)
        <4> HIDE DEF w
        <4> QED BY <1>12, <2>1
      <3>3. w[i] = [t |-> "pay", v |-> <<k, i>>, on |-> FALSE]
        BY <1>9, <2>1, <3>1, <3>2
      <3>4. q[i] = [t |-> "pay", v |-> <<k, i>>, on |-> FALSE]
        BY DEF Ws!Plain, v
      <3> QED BY <3>3, <3>4
    <2> HIDE DEF w, q
    <2>4. w = q
      BY <2>1, <2>2, <2>3, SeqEqual
    <2> QED BY <1>6, <2>4 DEF w, q
  <1>15. Past(u, n) = Past(d, n)
    <2>1. /\ Past(u, n) \in Seq(StreamCells) /\ Len(Past(u, n)) = Len(d) - n
          /\ \A i \in 1..Len(d) - n : Past(u, n)[i] = u[n + i]
      <3>1. n \in 0..Len(u)
        BY <1>6, <1>13
      <3> QED BY <1>13, <3>1, PastIs
    <2>2. /\ Past(d, n) \in Seq(StreamCells) /\ Len(Past(d, n)) = Len(d) - n
          /\ \A i \in 1..Len(d) - n : Past(d, n)[i] = d[n + i]
      <3>1. n \in 0..Len(d)
        BY <1>6
      <3> QED BY <3>1, PastIs
    <2>3. \A i \in 1..Len(d) - n : n + i \in 1..Len(d) /\ ~(n + i <= n)
      BY <1>3, <1>6
    <2>4. \A i \in 1..Len(d) - n : u[n + i] = d[n + i]
      BY <1>10, <1>12, <2>3
    <2> QED BY <2>1, <2>2, <2>4, SeqEqual
  <1>16. u[2] = d[2]
    <2>1. 2 \in 1..Len(d) /\ ~(2 > h)
      BY <1>1, <1>3
    <2> QED BY <1>10, <1>12, <2>1
  <1> QED BY <1>5, <1>6, <1>7, <1>13, <1>14, <1>15, <1>16 DEF Parsed, u, v


LEMMA CutAt ==
  ASSUME NEW S, NEW d \in Seq(S), NEW n \in 0..Len(d)
  PROVE  /\ SubSeq(d, 1, n) \in Seq(S) /\ Len(SubSeq(d, 1, n)) = n
         /\ Past(d, n) \in Seq(S) /\ Len(Past(d, n)) = Len(d) - n
         /\ SubSeq(d, 1, n) \o Past(d, n) = d
  <1> DEFINE p == SubSeq(d, 1, n)
             q == SubSeq(d, n + 1, Len(d))
  <1>1. Len(d) \in Nat /\ n \in Nat /\ n <= Len(d)
    OBVIOUS
  <1>2. p \in Seq(S) /\ Len(p) = n /\ \A i \in 1..n : p[i] = d[i]
    BY <1>1
  <1>3. q \in Seq(S) /\ Len(q) = Len(d) - n /\ \A i \in 1..Len(d) - n : q[i] = d[n + i]
    BY <1>1
  <1> HIDE DEF p, q
  <1>4. p \o q = d
    <2>1. /\ p \o q \in Seq(S) /\ Len(p \o q) = Len(p) + Len(q)
          /\ \A i \in 1..Len(p) + Len(q) : (p \o q)[i] = IF i <= Len(p) THEN p[i] ELSE q[i - Len(p)]
      BY <1>2, <1>3, ConcatProperties
    <2>2. Len(p \o q) = Len(d)
      BY <1>1, <1>2, <1>3, <2>1
    <2>3. ASSUME NEW i \in 1..Len(p \o q) PROVE (p \o q)[i] = d[i]
      <3>1. CASE i <= n
        <4>1. i \in 1..n /\ i \in 1..Len(p) + Len(q)
          BY <1>1, <2>1, <3>1
        <4> QED BY <1>2, <2>1, <3>1, <4>1
      <3>2. CASE ~(i <= n)
        <4>1. i - n \in 1..Len(d) - n /\ i \in 1..Len(p) + Len(q) /\ n + (i - n) = i
          BY <1>1, <2>1, <2>2, <3>2
        <4> QED BY <1>2, <1>3, <2>1, <3>2, <4>1
      <3> QED BY <3>1, <3>2
    <2> QED BY <2>1, <2>2, <2>3, SeqEqual
  <1> QED BY <1>2, <1>3, <1>4 DEF p, q, Past

(* The only blank line is the last cell of the request.                    *)
LEMMA LinesAre ==
  ASSUME NEW q \in Requests
  PROVE  /\ Ws!Lines(q) \in Seq(StreamCells)
         /\ \A i \in 1..Len(Ws!Lines(q)) : Ws!Lines(q)[i].t = "blank" => i = Len(Ws!Lines(q))
  <1> DEFINE n == Len(q)
             g == [i \in 1..n |-> [t |-> "line", v |-> q[i]]]
             e == <<[t |-> "blank"]>>
  <1>1. q \in Seq(STRING) /\ n \in Nat
    BY WsAssumption
  <1>2. \A i \in 1..n : [t |-> "line", v |-> q[i]] \in StreamCells
    <2>1. \A i \in 1..n : q[i] \in STRING
      BY <1>1, ElementOfSeq
    <2> QED BY <2>1 DEF StreamCells
  <1>3. g \in Seq(StreamCells) /\ Len(g) = n /\ \A i \in 1..n : g[i].t = "line"
    <2>1. g \in [1..n -> StreamCells]
      BY <1>2
    <2>2. \A m \in Nat : \A S : \A h \in [1..m -> S] : h \in Seq(S) /\ Len(h) = m
      OBVIOUS
    <2>3. \A i \in 1..n : g[i].t = "line"
      OBVIOUS
    <2> HIDE DEF g, n
    <2> QED BY <1>1, <2>1, <2>2, <2>3
  <1>4. e \in Seq(StreamCells) /\ Len(e) = 1
    <2>1. [t |-> "blank"] \in StreamCells
      BY DEF StreamCells
    <2> QED BY <2>1, OneCell
  <1>5. Ws!Lines(q) = g \o e
    BY DEF Ws!Lines
  <1> HIDE DEF g, e, n
  <1>6. /\ g \o e \in Seq(StreamCells) /\ Len(g \o e) = Len(g) + Len(e)
        /\ \A i \in 1..Len(g) + Len(e) : (g \o e)[i] = IF i <= Len(g) THEN g[i] ELSE e[i - Len(g)]
    BY <1>3, <1>4, ConcatProperties
  <1>7. ASSUME NEW i \in 1..Len(g \o e), (g \o e)[i].t = "blank" PROVE i = Len(g \o e)
    <2>1. i \in 1..n \/ i = n + 1
      BY <1>1, <1>3, <1>4, <1>6
    <2>2. i \in 1..n => (g \o e)[i] = g[i]
      BY <1>1, <1>3, <1>4, <1>6
    <2>3. i \notin 1..n
      BY <1>3, <1>7, <2>2
    <2> QED BY <1>3, <1>4, <1>6, <2>1, <2>3
  <1> QED BY <1>5, <1>6, <1>7

(* Behind the blank line, wherever reading began, come the frames.         *)
LEMMA BehindBlank ==
  ASSUME NEW q \in Requests, NEW fr \in Seq(Frames), NEW pre \in Seq(StreamCells),
         NEW d \in Seq(StreamCells), NEW r \in Seq(StreamCells),
         pre \o (d \o r) = Ws!Lines(q) \o Ws!Encoded(fr),
         NEW j \in 1..Len(d), d[j].t = "blank"
  PROVE  Follows(d, j, r, Ws!Encoded(fr))
  <1> DEFINE l == Ws!Lines(q)
             e == Ws!Encoded(fr)
             a == SubSeq(d, 1, j)
             b == Past(d, j)
             x == pre \o a
             whole == l \o e
  <1>1. Len(d) \in Nat /\ j \in 0..Len(d) /\ j \in Nat /\ j >= 1 /\ j <= Len(d)
    OBVIOUS
  <1>2. /\ a \in Seq(StreamCells) /\ Len(a) = j /\ b \in Seq(StreamCells) /\ a \o b = d
    BY <1>1, CutAt
  <1>3. a[j] = d[j]
    BY <1>1
  <1>4. e \in Seq(FrameCells)
    <2>1. Len(fr) \in 0..Len(fr)
      OBVIOUS
    <2> QED BY <2>1, StreamIs DEF Grows
  <1>5. l \in Seq(StreamCells) /\ \A i \in 1..Len(l) : l[i].t = "blank" => i = Len(l)
    BY LinesAre
  <1> HIDE DEF l, e, a, b
  <1>6. e \in Seq(StreamCells) /\ \A i \in 1..Len(e) : e[i].t # "blank"
    <2>1. \A c \in FrameCells : c.t # "blank"
      BY DEF FrameCells
    <2>2. \A i \in 1..Len(e) : e[i] \in FrameCells
      BY <1>4, ElementOfSeq
    <2> QED BY <1>4, <2>1, <2>2, FrameCellsStream
  <1>7. x \in Seq(StreamCells) /\ Len(x) = Len(pre) + j /\ x[Len(pre) + j] = d[j]
    <2>1. /\ pre \o a \in Seq(StreamCells) /\ Len(pre \o a) = Len(pre) + Len(a)
          /\ \A i \in 1..Len(pre) + Len(a) : (pre \o a)[i] = IF i <= Len(pre) THEN pre[i] ELSE a[i - Len(pre)]
      BY <1>2, ConcatProperties
    <2>2. Len(pre) \in Nat
      OBVIOUS
    <2>3. Len(pre) + j \in 1..Len(pre) + Len(a) /\ ~(Len(pre) + j <= Len(pre)) /\ (Len(pre) + j) - Len(pre) = j
      BY <1>1, <1>2, <2>2
    <2> QED BY <1>2, <1>3, <2>1, <2>3
  <1>8. b \o r \in Seq(StreamCells) /\ x \o (b \o r) = whole
    <2>1. b \o r \in Seq(StreamCells)
      BY <1>2, ConcatProperties
    <2>2. Groups(a, b, r) /\ Groups(pre, a, b \o r)
      BY <1>2, <2>1, Regroup
    <2>3. (a \o b) \o r = a \o (b \o r) /\ (pre \o a) \o (b \o r) = pre \o (a \o (b \o r))
      BY <2>2 DEF Groups
    <2>4. pre \o (d \o r) = whole
      BY DEF l, e
    <2> QED BY <1>2, <2>1, <2>3, <2>4
  <1> HIDE DEF x
  <1>9. Len(x) = Len(l)
    <2>1. /\ Len(whole) = Len(l) + Len(e)
          /\ \A i \in 1..Len(l) + Len(e) : whole[i] = IF i <= Len(l) THEN l[i] ELSE e[i - Len(l)]
      BY <1>5, <1>6, ConcatProperties
    <2>2. /\ Len(x \o (b \o r)) = Len(x) + Len(b \o r)
          /\ \A i \in 1..Len(x) + Len(b \o r) :
               (x \o (b \o r))[i] = IF i <= Len(x) THEN x[i] ELSE (b \o r)[i - Len(x)]
      BY <1>7, <1>8, ConcatProperties
    <2>3. /\ Len(x) \in Nat /\ Len(l) \in Nat /\ Len(e) \in Nat /\ Len(b \o r) \in Nat /\ Len(pre) \in Nat
      BY <1>5, <1>6, <1>7, <1>8
    <2> HIDE DEF whole
    <2>4. Len(x) \in 1..Len(x) + Len(b \o r) /\ Len(x) \in 1..Len(l) + Len(e)
      BY <1>1, <1>7, <1>8, <2>1, <2>2, <2>3
    <2>5. whole[Len(x)] = d[j]
      BY <1>7, <1>8, <2>2, <2>3, <2>4
    <2>6. CASE Len(x) <= Len(l)
      <3>1. Len(x) \in 1..Len(l) /\ whole[Len(x)] = l[Len(x)]
        BY <2>1, <2>3, <2>4, <2>6
      <3> QED BY <1>5, <2>5, <3>1
    <2>7. CASE ~(Len(x) <= Len(l))
      <3>1. Len(x) - Len(l) \in 1..Len(e) /\ whole[Len(x)] = e[Len(x) - Len(l)]
        BY <2>1, <2>3, <2>4, <2>7
      <3> QED BY <1>6, <2>5, <3>1
    <2> QED BY <2>6, <2>7
  <1>10. Past(x, Len(l)) \o (b \o r) = e
    <2>1. Len(l) <= Len(x)
      BY <1>5, <1>9
    <2>2. x \o (b \o r) = l \o e
      BY <1>8
    <2> QED BY <1>5, <1>6, <1>7, <1>8, <2>1, <2>2, DropRest DEF Follows
  <1>11. Past(x, Len(l)) = <<>>
    <2>1. Len(x) \in Nat
      BY <1>7
    <2>2. Past(x, Len(l)) = SubSeq(x, Len(x) + 1, Len(x))
      BY <1>9 DEF Past
    <2> QED BY <2>1, <2>2, SubSeqEmpty
  <1>12. <<>> \o (b \o r) = b \o r
    BY <1>8, ConcatEmptySeq
  <1> QED BY <1>10, <1>11, <1>12 DEF b, e, Follows

(* What is behind the frames already parsed, and before on_build and       *)
(* on_read return what is behind the request or the frame they are at.     *)
Behind == (IF wspc \in {"on_build", "on_read"} THEN Past(rbuf.data, got) ELSE rbuf.data) \o input

(* After k frames: their payload is in rrbuf or was taken, and the rest of *)
(* the stream is still to come.                                            *)
Progress(k) ==
  /\ consumed \o rrbuf.data = Content(script.frames)[k]
  /\ wspc # "abort" => Stream(script.frames)[k] \o Behind = Stream(script.frames)[Len(script.frames)]

Serving == \E k \in 0..Len(script.frames) : Progress(k)

(* Before that, some of the request and the frames may have been dropped.  *)
Asking ==
  /\ wspc \notin {"on_build", "on_read", "abort"} /\ consumed = <<>> /\ rrbuf.data = <<>>
  /\ \E pre \in Seq(StreamCells) :
       pre \o (rbuf.data \o input) = Ws!Lines(script.request) \o Ws!Encoded(script.frames)

Reading ==
  /\ Holds(rbuf, StreamCells) /\ Holds(rrbuf, StreamCells)
  /\ input \in Seq(StreamCells) /\ consumed \in Seq(StreamCells)
  /\ wspc \in {"parse", "on_build", "on_read"} => got \in 0..Len(rbuf.data)
  /\ status = "WS_ESTABLISHED" => Serving
  /\ status # "WS_ESTABLISHED" => Asking

ReadInv ==
  /\ script \in [request : Requests, frames : FrameLists] /\ spoiled \in BOOLEAN
  /\ ~spoiled => Reading

LEMMA ScriptIs ==
  ASSUME script \in [request : Requests, frames : FrameLists]
  PROVE  script.request \in Requests /\ script.frames \in Seq(Frames)
  BY WsAssumption

LEMMA ReadInit == Ws!Init => ReadInv
  <1> SUFFICES ASSUME Ws!Init PROVE ReadInv
    OBVIOUS
  <1> DEFINE l == Ws!Lines(script.request)
             e == Ws!Encoded(script.frames)
  <1>1. /\ rbuf = [data |-> <<>>, pos |-> 0] /\ rrbuf = [data |-> <<>>, pos |-> 0]
        /\ input = l \o e /\ consumed = <<>> /\ status = "WS_INIT" /\ wspc = "idle"
        /\ script \in [request : Requests, frames : FrameLists] /\ spoiled = FALSE
    BY DEF Ws!Init, Ws!Buf
  <1>2. <<>> \in Seq(StreamCells) /\ Len(<<>>) = 0
    BY EmptySeq
  <1>3. Holds(rbuf, StreamCells) /\ Holds(rrbuf, StreamCells)
    <2>1. rbuf \in [data : Seq(StreamCells), pos : Nat] /\ rbuf.data = <<>> /\ rbuf.pos = 0
      BY <1>1, <1>2
    <2>2. rrbuf \in [data : Seq(StreamCells), pos : Nat] /\ rrbuf.data = <<>> /\ rrbuf.pos = 0
      BY <1>1, <1>2
    <2>3. BufSize \in Nat
      BY WsAssumption
    <2> QED BY <1>2, <2>1, <2>2, <2>3 DEF Holds
  <1>4. l \in Seq(StreamCells) /\ e \in Seq(StreamCells)
    <2>1. l \in Seq(StreamCells)
      BY <1>1, ScriptIs, LinesAre
    <2>2. script.frames \in Seq(Frames) /\ Len(script.frames) \in 0..Len(script.frames)
      BY <1>1, ScriptIs
    <2>3. e \in Seq(FrameCells)
      BY <2>2, StreamIs DEF Grows
    <2> QED BY <2>1, <2>3, FrameCellsStream
  <1> HIDE DEF l, e
  <1>5. input \in Seq(StreamCells)
    BY <1>1, <1>4, ConcatProperties
  <1>6. <<>> \o (<<>> \o input) = l \o e
    <2>1. <<>> \o input = input
      BY <1>5, ConcatEmptySeq
    <2> QED BY <1>1, <2>1
  <1>7. Asking
    <2>1. rbuf.data = <<>> /\ rrbuf.data = <<>>
      BY <1>1
    <2> QED BY <1>1, <1>2, <1>6, <2>1 DEF Asking, l, e
  <1> QED BY <1>1, <1>2, <1>3, <1>5, <1>7 DEF ReadInv, Reading

(* Steps that leave what was read where it is.                             *)
LEMMA ReadKept ==
  ASSUME ReadInv, UNCHANGED <<script, spoiled, rbuf, rrbuf, input, consumed, status, got>>,
         \/ wspc' = wspc
         \/ /\ wspc \notin {"on_build", "on_read", "abort"}
            /\ wspc' \notin {"parse", "on_build", "on_read", "abort"}
  PROVE  ReadInv'
  <1>1. script' \in [request : Requests, frames : FrameLists] /\ spoiled' \in BOOLEAN
    BY DEF ReadInv
  <1> SUFFICES ASSUME ~spoiled' PROVE Reading'
    BY <1>1 DEF ReadInv
  <1>2. Reading
    BY DEF ReadInv
  <1>3. Behind' = Behind
    BY DEF Behind
  <1>4. \A k : Progress(k) => Progress(k)'
    BY <1>3 DEF Progress
  <1>5. Serving => Serving'
    BY <1>4 DEF Serving
  <1>6. Asking => Asking'
    BY DEF Asking
  <1>7. status' = status /\ rbuf' = rbuf /\ rrbuf' = rrbuf /\ input' = input /\ consumed' = consumed
    OBVIOUS
  <1>8. wspc' \in {"parse", "on_build", "on_read"} => got' \in 0..Len(rbuf'.data)
    BY <1>2 DEF Reading
  <1> QED BY <1>2, <1>5, <1>6, <1>7, <1>8 DEF Reading

(* Steps that move what is read, without losing any of it.                 *)
LEMMA ServingKept ==
  ASSUME Serving, wspc # "abort", script' = script,
         consumed' \o rrbuf'.data = consumed \o rrbuf.data, Behind' = Behind
  PROVE  Serving'
  <1>1. PICK k \in 0..Len(script.frames) : Progress(k)
    BY DEF Serving
  <1>2. Progress(k)'
    BY <1>1 DEF Progress
  <1> QED BY <1>2 DEF Serving

(* _wsconn_read: what is read goes to the end of rbuf.                     *)
LEMMA ReadMoves ==
  ASSUME ReadInv, NEW n \in 1..BufSize, NEW o \in BOOLEAN, Ws!ReadSome(n, o)
  PROVE  ReadInv'
  <1>1. /\ wspc = "idle" /\ n <= Ws!Room(rbuf) /\ n <= Len(input)
        /\ rbuf' = Ws!Written(rbuf, SubSeq(input, 1, n)) /\ input' = SubSeq(input, n + 1, Len(input))
        /\ wspc' = "parse" /\ got' = n
        /\ UNCHANGED <<script, status, rrbuf, consumed, spoiled>>
    BY DEF Ws!ReadSome, Ws!Readable, Ws!history
  <1>2. script' \in [request : Requests, frames : FrameLists] /\ spoiled' \in BOOLEAN
    BY <1>1 DEF ReadInv
  <1> SUFFICES ASSUME ~spoiled' PROVE Reading'
    BY <1>2 DEF ReadInv
  <1>3. Reading
    BY <1>1 DEF ReadInv
  <1> DEFINE d == rbuf.data
             p == SubSeq(input, 1, n)
             q == Past(input, n)
  <1>4. /\ Holds(rbuf, StreamCells) /\ Holds(rrbuf, StreamCells)
        /\ input \in Seq(StreamCells) /\ consumed \in Seq(StreamCells)
    BY <1>3 DEF Reading
  <1>5. n \in 0..Len(input) /\ n \in Nat
    BY <1>1, <1>4
  <1>6. p \in Seq(StreamCells) /\ Len(p) = n /\ q \in Seq(StreamCells) /\ p \o q = input
    BY <1>4, <1>5, CutAt
  <1>7. input' = q
    BY <1>1 DEF Past
  <1>8. d \in Seq(StreamCells)
    BY <1>4, RoomIs
  <1> HIDE DEF p, q
  <1>9. Holds(rbuf', StreamCells) /\ rbuf'.data = d \o p
    BY <1>1, <1>4, <1>6, WrittenFits DEF p
  <1> HIDE DEF d
  <1>10. rbuf'.data \o input' = d \o input
    <2>1. Groups(d, p, q)
      BY <1>6, <1>8, Regroup
    <2>2. (d \o p) \o q = d \o (p \o q)
      BY <2>1 DEF Groups
    <2> QED BY <1>6, <1>7, <1>9, <2>2
  <1>11. got' \in 0..Len(rbuf'.data)
    <2>1. p \in Seq(StreamCells) /\ d \in Seq(StreamCells)
      BY <1>6, <1>8
    <2>2. Len(d \o p) = Len(d) + Len(p)
      BY <2>1, ConcatProperties
    <2>3. Len(d) \in Nat
      BY <2>1
    <2> QED BY <1>1, <1>5, <1>6, <1>9, <2>2, <2>3
  <1>12. status = "WS_ESTABLISHED" => Serving'
    <2> SUFFICES ASSUME status = "WS_ESTABLISHED" PROVE Serving'
      OBVIOUS
    <2>1. Serving /\ wspc # "abort"
      BY <1>1, <1>3 DEF Reading
    <2>2. Behind' = Behind
      BY <1>1, <1>10 DEF Behind, d
    <2> QED BY <1>1, <2>1, <2>2, ServingKept
  <1>13. status # "WS_ESTABLISHED" => Asking'
    BY <1>1, <1>3, <1>10 DEF Reading, Asking, d
  <1> QED BY <1>1, <1>4, <1>6, <1>7, <1>9, <1>11, <1>12, <1>13 DEF Reading

(* The end of _wsconn_read without the whole request: what was just read   *)
(* is dropped.                                                             *)
LEMMA DropsRead ==
  ASSUME ReadInv, Ws!RequestIncomplete
  PROVE  ReadInv'
  <1>1. /\ wspc = "parse" /\ status # "WS_ESTABLISHED"
        /\ rbuf' = Ws!Taken(rbuf, got) /\ wspc' \in {"out", "idle"}
        /\ UNCHANGED <<script, status, rrbuf, consumed, spoiled, input, got>>
    BY DEF Ws!RequestIncomplete, Ws!Return, Ws!history, Ws!wsconn_established
  <1>2. script' \in [request : Requests, frames : FrameLists] /\ spoiled' \in BOOLEAN
    BY <1>1 DEF ReadInv
  <1> SUFFICES ASSUME ~spoiled' PROVE Reading'
    BY <1>2 DEF ReadInv
  <1>3. Reading
    BY <1>1 DEF ReadInv
  <1> DEFINE d == rbuf.data
             a == SubSeq(d, 1, got)
             b == Past(d, got)
  <1>4. /\ Holds(rbuf, StreamCells) /\ Holds(rrbuf, StreamCells) /\ got \in 0..Len(d)
        /\ input \in Seq(StreamCells) /\ consumed \in Seq(StreamCells)
    BY <1>1, <1>3 DEF Reading
  <1>5. d \in Seq(StreamCells) /\ Len(d) \in Nat
    BY <1>4, RoomIs
  <1>6. Holds(rbuf', StreamCells) /\ rbuf'.data = b
    <2>1. got \in Nat /\ got <= Len(rbuf.data)
      BY <1>4, <1>5
    <2> QED BY <1>1, <1>4, <2>1, TakenHolds DEF Past
  <1> HIDE DEF d
  <1>7. a \in Seq(StreamCells) /\ b \in Seq(StreamCells) /\ a \o b = d
    BY <1>4, <1>5, CutAt
  <1> HIDE DEF a, b
  <1>8. PICK pre \in Seq(StreamCells) :
             pre \o (d \o input) = Ws!Lines(script.request) \o Ws!Encoded(script.frames)
    BY <1>1, <1>3 DEF Reading, Asking, d
  <1>9. pre \o a \in Seq(StreamCells) /\ b \o input \in Seq(StreamCells)
    BY <1>4, <1>7, ConcatProperties
  <1>10. (pre \o a) \o (b \o input) = pre \o (d \o input)
    <2>1. Groups(a, b, input) /\ Groups(pre, a, b \o input)
      BY <1>4, <1>7, <1>9, Regroup
    <2>2. (a \o b) \o input = a \o (b \o input) /\ (pre \o a) \o (b \o input) = pre \o (a \o (b \o input))
      BY <2>1 DEF Groups
    <2> QED BY <1>7, <2>2
  <1>11. Asking'
    <2>1. (pre \o a) \o (rbuf'.data \o input') = Ws!Lines(script'.request) \o Ws!Encoded(script'.frames)
      BY <1>1, <1>6, <1>8, <1>10
    <2> DEFINE w == pre \o a
    <2>2. w \in Seq(StreamCells)
      BY <1>9
    <2>3. w \o (rbuf'.data \o input') = Ws!Lines(script'.request) \o Ws!Encoded(script'.frames)
      BY <2>1
    <2> HIDE DEF w
    <2>4. consumed' = <<>> /\ rrbuf'.data = <<>>
      BY <1>1, <1>3 DEF Reading, Asking
    <2> QED BY <1>1, <2>2, <2>3, <2>4 DEF Asking
  <1> QED BY <1>1, <1>4, <1>6, <1>11 DEF Reading

(* _wsconn_handshake: if it is answered, on_build is called at the end of  *)
(* the request, and the frames come next.                                  *)
LEMMA Answers ==
  ASSUME ReadInv, NEW rest, Ws!_wsconn_handshake(rest)
  PROVE  ReadInv'
  <1> DEFINE end == CHOOSE i \in Ws!Ends : \A j \in Ws!Ends : i <= j
             d == rbuf.data
             fr == script.frames
  <1>1. /\ wspc = "parse" /\ status # "WS_ESTABLISHED" /\ Ws!Ends # {}
        /\ UNCHANGED <<script, rbuf, rrbuf, consumed, spoiled, input>>
        /\ \/ status' = "WS_ESTABLISHED" /\ got' = end /\ wspc' = "on_build"
           \/ UNCHANGED <<status, got>> /\ wspc' = "close"
    BY DEF Ws!_wsconn_handshake, Ws!history, Ws!wsconn_established
  <1>2. CASE UNCHANGED <<status, got>> /\ wspc' = "close"
    BY <1>1, <1>2, ReadKept
  <1>3. CASE status' = "WS_ESTABLISHED" /\ got' = end /\ wspc' = "on_build"
    <2>1. script' \in [request : Requests, frames : FrameLists] /\ spoiled' \in BOOLEAN
      BY <1>1 DEF ReadInv
    <2> SUFFICES ASSUME ~spoiled' PROVE Reading'
      BY <2>1 DEF ReadInv
    <2>2. Reading
      BY <1>1 DEF ReadInv
    <2>3. /\ Holds(rbuf, StreamCells) /\ Holds(rrbuf, StreamCells)
          /\ input \in Seq(StreamCells) /\ consumed \in Seq(StreamCells)
      BY <2>2 DEF Reading
    <2>4. d \in Seq(StreamCells) /\ Len(d) \in Nat
      BY <2>3, RoomIs
    <2>5. end \in 1..Len(d) /\ d[end].t = "blank"
      <3>1. Ws!Ends \in SUBSET Nat
        BY <2>4 DEF Ws!Ends
      <3>2. end \in Ws!Ends
        BY <1>1, <3>1, LeastNat
      <3> HIDE DEF end
      <3> QED BY <2>4, <3>2 DEF Ws!Ends
    <2>6. script.request \in Requests /\ fr \in Seq(Frames)
      BY ScriptIs DEF ReadInv
    <2>7. PICK pre \in Seq(StreamCells) :
               pre \o (d \o input) = Ws!Lines(script.request) \o Ws!Encoded(fr)
      BY <1>1, <2>2 DEF Reading, Asking
    <2> HIDE DEF end, d, fr
    <2>8. Past(d, end) \o input = Ws!Encoded(fr)
      <3> DEFINE q == script.request
                 r == input
      <3>1. q \in Requests /\ r \in Seq(StreamCells)
        BY <2>3, <2>6
      <3>2. pre \o (d \o r) = Ws!Lines(q) \o Ws!Encoded(fr)
        BY <2>7
      <3> HIDE DEF q, r
      <3>3. fr \in Seq(Frames) /\ d \in Seq(StreamCells)
        BY <2>4, <2>6
      <3>4. Follows(d, end, r, Ws!Encoded(fr))
        BY <2>5, <3>1, <3>2, <3>3, BehindBlank
      <3> QED BY <3>4 DEF r, Follows
    <2>9. Behind' = Ws!Encoded(fr)
      BY <1>1, <1>3, <2>8 DEF Behind, d
    <2>10. Ws!Encoded(fr) = Stream(fr)[Len(fr)] /\ Stream(fr)[0] = <<>> /\ Content(fr)[0] = <<>>
           /\ Ws!Encoded(fr) \in Seq(FrameCells)
      <3>1. Len(fr) \in 0..Len(fr)
        BY <2>6
      <3> QED BY <2>6, <3>1, StreamIs, ContentIs DEF Grows
    <2>11. Stream(fr)[0] \o Behind' = Stream(fr)[Len(fr)]
      BY <2>9, <2>10, ConcatEmptySeq
    <2>12. consumed' \o rrbuf'.data = Content(fr)[0]
      <3>1. consumed' = <<>> /\ rrbuf'.data = <<>>
        BY <1>1, <2>2 DEF Reading, Asking
      <3>2. <<>> \o <<>> = <<>>
        BY EmptySeq, ConcatEmptySeq
      <3> QED BY <2>10, <3>1, <3>2
    <2>13. Serving'
      <3>1. 0 \in 0..Len(fr)
        BY <2>6
      <3>2. script'.frames = fr
        BY <1>1 DEF fr
      <3> QED BY <2>11, <2>12, <3>1, <3>2 DEF Serving, Progress
    <2>14. got' \in 0..Len(rbuf'.data)
      BY <1>1, <1>3, <2>4, <2>5 DEF d
    <2> QED BY <1>1, <1>3, <2>3, <2>13, <2>14 DEF Reading
  <1> QED BY <1>1, <1>2, <1>3

(* on_build returns: the request leaves rbuf.                              *)
LEMMA BuildReturns ==
  ASSUME ReadInv, Ws!OnBuildReturns
  PROVE  ReadInv'
  <1>1. /\ wspc = "on_build" /\ rbuf' = Ws!Taken(rbuf, got) /\ wspc' \in {"out", "idle"}
        /\ UNCHANGED <<script, status, rrbuf, consumed, spoiled, input, got>>
    BY DEF Ws!OnBuildReturns, Ws!Return, Ws!history
  <1>2. script' \in [request : Requests, frames : FrameLists] /\ spoiled' \in BOOLEAN
    BY <1>1 DEF ReadInv
  <1> SUFFICES ASSUME ~spoiled' PROVE Reading'
    BY <1>2 DEF ReadInv
  <1>3. Reading
    BY <1>1 DEF ReadInv
  <1>4. /\ Holds(rbuf, StreamCells) /\ Holds(rrbuf, StreamCells) /\ got \in 0..Len(rbuf.data)
        /\ input \in Seq(StreamCells) /\ consumed \in Seq(StreamCells)
    BY <1>1, <1>3 DEF Reading
  <1>5. status = "WS_ESTABLISHED" /\ Serving
    BY <1>1, <1>3 DEF Reading, Asking
  <1>6. Holds(rbuf', StreamCells) /\ rbuf'.data = Past(rbuf.data, got)
    <2>1. got \in Nat /\ got <= Len(rbuf.data)
      <3>1. Len(rbuf.data) \in Nat
        BY <1>4, RoomIs
      <3> QED BY <1>4, <3>1
    <2> QED BY <1>1, <1>4, <2>1, TakenHolds DEF Past
  <1>7. Behind' = Behind
    BY <1>1, <1>6 DEF Behind
  <1>8. Serving'
    BY <1>1, <1>5, <1>7, ServingKept
  <1> QED BY <1>1, <1>4, <1>5, <1>6, <1>8 DEF Reading

(* _wsconn_frame: rrbuf gets the payload of the next frame, unmasked.      *)
LEMMA Parses ==
  ASSUME ReadInv, Ws!_wsconn_frame
  PROVE  ReadInv'
  <1> DEFINE d == rbuf.data
             u == Ws!Unmasked(d)
             n == Ws!Total(u[2])
             payload == SubSeq(u, n - u[2].v + 1, n)
             fr == script.frames
  <1>1. /\ wspc = "parse" /\ status = "WS_ESTABLISHED" /\ Ws!Complete(d)
        /\ rbuf' = [rbuf EXCEPT !.data = u] /\ rrbuf' = Ws!Written(rrbuf, payload) /\ got' = n
        /\ spoiled' = (spoiled \/ Len(payload) > Ws!Room(rrbuf))
        /\ \/ wspc' = "on_read"
           \/ wspc' = "abort"
        /\ UNCHANGED <<script, status, input, consumed>>
    BY DEF Ws!_wsconn_frame, Ws!wsconn_established
  <1>2. script' \in [request : Requests, frames : FrameLists] /\ spoiled' \in BOOLEAN
    BY <1>1 DEF ReadInv
  <1> SUFFICES ASSUME ~spoiled' PROVE Reading'
    BY <1>2 DEF ReadInv
  <1>3. ~spoiled /\ ~(Len(payload) > Ws!Room(rrbuf))
    BY <1>1
  <1>4. Reading
    BY <1>3 DEF ReadInv
  <1>5. /\ Holds(rbuf, StreamCells) /\ Holds(rrbuf, StreamCells)
        /\ input \in Seq(StreamCells) /\ consumed \in Seq(StreamCells)
    BY <1>4 DEF Reading
  <1>6. d \in Seq(StreamCells) /\ Len(d) \in Nat
    BY <1>5, RoomIs
  <1>7. fr \in Seq(Frames)
    BY ScriptIs DEF ReadInv
  <1>8. PICK k \in 0..Len(fr) :
             /\ consumed \o rrbuf.data = Content(fr)[k]
             /\ Stream(fr)[k] \o (d \o input) = Stream(fr)[Len(fr)]
    BY <1>1, <1>4 DEF Reading, Serving, Progress, Behind
  <1> HIDE DEF d, u, n, payload, fr
  <1> DEFINE all == d \o input
  <1>9. all \in Seq(StreamCells) /\ all # <<>>
    <2>1. all \in Seq(StreamCells) /\ Len(all) = Len(d) + Len(input)
      BY <1>5, <1>6, ConcatProperties
    <2>2. Len(d) >= 2 /\ Len(input) \in Nat
      BY <1>1, <1>5 DEF Ws!Complete
    <2>3. Len(all) # 0
      BY <1>6, <2>1, <2>2
    <2> HIDE DEF all
    <2> QED BY <2>1, <2>3
  <1>10. Stream(fr)[k] \o all = Stream(fr)[Len(fr)]
    BY <1>8
  <1>11. PICK rest \in Seq(StreamCells) :
              /\ all = Ws!Bytes(k + 1, fr[k + 1]) \o rest
              /\ Stream(fr)[k + 1] \o rest = Stream(fr)[Len(fr)]
    <2> HIDE DEF all
    <2> QED BY <1>7, <1>9, <1>10, NextFrame
  <1>12. k + 1 \in 1..Len(fr)
    <2> HIDE DEF all
    <2> QED BY <1>7, <1>9, <1>10, NextFrame
  <1> DEFINE j == k + 1
             f == fr[k + 1]
             plain == Ws!Plain(j, f)
  <1>13. j \in Nat /\ f \in Frames /\ k \in Nat
    BY <1>7, <1>12, ElementOfSeq
  <1>14. d \o input = Ws!Bytes(j, f) \o rest
    BY <1>11
  <1>15. Stream(fr)[j] \o rest = Stream(fr)[Len(fr)] /\ Content(fr)[j] = Content(fr)[k] \o plain
    BY <1>7, <1>11, <1>13, ContentIs
  <1> HIDE DEF all, j, f
  <1>16. /\ n \in 0..Len(d) /\ u \in Seq(StreamCells) /\ Len(u) = Len(d)
         /\ payload = plain /\ Past(u, n) \o input = rest
    <2> DEFINE r == input
    <2>1. /\ d \in Seq(StreamCells) /\ r \in Seq(StreamCells) /\ rest \in Seq(StreamCells)
          /\ j \in Nat /\ f \in Frames
      BY <1>5, <1>6, <1>13
    <2>2. d \o r = Ws!Bytes(j, f) \o rest /\ Ws!Complete(d)
      BY <1>1, <1>14
    <2> HIDE DEF r
    <2>3. Parsed(j, f, d, r, rest)
      BY <2>1, <2>2, FrameAt
    <2>4. /\ Ws!Total(d[2]) \in 0..Len(d) /\ u \in Seq(StreamCells) /\ Len(u) = Len(d) /\ u[2] = d[2]
          /\ SubSeq(u, Ws!Total(d[2]) - d[2].v + 1, Ws!Total(d[2])) = plain
          /\ Past(u, Ws!Total(d[2])) \o r = rest
      BY <2>3 DEF Parsed, u, plain
    <2>5. n = Ws!Total(d[2]) /\ payload = SubSeq(u, Ws!Total(d[2]) - d[2].v + 1, Ws!Total(d[2]))
      BY <2>4 DEF n, payload
    <2> QED BY <2>4, <2>5 DEF r
  <1>17. plain \in Seq(StreamCells) /\ Len(plain) \in Nat
    <2>1. plain \in Seq(FrameCells)
      BY <1>13, PayloadIs
    <2> HIDE DEF plain
    <2> QED BY <2>1, FrameCellsStream
  <1> HIDE DEF plain
  <1>18. Holds(rrbuf', StreamCells) /\ rrbuf'.data = rrbuf.data \o plain
    <2>1. Len(plain) <= Ws!Room(rrbuf)
      BY <1>3, <1>5, <1>16, <1>17, RoomIs
    <2> QED BY <1>1, <1>5, <1>16, <1>17, <2>1, WrittenFits
  <1>19. Holds(rbuf', StreamCells) /\ rbuf'.data = u
    <2>1. \A D, P, x : rbuf \in [data : D, pos : P] => [rbuf EXCEPT !.data = x] = [data |-> x, pos |-> rbuf.pos]
      OBVIOUS
    <2>2. rbuf' = [data |-> u, pos |-> rbuf.pos]
      BY <1>1, <1>5, <2>1 DEF Holds
    <2>3. rbuf.pos \in Nat /\ rbuf.pos + Len(d) <= BufSize
      BY <1>5, RoomIs DEF d
    <2> QED BY <1>16, <2>2, <2>3 DEF Holds
  <1>20. consumed' \o rrbuf'.data = Content(fr)[j]
    <2> DEFINE r == rrbuf.data
    <2>1. r \in Seq(StreamCells)
      BY <1>5, RoomIs
    <2>2. consumed \o r = Content(fr)[k]
      BY <1>8
    <2> HIDE DEF r
    <2>3. Groups(consumed, r, plain)
      BY <1>5, <1>17, <2>1, Regroup
    <2>4. (consumed \o r) \o plain = consumed \o (r \o plain)
      BY <2>3 DEF Groups
    <2> QED BY <1>1, <1>15, <1>18, <2>2, <2>4 DEF r
  <1>21. wspc' # "abort" => Behind' = rest
    BY <1>1, <1>16, <1>19 DEF Behind
  <1>22. Serving'
    <2>1. script'.frames = fr /\ j \in 0..Len(fr)
      BY <1>1, <1>12, <1>13 DEF fr, j
    <2> QED BY <1>15, <1>20, <1>21, <2>1 DEF Serving, Progress
  <1>23. got' \in 0..Len(rbuf'.data)
    BY <1>1, <1>16, <1>19
  <1> QED BY <1>1, <1>5, <1>18, <1>19, <1>22, <1>23 DEF Reading

(* on_read returns: what it took is no longer offered, and the frame       *)
(* leaves rbuf.                                                            *)
LEMMA ReadReturns ==
  ASSUME ReadInv, NEW res \in -1..BufSize, Ws!OnReadReturns(res)
  PROVE  ReadInv'
  <1> DEFINE d == rrbuf.data
             p == SubSeq(d, 1, res)
             q == Past(d, res)
  <1>1. /\ wspc = "on_read" /\ res \in -1..Len(d)
        /\ res > 0 => rrbuf' = Ws!Taken(rrbuf, res) /\ rbuf' = Ws!Taken(rbuf, got)
        /\ consumed' = consumed \o p /\ spoiled' = (spoiled \/ res <= 0)
        /\ wspc' \in {"close", "out", "idle"}
        /\ UNCHANGED <<script, status, input, got>>
    BY DEF Ws!OnReadReturns, Ws!Return
  <1>2. script' \in [request : Requests, frames : FrameLists] /\ spoiled' \in BOOLEAN
    BY <1>1 DEF ReadInv
  <1> SUFFICES ASSUME ~spoiled' PROVE Reading'
    BY <1>2 DEF ReadInv
  <1>3. ~spoiled /\ ~(res <= 0)
    BY <1>1
  <1>4. Reading
    BY <1>3 DEF ReadInv
  <1>5. /\ Holds(rbuf, StreamCells) /\ Holds(rrbuf, StreamCells) /\ got \in 0..Len(rbuf.data)
        /\ input \in Seq(StreamCells) /\ consumed \in Seq(StreamCells)
    BY <1>1, <1>4 DEF Reading
  <1>6. status = "WS_ESTABLISHED" /\ Serving
    BY <1>1, <1>4 DEF Reading, Asking
  <1>7. d \in Seq(StreamCells) /\ Len(d) \in Nat /\ Len(rbuf.data) \in Nat
    BY <1>5, RoomIs
  <1>8. res \in 0..Len(d) /\ res > 0 /\ res \in Nat /\ res <= Len(d)
    <2> HIDE DEF d
    <2> QED BY <1>1, <1>3, <1>7
  <1>9. Holds(rbuf', StreamCells) /\ rbuf'.data = Past(rbuf.data, got)
    <2>1. got \in Nat /\ got <= Len(rbuf.data)
      BY <1>5, <1>7
    <2> QED BY <1>1, <1>5, <1>8, <2>1, TakenHolds DEF Past
  <1>10. Holds(rrbuf', StreamCells) /\ rrbuf'.data = q
    BY <1>1, <1>5, <1>8, TakenHolds DEF Past
  <1> HIDE DEF d
  <1>11. p \in Seq(StreamCells) /\ q \in Seq(StreamCells) /\ p \o q = d
    BY <1>7, <1>8, CutAt
  <1> HIDE DEF p, q
  <1>12. consumed' \in Seq(StreamCells)
    BY <1>1, <1>5, <1>11, ConcatProperties
  <1>13. consumed' \o rrbuf'.data = consumed \o rrbuf.data
    <2>1. Groups(consumed, p, q)
      BY <1>5, <1>11, Regroup
    <2>2. (consumed \o p) \o q = consumed \o (p \o q)
      BY <2>1 DEF Groups
    <2> QED BY <1>1, <1>10, <1>11, <2>2 DEF d
  <1>14. Behind' = Behind
    BY <1>1, <1>9 DEF Behind
  <1>15. Serving'
    BY <1>1, <1>6, <1>13, <1>14, ServingKept
  <1> QED BY <1>1, <1>5, <1>6, <1>9, <1>10, <1>12, <1>15 DEF Reading

LEMMA ReadNext == ReadInv /\ [Ws!Next]_(Ws!vars) => ReadInv'
  <1> SUFFICES ASSUME ReadInv, [Ws!Next]_(Ws!vars) PROVE ReadInv'
    OBVIOUS
  <1>1. CASE Ws!wsconn_start \/ Ws!wsconn_stop \/ Ws!wsconn_release
    BY <1>1, ReadKept DEF Ws!wsconn_start, Ws!wsconn_stop, Ws!wsconn_release, Ws!history
  <1>2. CASE \E n \in SendLens : Ws!wsconn_send(n)
    BY <1>2, ReadKept DEF Ws!wsconn_send, Ws!history
  <1>3. CASE Ws!ReadFails
    BY <1>3, ReadKept DEF Ws!ReadFails, Ws!Readable, Ws!history
  <1>4. CASE Ws!RequestIncomplete
    BY <1>4, DropsRead
  <1>5. CASE Ws!OnBuildReturns
    BY <1>5, BuildReturns
  <1>6. CASE \E n \in 1..BufSize : Ws!WriteSome(n)
    BY <1>6, ReadKept DEF Ws!WriteSome, Ws!Writable, Ws!history
  <1>7. CASE \E n \in 1..BufSize : \E o \in BOOLEAN : Ws!ReadSome(n, o)
    BY <1>7, ReadMoves
  <1>8. CASE \E rest \in Residue : Ws!_wsconn_handshake(rest)
    BY <1>8, Answers
  <1>9. CASE Ws!FrameIncomplete \/ Ws!FrameRefused
    BY <1>9, ReadKept DEF Ws!FrameIncomplete, Ws!FrameRefused, Ws!Return, Ws!history
  <1>10. CASE Ws!_wsconn_frame
    BY <1>10, Parses
  <1>11. CASE \E res \in -1..BufSize : Ws!OnReadReturns(res)
    BY <1>11, ReadReturns
  <1>12. CASE Ws!WriteNothing \/ Ws!WriteFails
    BY <1>12, ReadKept DEF Ws!WriteNothing, Ws!WriteFails, Ws!Writable, Ws!history
  <1>13. CASE Ws!_wsconn_close \/ Ws!OnCloseReturns
    BY <1>13, ReadKept DEF Ws!_wsconn_close, Ws!OnCloseReturns, Ws!history
  <1>14. CASE UNCHANGED Ws!vars
    BY <1>14, ReadKept DEF Ws!vars
  <1> QED BY <1>1, <1>2, <1>3, <1>4, <1>5, <1>6, <1>7, <1>8, <1>9, <1>10, <1>11, <1>12, <1>13, <1>14
          DEF Ws!Next

(* What k frames carry begins what all of them carry.                      *)
LEMMA ContentBegins ==
  ASSUME NEW fr \in Seq(Frames), NEW k \in 0..Len(fr)
  PROVE  LET a == Content(fr)[k]
             all == Content(fr)[Len(fr)]
         IN a = SubSeq(all, 1, Len(a))
  <1> DEFINE a == Content(fr)[k]
             all == Content(fr)[Len(fr)]
  <1>1. Len(fr) \in 0..Len(fr)
    OBVIOUS
  <1>2. Grows(Content(fr), Len(fr), FrameCells)
    BY ContentIs
  <1>3. a \in Seq(FrameCells) /\ \E r \in Seq(FrameCells) : all = a \o r
    BY <1>1, <1>2 DEF Grows
  <1> HIDE DEF a, all
  <1>4. PICK r \in Seq(FrameCells) : all = a \o r
    BY <1>3
  <1>5. /\ a \o r \in Seq(FrameCells) /\ Len(a \o r) = Len(a) + Len(r)
        /\ \A i \in 1..Len(a) + Len(r) : (a \o r)[i] = IF i <= Len(a) THEN a[i] ELSE r[i - Len(a)]
    BY <1>3, ConcatProperties
  <1> DEFINE w == a \o r
             p == SubSeq(w, 1, Len(a))
  <1>6. Len(a) \in Nat /\ Len(r) \in Nat
    BY <1>3
  <1>7. w \in Seq(FrameCells) /\ Len(a) <= Len(w) /\ \A i \in 1..Len(a) : w[i] = a[i]
    BY <1>5, <1>6
  <1> HIDE DEF w
  <1>8. p \in Seq(FrameCells) /\ Len(p) = Len(a) /\ \A i \in 1..Len(a) : p[i] = w[i]
    BY <1>6, <1>7
  <1> HIDE DEF p
  <1>9. p = a
    BY <1>3, <1>7, <1>8, SeqEqual
  <1> QED BY <1>4, <1>9 DEF a, all, p, w

(* net/wsconn.c, for any requests, frames, buffer size and limits: however *)
(* the bytes are cut into reads, and however little of it on_read takes at *)
(* a time, it is offered the payload of the frames, unmasked and in order, *)
(* nothing skipped and nothing twice.                                      *)
THEOREM PayloadArrives == MCSpec => []Delivered
  <1>1. ASSUME ReadInv, status = "WS_ESTABLISHED", ~spoiled
        PROVE  LET offered == consumed \o rrbuf.data
               IN offered = SubSeq(Ws!Sent, 1, Len(offered))
    <2> DEFINE fr == script.frames
    <2>1. fr \in Seq(Frames)
      BY <1>1, ScriptIs DEF ReadInv
    <2>2. PICK k \in 0..Len(fr) : consumed \o rrbuf.data = Content(fr)[k]
      BY <1>1 DEF ReadInv, Reading, Serving, Progress
    <2>3. Ws!Sent = Content(fr)[Len(fr)]
      BY ContentIsSent
    <2> HIDE DEF fr
    <2> QED BY <2>1, <2>2, <2>3, ContentBegins
  <1>2. ReadInv => Delivered
    BY <1>1 DEF Delivered, Ws!Delivered
  <1> QED BY <1>2, WsRefines, ReadInit, ReadNext, PTL DEF MCSpec

=============================================================================
