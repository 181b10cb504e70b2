--------------------------------- MODULE Fsm -------------------------------
(***************************************************************************)
(* core/fsm.c: statuses and events in two Idtables, rules in a Hash.  The  *)
(* application's callbacks (an event's handle, a status's exit and enter)  *)
(* run inside fsm_trigger and may call it again: calls is the stack of the *)
(* triggers in progress.  The machine is started before the first trigger; *)
(* statuses, events and rules are registered at any time, from callbacks   *)
(* too.  It is not started or released from inside a callback.             *)
(***************************************************************************)
EXTENDS Integers, Sequences

CONSTANTS FsmSize,            \* the size given to fsm_create
          Statuses, Events,   \* ids the application registers
          RetCodes,           \* what event handlers return
          RuleHash(_),        \* hash_jhash of a rule's input
          MaxRules,           \* bound on the rules registered
          MaxNesting          \* bound on the triggers in progress

VARIABLES
  status_table, events_table,  \* Idtables
  rules_table,                 \* a Hash
  current,                     \* fsm->current
  calls,                       \* the fsm_trigger calls in progress, the innermost last
  inside,                      \* history: the status entered and not exited, or None
  reentered                    \* history: callbacks that called fsm_trigger themselves

vars == <<status_table, events_table, rules_table, current, calls, inside, reentered>>
tables == <<status_table, events_table, rules_table>>

FSM_WILDCARD_STATUS == -1
None == 0
FSM_EVENTS_SIZE == (FsmSize * (FsmSize - 1)) \div 2
FSM_RULES_SIZE == FsmSize * (FsmSize - 1) * 2

(* 0, which Hash takes for equal, when a's input is not the smaller one.   *)
_fsm_rule_cmp(a, b) ==
  IF \/ a.status < b.status
     \/ a.status = b.status /\ a.event < b.event
     \/ a.status = b.status /\ a.event = b.event /\ a.ret < b.ret
  THEN 1 ELSE 0

Rules == [status : Statuses \cup {FSM_WILDCARD_STATUS}, event : Events, ret : RetCodes,
          to : Statuses \cup {FSM_WILDCARD_STATUS}]
SameInput(a, b) == a.status = b.status /\ a.event = b.event /\ a.ret = b.ret

H == INSTANCE Hash WITH Data <- Rules, m_size <- 3 * FSM_RULES_SIZE, HashOf <- RuleHash,
       cmp <- _fsm_rule_cmp, MaxCount <- MaxRules,
       htable <- rules_table, entered <- {}, lost <- 0
T == INSTANCE Idtable WITH Ids <- Statuses, IdSlots <- FsmSize,
       slots <- status_table, kept <- {}, cut <- FALSE

(* fsm_create *)
Init ==
  /\ status_table = T!Empty(FsmSize)
  /\ events_table = T!Empty(FSM_EVENTS_SIZE)
  /\ rules_table = H!Empty
  /\ current = FSM_WILDCARD_STATUS
  /\ calls = <<>> /\ inside = None /\ reentered = {}

----------------------------------------------------------------------------
fsm_register_status(s) ==
  /\ ~T!idtable_get(status_table, s) /\ T!Probe(status_table, s, T!None) # {}
  /\ status_table' = T!Added(status_table, s)
  /\ UNCHANGED <<events_table, rules_table, current, calls, inside, reentered>>

fsm_register_event(e) ==
  /\ ~T!idtable_get(events_table, e) /\ T!Probe(events_table, e, T!None) # {}
  /\ events_table' = T!Added(events_table, e)
  /\ UNCHANGED <<status_table, rules_table, current, calls, inside, reentered>>

Known(s) == s = FSM_WILDCARD_STATUS \/ T!idtable_get(status_table, s)

(* A rule hash_insert takes for one it has is refused with FSM_EXISTED.    *)
fsm_register_rule(r) ==
  /\ rules_table.count < FSM_RULES_SIZE /\ rules_table.count < MaxRules
  /\ T!idtable_get(events_table, r.event) /\ Known(r.status) /\ Known(r.to)
  /\ H!Place(rules_table, r) = 0
  /\ rules_table' = H!Inserted(rules_table, r)
  /\ UNCHANGED <<status_table, events_table, current, calls, inside, reentered>>

fsm_start(s) ==
  /\ calls = <<>> /\ T!idtable_get(status_table, s)
  /\ current' = s /\ inside' = s /\ reentered' = {}
  /\ UNCHANGED <<tables, calls>>

Top == calls[Len(calls)]
Pop == SubSeq(calls, 1, Len(calls) - 1)

(* Called by the application, or by the callback that runs; the status of  *)
(* the lookup is read before the handler is called.                        *)
fsm_trigger(e) ==
  /\ Len(calls) < MaxNesting /\ current # FSM_WILDCARD_STATUS
  /\ T!idtable_get(events_table, e)
  /\ calls' = Append(calls, [at |-> "handle", event |-> e, status |-> current, to |-> None])
  /\ reentered' = IF calls = <<>> THEN {} ELSE reentered \cup {Top.at}
  /\ UNCHANGED <<tables, current, inside>>

(* Fault: the wildcard rules are looked up first.                          *)
RuleWildcardFirst(s, e, r) ==
  LET Input(x) == [status |-> x, event |-> e, ret |-> r]
      any == H!hash_find(rules_table, Input(FSM_WILDCARD_STATUS))
  IN IF any # {} THEN any ELSE H!hash_find(rules_table, Input(s))

(* The rule hash_find returns for the status, else for the wildcard.       *)
RuleFor(s, e, r) ==
  LET Input(x) == [status |-> x, event |-> e, ret |-> r]
      exact == H!hash_find(rules_table, Input(s))
  IN IF exact # {} THEN exact ELSE H!hash_find(rules_table, Input(FSM_WILDCARD_STATUS))

(* handle returns r: without a rule, or with one that keeps the status,    *)
(* the trigger returns; else exit is called.                               *)
HandleReturns(r) ==
  LET rules == RuleFor(Top.status, Top.event, r)
      moves == {x \in rules : x.to \notin {current, FSM_WILDCARD_STATUS}}
  IN /\ calls # <<>> /\ Top.at = "handle"
     /\ \/ moves = {} /\ calls' = Pop /\ UNCHANGED inside
        \/ \E x \in moves :
             /\ calls' = Append(Pop, [Top EXCEPT !.at = "exit", !.to = x.to])
             /\ inside' = None
     /\ UNCHANGED <<tables, current, reentered>>

(* exit returns: the status changes and enter is called.                   *)
ExitReturns ==
  /\ calls # <<>> /\ Top.at = "exit"
  /\ calls' = Append(Pop, [Top EXCEPT !.at = "enter"])
  /\ current' = Top.to /\ inside' = Top.to
  /\ UNCHANGED <<tables, reentered>>

(* Fault: the status is assigned after enter, which may have changed it.   *)
EnterReturnsAssigns ==
  /\ calls # <<>> /\ Top.at = "enter"
  /\ calls' = Pop /\ current' = Top.to
  /\ UNCHANGED <<tables, inside, reentered>>

EnterReturns ==
  /\ calls # <<>> /\ Top.at = "enter"
  /\ calls' = Pop
  /\ UNCHANGED <<tables, current, inside, reentered>>

(* And the fsm_create of another machine.                                  *)
fsm_release ==
  /\ calls = <<>> /\ status_table # T!Empty(FsmSize)
  /\ status_table' = T!Empty(FsmSize)
  /\ events_table' = T!Empty(FSM_EVENTS_SIZE)
  /\ rules_table' = H!Empty
  /\ current' = FSM_WILDCARD_STATUS /\ inside' = None /\ reentered' = {}
  /\ UNCHANGED calls

Next ==
  \/ fsm_release
  \/ \E s \in Statuses : fsm_register_status(s) \/ fsm_start(s)
  \/ \E e \in Events : fsm_register_event(e) \/ fsm_trigger(e)
  \/ \E r \in Rules : fsm_register_rule(r)
  \/ \E r \in RetCodes : HandleReturns(r)
  \/ ExitReturns \/ EnterReturns

Spec == Init /\ [][Next]_vars

----------------------------------------------------------------------------
(* Properties *)

Chained(r, c) == \E i \in 1..Len(c) : c[i] = r
Registered == {r \in Rules : \E b \in DOMAIN rules_table.chain : Chained(r, rules_table.chain[b])}

(* Two rules that share a bucket confuse _fsm_rule_cmp.                    *)
Collision == \E a, b \in Rules : a \in Registered /\ ~SameInput(a, b)
                                 /\ H!Bucket(a) = H!Bucket(b)

(* "First look for exact rule, then try wildcard rules" (fsm.h): once a    *)
(* handler has answered r, the status left is the one the application is   *)
(* in, and the one to be entered is the exact rule's, or the wildcard's    *)
(* where no exact rule is registered.  It holds across nested triggers     *)
(* from enter and exit callbacks, not for one whose own handler changed    *)
(* the status meanwhile, nor where rules collide in the table.             *)
Legal ==
  [][\A r \in RetCodes :
       HandleReturns(r) /\ "handle" \notin reentered /\ ~Collision =>
         LET exact == {x \in Registered : SameInput(x, [status |-> current, event |-> Top.event, ret |-> r])}
             any == {x \in Registered : SameInput(x, [status |-> FSM_WILDCARD_STATUS,
                                                      event |-> Top.event, ret |-> r])}
             to == {x.to : x \in IF exact # {} THEN exact ELSE any} \ {current, FSM_WILDCARD_STATUS}
         IN IF to = {} THEN Len(calls') < Len(calls)
            ELSE Len(calls') = Len(calls) /\ calls'[Len(calls)].to \in to]_vars

(* A status is exited only after it was entered, and entered only when the *)
(* one before was exited, however handlers and enter callbacks trigger     *)
(* further events, as long as no exit callback does.                       *)
Paired ==
  "exit" \notin reentered /\ current # FSM_WILDCARD_STATUS =>
    inside = IF \E i \in DOMAIN calls : calls[i].at = "exit" THEN None ELSE current
=============================================================================
