-------------------------------- MODULE Bus --------------------------------
(***************************************************************************)
(* logic/bus.c: terminals (processes) that exchange messages over          *)
(* shared-memory pipes, one ring buffer per ordered pair, with a directory *)
(* (bus_head) in shared memory.  The directory is changed only under a     *)
(* System V semaphore (core/lock.c); each terminal caches the parts of it  *)
(* that concern it and refreshes the cache when a version number moved,    *)
(* which it looks at WITHOUT the lock.                                     *)
(*                                                                         *)
(* bus.c looks at no result of lock_lock: a process whose semop fails goes *)
(* on into the critical section and raises the semaphore when it leaves.   *)
(*                                                                         *)
(* A ring is the queue module RBuffer shows rbuffer.c to be, with a step   *)
(* before the commit of each operation; rbuffer_attach takes two steps as  *)
(* well.  An operation of one end that overlaps an attach of the other     *)
(* leaves positions in the ring that fit neither: the pipe is "torn", its  *)
(* sends succeed or fail and its reads yield whatever lies there, of which *)
(* nothing is recorded any more.  What a call returns is left out: no      *)
(* terminal's next call depends on it here.  A terminal is one thread.     *)
(***************************************************************************)
EXTENDS Integers, Sequences, FiniteSets

CONSTANTS Terms,     \* the addresses, one process each ("distinct address is ensured by user")
          MaxTerms,  \* BUS_MAX_TERMINAL_COUNT
          MaxPipes,  \* BUS_MAX_PIPE_COUNT
          RingCap,   \* messages that fit a pipe
          MaxSend,   \* bound: messages submitted in a behaviour
          MaxStops,  \* bound: releases and crashes in a behaviour
          MaxFails   \* bound: semget and semop calls that fail in a behaviour

ASSUME BoundsAssumption ==
  /\ MaxTerms \in Nat \ {0} /\ MaxPipes \in Nat /\ RingCap \in Nat
  /\ MaxSend \in Nat /\ MaxStops \in Nat /\ MaxFails \in Nat
ASSUME TermsAssumption == "none" \notin Terms

VARIABLES
  sem,     \* -1 (none yet) or the value of the semaphore
  nosem,   \* the processes whose semid is -1
  head,    \* the directory: exists, terms, tver, pipes, pver
  ring,    \* contents of each pipe's ring buffer
  att,     \* the pipes each process is inside rbuffer_attach of
  torn,    \* the pipes one end attached while the other was at work on them
  pc,      \* where each process is
  bt,      \* each process's bus_t: cached versions, terminals and pipe tables
  cont,    \* where to go after the unlock, or after bus_poll
  to,      \* target of the bus_send in progress ("none": no send)
  left,    \* addresses bus_send_all or _by_type still sends to when it comes to them
  msg,     \* the message being sent (0: none)
  src,     \* whose pipe the rbuffer_read in progress reads ("none": no read)
  sent,    \* history: number of messages submitted so far
  got,     \* history: what each pipe's reader received, in order
  okd,     \* history: messages bus_send returned BUS_OK for
  stops,   \* number of releases and crashes so far
  failed   \* number of semget and semop calls that failed so far

semVars == <<sem, nosem, failed>>
ringVars == <<ring, att, torn>>
callVars == <<to, left, msg, src>>
history == <<sent, got, okd, stops>>
vars == <<semVars, head, ringVars, pc, bt, cont, callVars, history>>

Pairs == {ft \in Terms \X Terms : ft[1] # ft[2]}
Elems(s) == {s[i] : i \in 1..Len(s)}
NoBus == [tver |-> 0, pver |-> 0, terms |-> <<>>, opipes |-> {}, ipipes |-> {}]

Init ==
  /\ sem = -1 /\ nosem = {} /\ failed = 0
  /\ head = [exists |-> FALSE, terms |-> <<>>, tver |-> 0, pipes |-> <<>>, pver |-> 0]
  /\ ring = [ft \in Pairs |-> <<>>]
  /\ att = [p \in Terms |-> {}] /\ torn = {}
  /\ pc = [p \in Terms |-> "down"]
  /\ bt = [p \in Terms |-> NoBus]
  /\ cont = [p \in Terms |-> "idle"]
  /\ to = [p \in Terms |-> "none"]
  /\ left = [p \in Terms |-> {}]
  /\ msg = [p \in Terms |-> 0]
  /\ src = [p \in Terms |-> "none"]
  /\ sent = 0 /\ stops = 0
  /\ got = [ft \in Pairs |-> <<>>]
  /\ okd = [ft \in Pairs |-> {}]

----------------------------------------------------------------------------
(* core/lock.c.  lock_create: the process that creates the semaphore also  *)
(* sets it to 1, in a second system call.  A semget that fails for another *)
(* reason than EEXIST leaves a lock whose semid is -1.  When the second    *)
(* semget fails the process aborts where it is; when SETVAL does, that is  *)
(* Crash at "setval".                                                      *)

(* Fault: the semaphore is initialised by whoever opens it.                *)
LockCreateAlwaysSets(p) ==
  /\ pc[p] = "down"
  /\ sem' = (IF sem = -1 THEN 0 ELSE sem)
  /\ pc' = [pc EXCEPT ![p] = "setval"]
  /\ nosem' = nosem \ {p} /\ bt' = [bt EXCEPT ![p] = NoBus]
  /\ UNCHANGED <<failed, head, ringVars, cont, callVars, history>>

lock_create(p) ==
  /\ pc[p] = "down"
  /\ \/ /\ sem = -1 /\ sem' = 0
        /\ pc' = [pc EXCEPT ![p] = "setval"]
        /\ nosem' = nosem \ {p} /\ failed' = failed
     \/ /\ sem # -1 /\ sem' = sem
        /\ pc' = [pc EXCEPT ![p] = "create"]
        /\ nosem' = nosem \ {p} /\ failed' = failed
     \/ /\ sem = -1 /\ sem' = sem
        /\ failed < MaxFails /\ failed' = failed + 1
        /\ pc' = [pc EXCEPT ![p] = "create"]
        /\ nosem' = nosem \cup {p}
  /\ bt' = [bt EXCEPT ![p] = NoBus]
  /\ UNCHANGED <<head, ringVars, cont, callVars, history>>

lock_setval(p) ==
  /\ pc[p] = "setval"
  /\ sem' = 1
  /\ pc' = [pc EXCEPT ![p] = "create"]
  /\ UNCHANGED <<nosem, failed, head, ringVars, bt, cont, callVars, history>>

(* semop waits for a positive value; it fails without a semaphore, and when*)
(* a signal, or a stop and continue, ends the wait.                        *)
lock_lock(p) ==
  /\ nosem' = nosem
  /\ \/ p \notin nosem /\ sem > 0 /\ sem' = sem - 1 /\ failed' = failed
     \/ /\ p \in nosem \/ sem = 0
        /\ failed < MaxFails /\ failed' = failed + 1
        /\ sem' = sem

(* lock_lock returned, with or without the lock, and the process is inside *)
(* the critical section; after the unlock it continues at next.            *)
Locked(p, at, next) ==
  /\ lock_lock(p)
  /\ pc' = [pc EXCEPT ![p] = at]
  /\ cont' = [cont EXCEPT ![p] = next]

lock_unlock(p) ==
  /\ pc[p] = "unlock"
  /\ sem' = (IF p \in nosem THEN sem ELSE sem + 1)
  /\ pc' = [pc EXCEPT ![p] = cont[p]]
  /\ cont' = [cont EXCEPT ![p] = "idle"]
  /\ UNCHANGED <<nosem, failed, head, ringVars, bt, callVars, history>>

----------------------------------------------------------------------------
(* rbuffer_attach, which sets both positions to zero in two stores.        *)

(* q is between the room check and the commit of a write to the pipe, or   *)
(* between the peek and the commit of a read.                              *)
Using(q, ft) ==
  \/ pc[q] = "commit" /\ ft = <<q, to[q]>>
  \/ pc[q] = "read" /\ ft = <<src[q], q>>

HalfDone == UNION {att[q] : q \in Terms}

Emptied(S) == [ft \in Pairs |-> IF ft \in S THEN <<>> ELSE ring[ft]]
Raced(S) == {ft \in S : \E q \in Terms : Using(q, ft)}

(* p begins to attach the pipes of S, inside the critical section.         *)
AttachBegin(p, S) ==
  /\ ring' = Emptied(S)
  /\ torn' = torn \cup Raced(S)
  /\ att' = [att EXCEPT ![p] = S]

AttachEnd(p) ==
  /\ pc[p] = "attach"
  /\ pc' = [pc EXCEPT ![p] = "unlock"]
  /\ att' = [att EXCEPT ![p] = {}]
  /\ UNCHANGED <<semVars, head, ring, torn, bt, cont, callVars, history>>

(* An operation that begins on a pipe the other end is attaching.          *)
TornBy(ft) == torn \cup ({ft} \cap HalfDone)

----------------------------------------------------------------------------
(* The cache.  _bus_update_pipes attaches every pipe of the directory that *)
(* starts or ends at p and is not in p's tables yet; rbuffer_attach sets   *)
(* both positions of that ring to zero.                                    *)

_bus_update_terminals(p, h, b) == [b EXCEPT !.tver = h.tver, !.terms = h.terms]

NewOut(p, h, b) == {t \in Terms : <<p, t>> \in Elems(h.pipes) /\ t \notin b.opipes}
NewIn(p, h, b) == {from \in Terms : <<from, p>> \in Elems(h.pipes) /\ from \notin b.ipipes}

_bus_update_pipes(p, h, b) ==
  [b EXCEPT !.pver = h.pver, !.opipes = @ \cup NewOut(p, h, b), !.ipipes = @ \cup NewIn(p, h, b)]

(* Fault: pipes that are in the tables already are attached again.         *)
AttachedAgain(p, h, b) == {ft \in Elems(h.pipes) : ft[1] = p \/ ft[2] = p}

Attached(p, h, b) ==
  {<<p, t>> : t \in NewOut(p, h, b)} \cup {<<from, p>> : from \in NewIn(p, h, b)}

(* Past the attach when there is nothing to attach.                        *)
ToAttach(S) == IF S = {} THEN "unlock" ELSE "attach"

(* _bus_create_attach: the terminal is in the directory already.           *)
Registered(p) == \E i \in 1..Len(head.terms) : head.terms[i] = p

(* bus_create, as far as it looks at the directory: the first terminal     *)
(* makes it, a later one enters itself unless it is there already or the   *)
(* directory is full.                                                      *)
bus_create(p) ==
  /\ pc[p] = "create"
  /\ \/ ~head.exists /\ Locked(p, "make", "idle")
     \/ head.exists /\ Registered(p) /\ Locked(p, "listed", "idle")
     \/ /\ head.exists /\ ~Registered(p)
        /\ IF Len(head.terms) < MaxTerms
           THEN Locked(p, "join", "idle") ELSE Locked(p, "unlock", "down")
  /\ UNCHANGED <<head, bt, ringVars, callVars, history>>

(* The rest of it: the directory is written and the cache filled.          *)
Directory(p) ==
  CASE pc[p] = "make" ->
         [exists |-> TRUE, terms |-> <<p>>, tver |-> 1, pipes |-> <<>>, pver |-> 1]
    [] pc[p] = "join" -> [head EXCEPT !.terms = Append(@, p), !.tver = @ + 1]
    [] OTHER -> head

_bus_create_attach(p) ==
  LET h == Directory(p)
  IN /\ pc[p] \in {"make", "join", "listed"}
     /\ head' = h
     /\ bt' = [bt EXCEPT ![p] = _bus_update_pipes(p, h, _bus_update_terminals(p, h, @))]
     /\ AttachBegin(p, Attached(p, h, bt[p]))
     /\ pc' = [pc EXCEPT ![p] = ToAttach(Attached(p, h, bt[p]))]
     /\ UNCHANGED <<semVars, cont, callVars, history>>

(* bus_poll: the versions are compared without the lock.  It is called by  *)
(* the application, and by _bus_register_pipe when a send finds no pipe.   *)
PollTerms(p) ==
  /\ pc' = [pc EXCEPT ![p] = IF head.tver # bt[p].tver THEN "upd_t" ELSE "poll_p"]
  /\ UNCHANGED <<semVars, head, ringVars, bt, cont, callVars, history>>

bus_poll(p) == pc[p] = "idle" /\ PollTerms(p)

UpdateTerms(p) ==
  /\ pc[p] = "upd_t"
  /\ Locked(p, "unlock", "poll_p")
  /\ bt' = [bt EXCEPT ![p] = _bus_update_terminals(p, head, @)]
  /\ UNCHANGED <<head, ringVars, callVars, history>>

(* Fault: the pipe is looked up again after the poll, never registered.    *)
AfterPollRetry(p) == IF to[p] = "none" THEN "idle" ELSE "send"

(* The end of a poll: back to the caller, or on to _bus_register_pipe.     *)
AfterPoll(p) == IF to[p] = "none" THEN "idle" ELSE "register"

PollPipes(p) ==
  /\ pc[p] = "poll_p"
  /\ pc' = [pc EXCEPT ![p] = IF head.pver # bt[p].pver THEN "upd_p" ELSE AfterPoll(p)]
  /\ UNCHANGED <<semVars, head, ringVars, bt, cont, callVars, history>>

UpdatePipes(p) ==
  /\ pc[p] = "upd_p"
  /\ Locked(p, ToAttach(Attached(p, head, bt[p])), AfterPoll(p))
  /\ bt' = [bt EXCEPT ![p] = _bus_update_pipes(p, head, @)]
  /\ AttachBegin(p, Attached(p, head, bt[p]))
  /\ UNCHANGED <<head, callVars, history>>

----------------------------------------------------------------------------
(* Sending.  bus_send_all and bus_send_by_type go through the CACHED        *)
(* terminals, which a bus_poll on the way may extend, and stop at the first*)
(* error.  The cached terminals are distinct and only added to at the end, *)
(* so instead of an index the loop keeps the addresses it has not sent to. *)

(* The first terminal of the sequence that is in S, if there is one.       *)
FirstOf(terms, S) ==
  {t \in S : \E i \in 1..Len(terms) : terms[i] = t /\ \A j \in 1..(i - 1) : terms[j] \notin S}

Submit(p, target, others) ==
  /\ pc[p] = "idle" /\ sent < MaxSend
  /\ sent' = sent + 1 /\ msg' = [msg EXCEPT ![p] = sent + 1]
  /\ to' = [to EXCEPT ![p] = target]
  /\ left' = [left EXCEPT ![p] = others]
  /\ pc' = [pc EXCEPT ![p] = "send"]
  /\ UNCHANGED <<semVars, head, ringVars, bt, cont, src, got, okd, stops>>

bus_send(p, target) == Submit(p, target, {})
bus_send_by_type(p, among) ==
  \E t \in FirstOf(bt[p].terms, among \ {p}) : Submit(p, t, among \ {p, t})
bus_send_all(p) == bus_send_by_type(p, Terms)

(* The pipe is looked up in opipes; without one bus_poll runs first, then  *)
(* _bus_register_pipe, which fails when the versions differ once more.     *)
HasPipe(p) == to[p] \in bt[p].opipes
SendPoll(p) == pc[p] = "send" /\ ~HasPipe(p) /\ PollTerms(p)

(* Fault: the version is not compared again under the lock.                *)
RefusedButStale(p) ==
  Len(head.pipes) >= MaxPipes \/ to[p] = p \/ to[p] \notin Elems(head.terms)

(* Why _bus_register_pipe refuses: the versions moved after its bus_poll,  *)
(* the directory is full, the target is not in it, or is the sender.       *)
Refused(p) ==
  \/ bt[p].pver # head.pver
  \/ Len(head.pipes) >= MaxPipes
  \/ to[p] \notin Elems(head.terms)
  \/ to[p] = p

(* Fault: the version is not moved, the others are not told.               *)
EnteredSilently(h, p, t) == [h EXCEPT !.pipes = Append(@, <<p, t>>)]

(* The directory with the new pipe in it.                                  *)
Entered(h, p, t) == [h EXCEPT !.pipes = Append(@, <<p, t>>), !.pver = @ + 1]

(* No send in progress any more.                                            *)
NoSend(p) ==
  /\ to' = [to EXCEPT ![p] = "none"] /\ left' = [left EXCEPT ![p] = {}]
  /\ msg' = [msg EXCEPT ![p] = 0]

(* The checks of _bus_register_pipe.  It also fails when _bus_pipe_create   *)
(* gets no shared memory; pipes[pcount] is then filled in but not counted. *)
_bus_register_pipe(p) ==
  /\ pc[p] = "register"
  /\ \/ Locked(p, "unlock", "idle") /\ NoSend(p)
     \/ ~Refused(p) /\ Locked(p, "enter", "send") /\ UNCHANGED <<to, left, msg>>
  /\ UNCHANGED <<head, bt, ringVars, src, history>>

(* The pipe is created, attached (nobody else can have it yet) and entered.*)
_bus_pipe_create(p) ==
  /\ pc[p] = "enter"
  /\ pc' = [pc EXCEPT ![p] = "unlock"]
  /\ head' = Entered(head, p, to[p])
  /\ bt' = [bt EXCEPT ![p].opipes = @ \cup {to[p]}, ![p].pver = head'.pver]
  /\ ring' = Emptied({<<p, to[p]>>}) /\ torn' = torn \cup Raced({<<p, to[p]>>})
  /\ UNCHANGED <<semVars, att, cont, callVars, history>>

(* bus_send has failed, and the loop with it.                              *)
SendFails(p) ==
  /\ NoSend(p) /\ pc' = [pc EXCEPT ![p] = "idle"]
  /\ UNCHANGED <<semVars, head, ring, att, bt, cont, src, history>>

(* rbuffer_write up to the commit: the room check and the copies, which    *)
(* nobody sees.  In a torn ring the positions may leave room or not.       *)
RingCopy(p) ==
  LET ft == <<p, to[p]>>
  IN /\ pc[p] = "send" /\ HasPipe(p)
     /\ torn' = TornBy(ft)
     /\ \/ /\ ft \in torn' \/ Len(ring[ft]) < RingCap
           /\ pc' = [pc EXCEPT ![p] = "commit"]
           /\ UNCHANGED <<semVars, head, ring, att, bt, cont, callVars, history>>
        \/ /\ ft \in torn' \/ Len(ring[ft]) >= RingCap
           /\ SendFails(p)

(* The commit, with which bus_send succeeds: the loop goes on to its next  *)
(* target.                                                                 *)
RingCommit(p) ==
  LET ft == <<p, to[p]>>
      next == FirstOf(bt[p].terms, left[p])
  IN /\ pc[p] = "commit"
     /\ ring' = [ring EXCEPT ![ft] = IF ft \in torn THEN @ ELSE Append(@, msg[p])]
     /\ okd' = [okd EXCEPT ![ft] = @ \cup {msg[p]}]
     /\ \/ next = {} /\ NoSend(p) /\ pc' = [pc EXCEPT ![p] = "idle"]
        \/ \E t \in next : /\ to' = [to EXCEPT ![p] = t]
                          /\ left' = [left EXCEPT ![p] = @ \ {t}]
                          /\ pc' = [pc EXCEPT ![p] = "send"] /\ msg' = msg
     /\ UNCHANGED <<semVars, head, att, torn, bt, cont, src, sent, got, stops>>

----------------------------------------------------------------------------
(* Receiving.                                                              *)

(* rbuffer_read up to the commit: a message is there and is copied out.    *)
(* What a torn ring yields is not followed; one that is being attached     *)
(* becomes torn.                                                           *)
RingPeek(p, from) ==
  LET ft == <<from, p>>
  IN /\ torn' = TornBy(ft)
     /\ \/ ft \in torn' /\ UNCHANGED <<pc, src>>
        \/ /\ ft \notin torn' /\ ring[ft] # <<>>
           /\ pc' = [pc EXCEPT ![p] = "read"]
           /\ src' = [src EXCEPT ![p] = from]
     /\ UNCHANGED <<semVars, head, ring, att, bt, cont, to, left, msg, history>>

bus_recv(p, from) == pc[p] = "idle" /\ from \in bt[p].ipipes /\ RingPeek(p, from)

(* bus_recv_all: the first pipe, from a rotating start, that has a message.*)
bus_recv_all(p) == pc[p] = "idle" /\ \E from \in bt[p].ipipes : RingPeek(p, from)

(* Fault: the message is handed out but not consumed.                      *)
PeekedOnly(ft) == ring' = ring /\ got' = [got EXCEPT ![ft] = Append(@, Head(ring[ft]))]

Consumed(ft) ==
  /\ ring' = [ring EXCEPT ![ft] = Tail(@)]
  /\ got' = [got EXCEPT ![ft] = Append(@, Head(ring[ft]))]

ReadCommit(p) ==
  LET ft == <<src[p], p>>
  IN /\ pc[p] = "read"
     /\ IF ft \in torn THEN UNCHANGED <<ring, got>> ELSE Consumed(ft)
     /\ pc' = [pc EXCEPT ![p] = "idle"]
     /\ src' = [src EXCEPT ![p] = "none"]
     /\ UNCHANGED <<semVars, head, att, torn, bt, cont, to, left, msg, sent, okd, stops>>

----------------------------------------------------------------------------
(* The end of a process: bus_release, or death at any point.  Neither      *)
(* touches shared memory; a dead holder keeps the semaphore (no SEM_UNDO), *)
(* and a ring half attached stays so.                                      *)
Stop(p) ==
  /\ stops < MaxStops /\ stops' = stops + 1
  /\ pc' = [pc EXCEPT ![p] = "down"]
  /\ bt' = [bt EXCEPT ![p] = NoBus]
  /\ cont' = [cont EXCEPT ![p] = "idle"]
  /\ NoSend(p) /\ src' = [src EXCEPT ![p] = "none"]
  /\ torn' = torn \cup att[p] /\ att' = [att EXCEPT ![p] = {}]
  /\ UNCHANGED <<semVars, head, ring, sent, got, okd>>

bus_release(p) == pc[p] = "idle" /\ Stop(p)
Crash(p) == pc[p] \notin {"down", "idle"} /\ Stop(p)

----------------------------------------------------------------------------
Call(p) == \* the application's choices
  \/ lock_create(p)
  \/ bus_poll(p)
  \/ \E t \in Terms : bus_send(p, t)
  \/ \E among \in SUBSET Terms : bus_send_by_type(p, among)
  \/ bus_send_all(p)
  \/ \E from \in Terms \ {p} : bus_recv(p, from)
  \/ bus_recv_all(p)

Step(p) == \* what a process inside a call does next
  \/ lock_setval(p) \/ lock_unlock(p) \/ bus_create(p) \/ _bus_create_attach(p)
  \/ UpdateTerms(p) \/ PollPipes(p) \/ UpdatePipes(p) \/ AttachEnd(p)
  \/ SendPoll(p) \/ _bus_register_pipe(p) \/ _bus_pipe_create(p)
  \/ RingCopy(p) \/ RingCommit(p) \/ ReadCommit(p)

Next == \E p \in Terms : Call(p) \/ Step(p) \/ bus_release(p) \/ Crash(p)
Spec == Init /\ [][Next]_vars

(* A process inside a call runs on, and semop wakes the waiters fairly;    *)
(* every process is started, polls and receives in every tick, as bus.h    *)
(* asks and test_bus.c does.                                               *)
Fairness ==
  \A p \in Terms : /\ SF_vars(Step(p)) /\ WF_vars(lock_create(p))
                   /\ SF_vars(bus_poll(p)) /\ SF_vars(bus_recv_all(p))
FairSpec == Spec /\ Fairness

----------------------------------------------------------------------------
(* Properties.                                                             *)

Places == {"down", "setval", "create", "make", "join", "listed", "attach", "unlock", "idle",
           "upd_t", "poll_p", "upd_p", "send", "register", "enter", "commit", "read"}
Up(p) == pc[p] \notin {"down", "setval", "create", "make", "join", "listed"}
Inside == {p \in Terms : pc[p] \in {"make", "join", "listed", "enter", "attach", "unlock"}}
PipesOf(h) == Elems(h.pipes)

TypeOK ==
  /\ sem \in Nat \cup {-1} /\ nosem \subseteq Terms /\ failed \in Nat
  /\ head \in [exists : BOOLEAN, terms : Seq(Terms), tver : Nat, pipes : Seq(Pairs), pver : Nat]
  /\ ring \in [Pairs -> Seq(Nat)] /\ att \in [Terms -> SUBSET Pairs] /\ torn \subseteq Pairs
  /\ pc \in [Terms -> Places]
  /\ bt \in [Terms -> [tver : Nat, pver : Nat, terms : Seq(Terms),
                       opipes : SUBSET Terms, ipipes : SUBSET Terms]]
  /\ cont \in [Terms -> {"idle", "down", "poll_p", "register", "send"}]
  /\ to \in [Terms -> Terms \cup {"none"}] /\ left \in [Terms -> SUBSET Terms]
  /\ msg \in [Terms -> Nat] /\ src \in [Terms -> Terms \cup {"none"}]
  /\ sent \in Nat /\ stops \in Nat
  /\ got \in [Pairs -> Seq(Nat)] /\ okd \in [Pairs -> SUBSET Nat]

(* At most one process is inside the lock, although the semaphore comes    *)
(* into being in two system calls and any number of processes may arrive   *)
(* between them; every call on the semaphore that fails, and is ignored,   *)
(* lets in at most one more, also when it comes out and raises the value.  *)
MutualExclusion == Cardinality(Inside) <= 1 + failed

(* However terminals start, stop, restart and race to register, the        *)
(* directory lists a terminal once and has at most one pipe for an ordered *)
(* pair, both ends of which are in it, within the two array bounds.        *)
DirectoryUnique ==
  /\ Len(head.terms) <= MaxTerms /\ Len(head.pipes) <= MaxPipes
  /\ \A i, j \in 1..Len(head.terms) : head.terms[i] = head.terms[j] => i = j
  /\ \A i, j \in 1..Len(head.pipes) : head.pipes[i] = head.pipes[j] => i = j
  /\ \A ft \in PipesOf(head) : ft[1] \in Elems(head.terms) /\ ft[2] \in Elems(head.terms)

(* The directory is well formed, and a terminal whose cached version equals*)
(* the directory's has exactly its terminals and the pipes coming in from  *)
(* them; its outgoing pipes are never stale at all.  Versions are compared *)
(* without the lock, and _bus_register_pipe moves the cached version       *)
(* itself, so a change that slipped in between would be hidden for good.   *)
(* It stands on lock_lock: nothing is said once one has failed.            *)
CacheCoherent ==
  /\ TypeOK
  /\ failed = 0 => DirectoryUnique
  /\ failed = 0 => \A p \in Terms : Up(p) =>
       /\ bt[p].tver <= head.tver /\ bt[p].pver <= head.pver
       /\ bt[p].tver = head.tver => bt[p].terms = head.terms
       /\ bt[p].pver = head.pver =>
            bt[p].ipipes = {from \in Terms : <<from, p>> \in PipesOf(head)}
       /\ bt[p].ipipes \subseteq {from \in Terms : <<from, p>> \in PipesOf(head)}
       /\ bt[p].opipes = {t \in Terms : <<p, t>> \in PipesOf(head)}

(* What a reader received and what waits for it in the pipe is in the      *)
(* order of sending, without repetition, while no attach of one end met an *)
(* operation of the other.                                                 *)
InOrder ==
  failed = 0 => \A ft \in Pairs \ torn :
    LET s == got[ft] \o ring[ft]
    IN \A i, j \in 1..Len(s) : i < j => s[i] < s[j]

(* Once both ends of a pipe have it in their tables, and neither attached  *)
(* it while the other was at work on it, its ring only grows at the end by *)
(* what the sender writes and only shrinks by what the receiver gets: no   *)
(* poll, restart of a third terminal or registration of another pipe       *)
(* empties it, and it does not become torn any more.                       *)
NoLossOnceAttached ==
  [][failed' = 0 => \A ft \in Pairs \ torn :
       (ft[2] \in bt[ft[1]].opipes /\ ft[1] \in bt[ft[2]].ipipes /\ ft \notin HalfDone) =>
         /\ ft \notin torn'
         /\ \/ ring'[ft] = ring[ft]
            \/ ring'[ft] = Append(ring[ft], msg[ft[1]])
            \/ ring[ft] = <<Head(ring[ft])>> \o ring'[ft]
               /\ got'[ft] = Append(got[ft], Head(ring[ft]))]_vars

(* Every call returns: nobody waits for ever for the semaphore, polls for  *)
(* ever or loops in a send (while no process dies inside the lock).        *)
CallsReturn ==
  \A p \in Terms : pc[p] # "idle" ~> pc[p] \in {"idle", "down"}

(* A pipe in the directory is eventually attached by its receiver, and     *)
(* what is in an attached pipe that is not torn is eventually received.    *)
Received ==
  \A ft \in Pairs :
    /\ ft \in PipesOf(head) ~> ft[1] \in bt[ft[2]].ipipes
    /\ \A m \in 1..MaxSend :
         (m \in Elems(ring[ft]) /\ ft[1] \in bt[ft[2]].ipipes /\ ft \notin torn)
           ~> m \in Elems(got[ft])

(* A message bus_send returned BUS_OK for is in the pipe or was received,  *)
(* even if only the pipes that are not torn are asked about.               *)
AcceptedIsKept ==
  \A ft \in Pairs \ torn : okd[ft] \subseteq Elems(ring[ft]) \cup Elems(got[ft])
=============================================================================
