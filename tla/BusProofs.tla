----------------------------- MODULE BusProofs -----------------------------
(***************************************************************************)
(* The bus keeps its promises for any number of terminals, any table and   *)
(* ring sizes, and any number of sends, releases, crashes and semaphore    *)
(* calls that fail.                                                        *)
(***************************************************************************)
EXTENDS Bus, FiniteSetTheorems, SequenceTheorems, TLAPS

Moves(p) == Call(p) \/ Step(p) \/ bus_release(p) \/ Crash(p)

(* Where the process is, or goes once it has unlocked.                     *)
At(p) == IF pc[p] \in {"attach", "unlock"} THEN cont[p] ELSE pc[p]

(* The places of a process that has no bus_t.                              *)
Without == {"down", "setval", "create", "make", "join", "listed"}

(* The places between a lookup that found no pipe and its registration.    *)
Seeking == {"upd_t", "poll_p", "upd_p", "register", "enter"}

(* Before the semaphore has its first value, only calls that failed let    *)
(* somebody in; afterwards there is one token more.  A token is in the     *)
(* semaphore or with a process inside.                                     *)
Unset == sem = -1 \/ \E p \in Terms : pc[p] = "setval"
Token == IF Unset THEN 0 ELSE 1
Value == IF sem = -1 THEN 0 ELSE sem
SemInv ==
  /\ IsFiniteSet(Inside)
  /\ Value + Cardinality(Inside) <= failed + Token
  /\ \A p \in Terms : pc[p] = "setval" => sem # -1
  /\ \A p, q \in Terms : pc[p] = "setval" /\ pc[q] = "setval" => p = q

(* Nobody has a pipe to himself, and a message that was peeked stays in    *)
(* its pipe unless that becomes torn.                                      *)
SelfOK(p) ==
  /\ p \notin bt[p].ipipes /\ p \notin bt[p].opipes
  /\ pc[p] = "enter" => to[p] \in Terms \ {p}
  /\ pc[p] = "read" =>
       /\ src[p] \in Terms \ {p}
       /\ <<src[p], p>> \notin torn => ring[<<src[p], p>>] # <<>>
  /\ att[p] # {} => pc[p] = "attach"

SelfInv == \A p \in Terms : SelfOK(p)

(* The versions of a directory that is there start at 1.                   *)
DirInv ==
  /\ DirectoryUnique
  /\ IF head.exists THEN head.tver >= 1 /\ head.pver >= 1
                    ELSE head.terms = <<>> /\ head.pipes = <<>>

(* A process with a bus_t is in the directory, one without has an empty    *)
(* cache; the pipe a process is about to register is not there yet; and    *)
(* what a process inside the lock has looked up still holds.               *)
ProcOK(p) ==
  /\ At(p) \in Without => bt[p] = NoBus
  /\ At(p) \notin Without => head.exists /\ p \in Elems(head.terms)
  /\ pc[p] = "attach" => cont[p] # "down"
  /\ pc[p] = "unlock" /\ cont[p] = "down" => head.exists /\ p \notin Elems(head.terms)
  /\ At(p) \in Without \cup {"idle", "read"} => to[p] = "none"
  /\ At(p) \in {"send", "register", "enter", "commit"} => to[p] # "none"
  /\ At(p) \in Seeking /\ to[p] # "none" => <<p, to[p]>> \notin PipesOf(head)

CheckedOK(p) ==
  /\ pc[p] = "make" => ~head.exists
  /\ pc[p] \in {"join", "listed"} => head.exists
  /\ pc[p] = "join" => ~Registered(p) /\ Len(head.terms) < MaxTerms
  /\ pc[p] = "listed" => Registered(p)
  /\ pc[p] = "enter" => ~Refused(p)
  /\ pc[p] \in {"make", "join", "listed"} => cont[p] = "idle"
  /\ pc[p] = "enter" => cont[p] = "send"

ProcInv == \A p \in Terms : ProcOK(p) /\ CheckedOK(p)

CacheOK(p) ==
  /\ bt[p].tver <= head.tver /\ bt[p].pver <= head.pver
  /\ bt[p].tver = head.tver => bt[p].terms = head.terms
  /\ bt[p].pver = head.pver =>
       bt[p].ipipes = {from \in Terms : <<from, p>> \in PipesOf(head)}
  /\ bt[p].ipipes \subseteq {from \in Terms : <<from, p>> \in PipesOf(head)}
  /\ bt[p].opipes = {t \in Terms : <<p, t>> \in PipesOf(head)}

CacheInv == \A p \in Terms : Up(p) => CacheOK(p)

(* What was put in a pipe, received or not, is in order, no newer than the *)
(* last message, and older than the one its sender still has for it.       *)
Put(ft) == got[ft] \o ring[ft]
MsgOK(ft) ==
  /\ \A i, j \in 1..Len(Put(ft)) : i < j => Put(ft)[i] < Put(ft)[j]
  /\ \A i \in 1..Len(Put(ft)) : Put(ft)[i] <= sent
  /\ ft[2] \in left[ft[1]] \cup {to[ft[1]]} => \A i \in 1..Len(Put(ft)) : Put(ft)[i] < msg[ft[1]]

MsgInv ==
  /\ \A ft \in Pairs : MsgOK(ft)
  /\ \A p \in Terms : msg[p] <= sent /\ to[p] \notin left[p]

(* The directory and the caches are what the lock protects.                *)
IInv ==
  /\ TypeOK /\ SemInv /\ SelfInv /\ MsgInv
  /\ failed = 0 => DirInv /\ ProcInv /\ CacheInv

----------------------------------------------------------------------------
(* Types.                                                                  *)

(* No value that stands for "no process" is one.                           *)
LEMMA NotTerms == "none" \notin Terms
  BY TermsAssumption

(* What _bus_update_pipes does to a cache and to the rings keeps their     *)
(* types.                                                                  *)
Caches == [tver : Nat, pver : Nat, terms : Seq(Terms), opipes : SUBSET Terms, ipipes : SUBSET Terms]
Heads == [exists : BOOLEAN, terms : Seq(Terms), tver : Nat, pipes : Seq(Pairs), pver : Nat]

LEMMA UpdatedType ==
  ASSUME NEW p \in Terms, NEW h \in Heads, NEW b \in Caches
  PROVE  /\ _bus_update_terminals(p, h, b) \in Caches
         /\ _bus_update_pipes(p, h, b) \in Caches
  BY DEF Heads, Caches, _bus_update_terminals, _bus_update_pipes, NewOut, NewIn

LEMMA FirstOfType ==
  ASSUME NEW s, NEW S
  PROVE  FirstOf(s, S) \subseteq S
  BY DEF FirstOf

(* The elements of a sequence.                                             *)
LEMMA ElemsType ==
  ASSUME NEW T, NEW s \in Seq(T)
  PROVE  Elems(s) \subseteq T
  BY DEF Elems

LEMMA ElemsAppend ==
  ASSUME NEW T, NEW s \in Seq(T), NEW e \in T
  PROVE  Elems(Append(s, e)) = Elems(s) \cup {e}
  BY DEF Elems

(* Only pipes of the directory are attached, and nobody has one to himself.*)
LEMMA AttachedType ==
  ASSUME NEW p \in Terms, NEW h \in Heads, NEW b
  PROVE  /\ Attached(p, h, b) \subseteq Pairs
         /\ p \notin NewOut(p, h, b) /\ p \notin NewIn(p, h, b)
  <1>1. Elems(h.pipes) \subseteq Pairs
    BY ElemsType DEF Heads
  <1>2. \A ft \in Pairs : ft[1] # ft[2]
    BY DEF Pairs
  <1>3. <<p, p>> \notin Pairs
    BY <1>2
  <1> QED BY <1>1, <1>3 DEF Attached, NewOut, NewIn

LEMMA EmptiedType ==
  ASSUME ring \in [Pairs -> Seq(Nat)], NEW S
  PROVE  Emptied(S) \in [Pairs -> Seq(Nat)]
  BY DEF Emptied

(* The directory the first terminal makes, one that a later terminal, and  *)
(* one that a pipe, is entered in.                                         *)
FirstHead(p) == [exists |-> TRUE, terms |-> <<p>>, tver |-> 1, pipes |-> <<>>, pver |-> 1]
NextHead(p) == [head EXCEPT !.terms = Append(@, p), !.tver = @ + 1]

LEMMA FirstType ==
  ASSUME NEW p \in Terms
  PROVE  FirstHead(p) \in Heads
  <1>1. \A ts \in Seq(Terms), ps \in Seq(Pairs) :
          [exists |-> TRUE, terms |-> ts, tver |-> 1, pipes |-> ps, pver |-> 1] \in Heads
    BY DEF Heads
  <1>2. <<>> \in Seq(Pairs)
    OBVIOUS
  <1>3. <<p>> \in Seq(Terms)
    OBVIOUS
  <1> QED BY <1>1, <1>2, <1>3 DEF FirstHead

LEMMA NextType ==
  ASSUME head \in Heads, NEW p \in Terms
  PROVE  NextHead(p) \in Heads
  <1>1. Append(head.terms, p) \in Seq(Terms) /\ head.tver + 1 \in Nat
    BY DEF Heads
  <1>2. \A ts \in Seq(Terms), n \in Nat : [head EXCEPT !.terms = ts, !.tver = n] \in Heads
    BY DEF Heads
  <1> QED BY <1>1, <1>2 DEF NextHead

LEMMA EnteredType ==
  ASSUME head \in Heads, NEW p, NEW t, <<p, t>> \in Pairs
  PROVE  Entered(head, p, t) \in Heads
  <1>1. Append(head.pipes, <<p, t>>) \in Seq(Pairs) /\ head.pver + 1 \in Nat
    BY DEF Heads
  <1>2. \A ps \in Seq(Pairs), n \in Nat : [head EXCEPT !.pipes = ps, !.pver = n] \in Heads
    BY DEF Heads
  <1> QED BY <1>1, <1>2 DEF Entered

LEMMA DirectoryType ==
  ASSUME head \in Heads, NEW p \in Terms
  PROVE  /\ Directory(p) \in Heads
         /\ pc[p] = "make" => Directory(p) = FirstHead(p)
         /\ pc[p] = "join" => Directory(p) = NextHead(p)
         /\ pc[p] = "listed" => Directory(p) = head
  <1>1. pc[p] = "make" => Directory(p) = FirstHead(p)
    BY DEF Directory, FirstHead
  <1>2. pc[p] = "join" => Directory(p) = NextHead(p)
    BY DEF Directory, NextHead
  <1>3. pc[p] \notin {"make", "join"} => Directory(p) = head
    BY DEF Directory
  <1> QED BY <1>1, <1>2, <1>3, FirstType, NextType

(* Waiting for the lock, with or without success, keeps the types.         *)
LEMMA LockType ==
  ASSUME TypeOK, NEW p \in Terms, lock_lock(p)
  PROVE  sem' \in Nat \cup {-1} /\ nosem' \subseteq Terms /\ failed' \in Nat
  BY DEF TypeOK, lock_lock

(* A send is given up, or was not begun.                                   *)
LEMMA NoSendType ==
  ASSUME TypeOK, NEW p \in Terms, NoSend(p)
  PROVE  /\ to' \in [Terms -> Terms \cup {"none"}] /\ left' \in [Terms -> SUBSET Terms]
         /\ msg' \in [Terms -> Nat]
  BY DEF TypeOK, NoSend

LEMMA TypeInit == Init => TypeOK
  BY DEF Init, TypeOK, NoBus, Pairs, Places

LEMMA TypeStep ==
  ASSUME TypeOK, SelfInv, [Next]_vars
  PROVE  TypeOK'
  <1> USE DEF semVars, ringVars, callVars, history
  <1>1. CASE UNCHANGED vars
    BY <1>1 DEF vars, TypeOK
  <1>2. ASSUME NEW p \in Terms, Moves(p)
        PROVE  TypeOK'
    <2>a. head \in Heads /\ bt[p] \in Caches /\ ring \in [Pairs -> Seq(Nat)]
      BY DEF TypeOK, Heads, Caches
    <2>b. NoBus \in Caches
      BY DEF NoBus, Caches
    <2>c. HalfDone \subseteq Pairs
      BY DEF TypeOK, HalfDone
    <2>p. /\ "down" \in Places /\ "setval" \in Places /\ "create" \in Places /\ "make" \in Places
          /\ "join" \in Places /\ "listed" \in Places /\ "attach" \in Places /\ "unlock" \in Places
          /\ "idle" \in Places /\ "upd_t" \in Places /\ "poll_p" \in Places /\ "upd_p" \in Places
          /\ "send" \in Places /\ "register" \in Places /\ "enter" \in Places
          /\ "commit" \in Places /\ "read" \in Places
      BY DEF Places
    <2>t. pc \in [Terms -> Places]
      BY DEF TypeOK
    <2>1. CASE lock_create(p)
      <3>1. sem' \in Nat \cup {-1} /\ nosem' \subseteq Terms /\ failed' \in Nat
        BY <2>1 DEF lock_create, TypeOK
      <3>2. pc' \in [Terms -> Places]
        BY <2>p, <2>t, <2>1 DEF lock_create
      <3>3. bt' \in [Terms -> Caches]
        BY <2>1, <2>b DEF lock_create, TypeOK, Caches
      <3> QED BY <2>1, <3>1, <3>2, <3>3 DEF lock_create, TypeOK, Caches
    <2>2. CASE bus_poll(p) \/ SendPoll(p)
      <3>1. pc' \in [Terms -> Places]
        BY <2>p, <2>t, <2>2 DEF bus_poll, SendPoll, PollTerms
      <3> QED BY <2>2, <3>1 DEF bus_poll, SendPoll, PollTerms, TypeOK
    <2>3. ASSUME NEW t \in Terms, NEW S \in SUBSET Terms, Submit(p, t, S)
          PROVE  TypeOK'
      <3>1. pc' \in [Terms -> Places]
        BY <2>p, <2>t, <2>3 DEF Submit
      <3>2. sent' \in Nat /\ msg' \in [Terms -> Nat]
        BY <2>3 DEF Submit, TypeOK
      <3>3. to' \in [Terms -> Terms \cup {"none"}] /\ left' \in [Terms -> SUBSET Terms]
        BY <2>3 DEF Submit, TypeOK
      <3>4. UNCHANGED <<semVars, head, ringVars, bt, cont, src, got, okd, stops>>
        BY <2>3 DEF Submit
      <3> QED BY <3>1, <3>2, <3>3, <3>4 DEF TypeOK
    <2>4. ASSUME NEW S \in SUBSET Terms, bus_send_by_type(p, S)
          PROVE  TypeOK'
      BY <2>4, <2>3, FirstOfType DEF bus_send_by_type
    <2>5. CASE bus_recv_all(p) \/ \E from \in Terms \ {p} : bus_recv(p, from)
      <3>1. PICK from \in bt[p].ipipes : RingPeek(p, from)
        BY <2>5 DEF bus_recv, bus_recv_all
      <3>2. from \in Terms
        BY <3>1, <2>a DEF Caches
      <3>3. torn' \subseteq Pairs
        BY <3>1, <2>c DEF RingPeek, TornBy, TypeOK
      <3>4. pc' \in [Terms -> Places] /\ src' \in [Terms -> Terms \cup {"none"}]
        <4>1. CASE UNCHANGED <<pc, src>>
          BY <4>1 DEF TypeOK
        <4>2. CASE pc' = [pc EXCEPT ![p] = "read"] /\ src' = [src EXCEPT ![p] = from]
          BY <2>p, <3>2, <4>2 DEF TypeOK
        <4> QED BY <3>1, <4>1, <4>2 DEF RingPeek
      <3> QED BY <3>1, <3>3, <3>4 DEF RingPeek, TypeOK
    <2>6. CASE ReadCommit(p)
      <3>1. CASE <<src[p], p>> \in torn
        BY <2>p, <2>6, <3>1 DEF ReadCommit, TypeOK
      <3>2. CASE <<src[p], p>> \notin torn
        <4>1. /\ <<src[p], p>> \in Pairs /\ ring[<<src[p], p>>] # <<>>
          BY <2>6, <3>2 DEF ReadCommit, SelfInv, SelfOK, Pairs
        <4>2. PICK ft \in Pairs : ft = <<src[p], p>>
          BY <4>1
        <4>3. Tail(ring[ft]) \in Seq(Nat) /\ Head(ring[ft]) \in Nat
          BY <4>1, <4>2, <2>a
        <4>4. ring' \in [Pairs -> Seq(Nat)] /\ got' \in [Pairs -> Seq(Nat)]
          <5>1. /\ ring' = [ring EXCEPT ![ft] = Tail(@)]
                /\ got' = [got EXCEPT ![ft] = Append(@, Head(ring[ft]))]
            BY <2>6, <3>2, <4>2 DEF ReadCommit, Consumed
          <5>2. got[ft] \in Seq(Nat)
            BY DEF TypeOK
          <5>3. Append(got[ft], Head(ring[ft])) \in Seq(Nat)
            BY <4>3, <5>2
          <5> QED BY <5>1, <5>3, <4>3, <2>a DEF TypeOK
        <4> QED BY <2>p, <2>6, <4>4 DEF ReadCommit, TypeOK
      <3> QED BY <3>1, <3>2
    <2>7. CASE lock_setval(p)
      BY <2>p, <2>7 DEF lock_setval, TypeOK
    <2>8. CASE lock_unlock(p)
      <3>1. sem' \in Nat \cup {-1}
        <4>1. CASE p \in nosem
          BY <2>8, <4>1 DEF lock_unlock, TypeOK
        <4>2. CASE p \notin nosem
          BY <2>8, <4>2 DEF lock_unlock, TypeOK
        <4> QED BY <4>1, <4>2
      <3>2. cont[p] \in Places /\ cont' \in [Terms -> {"idle", "down", "poll_p", "register", "send"}]
        BY <2>p, <2>8 DEF lock_unlock, TypeOK
      <3>3. pc' \in [Terms -> Places]
        BY <2>t, <2>8, <3>2 DEF lock_unlock
      <3> QED BY <2>8, <3>1, <3>2, <3>3 DEF lock_unlock, TypeOK
    <2>9. CASE bus_create(p)
      <3>1. \E at \in Places, next \in {"idle", "down"} : Locked(p, at, next)
        BY <2>p, <2>9 DEF bus_create
      <3> QED BY <2>9, <3>1, LockType, SMTT(20) DEF bus_create, Locked, TypeOK
    <2>10. CASE _bus_create_attach(p)
      <3>1. PICK h \in Heads : h = Directory(p)
        BY <2>a, DirectoryType
      <3>2. bt' \in [Terms -> Caches]
        BY <2>10, <2>a, <3>1, UpdatedType DEF _bus_create_attach, TypeOK, Caches
      <3>3. PICK S \in SUBSET Pairs : S = Attached(p, h, bt[p])
        BY AttachedType
      <3>4. /\ ring' \in [Pairs -> Seq(Nat)] /\ torn' \subseteq Pairs
            /\ att' \in [Terms -> SUBSET Pairs] /\ pc' \in [Terms -> Places]
        BY <2>p, <2>10, <2>a, <3>1, <3>3, EmptiedType
           DEF _bus_create_attach, AttachBegin, Raced, ToAttach, TypeOK
      <3> QED BY <2>10, <3>1, <3>2, <3>4 DEF _bus_create_attach, TypeOK, Heads, Caches
    <2>11. CASE UpdateTerms(p)
      BY <2>p, <2>11, <2>a, UpdatedType, LockType DEF UpdateTerms, Locked, TypeOK, Caches
    <2>12. CASE PollPipes(p)
      BY <2>p, <2>12 DEF PollPipes, AfterPoll, TypeOK
    <2>13. CASE UpdatePipes(p)
      <3>1. bt' \in [Terms -> Caches]
        BY <2>13, <2>a, UpdatedType DEF UpdatePipes, TypeOK, Caches
      <3>2. PICK S \in SUBSET Pairs : S = Attached(p, head, bt[p])
        BY <2>a, AttachedType
      <3>3. /\ ring' \in [Pairs -> Seq(Nat)] /\ torn' \subseteq Pairs
            /\ att' \in [Terms -> SUBSET Pairs] /\ pc' \in [Terms -> Places]
        BY <2>p, <2>13, <2>a, <3>2, EmptiedType
           DEF UpdatePipes, Locked, AttachBegin, Raced, ToAttach, TypeOK
      <3> QED BY <2>13, <3>1, <3>3, LockType DEF UpdatePipes, Locked, AfterPoll, TypeOK, Caches
    <2>14. CASE AttachEnd(p)
      BY <2>p, <2>14 DEF AttachEnd, TypeOK
    <2>15. CASE _bus_register_pipe(p)
      <3>1. CASE Locked(p, "unlock", "idle") /\ NoSend(p)
        BY <2>p, <2>15, <3>1, LockType, NoSendType DEF _bus_register_pipe, Locked, TypeOK
      <3>2. CASE Locked(p, "enter", "send") /\ UNCHANGED <<to, left, msg>>
        BY <2>p, <2>15, <3>2, LockType DEF _bus_register_pipe, Locked, TypeOK
      <3> QED BY <2>15, <3>1, <3>2 DEF _bus_register_pipe
    <2>16. CASE _bus_pipe_create(p)
      <3>1. to[p] \in Terms /\ <<p, to[p]>> \in Pairs
        BY <2>16 DEF _bus_pipe_create, SelfInv, SelfOK, Pairs
      <3>2. head' \in Heads
        BY <2>16, <3>1, <2>a, EnteredType DEF _bus_pipe_create
      <3>3. bt' \in [Terms -> Caches]
        <4>1. head'.pver \in Nat
          BY <3>2 DEF Heads
        <4>2. [bt[p] EXCEPT !.opipes = @ \cup {to[p]}, !.pver = head'.pver] \in Caches
          BY <3>1, <4>1, <2>a DEF Caches
        <4>3. bt' = [bt EXCEPT ![p] = [bt[p] EXCEPT !.opipes = @ \cup {to[p]}, !.pver = head'.pver]]
          BY <2>16 DEF _bus_pipe_create, TypeOK
        <4> QED BY <4>2, <4>3 DEF TypeOK, Caches
      <3>4. ring' \in [Pairs -> Seq(Nat)] /\ torn' \subseteq Pairs
        BY <2>16, <2>a, <3>1, EmptiedType DEF _bus_pipe_create, Raced, TypeOK
      <3> QED BY <2>p, <2>16, <3>2, <3>3, <3>4 DEF _bus_pipe_create, TypeOK, Heads, Caches
    <2>17. CASE RingCopy(p)
      <3>1. torn' \subseteq Pairs
        BY <2>17, <2>c DEF RingCopy, TornBy, TypeOK
      <3>2. CASE SendFails(p)
        BY <2>p, <2>17, <3>1, <3>2, NoSendType DEF SendFails, TypeOK
      <3>3. CASE ~SendFails(p)
        <4>1. pc' \in [Terms -> Places]
          BY <2>p, <2>t, <2>17, <3>3 DEF RingCopy
        <4>2. UNCHANGED <<semVars, head, ring, att, bt, cont, callVars, history>>
          BY <2>17, <3>3 DEF RingCopy
        <4> QED BY <3>1, <4>1, <4>2 DEF TypeOK
      <3> QED BY <3>2, <3>3
    <2>18. CASE RingCommit(p)
      <3>1. msg[p] \in Nat
        BY DEF TypeOK
      <3>2. ring' \in [Pairs -> Seq(Nat)]
        <4>1. ASSUME NEW ft \in Pairs
              PROVE  IF ft \in torn THEN ring[ft] \in Seq(Nat) ELSE Append(ring[ft], msg[p]) \in Seq(Nat)
          BY <2>a, <3>1
        <4> QED BY <2>18, <2>a, <4>1 DEF RingCommit
      <3>3. okd' \in [Pairs -> SUBSET Nat]
        BY <2>18, <3>1 DEF RingCommit, TypeOK
      <3>4. /\ to' \in [Terms -> Terms \cup {"none"}] /\ left' \in [Terms -> SUBSET Terms]
            /\ msg' \in [Terms -> Nat] /\ pc' \in [Terms -> Places]
        <4> DEFINE next == FirstOf(bt[p].terms, left[p])
        <4>1. next \subseteq Terms
          BY FirstOfType DEF TypeOK
        <4> HIDE DEF next
        <4>2. CASE NoSend(p) /\ pc' = [pc EXCEPT ![p] = "idle"]
          BY <2>p, <4>2, NoSendType DEF TypeOK
        <4>3. ASSUME NEW t \in next, to' = [to EXCEPT ![p] = t],
                     left' = [left EXCEPT ![p] = @ \ {t}], msg' = msg,
                     pc' = [pc EXCEPT ![p] = "send"]
              PROVE  /\ to' \in [Terms -> Terms \cup {"none"}] /\ left' \in [Terms -> SUBSET Terms]
                     /\ msg' \in [Terms -> Nat] /\ pc' \in [Terms -> Places]
          BY <2>p, <4>1, <4>3 DEF TypeOK
        <4> QED BY <2>18, <4>2, <4>3 DEF RingCommit, next
      <3> QED BY <2>18, <3>2, <3>3, <3>4 DEF RingCommit, TypeOK
    <2>19. CASE bus_release(p) \/ Crash(p)
      <3>1. Stop(p)
        BY <2>19 DEF bus_release, Crash
      <3>2. bt' \in [Terms -> Caches]
        BY <3>1, <2>b DEF Stop, TypeOK, Caches
      <3>3. torn' \subseteq Pairs /\ att' \in [Terms -> SUBSET Pairs]
        BY <3>1 DEF Stop, TypeOK
      <3>4. /\ pc' \in [Terms -> Places] /\ src' \in [Terms -> Terms \cup {"none"}]
            /\ cont' \in [Terms -> {"idle", "down", "poll_p", "register", "send"}] /\ stops' \in Nat
        BY <2>p, <3>1 DEF Stop, TypeOK
      <3> QED BY <3>1, <3>2, <3>3, <3>4, NoSendType DEF Stop, TypeOK, Caches
    <2> QED BY <1>2, <2>1, <2>2, <2>3, <2>4, <2>5, <2>6, <2>7, <2>8, <2>9, <2>10, <2>11, <2>12, <2>13,
               <2>14, <2>15, <2>16, <2>17, <2>18, <2>19
               DEF Moves, Call, Step, bus_send, bus_send_all
  <1> QED BY <1>1, <1>2 DEF Next, Moves

----------------------------------------------------------------------------
(* One step of a process leaves the others where they are.                 *)
LEMMA OthersStay ==
  ASSUME TypeOK, NEW p \in Terms, Moves(p)
  PROVE  \A q \in Terms \ {p} :
           /\ pc'[q] = pc[q] /\ cont'[q] = cont[q] /\ bt'[q] = bt[q]
           /\ to'[q] = to[q] /\ left'[q] = left[q] /\ msg'[q] = msg[q]
           /\ src'[q] = src[q] /\ att'[q] = att[q]
  <1> USE DEF semVars, ringVars, callVars, history
  <1> DEFINE Same(q) == /\ pc'[q] = pc[q] /\ cont'[q] = cont[q] /\ bt'[q] = bt[q]
                        /\ to'[q] = to[q] /\ left'[q] = left[q] /\ msg'[q] = msg[q]
                        /\ src'[q] = src[q] /\ att'[q] = att[q]
  <1> SUFFICES ASSUME NEW q \in Terms \ {p}
               PROVE  Same(q)
    OBVIOUS
  <1>t. /\ pc \in [Terms -> Places] /\ att \in [Terms -> SUBSET Pairs]
        /\ bt \in [Terms -> Caches]
        /\ cont \in [Terms -> {"idle", "down", "poll_p", "register", "send"}]
        /\ to \in [Terms -> Terms \cup {"none"}] /\ left \in [Terms -> SUBSET Terms]
        /\ msg \in [Terms -> Nat] /\ src \in [Terms -> Terms \cup {"none"}]
    BY DEF TypeOK, Caches
  <1>1. CASE Call(p)
    <2>1. ASSUME NEW t, NEW S, Submit(p, t, S)
          PROVE  Same(q)
      BY <2>1, <1>t DEF Submit
    <2>2. CASE lock_create(p)
      BY <2>2, <1>t DEF lock_create
    <2>3. CASE bus_poll(p)
      BY <2>3, <1>t DEF bus_poll, PollTerms
    <2>4. ASSUME NEW from, RingPeek(p, from)
          PROVE  Same(q)
      BY <2>4, <1>t DEF RingPeek
    <2> QED BY <1>1, <2>1, <2>2, <2>3, <2>4
               DEF Call, bus_send, bus_send_all, bus_send_by_type, bus_recv, bus_recv_all
  <1>2. CASE lock_setval(p) \/ lock_unlock(p) \/ AttachEnd(p)
    BY <1>2, <1>t DEF lock_setval, lock_unlock, AttachEnd
  <1>3. CASE bus_create(p)
    BY <1>3, <1>t DEF bus_create, Locked
  <1>4. CASE UpdateTerms(p) \/ UpdatePipes(p)
    BY <1>4, <1>t DEF UpdateTerms, UpdatePipes, Locked, AttachBegin
  <1>5. CASE PollPipes(p) \/ SendPoll(p)
    BY <1>5, <1>t DEF PollPipes, SendPoll, PollTerms
  <1>6. CASE _bus_register_pipe(p)
    BY <1>6, <1>t DEF _bus_register_pipe, Locked, NoSend
  <1>7. CASE _bus_create_attach(p) \/ _bus_pipe_create(p)
    BY <1>7, <1>t DEF _bus_create_attach, AttachBegin, _bus_pipe_create
  <1>8. CASE RingCopy(p)
    BY <1>8, <1>t DEF RingCopy, SendFails, NoSend
  <1>9. CASE RingCommit(p)
    <2>1. UNCHANGED <<att, bt, cont, src>>
      BY <1>9 DEF RingCommit
    <2>2. pc'[q] = pc[q] /\ to'[q] = to[q] /\ left'[q] = left[q] /\ msg'[q] = msg[q]
      BY <1>9, <1>t, SMTT(20) DEF RingCommit, NoSend
    <2> QED BY <2>1, <2>2
  <1>10. CASE ReadCommit(p)
    BY <1>10, <1>t DEF ReadCommit
  <1>11. CASE bus_release(p) \/ Crash(p)
    BY <1>11, <1>t DEF bus_release, Crash, Stop, NoSend
  <1> QED BY <1>1, <1>2, <1>3, <1>4, <1>5, <1>6, <1>7, <1>8, <1>9, <1>10, <1>11 DEF Moves, Step

----------------------------------------------------------------------------
(* The semaphore.                                                          *)

InPlaces == {"make", "join", "listed", "enter", "attach", "unlock"}

(* What one step does to the semaphore and to who is inside.               *)
LEMMA SemCases ==
  ASSUME TypeOK, NEW p \in Terms, Moves(p)
  PROVE  \/ /\ sem = -1 /\ sem' = 0 /\ failed' = failed          \* semget
            /\ pc[p] = "down" /\ pc'[p] = "setval"
         \/ /\ sem' = 1 /\ failed' = failed                      \* SETVAL
            /\ pc[p] = "setval" /\ pc'[p] = "create"
         \/ /\ pc[p] \notin InPlaces \cup {"setval"} /\ pc'[p] \in InPlaces
            /\ \/ sem > 0 /\ sem' = sem - 1 /\ failed' = failed
               \/ sem' = sem /\ failed' = failed + 1
         \/ /\ pc[p] = "unlock" /\ pc'[p] \notin InPlaces \cup {"setval"} /\ failed' = failed
            /\ sem' \in {sem, sem + 1}
         \/ /\ sem' = sem /\ failed' = failed /\ pc'[p] # "setval"
            /\ pc'[p] \in InPlaces => pc[p] \in InPlaces
         \/ /\ sem' = sem /\ failed' = failed + 1                \* semget fails
            /\ pc'[p] = "create" /\ pc[p] = "down"
  <1> USE DEF semVars, ringVars, callVars, history, InPlaces
  <1>t. pc \in [Terms -> Places]
        /\ cont \in [Terms -> {"idle", "down", "poll_p", "register", "send"}]
    BY DEF TypeOK
  <1>1. CASE lock_create(p)
    BY <1>1, <1>t DEF lock_create
  <1>2. CASE lock_setval(p)
    BY <1>2, <1>t DEF lock_setval
  <1>3. CASE lock_unlock(p)
    BY <1>3, <1>t DEF lock_unlock
  <1>4. ASSUME NEW at \in InPlaces, NEW next, Locked(p, at, next), pc[p] \notin InPlaces \cup {"setval"}
        PROVE  /\ pc[p] \notin InPlaces \cup {"setval"} /\ pc'[p] \in InPlaces
               /\ \/ sem > 0 /\ sem' = sem - 1 /\ failed' = failed
                  \/ sem' = sem /\ failed' = failed + 1
    BY <1>4, <1>t DEF Locked, lock_lock
  <1>5. CASE bus_create(p)
    <2>1. \E at \in InPlaces, next \in {"idle", "down"} : Locked(p, at, next)
      BY <1>5 DEF bus_create
    <2> QED BY <1>4, <1>5, <2>1 DEF bus_create
  <1>6. CASE UpdateTerms(p) \/ UpdatePipes(p) \/ _bus_register_pipe(p)
    BY <1>6, <1>4 DEF UpdateTerms, UpdatePipes, _bus_register_pipe, ToAttach
  <1>7. CASE _bus_create_attach(p) \/ _bus_pipe_create(p) \/ AttachEnd(p)
    BY <1>7, <1>t DEF _bus_create_attach, ToAttach, _bus_pipe_create, AttachEnd
  <1>8. CASE bus_poll(p) \/ SendPoll(p) \/ PollPipes(p)
    BY <1>8, <1>t DEF bus_poll, SendPoll, PollTerms, PollPipes, AfterPoll
  <1>9. ASSUME NEW t, NEW S, Submit(p, t, S)
        PROVE  sem' = sem /\ failed' = failed /\ pc'[p] = "send"
    BY <1>9, <1>t DEF Submit
  <1>10. ASSUME NEW from, RingPeek(p, from)
         PROVE  sem' = sem /\ failed' = failed /\ pc'[p] \in {pc[p], "read"}
    BY <1>10, <1>t DEF RingPeek
  <1>11. CASE RingCopy(p)
    BY <1>11, <1>t DEF RingCopy, SendFails
  <1>12. CASE RingCommit(p) \/ ReadCommit(p)
    BY <1>12, <1>t DEF RingCommit, ReadCommit
  <1>13. CASE bus_release(p) \/ Crash(p)
    BY <1>13, <1>t DEF bus_release, Crash, Stop
  <1>14. CASE Call(p)
    <2>1. CASE bus_recv_all(p) \/ \E from \in Terms \ {p} : bus_recv(p, from)
      <3>1. pc[p] = "idle" /\ sem' = sem /\ failed' = failed /\ pc'[p] \in {pc[p], "read"}
        BY <2>1, <1>10 DEF bus_recv, bus_recv_all
      <3> QED BY <3>1
    <2>2. CASE bus_send_all(p) \/ (\E t \in Terms : bus_send(p, t))
                 \/ \E among \in SUBSET Terms : bus_send_by_type(p, among)
      <3>1. sem' = sem /\ failed' = failed /\ pc'[p] = "send"
        BY <2>2, <1>9 DEF bus_send, bus_send_all, bus_send_by_type
      <3> QED BY <3>1
    <2> QED BY <1>14, <1>1, <1>8, <2>1, <2>2 DEF Call
  <1> QED BY <1>2, <1>3, <1>5, <1>6, <1>7, <1>8, <1>11, <1>12, <1>13, <1>14 DEF Moves, Step

(* A call that fails is never undone.                                      *)
LEMMA FailedGrows ==
  ASSUME TypeOK, [Next]_vars, failed' = 0
  PROVE  failed = 0
  <1>1. CASE UNCHANGED vars
    BY <1>1 DEF vars, semVars
  <1>2. ASSUME NEW p \in Terms, Moves(p)
        PROVE  failed = 0
    <2>1. failed' \in {failed, failed + 1}
      BY <1>2, SemCases
    <2> QED BY <2>1 DEF TypeOK
  <1> QED BY <1>1, <1>2 DEF Next, Moves

(* Each step keeps the balance of tokens.                                  *)
LEMMA SemStep ==
  ASSUME TypeOK, SemInv, [Next]_vars
  PROVE  SemInv'
  <1>1. CASE UNCHANGED vars
    BY <1>1 DEF vars, semVars, SemInv, Inside, Unset, Value, Token
  <1>2. ASSUME NEW p \in Terms, Moves(p)
        PROVE  SemInv'
    <2>a. \A q \in Terms \ {p} : pc'[q] = pc[q]
      BY <1>2, OthersStay
    <2>b. /\ IsFiniteSet(Inside) /\ Cardinality(Inside) \in Nat
          /\ sem \in Nat \cup {-1} /\ failed \in Nat
      BY FS_CardinalityType DEF SemInv, TypeOK
    <2>c. /\ p \in Inside <=> pc[p] \in InPlaces
          /\ p \in Inside' <=> pc'[p] \in InPlaces
          /\ \A q \in Terms \ {p} : q \in Inside' <=> q \in Inside
      BY <2>a DEF Inside, InPlaces
    <2>d. Inside' \subseteq Terms /\ Inside \subseteq Terms
      BY DEF Inside
    <2>e. Inside' = Inside \cup {p} \/ Inside' = Inside \ {p} \/ Inside' = Inside
      BY <2>c, <2>d
    <2>f. IsFiniteSet(Inside')
      BY <2>b, <2>e, FS_AddElement, FS_RemoveElement
    <2>g. /\ Cardinality(Inside \cup {p}) = IF p \in Inside THEN Cardinality(Inside) ELSE Cardinality(Inside) + 1
          /\ Cardinality(Inside \ {p}) = IF p \in Inside THEN Cardinality(Inside) - 1 ELSE Cardinality(Inside)
      BY <2>b, FS_AddElement, FS_RemoveElement
    <2>h. Value \in Nat
      BY <2>b DEF Value
    <2>i. Value + Cardinality(Inside) <= failed + Token /\ Token \in {0, 1} /\ Token' \in {0, 1}
      BY DEF SemInv, Token
    <2>1. CASE /\ sem = -1 /\ sem' = 0 /\ failed' = failed
               /\ pc[p] = "down" /\ pc'[p] = "setval"
      <3>1. Inside' = Inside
        BY <2>1, <2>c, <2>d DEF InPlaces
      <3>2. Token = 0 /\ Token' = 0 /\ Value = 0 /\ Value' = 0
        <4>1. Unset /\ Unset'
          BY <2>1 DEF Unset
        <4> QED BY <2>1, <4>1 DEF Token, Value
      <3>3. \A q \in Terms : pc[q] # "setval"
        BY <2>1 DEF SemInv
      <3>4. (\A q \in Terms : pc[q] = "setval" => sem # -1)'
        BY <2>1
      <3>5. (\A q, r \in Terms : pc[q] = "setval" /\ pc[r] = "setval" => q = r)'
        BY <2>a, <3>3
      <3> QED BY <2>1, <2>b, <2>i, <3>1, <3>2, <3>4, <3>5 DEF SemInv
    <2>2. CASE sem' = 1 /\ failed' = failed /\ pc[p] = "setval" /\ pc'[p] = "create"
      <3>1. Inside' = Inside
        BY <2>2, <2>c, <2>d DEF InPlaces
      <3>2. \A q \in Terms : pc'[q] # "setval"
        BY <2>2, <2>a DEF SemInv
      <3>3. Token = 0 /\ Token' = 1 /\ Value' = 1
        <4>1. Unset /\ ~Unset'
          BY <2>2, <3>2 DEF Unset
        <4> QED BY <2>2, <4>1 DEF Token, Value
      <3> QED BY <2>2, <2>b, <2>h, <2>i, <3>1, <3>2, <3>3 DEF SemInv
    <2>3. ASSUME pc'[p] # "setval", sem' = -1 <=> sem = -1
          PROVE  /\ Token' >= Token
                 /\ (\A q \in Terms : pc[q] = "setval" => sem # -1)'
                 /\ (\A q, r \in Terms : pc[q] = "setval" /\ pc[r] = "setval" => q = r)'
      <3>1. \A q \in Terms : pc'[q] = "setval" => pc[q] = "setval"
        BY <2>3, <2>a
      <3>2. Unset' => Unset
        BY <2>3, <3>1 DEF Unset
      <3> QED BY <2>3, <2>i, <3>1, <3>2 DEF SemInv, Token
    <2>4. CASE /\ pc[p] \notin InPlaces \cup {"setval"} /\ pc'[p] \in InPlaces
               /\ \/ sem > 0 /\ sem' = sem - 1 /\ failed' = failed
                  \/ sem' = sem /\ failed' = failed + 1
      <3>1. Inside' = Inside \cup {p} /\ p \notin Inside
        BY <2>4, <2>c, <2>d
      <3>2. Cardinality(Inside') = Cardinality(Inside) + 1
        BY <3>1, <2>g
      <3>3. pc'[p] # "setval" /\ (sem' = -1 <=> sem = -1)
        BY <2>4, <2>b DEF InPlaces
      <3>4. Token' >= Token
        BY <2>3, <3>3
      <3>5. Value' + Cardinality(Inside') <= failed' + Token'
        <4>1. Cardinality(Inside') \in Nat
          BY <2>f, FS_CardinalityType
        <4>2. \/ Value' = Value - 1 /\ failed' = failed
              \/ Value' = Value /\ failed' = failed + 1
          <5>1. CASE sem > 0 /\ sem' = sem - 1 /\ failed' = failed
            <6>1. sem \in Nat /\ sem # -1 /\ sem' # -1
              BY <5>1, <2>b
            <6> QED BY <5>1, <6>1 DEF Value
          <5>2. CASE sem' = sem /\ failed' = failed + 1
            BY <5>2 DEF Value
          <5> QED BY <2>4, <5>1, <5>2
        <4>3. \A v, c, f, t, u \in Int :
                v + c <= f + t /\ u >= t => v - 1 + (c + 1) <= f + u /\ v + (c + 1) <= f + 1 + u
          OBVIOUS
        <4>4. Value \in Int /\ Cardinality(Inside) \in Int /\ failed \in Int /\ Token \in Int /\ Token' \in Int
          BY <2>b, <2>h, <2>i
        <4>5. CASE Value' = Value - 1 /\ failed' = failed
          BY <2>i, <3>2, <3>4, <4>3, <4>4, <4>5
        <4>6. CASE Value' = Value /\ failed' = failed + 1
          BY <2>i, <3>2, <3>4, <4>3, <4>4, <4>6
        <4> QED BY <4>2, <4>5, <4>6
      <3> QED BY <2>3, <2>f, <3>3, <3>5 DEF SemInv
    <2>5. CASE /\ pc[p] = "unlock" /\ pc'[p] \notin InPlaces \cup {"setval"} /\ failed' = failed
               /\ sem' \in {sem, sem + 1}
      <3>1. Inside' = Inside \ {p} /\ p \in Inside
        BY <2>5, <2>c, <2>d DEF InPlaces
      <3>2. Cardinality(Inside') = Cardinality(Inside) - 1
        BY <3>1, <2>g
      <3>3. \A q \in Terms : pc'[q] = "setval" <=> pc[q] = "setval"
        BY <2>5, <2>a
      <3>4. Value' \in Nat /\ Value' <= Value + 1 /\ (sem = -1 => Value' = 0)
        BY <2>5, <2>b DEF Value
      <3>5. (\A q \in Terms : pc[q] = "setval" => sem # -1)'
        BY <2>5, <2>b, <3>3 DEF SemInv
      <3>6. (\A q, r \in Terms : pc[q] = "setval" /\ pc[r] = "setval" => q = r)'
        BY <3>3 DEF SemInv
      <3>7. Value' + Cardinality(Inside') <= failed' + Token'
        <4>1. CASE sem = -1
          <5>1. Value = 0 /\ Value' = 0 /\ Token = 0
            BY <3>4, <4>1 DEF Value, Token, Unset
          <5> QED BY <2>5, <2>b, <2>i, <3>2, <5>1
        <4>2. CASE sem # -1
          <5>1. Unset' => Unset
            BY <2>5, <2>b, <3>3, <4>2 DEF Unset
          <5>2. Token' >= Token
            BY <2>i, <5>1 DEF Token
          <5> QED BY <2>5, <2>b, <2>h, <2>i, <3>2, <3>4, <5>2
        <4> QED BY <4>1, <4>2
      <3> QED BY <2>f, <3>5, <3>6, <3>7 DEF SemInv
    <2>6. CASE /\ sem' = sem /\ failed' \in {failed, failed + 1} /\ pc'[p] # "setval"
               /\ pc'[p] \in InPlaces => pc[p] \in InPlaces
      <3>1. Inside' = Inside \/ Inside' = Inside \ {p}
        BY <2>6, <2>c, <2>d
      <3>2. Cardinality(Inside') <= Cardinality(Inside) /\ Cardinality(Inside') \in Nat
        <4>1. CASE Inside' = Inside
          BY <2>b, <4>1
        <4>2. CASE Inside' = Inside \ {p}
          <5>1. Cardinality(Inside') \in Nat
            BY <2>f, FS_CardinalityType
          <5> QED BY <2>b, <2>g, <4>2, <5>1
        <4> QED BY <3>1, <4>1, <4>2
      <3>3. Value' = Value
        BY <2>6 DEF Value
      <3>4. Token' >= Token
        BY <2>6, <2>3
      <3>5. Value' + Cardinality(Inside') <= failed' + Token'
        BY <2>6, <2>b, <2>h, <2>i, <3>2, <3>3, <3>4
      <3> QED BY <2>3, <2>6, <2>f, <3>5 DEF SemInv
    <2> QED BY <1>2, <2>1, <2>2, <2>4, <2>5, <2>6, SemCases DEF InPlaces
  <1> QED BY <1>1, <1>2 DEF Next, Moves

(* At most one is inside, and one more for each failed call.               *)
LEMMA SemMutex == TypeOK /\ SemInv => MutualExclusion
  <1> SUFFICES ASSUME TypeOK, SemInv PROVE MutualExclusion
    OBVIOUS
  <1>1. Cardinality(Inside) \in Nat /\ Value \in Nat /\ failed \in Nat /\ Token \in {0, 1}
    BY FS_CardinalityType DEF SemInv, Value, TypeOK, Token
  <1>2. Value + Cardinality(Inside) <= failed + Token
    BY DEF SemInv
  <1> QED BY <1>1, <1>2 DEF MutualExclusion

(* While no call has failed nobody is inside with another, and who takes   *)
(* the lock finds nobody inside.                                           *)
LEMMA Alone ==
  ASSUME TypeOK, SemInv, failed = 0
  PROVE  /\ \A p, q \in Inside : p = q
         /\ sem > 0 => Inside = {}
  <1>1. Cardinality(Inside) \in Nat /\ IsFiniteSet(Inside) /\ sem \in Nat \cup {-1}
    BY FS_CardinalityType DEF SemInv, TypeOK
  <1>2. Value + Cardinality(Inside) <= 1
    BY <1>1 DEF SemInv, Value, Token
  <1>3. sem > 0 => Inside = {}
    <2>1. sem > 0 => Cardinality(Inside) = 0
      BY <1>1, <1>2 DEF Value
    <2> QED BY <1>1, <2>1, FS_EmptySet
  <1>4. ASSUME NEW p \in Inside, NEW q \in Inside, p # q
        PROVE  FALSE
    <2>1. Cardinality(Inside \ {p}) = Cardinality(Inside) - 1 /\ IsFiniteSet(Inside \ {p})
      BY <1>1, FS_RemoveElement
    <2>2. Cardinality(Inside \ {p}) \in Nat /\ Cardinality(Inside \ {p}) # 0
      <3>1. Inside \ {p} # {}
        BY <1>4
      <3> QED BY <2>1, <3>1, FS_EmptySet, FS_CardinalityType
    <2>3. Cardinality(Inside) <= 1
      BY <1>1, <1>2 DEF Value
    <2> QED BY <1>1, <2>1, <2>2, <2>3
  <1> QED BY <1>3, <1>4


----------------------------------------------------------------------------
(* The rings.                                                              *)

(* p empties the pipe: it attaches or creates it.                          *)
Empties(p, ft) ==
  \/ pc[p] \in {"make", "join", "listed"} /\ ft \in Attached(p, Directory(p), bt[p])
  \/ pc[p] = "upd_p" /\ ft \in Attached(p, head, bt[p])
  \/ pc[p] = "enter" /\ ft = <<p, to[p]>>

(* What one step may do to a pipe's contents and to what its reader got: a *)
(* pipe that is emptied while it is being used becomes torn, and a torn one*)
(* is not followed.                                                        *)
LEMMA RingCases ==
  ASSUME TypeOK, SelfInv, NEW p \in Terms, Moves(p), NEW ft \in Pairs
  PROVE  /\ torn \subseteq torn'
         /\ \/ ring'[ft] = ring[ft] /\ got'[ft] = got[ft]
            \/ /\ ring'[ft] = <<>> /\ got'[ft] = got[ft] /\ Empties(p, ft)
               /\ \A q \in Terms : Using(q, ft) => ft \in torn'
            \/ /\ pc[p] = "commit" /\ ft = <<p, to[p]>> /\ ft \notin torn /\ pc'[p] # "commit"
               /\ ring'[ft] = Append(ring[ft], msg[p]) /\ got'[ft] = got[ft]
               /\ RingCommit(p)
            \/ /\ pc[p] = "read" /\ ft = <<src[p], p>> /\ ft \notin torn /\ ring[ft] # <<>>
               /\ ring'[ft] = Tail(ring[ft]) /\ got'[ft] = Append(got[ft], Head(ring[ft]))
  <1> USE DEF semVars, ringVars, callVars, history
  <1>t. /\ pc \in [Terms -> Places] /\ ring \in [Pairs -> Seq(Nat)] /\ got \in [Pairs -> Seq(Nat)]
    BY DEF TypeOK
  <1>1. CASE torn \subseteq torn' /\ ring' = ring /\ got' = got
    BY <1>1
  <1>2. CASE Call(p)
    <2>1. ASSUME NEW t, NEW S, Submit(p, t, S)
          PROVE  torn \subseteq torn' /\ ring' = ring /\ got' = got
      BY <2>1 DEF Submit
    <2>2. CASE lock_create(p) \/ bus_poll(p)
      BY <1>1, <2>2 DEF lock_create, bus_poll, PollTerms
    <2>3. ASSUME NEW from, RingPeek(p, from)
          PROVE  torn \subseteq torn' /\ ring' = ring /\ got' = got
      BY <2>3 DEF RingPeek, TornBy
    <2>4. CASE bus_recv_all(p) \/ \E from \in Terms \ {p} : bus_recv(p, from)
      BY <1>1, <2>3, <2>4 DEF bus_recv, bus_recv_all
    <2>5. CASE bus_send_all(p) \/ (\E t \in Terms : bus_send(p, t))
                 \/ \E among \in SUBSET Terms : bus_send_by_type(p, among)
      BY <1>1, <2>1, <2>5 DEF bus_send, bus_send_all, bus_send_by_type
    <2> QED BY <1>2, <2>2, <2>4, <2>5 DEF Call
  <1>3. CASE \/ lock_setval(p) \/ lock_unlock(p) \/ AttachEnd(p) \/ bus_create(p)
             \/ UpdateTerms(p) \/ PollPipes(p) \/ SendPoll(p) \/ _bus_register_pipe(p)
    BY <1>1, <1>3 DEF lock_setval, lock_unlock, AttachEnd, bus_create, UpdateTerms, PollPipes, SendPoll,
                      PollTerms, _bus_register_pipe
  <1>4. CASE bus_release(p) \/ Crash(p)
    BY <1>1, <1>4 DEF bus_release, Crash, Stop
  <1>5. CASE RingCopy(p)
    BY <1>1, <1>5 DEF RingCopy, TornBy, SendFails
  <1>6. ASSUME NEW S, ring' = Emptied(S), torn' = torn \cup Raced(S), got' = got
        PROVE  /\ torn \subseteq torn'
               /\ \/ ring'[ft] = ring[ft] /\ got'[ft] = got[ft]
                  \/ /\ ring'[ft] = <<>> /\ got'[ft] = got[ft] /\ ft \in S
                     /\ \A q \in Terms : Using(q, ft) => ft \in torn'
    BY <1>6 DEF Emptied, Raced
  <1>7. CASE _bus_create_attach(p)
    <2>1. PICK S : S = Attached(p, Directory(p), bt[p])
      OBVIOUS
    <2>2. /\ ring' = Emptied(S) /\ torn' = torn \cup Raced(S) /\ got' = got
          /\ pc[p] \in {"make", "join", "listed"}
      BY <1>7, <2>1 DEF _bus_create_attach, AttachBegin
    <2> QED BY <1>6, <2>1, <2>2 DEF Empties
  <1>8. CASE UpdatePipes(p)
    <2>1. PICK S : S = Attached(p, head, bt[p])
      OBVIOUS
    <2>2. ring' = Emptied(S) /\ torn' = torn \cup Raced(S) /\ got' = got /\ pc[p] = "upd_p"
      BY <1>8, <2>1 DEF UpdatePipes, AttachBegin
    <2> QED BY <1>6, <2>1, <2>2 DEF Empties
  <1>9. CASE _bus_pipe_create(p)
    <2>1. PICK S : S = {<<p, to[p]>>}
      OBVIOUS
    <2>2. ring' = Emptied(S) /\ torn' = torn \cup Raced(S) /\ got' = got /\ pc[p] = "enter"
      BY <1>9, <2>1 DEF _bus_pipe_create
    <2>3. ft \in S => Empties(p, ft)
      BY <2>1, <2>2 DEF Empties
    <2> QED BY <1>6, <2>2, <2>3
  <1>10. CASE RingCommit(p)
    <2>1. /\ ring' = [ring EXCEPT ![<<p, to[p]>>] = IF <<p, to[p]>> \in torn THEN @ ELSE Append(@, msg[p])]
          /\ got' = got /\ torn' = torn /\ pc[p] = "commit"
      BY <1>10 DEF RingCommit
    <2>2. pc'[p] # "commit"
      <3>1. pc' = [pc EXCEPT ![p] = "idle"] \/ pc' = [pc EXCEPT ![p] = "send"]
        BY <1>10 DEF RingCommit
      <3> QED BY <3>1, <1>t
    <2>3. CASE ft # <<p, to[p]>> \/ ft \in torn
      BY <2>1, <2>3, <1>t
    <2>4. CASE ft = <<p, to[p]>> /\ ft \notin torn
      <3>1. ring'[ft] = Append(ring[ft], msg[p])
        BY <2>1, <2>4, <1>t
      <3> QED BY <1>10, <2>1, <2>2, <2>4, <3>1
    <2> QED BY <2>3, <2>4
  <1>11. CASE ReadCommit(p)
    <2>1. torn' = torn /\ pc[p] = "read"
      BY <1>11 DEF ReadCommit
    <2>2. CASE <<src[p], p>> \in torn
      BY <1>1, <1>11, <2>1, <2>2 DEF ReadCommit
    <2>3. CASE <<src[p], p>> \notin torn
      <3>1. /\ ring' = [ring EXCEPT ![<<src[p], p>>] = Tail(@)]
            /\ got' = [got EXCEPT ![<<src[p], p>>] = Append(@, Head(ring[<<src[p], p>>]))]
        BY <1>11, <2>3 DEF ReadCommit, Consumed
      <3>2. CASE ft # <<src[p], p>>
        BY <2>1, <3>1, <3>2, <1>t
      <3>3. CASE ft = <<src[p], p>>
        <4>1. ring[ft] # <<>>
          BY <2>1, <2>3, <3>3 DEF SelfInv, SelfOK
        <4>2. ring'[ft] = Tail(ring[ft]) /\ got'[ft] = Append(got[ft], Head(ring[ft]))
          BY <3>1, <3>3, <1>t
        <4> QED BY <2>1, <2>3, <3>3, <4>1, <4>2
      <3> QED BY <3>2, <3>3
    <2> QED BY <2>2, <2>3
  <1> QED BY <1>2, <1>3, <1>4, <1>5, <1>7, <1>8, <1>9, <1>10, <1>11 DEF Moves, Step

(* Nobody ever has a pipe to himself, and what was peeked stays.           *)
LEMMA SelfStep ==
  ASSUME TypeOK, SelfInv, [Next]_vars
  PROVE  SelfInv'
  <1> USE DEF semVars, ringVars, callVars, history
  <1>1. CASE UNCHANGED vars
    BY <1>1 DEF vars, SelfInv, SelfOK
  <1>2. ASSUME NEW p \in Terms, Moves(p)
        PROVE  SelfInv'
    <2>t. /\ pc \in [Terms -> Places] /\ att \in [Terms -> SUBSET Pairs] /\ bt \in [Terms -> Caches]
          /\ cont \in [Terms -> {"idle", "down", "poll_p", "register", "send"}]
          /\ to \in [Terms -> Terms \cup {"none"}] /\ src \in [Terms -> Terms \cup {"none"}]
          /\ ring \in [Pairs -> Seq(Nat)] /\ head \in Heads
      BY DEF TypeOK, Caches, Heads
    (* A pipe that was peeked keeps its message unless it becomes torn.    *)
    <2>1. ASSUME NEW q \in Terms \ {p}
          PROVE  SelfOK(q)'
      <3>1. /\ pc'[q] = pc[q] /\ bt'[q] = bt[q] /\ to'[q] = to[q] /\ src'[q] = src[q] /\ att'[q] = att[q]
        BY <1>2, OthersStay
      <3>2. SelfOK(q)
        BY DEF SelfInv
      <3>3. ASSUME pc[q] = "read", <<src[q], q>> \notin torn'
            PROVE  ring'[<<src[q], q>>] # <<>>
        <4>1. PICK ft \in Pairs : ft = <<src[q], q>>
          BY <3>2, <3>3 DEF SelfOK, Pairs
        <4>2. torn \subseteq torn'
          BY <1>2, <4>1, RingCases
        <4>3. ring[ft] # <<>> /\ ring[ft] \in Seq(Nat)
          BY <2>t, <3>2, <3>3, <4>1, <4>2 DEF SelfOK
        <4>4. Using(q, ft)
          BY <3>3, <4>1 DEF Using
        <4>5. ft # <<src[p], p>>
          BY <4>1
        <4>6. ring'[ft] \in {ring[ft], Append(ring[ft], msg[p])}
          BY <1>2, <3>3, <4>1, <4>4, <4>5, RingCases
        <4>7. msg[p] \in Nat
          BY DEF TypeOK
        <4>8. \A s \in Seq(Nat), m \in Nat : Append(s, m) # <<>>
          OBVIOUS
        <4> QED BY <4>1, <4>3, <4>6, <4>7, <4>8
      <3> QED BY <3>1, <3>2, <3>3 DEF SelfOK
    <2> SUFFICES SelfOK(p)'
      BY <2>1 DEF SelfInv
    <2>0. SelfOK(p)
      BY DEF SelfInv
    <2>a. p \notin NoBus.ipipes /\ p \notin NoBus.opipes
      BY DEF NoBus
    (* A step after which p neither enters a pipe nor reads.               *)
    <2>2. ASSUME p \notin bt'[p].ipipes, p \notin bt'[p].opipes,
                 pc'[p] \notin {"enter", "read"}, att'[p] = {} \/ pc'[p] = "attach"
          PROVE  SelfOK(p)'
      BY <2>2 DEF SelfOK
    <2>3. ASSUME bt'[p] = bt[p], att'[p] = att[p], pc[p] # "attach", pc'[p] \notin {"enter", "read"}
          PROVE  SelfOK(p)'
      BY <2>0, <2>2, <2>3 DEF SelfOK
    <2>4. CASE Call(p)
      <3>1. CASE lock_create(p)
        <4>1. bt'[p] = NoBus /\ pc'[p] \in {"setval", "create"} /\ att'[p] = att[p] /\ pc[p] = "down"
          BY <2>t, <3>1 DEF lock_create
        <4> QED BY <2>0, <2>2, <2>a, <4>1 DEF SelfOK
      <3>2. CASE bus_poll(p)
        <4>1. pc'[p] \in {"upd_t", "poll_p"} /\ UNCHANGED <<bt, att>> /\ pc[p] = "idle"
          BY <2>t, <3>2 DEF bus_poll, PollTerms
        <4> QED BY <2>3, <4>1
      <3>3. ASSUME NEW t, NEW S, Submit(p, t, S)
            PROVE  SelfOK(p)'
        <4>1. pc'[p] = "send" /\ UNCHANGED <<bt, att>> /\ pc[p] = "idle"
          BY <2>t, <3>3 DEF Submit
        <4> QED BY <2>3, <4>1
      <3>4. ASSUME NEW from \in bt[p].ipipes, RingPeek(p, from), pc[p] = "idle"
            PROVE  SelfOK(p)'
        <4>1. bt' = bt /\ att' = att /\ ring' = ring
          BY <3>4 DEF RingPeek
        <4>2. CASE UNCHANGED <<pc, src>>
          BY <2>3, <3>4, <4>1, <4>2
        <4>3. CASE /\ <<from, p>> \notin torn' /\ ring[<<from, p>>] # <<>>
                   /\ pc' = [pc EXCEPT ![p] = "read"] /\ src' = [src EXCEPT ![p] = from]
          <5>1. from \in Terms \ {p}
            BY <2>0, <2>t, <3>4 DEF SelfOK, Caches
          <5>2. pc'[p] = "read" /\ src'[p] = from
            BY <2>t, <4>3
          <5>3. att[p] = {}
            BY <2>0, <3>4 DEF SelfOK
          <5> QED BY <2>0, <4>1, <4>3, <5>1, <5>2, <5>3 DEF SelfOK
        <4> QED BY <3>4, <4>2, <4>3 DEF RingPeek
      <3> QED BY <2>4, <3>1, <3>2, <3>3, <3>4
                 DEF Call, bus_send, bus_send_all, bus_send_by_type, bus_recv, bus_recv_all
    <2>5. CASE lock_setval(p) \/ lock_unlock(p)
      <3>1. pc'[p] \notin {"enter", "read"} /\ UNCHANGED <<bt, att>> /\ pc[p] # "attach"
        BY <2>5, <2>t DEF lock_setval, lock_unlock
      <3> QED BY <2>3, <3>1
    <2>6. CASE AttachEnd(p)
      <3>1. pc'[p] = "unlock" /\ bt' = bt /\ att'[p] = {}
        BY <2>6, <2>t DEF AttachEnd
      <3> QED BY <2>0, <2>2, <3>1 DEF SelfOK
    <2>7. CASE bus_create(p)
      <3>1. pc'[p] \in {"make", "listed", "join", "unlock"} /\ UNCHANGED <<bt, att>> /\ pc[p] = "create"
        BY <2>7, <2>t DEF bus_create, Locked
      <3> QED BY <2>3, <3>1
    (* What p's pipes become from a directory.                             *)
    <2>8. ASSUME NEW h \in Heads, NEW b \in Caches, p \notin b.ipipes, p \notin b.opipes
          PROVE  p \notin _bus_update_pipes(p, h, b).ipipes /\ p \notin _bus_update_pipes(p, h, b).opipes
      <3>1. p \notin NewOut(p, h, b) /\ p \notin NewIn(p, h, b)
        BY AttachedType
      <3>2. /\ _bus_update_pipes(p, h, b).ipipes = b.ipipes \cup NewIn(p, h, b)
            /\ _bus_update_pipes(p, h, b).opipes = b.opipes \cup NewOut(p, h, b)
        BY DEF _bus_update_pipes, Caches
      <3> QED BY <2>8, <3>1, <3>2
    <2>b. ASSUME NEW h \in Heads
          PROVE  LET b == _bus_update_terminals(p, h, bt[p])
                 IN  b \in Caches /\ p \notin b.ipipes /\ p \notin b.opipes
      <3>1. bt[p] \in Caches
        BY <2>t
      <3>2. /\ _bus_update_terminals(p, h, bt[p]).ipipes = bt[p].ipipes
            /\ _bus_update_terminals(p, h, bt[p]).opipes = bt[p].opipes
        BY <3>1 DEF _bus_update_terminals, Caches
      <3> QED BY <2>0, <3>1, <3>2, UpdatedType DEF SelfOK
    <2>9. CASE _bus_create_attach(p)
      <3>1. PICK h \in Heads : h = Directory(p)
        BY <2>t, DirectoryType
      <3>2. PICK b : b = _bus_update_terminals(p, h, bt[p])
        OBVIOUS
      <3>3. /\ bt'[p] = _bus_update_pipes(p, h, b) /\ att'[p] = Attached(p, h, bt[p])
            /\ pc'[p] = ToAttach(Attached(p, h, bt[p]))
        BY <2>9, <2>t, <3>1, <3>2 DEF _bus_create_attach, AttachBegin
      <3>4. p \notin bt'[p].ipipes /\ p \notin bt'[p].opipes
        BY <2>8, <2>b, <3>2, <3>3
      <3> QED BY <2>2, <3>3, <3>4 DEF ToAttach
    <2>10. CASE UpdateTerms(p)
      <3>1. /\ bt'[p] = _bus_update_terminals(p, head, bt[p]) /\ att' = att
            /\ pc'[p] = "unlock" /\ pc[p] = "upd_t"
        BY <2>10, <2>t DEF UpdateTerms, Locked
      <3>2. p \notin bt'[p].ipipes /\ p \notin bt'[p].opipes
        BY <2>b, <2>t, <3>1
      <3> QED BY <2>0, <2>2, <3>1, <3>2 DEF SelfOK
    <2>11. CASE UpdatePipes(p)
      <3>1. /\ bt'[p] = _bus_update_pipes(p, head, bt[p]) /\ att'[p] = Attached(p, head, bt[p])
            /\ pc'[p] = ToAttach(Attached(p, head, bt[p]))
        BY <2>11, <2>t DEF UpdatePipes, Locked, AttachBegin
      <3>2. p \notin bt'[p].ipipes /\ p \notin bt'[p].opipes
        BY <2>0, <2>8, <2>t, <3>1 DEF SelfOK
      <3> QED BY <2>2, <3>1, <3>2 DEF ToAttach
    <2>12. CASE PollPipes(p) \/ SendPoll(p)
      <3>1. pc'[p] \notin {"enter", "read"} /\ UNCHANGED <<bt, att>> /\ pc[p] # "attach"
        BY <2>12, <2>t DEF PollPipes, SendPoll, PollTerms, AfterPoll
      <3> QED BY <2>3, <3>1
    <2>13. CASE _bus_register_pipe(p)
      <3>1. UNCHANGED <<bt, att>> /\ pc[p] = "register"
        BY <2>13 DEF _bus_register_pipe
      <3>2. CASE Locked(p, "unlock", "idle")
        <4>1. pc'[p] = "unlock"
          BY <2>t, <3>2 DEF Locked
        <4> QED BY <2>3, <3>1, <4>1
      <3>3. CASE ~Refused(p) /\ Locked(p, "enter", "send") /\ to' = to
        <4>1. pc'[p] = "enter"
          BY <2>t, <3>3 DEF Locked
        <4>2. Elems(head.terms) \subseteq Terms
          BY <2>t, ElemsType DEF Heads
        <4>3. to[p] \in Terms \ {p}
          BY <3>3, <4>2 DEF Refused
        <4> QED BY <2>0, <3>1, <3>3, <4>1, <4>3 DEF SelfOK
      <3> QED BY <2>13, <3>2, <3>3 DEF _bus_register_pipe
    <2>14. CASE _bus_pipe_create(p)
      <3>1. pc'[p] = "unlock" /\ pc[p] = "enter" /\ att' = att
        BY <2>14, <2>t DEF _bus_pipe_create
      <3>2. bt'[p].ipipes = bt[p].ipipes /\ bt'[p].opipes = bt[p].opipes \cup {to[p]}
        <4>1. bt' = [bt EXCEPT ![p] = [bt[p] EXCEPT !.opipes = @ \cup {to[p]}, !.pver = head'.pver]]
          BY <2>14, <2>t DEF _bus_pipe_create
        <4>2. bt'[p] = [bt[p] EXCEPT !.opipes = @ \cup {to[p]}, !.pver = head'.pver] /\ bt[p] \in Caches
          BY <2>t, <4>1
        <4> QED BY <4>2 DEF Caches
      <3> QED BY <2>0, <2>2, <3>1, <3>2 DEF SelfOK
    <2>15. CASE RingCopy(p)
      <3>1. UNCHANGED <<bt, att>> /\ pc[p] = "send" /\ pc'[p] \in {"commit", "idle"}
        BY <2>15, <2>t DEF RingCopy, SendFails
      <3> QED BY <2>3, <3>1
    <2>16. CASE RingCommit(p) \/ ReadCommit(p)
      <3>1. UNCHANGED <<bt, att>> /\ pc[p] \in {"commit", "read"} /\ pc'[p] \in {"send", "idle"}
        BY <2>16, <2>t DEF RingCommit, ReadCommit
      <3> QED BY <2>3, <3>1
    <2>17. CASE bus_release(p) \/ Crash(p)
      <3>1. bt'[p] = NoBus /\ pc'[p] = "down" /\ att'[p] = {}
        BY <2>17, <2>t DEF bus_release, Crash, Stop
      <3> QED BY <2>2, <2>a, <3>1
    <2> QED BY <1>2, <2>4, <2>5, <2>6, <2>7, <2>9, <2>10, <2>11, <2>12, <2>13, <2>14, <2>15, <2>16, <2>17
               DEF Moves, Step
  <1> QED BY <1>1, <1>2 DEF Next, Moves

----------------------------------------------------------------------------
(* The directory.                                                          *)

(* What one step may do to the directory.                                  *)
LEMMA HeadCases ==
  ASSUME TypeOK, ProcInv, NEW p \in Terms, Moves(p)
  PROVE  \/ head' = head
         \/ pc[p] = "make" /\ ~head.exists /\ head' = FirstHead(p)
         \/ /\ pc[p] = "join" /\ head.exists /\ ~Registered(p) /\ Len(head.terms) < MaxTerms
            /\ head' = NextHead(p)
         \/ pc[p] = "enter" /\ ~Refused(p) /\ head' = Entered(head, p, to[p])
  <1> USE DEF semVars, ringVars, callVars, history
  <1>1. head \in Heads /\ CheckedOK(p)
    BY DEF TypeOK, Heads, ProcInv
  <1>2. CASE _bus_create_attach(p)
    <2>1. head' = Directory(p) /\ pc[p] \in {"make", "join", "listed"}
      BY <1>2 DEF _bus_create_attach
    <2> QED BY <1>1, <2>1, DirectoryType DEF CheckedOK
  <1>3. CASE _bus_pipe_create(p)
    BY <1>1, <1>3 DEF _bus_pipe_create, CheckedOK
  <1>4. ASSUME NEW t, NEW S, Submit(p, t, S)
        PROVE  head' = head
    BY <1>4 DEF Submit
  <1>5. ASSUME NEW from, RingPeek(p, from)
        PROVE  head' = head
    BY <1>5 DEF RingPeek
  <1>6. CASE Call(p)
    BY <1>4, <1>5, <1>6 DEF Call, lock_create, bus_poll, PollTerms, bus_send, bus_send_by_type,
                           bus_send_all, bus_recv, bus_recv_all
  <1>7. CASE bus_release(p) \/ Crash(p)
    BY <1>7 DEF bus_release, Crash, Stop
  <1>8. CASE \/ lock_setval(p) \/ lock_unlock(p) \/ bus_create(p) \/ AttachEnd(p) \/ UpdateTerms(p)
             \/ PollPipes(p) \/ UpdatePipes(p) \/ SendPoll(p) \/ _bus_register_pipe(p) \/ ReadCommit(p)
    BY <1>8 DEF lock_setval, lock_unlock, bus_create, AttachEnd, UpdateTerms, PollPipes, UpdatePipes,
                SendPoll, PollTerms, _bus_register_pipe, ReadCommit
  <1>9. CASE RingCopy(p) \/ RingCommit(p)
    BY <1>9 DEF RingCopy, RingCommit, SendFails
  <1> QED BY <1>2, <1>3, <1>6, <1>7, <1>8, <1>9 DEF Moves, Step

(* The pipe a process is about to enter is between two terminals of the    *)
(* directory and, by ProcInv, not in it.                                   *)
LEMMA RegisterNew ==
  ASSUME TypeOK, ProcInv, NEW p \in Terms, pc[p] = "enter"
  PROVE  /\ to[p] \in Terms /\ to[p] # p /\ to[p] \in Elems(head.terms)
         /\ head.exists /\ p \in Elems(head.terms)
         /\ <<p, to[p]>> \in Pairs /\ <<p, to[p]>> \notin PipesOf(head)
         /\ Len(head.pipes) < MaxPipes /\ bt[p].pver = head.pver
  <1>1. Elems(head.terms) \subseteq Terms
    BY ElemsType DEF TypeOK
  <1>2. to[p] \in Elems(head.terms) /\ to[p] # p /\ bt[p].pver = head.pver /\ ~(Len(head.pipes) >= MaxPipes)
    BY DEF Refused, ProcInv, CheckedOK
  <1>3. Len(head.pipes) \in Nat
    BY DEF TypeOK
  <1>4. At(p) = "enter"
    BY DEF At
  <1>5. to[p] # "none"
    BY <1>1, <1>2, NotTerms
  <1> QED BY <1>1, <1>2, <1>3, <1>4, <1>5, BoundsAssumption DEF ProcInv, ProcOK, Without, Seeking, Pairs

(* The directory only grows, by a step's own process and its pipes, and its*)
(* versions tell whether it has.                                           *)
LEMMA HeadGrows ==
  ASSUME TypeOK, DirInv, ProcInv, head.exists, NEW p \in Terms, Moves(p)
  PROVE  /\ head'.exists
         /\ Elems(head.terms) \subseteq Elems(head'.terms)
         /\ Elems(head'.terms) \subseteq Elems(head.terms) \cup {p}
         /\ PipesOf(head) \subseteq PipesOf(head')
         /\ \A ft \in PipesOf(head') \ PipesOf(head) : ft[1] = p
         /\ head'.tver >= head.tver /\ head'.pver >= head.pver
         /\ head'.tver = head.tver => head'.terms = head.terms
         /\ head'.pver = head.pver => head'.pipes = head.pipes
  <1>1. head \in Heads
    BY DEF TypeOK, Heads
  <1>2. head.terms \in Seq(Terms) /\ head.pipes \in Seq(Pairs) /\ head.tver \in Nat /\ head.pver \in Nat
    BY <1>1 DEF Heads
  <1>3. CASE head' = head
    BY <1>2, <1>3 DEF PipesOf
  <1>4. CASE head' = NextHead(p)
    <2>1. /\ head'.exists = head.exists /\ head'.terms = Append(head.terms, p)
          /\ head'.pipes = head.pipes /\ head'.tver = head.tver + 1 /\ head'.pver = head.pver
      BY <1>1, <1>4 DEF NextHead, Heads
    <2>2. Elems(head'.terms) = Elems(head.terms) \cup {p}
      BY <1>2, <2>1, ElemsAppend
    <2> QED BY <1>2, <2>1, <2>2 DEF PipesOf
  <1>5. CASE pc[p] = "enter" /\ head' = Entered(head, p, to[p])
    <2>1. <<p, to[p]>> \in Pairs
      BY <1>5, RegisterNew
    <2>2. /\ head'.exists = head.exists /\ head'.terms = head.terms
          /\ head'.pipes = Append(head.pipes, <<p, to[p]>>)
          /\ head'.tver = head.tver /\ head'.pver = head.pver + 1
      BY <1>1, <1>5 DEF Entered, Heads
    <2>3. PipesOf(head') = PipesOf(head) \cup {<<p, to[p]>>}
      BY <1>2, <2>1, <2>2, ElemsAppend DEF PipesOf
    <2> QED BY <1>2, <2>2, <2>3
  <1> QED BY <1>3, <1>4, <1>5, HeadCases

(* A new entry at the end keeps the entries distinct.                      *)
LEMMA DistinctAppend ==
  ASSUME NEW T, NEW s \in Seq(T), NEW e \in T, e \notin Elems(s),
         \A i, j \in 1..Len(s) : s[i] = s[j] => i = j
  PROVE  \A i, j \in 1..Len(Append(s, e)) : Append(s, e)[i] = Append(s, e)[j] => i = j
  BY DEF Elems

LEMMA DirStep ==
  ASSUME TypeOK, DirInv, ProcInv, [Next]_vars
  PROVE  DirInv'
  <1>1. CASE head' = head
    BY <1>1 DEF DirInv, DirectoryUnique, PipesOf
  <1>2. ASSUME NEW p \in Terms, Moves(p)
        PROVE  DirInv'
    <2>0. head \in Heads
      BY DEF TypeOK, Heads
    <2>a. head.terms \in Seq(Terms) /\ head.pipes \in Seq(Pairs) /\ head.tver \in Nat /\ head.pver \in Nat
      BY <2>0 DEF Heads
    <2>1. CASE head' = FirstHead(p)
      <3>1. /\ head'.exists /\ head'.terms = <<p>> /\ head'.pipes = <<>>
            /\ head'.tver = 1 /\ head'.pver = 1
        BY <2>1 DEF FirstHead
      <3>2. PipesOf(head') = {}
        BY <3>1 DEF PipesOf, Elems
      <3> QED BY <3>1, <3>2, BoundsAssumption DEF DirInv, DirectoryUnique
    <2>2. CASE head.exists /\ ~Registered(p) /\ Len(head.terms) < MaxTerms /\ head' = NextHead(p)
      <3>1. /\ head'.exists = head.exists /\ head'.terms = Append(head.terms, p)
            /\ head'.pipes = head.pipes /\ head'.tver = head.tver + 1 /\ head'.pver = head.pver
        BY <2>0, <2>2 DEF NextHead, Heads
      <3>2. Elems(head'.terms) = Elems(head.terms) \cup {p} /\ p \notin Elems(head.terms)
        BY <2>2, <2>a, <3>1, ElemsAppend DEF Registered, Elems
      <3>3. \A i, j \in 1..Len(head'.terms) : head'.terms[i] = head'.terms[j] => i = j
        <4>1. \A i, j \in 1..Len(head.terms) : head.terms[i] = head.terms[j] => i = j
          BY DEF DirInv, DirectoryUnique
        <4>2. \A i, j \in 1..Len(Append(head.terms, p)) :
                Append(head.terms, p)[i] = Append(head.terms, p)[j] => i = j
          BY <2>a, <3>2, <4>1, DistinctAppend
        <4> QED BY <3>1, <4>2
      <3>4. Len(head'.terms) <= MaxTerms
        BY <2>2, <2>a, <3>1, BoundsAssumption
      <3> QED BY <2>2, <2>a, <3>1, <3>2, <3>3, <3>4 DEF DirInv, DirectoryUnique, PipesOf
    <2>3. CASE pc[p] = "enter" /\ head' = Entered(head, p, to[p])
      <3> DEFINE ft == <<p, to[p]>>
      <3>1. /\ head'.exists = head.exists /\ head'.terms = head.terms
            /\ head'.pipes = Append(head.pipes, ft)
            /\ head'.tver = head.tver /\ head'.pver = head.pver + 1
        BY <2>0, <2>3 DEF Entered, Heads
      <3>2. /\ ft \in Pairs /\ ft \notin PipesOf(head) /\ Len(head.pipes) < MaxPipes
            /\ ft[1] \in Elems(head.terms) /\ ft[2] \in Elems(head.terms) /\ head.exists
        BY <2>3, RegisterNew
      <3> HIDE DEF ft
      <3>3. Elems(head'.pipes) = Elems(head.pipes) \cup {ft}
        BY <2>a, <3>1, <3>2, ElemsAppend
      <3>4. \A i, j \in 1..Len(head'.pipes) : head'.pipes[i] = head'.pipes[j] => i = j
        <4>1. \A i, j \in 1..Len(head.pipes) : head.pipes[i] = head.pipes[j] => i = j
          BY DEF DirInv, DirectoryUnique
        <4>2. ft \notin Elems(head.pipes)
          BY <3>2 DEF PipesOf
        <4>3. \A i, j \in 1..Len(Append(head.pipes, ft)) :
                Append(head.pipes, ft)[i] = Append(head.pipes, ft)[j] => i = j
          BY <2>a, <3>2, <4>1, <4>2, DistinctAppend
        <4> QED BY <3>1, <4>3
      <3>5. Len(head'.pipes) <= MaxPipes
        BY <2>a, <3>1, <3>2, BoundsAssumption
      <3> QED BY <2>a, <3>1, <3>2, <3>3, <3>4, <3>5 DEF DirInv, DirectoryUnique, PipesOf
    <2> QED BY <1>1, <1>2, <2>1, <2>2, <2>3, HeadCases
  <1> QED BY <1>1, <1>2 DEF Next, Moves, vars

----------------------------------------------------------------------------
(* Processes.                                                              *)

(* A directory written by _bus_create_attach has p in it.                  *)
LEMMA MadeHead ==
  ASSUME TypeOK, NEW p \in Terms, CheckedOK(p), pc[p] \in {"make", "join", "listed"}
  PROVE  Directory(p) \in Heads /\ Directory(p).exists /\ p \in Elems(Directory(p).terms)
  <1>1. head \in Heads /\ head.terms \in Seq(Terms)
    BY DEF TypeOK, Heads
  <1>2. CASE pc[p] = "make"
    <2>1. Directory(p) = FirstHead(p)
      BY <1>1, <1>2, DirectoryType
    <2>2. FirstHead(p).exists /\ FirstHead(p).terms = <<p>>
      BY DEF FirstHead
    <2>3. p \in Elems(<<p>>)
      BY DEF Elems
    <2> QED BY <2>1, <2>2, <2>3, FirstType
  <1>3. CASE pc[p] = "listed"
    <2>1. Directory(p) = head
      BY <1>1, <1>3, DirectoryType
    <2> QED BY <1>1, <1>3, <2>1 DEF CheckedOK, Registered, Elems
  <1>4. CASE pc[p] = "join"
    <2>1. Directory(p) = NextHead(p)
      BY <1>1, <1>4, DirectoryType
    <2>2. NextHead(p).exists = head.exists /\ NextHead(p).terms = Append(head.terms, p)
      BY <1>1 DEF NextHead, Heads
    <2>3. p \in Elems(NextHead(p).terms)
      BY <1>1, <2>2, ElemsAppend
    <2> QED BY <1>1, <1>4, <2>1, <2>2, <2>3, NextType DEF CheckedOK
  <1> QED BY <1>2, <1>3, <1>4

LEMMA ProcStep ==
  ASSUME TypeOK, SemInv, failed = 0, DirInv, ProcInv, CacheInv, [Next]_vars
  PROVE  ProcInv'
  <1> USE DEF semVars, ringVars, callVars, history
  <1>1. CASE UNCHANGED vars
    BY <1>1 DEF vars, ProcInv, ProcOK, CheckedOK, Registered, Refused, At, PipesOf
  <1>2. ASSUME NEW p \in Terms, Moves(p)
        PROVE  ProcInv'
    <2>1. ASSUME NEW q \in Terms \ {p}
          PROVE  ProcOK(q)'
      <3>1. pc'[q] = pc[q] /\ cont'[q] = cont[q] /\ bt'[q] = bt[q] /\ to'[q] = to[q]
        BY <1>2, OthersStay
      <3>2. At(q)' = At(q)
        BY <3>1 DEF At
      <3>3. CASE head.exists
        <4>1. /\ head'.exists /\ Elems(head.terms) \subseteq Elems(head'.terms)
              /\ Elems(head'.terms) \subseteq Elems(head.terms) \cup {p}
              /\ \A ft \in PipesOf(head') \ PipesOf(head) : ft[1] = p
          BY <1>2, <3>3, HeadGrows
        <4> QED BY <3>1, <3>2, <4>1 DEF ProcInv, ProcOK
      <3>4. CASE ~head.exists
        BY <3>1, <3>2, <3>4 DEF ProcInv, ProcOK, Without, Seeking
      <3> QED BY <3>3, <3>4
    (* What a process inside the lock has looked up, the others leave.     *)
    <2>c. ASSUME NEW q \in Terms \ {p}
          PROVE  CheckedOK(q)'
      <3>1. pc'[q] = pc[q] /\ cont'[q] = cont[q] /\ bt'[q] = bt[q] /\ to'[q] = to[q]
        BY <1>2, OthersStay
      <3>2. CASE pc[q] \notin {"make", "join", "listed", "enter"}
        BY <3>1, <3>2 DEF CheckedOK
      <3>3. CASE pc[q] \in {"make", "join", "listed", "enter"}
        <4>1. p \notin Inside
          BY <3>3, Alone DEF Inside
        <4>2. head' = head
          BY <1>2, <4>1, HeadCases DEF Inside
        <4> QED BY <3>1, <4>2 DEF ProcInv, CheckedOK, Registered, Refused
      <3> QED BY <3>2, <3>3
    <2> SUFFICES ProcOK(p)' /\ CheckedOK(p)'
      BY <2>1, <2>c DEF ProcInv
    <2>0. ProcOK(p) /\ CheckedOK(p)
      BY DEF ProcInv
    <2>a. /\ pc \in [Terms -> Places]
          /\ cont \in [Terms -> {"idle", "down", "poll_p", "register", "send"}]
          /\ bt \in [Terms -> Caches] /\ head \in Heads
          /\ to \in [Terms -> Terms \cup {"none"}]
      BY DEF TypeOK, Caches, Heads
    <2>b. ASSUME pc'[p] \notin {"make", "join", "listed", "enter"}
          PROVE  CheckedOK(p)'
      BY <2>b DEF CheckedOK
    <2>2. CASE lock_create(p) \/ lock_setval(p)
      <3>1. /\ pc'[p] \in {"setval", "create"} /\ bt'[p] = NoBus /\ to'[p] = to[p]
            /\ At(p) \in Without
        BY <2>0, <2>2, <2>a DEF lock_create, lock_setval, ProcOK, At, Without
      <3> QED BY <2>0, <2>b, <3>1 DEF ProcOK, At, Without, Seeking
    <2>3. CASE lock_unlock(p)
      <3>1. /\ pc'[p] = cont[p] /\ cont[p] \notin {"unlock", "attach"} /\ UNCHANGED <<head, bt, to>>
            /\ pc[p] = "unlock" /\ cont[p] \in {"idle", "down", "poll_p", "register", "send"}
        BY <2>3, <2>a DEF lock_unlock
      <3>2. At(p)' = At(p)
        BY <3>1 DEF At
      <3> QED BY <2>0, <2>b, <3>1, <3>2 DEF ProcOK, PipesOf
    <2>4. CASE AttachEnd(p)
      <3>1. pc[p] = "attach" /\ pc'[p] = "unlock" /\ UNCHANGED <<head, bt, to, cont>>
        BY <2>4, <2>a DEF AttachEnd
      <3>2. At(p)' = At(p)
        BY <3>1 DEF At
      <3> QED BY <2>0, <2>b, <3>1, <3>2 DEF ProcOK, PipesOf
    <2>5. CASE bus_create(p)
      <3>1. At(p) = "create" /\ to[p] = "none" /\ bt[p] = NoBus /\ UNCHANGED <<head, bt, to>>
        BY <2>0, <2>5 DEF bus_create, ProcOK, At, Without
      <3>2. CASE head.exists /\ ~Registered(p) /\ Locked(p, "unlock", "down")
        <4>1. p \notin Elems(head.terms)
          BY <3>2 DEF Registered, Elems
        <4>2. pc'[p] = "unlock" /\ cont'[p] = "down"
          BY <3>2, <2>a DEF Locked
        <4> QED BY <2>b, <3>1, <3>2, <4>1, <4>2 DEF ProcOK, At, Without, Seeking
      <3>3. CASE ~head.exists /\ Locked(p, "make", "idle")
        <4>1. pc'[p] = "make" /\ cont'[p] = "idle"
          BY <3>3, <2>a DEF Locked
        <4> QED BY <3>1, <3>3, <4>1 DEF ProcOK, CheckedOK, At, Without, Seeking
      <3>4. CASE head.exists /\ Registered(p) /\ Locked(p, "listed", "idle")
        <4>1. pc'[p] = "listed" /\ cont'[p] = "idle"
          BY <3>4, <2>a DEF Locked
        <4> QED BY <3>1, <3>4, <4>1 DEF ProcOK, CheckedOK, At, Without, Seeking, Registered
      <3>5. CASE head.exists /\ ~Registered(p) /\ Len(head.terms) < MaxTerms /\ Locked(p, "join", "idle")
        <4>1. pc'[p] = "join" /\ cont'[p] = "idle"
          BY <3>5, <2>a DEF Locked
        <4> QED BY <3>1, <3>5, <4>1 DEF ProcOK, CheckedOK, At, Without, Seeking, Registered
      <3> QED BY <2>5, <3>2, <3>3, <3>4, <3>5 DEF bus_create
    <2>6. CASE _bus_create_attach(p)
      <3>1. /\ pc[p] \in {"make", "join", "listed"} /\ head' = Directory(p) /\ to' = to /\ cont' = cont
            /\ pc'[p] \in {"attach", "unlock"}
        BY <2>6, <2>a DEF _bus_create_attach, ToAttach
      <3>2. cont[p] = "idle" /\ to[p] = "none"
        BY <2>0, <3>1 DEF ProcOK, CheckedOK, At, Without
      <3>3. head'.exists /\ p \in Elems(head'.terms)
        BY <2>0, <3>1, MadeHead
      <3> QED BY <2>b, <3>1, <3>2, <3>3 DEF ProcOK, At, Without, Seeking
    <2>7. CASE bus_poll(p) \/ SendPoll(p)
      <3>1. pc'[p] \in {"upd_t", "poll_p"} /\ UNCHANGED <<head, bt, to>> /\ At(p) \in {"idle", "send"}
        BY <2>7, <2>a DEF bus_poll, SendPoll, PollTerms, At
      <3>2. to[p] # "none" => <<p, to[p]>> \notin PipesOf(head)
        <4>1. CASE pc[p] = "idle"
          BY <2>0, <4>1 DEF ProcOK, At
        <4>2. CASE pc[p] = "send" /\ ~HasPipe(p)
          BY <2>a, <4>2 DEF CacheInv, CacheOK, Up, HasPipe
        <4> QED BY <2>7, <4>1, <4>2 DEF bus_poll, SendPoll
      <3> QED BY <2>0, <2>b, <3>1, <3>2 DEF ProcOK, At, Without, Seeking, PipesOf
    <2>8. CASE UpdateTerms(p)
      <3>1. pc'[p] = "unlock" /\ cont'[p] = "poll_p" /\ UNCHANGED <<head, to>> /\ At(p) = "upd_t"
        BY <2>8, <2>a DEF UpdateTerms, Locked, At
      <3> QED BY <2>0, <2>b, <3>1 DEF ProcOK, At, Without, Seeking, PipesOf
    <2>9. CASE PollPipes(p)
      <3>1. pc'[p] \in {"upd_p", AfterPoll(p)} /\ UNCHANGED <<head, to>> /\ At(p) = "poll_p"
        BY <2>9, <2>a DEF PollPipes, At
      <3> QED BY <2>0, <2>b, <3>1 DEF ProcOK, At, Without, Seeking, PipesOf, AfterPoll
    <2>10. CASE UpdatePipes(p)
      <3>1. /\ pc'[p] \in {"attach", "unlock"} /\ cont'[p] = AfterPoll(p) /\ UNCHANGED <<head, to>>
            /\ At(p) = "upd_p"
        BY <2>10, <2>a DEF UpdatePipes, Locked, At, ToAttach
      <3> QED BY <2>0, <2>b, <3>1 DEF ProcOK, At, Without, Seeking, PipesOf, AfterPoll
    <2>11. CASE _bus_register_pipe(p)
      <3>0. pc[p] = "register" /\ At(p) = "register" /\ UNCHANGED <<head, bt>>
        BY <2>11 DEF _bus_register_pipe, At
      <3>1. CASE Locked(p, "unlock", "idle") /\ NoSend(p)
        <4>1. pc'[p] = "unlock" /\ cont'[p] = "idle" /\ to'[p] = "none"
          BY <3>1, <2>a DEF Locked, NoSend
        <4> QED BY <2>0, <2>b, <3>0, <4>1 DEF ProcOK, At, Without, Seeking
      <3>2. CASE ~Refused(p) /\ Locked(p, "enter", "send") /\ to' = to
        <4>1. pc'[p] = "enter" /\ cont'[p] = "send"
          BY <3>2, <2>a DEF Locked
        <4> QED BY <2>0, <3>0, <3>2, <4>1 DEF ProcOK, CheckedOK, Refused, At, Without, Seeking, PipesOf
      <3> QED BY <2>11, <3>1, <3>2 DEF _bus_register_pipe
    <2>12. CASE _bus_pipe_create(p)
      <3>1. pc[p] = "enter" /\ pc'[p] = "unlock" /\ cont' = cont /\ to' = to /\ cont[p] = "send"
        BY <2>0, <2>12, <2>a DEF _bus_pipe_create, CheckedOK
      <3>2. head'.exists = head.exists /\ head'.terms = head.terms
        BY <2>12, <2>a DEF _bus_pipe_create, Entered, Heads
      <3> QED BY <2>0, <2>b, <3>1, <3>2 DEF ProcOK, At, Without, Seeking
    <2>13. ASSUME NEW t \in Terms, NEW S, Submit(p, t, S)
           PROVE  ProcOK(p)' /\ CheckedOK(p)'
      <3>1. pc'[p] = "send" /\ to'[p] = t /\ UNCHANGED <<head, bt>> /\ At(p) = "idle" /\ t # "none"
        BY <2>13, <2>a, NotTerms DEF Submit, At
      <3> QED BY <2>0, <2>b, <3>1 DEF ProcOK, At, Without, Seeking
    <2>14. CASE bus_send_all(p) \/ (\E t \in Terms : bus_send(p, t))
                 \/ \E among \in SUBSET Terms : bus_send_by_type(p, among)
      BY <2>13, <2>14, FirstOfType DEF bus_send, bus_send_all, bus_send_by_type
    <2>15. CASE bus_recv_all(p) \/ \E from \in Terms \ {p} : bus_recv(p, from)
      <3>1. pc[p] = "idle" /\ pc'[p] \in {"idle", "read"} /\ UNCHANGED <<head, bt, to, cont>>
        BY <2>15, <2>a DEF bus_recv_all, bus_recv, RingPeek
      <3> QED BY <2>0, <2>b, <3>1 DEF ProcOK, At, Without, Seeking
    <2>16. CASE RingCopy(p)
      <3>1. pc[p] = "send" /\ UNCHANGED <<head, bt>>
        BY <2>16 DEF RingCopy, SendFails
      <3>2. CASE SendFails(p)
        <4>1. pc'[p] = "idle" /\ to'[p] = "none"
          BY <2>a, <3>2 DEF SendFails, NoSend
        <4> QED BY <2>0, <2>b, <3>1, <4>1 DEF ProcOK, At, Without, Seeking
      <3>3. CASE pc' = [pc EXCEPT ![p] = "commit"] /\ to' = to
        <4>1. pc'[p] = "commit"
          BY <2>a, <3>3
        <4> QED BY <2>0, <2>b, <3>1, <3>3, <4>1 DEF ProcOK, At, Without, Seeking
      <3> QED BY <2>16, <3>2, <3>3 DEF RingCopy
    <2>17. CASE RingCommit(p)
      <3> DEFINE next == FirstOf(bt[p].terms, left[p])
      <3>1. next \subseteq Terms
        BY FirstOfType DEF TypeOK
      <3>2. /\ pc[p] = "commit" /\ UNCHANGED <<head, bt>>
            /\ \/ NoSend(p) /\ pc' = [pc EXCEPT ![p] = "idle"]
               \/ \E t \in next : to' = [to EXCEPT ![p] = t] /\ pc' = [pc EXCEPT ![p] = "send"]
        BY <2>17 DEF RingCommit
      <3> HIDE DEF next
      <3>3. CASE NoSend(p) /\ pc' = [pc EXCEPT ![p] = "idle"]
        BY <2>0, <2>a, <2>b, <3>2, <3>3 DEF NoSend, ProcOK, At, Without, Seeking
      <3>4. ASSUME NEW t \in next, to' = [to EXCEPT ![p] = t], pc' = [pc EXCEPT ![p] = "send"]
            PROVE  ProcOK(p)' /\ CheckedOK(p)'
        <4>1. to'[p] = t /\ t # "none" /\ pc'[p] = "send"
          BY <2>a, <3>1, <3>4, NotTerms
        <4> QED BY <2>0, <2>b, <3>2, <4>1 DEF ProcOK, At, Without, Seeking
      <3> QED BY <3>2, <3>3, <3>4
    <2>18. CASE ReadCommit(p)
      <3>1. pc[p] = "read" /\ pc'[p] = "idle" /\ UNCHANGED <<head, bt, to>>
        BY <2>18, <2>a DEF ReadCommit
      <3> QED BY <2>0, <2>b, <3>1 DEF ProcOK, At, Without, Seeking
    <2>19. CASE bus_release(p) \/ Crash(p)
      <3>1. pc'[p] = "down" /\ bt'[p] = NoBus /\ to'[p] = "none"
        BY <2>19, <2>a DEF bus_release, Crash, Stop, NoSend
      <3> QED BY <2>b, <3>1 DEF ProcOK, At, Without, Seeking
    <2> QED BY <1>2, <2>2, <2>3, <2>4, <2>5, <2>6, <2>7, <2>8, <2>9, <2>10, <2>11, <2>12, <2>14, <2>15,
               <2>16, <2>17, <2>18, <2>19 DEF Moves, Call, Step
  <1> QED BY <1>1, <1>2 DEF Next, Moves

----------------------------------------------------------------------------
(* The caches.                                                             *)

(* A cache filled from a directory agrees with it.                         *)
LEMMA FilledCache ==
  ASSUME NEW p \in Terms, NEW h \in Heads, NEW b \in Caches,
         b.tver <= h.tver, b.tver = h.tver => b.terms = h.terms,
         b.ipipes \subseteq {from \in Terms : <<from, p>> \in PipesOf(h)},
         b.opipes \subseteq {t \in Terms : <<p, t>> \in PipesOf(h)},
         NEW c, c = _bus_update_pipes(p, h, b)
  PROVE  /\ c.tver = b.tver /\ c.terms = b.terms /\ c.pver = h.pver
         /\ c.ipipes = {from \in Terms : <<from, p>> \in PipesOf(h)}
         /\ c.opipes = {t \in Terms : <<p, t>> \in PipesOf(h)}
  BY DEF Caches, _bus_update_pipes, NewIn, NewOut, PipesOf

LEMMA FilledTerms ==
  ASSUME NEW p \in Terms, NEW h \in Heads, NEW b \in Caches, NEW c,
         c = _bus_update_terminals(p, h, b)
  PROVE  /\ c \in Caches /\ c.tver = h.tver /\ c.terms = h.terms
         /\ c.pver = b.pver /\ c.ipipes = b.ipipes /\ c.opipes = b.opipes
  BY DEF Caches, Heads, _bus_update_terminals

LEMMA CacheStep ==
  ASSUME TypeOK, TypeOK', DirInv, ProcInv, CacheInv, [Next]_vars
  PROVE  CacheInv'
  <1> USE DEF semVars, ringVars, callVars, history
  <1>1. CASE UNCHANGED vars
    BY <1>1 DEF vars, CacheInv, CacheOK, Up, PipesOf
  <1>2. ASSUME NEW p \in Terms, Moves(p)
        PROVE  CacheInv'
    <2>a. pc \in [Terms -> Places] /\ bt \in [Terms -> Caches] /\ head \in Heads
      BY DEF TypeOK, Caches, Heads
    <2>b. \A q \in Terms : Up(q) => head.exists
      BY DEF TypeOK, ProcInv, ProcOK, Up, At, Without
    <2>1. ASSUME NEW q \in Terms \ {p}, Up(q)'
          PROVE  CacheOK(q)'
      <3>1. pc'[q] = pc[q] /\ bt'[q] = bt[q] /\ Up(q)
        BY <1>2, <2>1, OthersStay DEF Up
      <3>2. CacheOK(q) /\ head.exists
        BY <2>b, <3>1 DEF CacheInv
      <3>3. /\ PipesOf(head) \subseteq PipesOf(head')
            /\ \A ft \in PipesOf(head') \ PipesOf(head) : ft[1] = p
            /\ head'.tver >= head.tver /\ head'.pver >= head.pver
            /\ head'.tver = head.tver => head'.terms = head.terms
            /\ head'.pver = head.pver => head'.pipes = head.pipes
        BY <1>2, <3>2, HeadGrows
      <3>4. /\ head'.tver \in Nat /\ head'.pver \in Nat /\ head.tver \in Nat /\ head.pver \in Nat
            /\ bt[q].tver \in Nat /\ bt[q].pver \in Nat
        BY <2>a DEF TypeOK, Heads, Caches
      <3>5. bt[q].tver <= head'.tver /\ bt[q].pver <= head'.pver
        BY <3>2, <3>3, <3>4 DEF CacheOK
      <3>6. bt[q].tver = head'.tver => bt[q].terms = head'.terms
        BY <3>2, <3>3, <3>4 DEF CacheOK
      <3>7. bt[q].pver = head'.pver => bt[q].ipipes = {from \in Terms : <<from, q>> \in PipesOf(head')}
        BY <3>2, <3>3, <3>4 DEF CacheOK, PipesOf
      <3>8. bt[q].ipipes \subseteq {from \in Terms : <<from, q>> \in PipesOf(head')}
        BY <3>2, <3>3 DEF CacheOK
      <3>9. \A t \in Terms : <<q, t>> \in PipesOf(head') <=> <<q, t>> \in PipesOf(head)
        BY <3>3
      <3>10. bt[q].opipes = {t \in Terms : <<q, t>> \in PipesOf(head')}
        BY <3>2, <3>9 DEF CacheOK
      <3> QED BY <3>1, <3>5, <3>6, <3>7, <3>8, <3>10 DEF CacheOK
    <2> SUFFICES ASSUME Up(p)'
                 PROVE  CacheOK(p)'
      BY <2>1 DEF CacheInv
    <2>2. ASSUME Up(p), bt'[p] = bt[p], head' = head
          PROVE  CacheOK(p)'
      BY <2>2 DEF CacheInv, CacheOK, PipesOf
    <2>3. CASE lock_create(p) \/ lock_setval(p) \/ bus_release(p) \/ Crash(p)
      <3>1. pc'[p] \in {"down", "setval", "create"}
        BY <2>3, <2>a DEF lock_create, lock_setval, bus_release, Crash, Stop
      <3> QED BY <3>1 DEF Up
    <2>4. CASE \/ lock_unlock(p) \/ AttachEnd(p) \/ bus_poll(p) \/ SendPoll(p) \/ PollPipes(p)
               \/ _bus_register_pipe(p) \/ RingCommit(p) \/ ReadCommit(p)
      <3>1. Up(p) /\ bt' = bt /\ head' = head
        BY <2>4 DEF Up, lock_unlock, AttachEnd, bus_poll, SendPoll, PollTerms, PollPipes,
                    _bus_register_pipe, RingCommit, ReadCommit
      <3> QED BY <2>2, <3>1
    <2>5. ASSUME NEW t, NEW S, Submit(p, t, S)
          PROVE  CacheOK(p)'
      BY <2>2, <2>5 DEF Submit, Up
    <2>6. CASE RingCopy(p) \/ bus_recv_all(p) \/ \E from \in Terms \ {p} : bus_recv(p, from)
      <3>1. Up(p) /\ bt' = bt /\ head' = head
        BY <2>6 DEF Up, RingCopy, SendFails, bus_recv_all, bus_recv, RingPeek
      <3> QED BY <2>2, <3>1
    <2>7. CASE bus_create(p)
      <3>1. bt[p] = NoBus /\ pc[p] = "create" /\ head' = head /\ bt' = bt
        BY <2>7 DEF bus_create, ProcInv, ProcOK, At, Without
      <3>2. /\ NoBus.tver = 0 /\ NoBus.pver = 0
            /\ NoBus.ipipes = {} /\ NoBus.opipes = {}
        BY DEF NoBus
      <3>3. head.exists /\ ~Registered(p)
        <4>1. ASSUME NEW at, NEW next, Locked(p, at, next)
              PROVE  pc'[p] = at
          BY <2>a, <4>1 DEF Locked
        <4> QED BY <2>7, <4>1 DEF bus_create, Up
      <3>4. p \notin Elems(head.terms)
        BY <3>3 DEF Registered, Elems
      <3>5. \A t \in Terms : <<p, t>> \notin PipesOf(head) /\ <<t, p>> \notin PipesOf(head)
        BY <3>4 DEF DirInv, DirectoryUnique
      <3>6. head.tver \in Nat /\ head.pver \in Nat /\ head.tver >= 1 /\ head.pver >= 1
        BY <2>a, <3>3 DEF DirInv, Heads
      <3>7. NoBus.opipes = {t \in Terms : <<p, t>> \in PipesOf(head)}
        BY <3>2, <3>5
      <3> QED BY <3>1, <3>2, <3>6, <3>7 DEF CacheOK
    <2>8. CASE _bus_create_attach(p)
      <3>1. bt[p] = NoBus /\ CheckedOK(p) /\ pc[p] \in {"make", "join", "listed"}
        BY <2>8 DEF _bus_create_attach, ProcInv, ProcOK, At, Without
      <3>2. NoBus \in Caches /\ NoBus.ipipes = {} /\ NoBus.opipes = {}
        BY <2>a, <3>1 DEF NoBus
      <3>3. PICK h \in Heads : h = Directory(p)
        BY <3>1, MadeHead
      <3>4. PICK b : b = _bus_update_terminals(p, h, NoBus)
        OBVIOUS
      <3>5. bt'[p] = _bus_update_pipes(p, h, b) /\ head' = h
        BY <2>8, <2>a, <3>1, <3>3, <3>4 DEF _bus_create_attach
      <3>6. /\ b \in Caches /\ b.tver = h.tver /\ b.terms = h.terms
            /\ b.ipipes = {} /\ b.opipes = {}
        BY <3>2, <3>4, FilledTerms
      <3>7. h.tver \in Nat /\ h.pver \in Nat
        BY DEF Heads
      <3>8. /\ bt'[p].tver = b.tver /\ bt'[p].terms = b.terms /\ bt'[p].pver = h.pver
            /\ bt'[p].ipipes = {from \in Terms : <<from, p>> \in PipesOf(h)}
            /\ bt'[p].opipes = {t \in Terms : <<p, t>> \in PipesOf(h)}
        BY <3>5, <3>6, <3>7, FilledCache
      <3> QED BY <3>5, <3>6, <3>7, <3>8 DEF CacheOK, PipesOf
    <2>9. CASE UpdateTerms(p)
      <3>1. bt'[p] = _bus_update_terminals(p, head, bt[p]) /\ head' = head /\ CacheOK(p)
        BY <2>9, <2>a DEF UpdateTerms, CacheInv, Up
      <3>2. /\ bt'[p].tver = head.tver /\ bt'[p].terms = head.terms
            /\ bt'[p].pver = bt[p].pver /\ bt'[p].ipipes = bt[p].ipipes /\ bt'[p].opipes = bt[p].opipes
        BY <2>a, <3>1, FilledTerms
      <3>3. head.tver \in Nat
        BY <2>a DEF Heads
      <3> QED BY <3>1, <3>2, <3>3 DEF CacheOK, PipesOf
    <2>10. CASE UpdatePipes(p)
      <3>1. bt'[p] = _bus_update_pipes(p, head, bt[p]) /\ head' = head /\ CacheOK(p)
        BY <2>10, <2>a DEF UpdatePipes, CacheInv, Up
      <3>2. /\ bt'[p].tver = bt[p].tver /\ bt'[p].terms = bt[p].terms /\ bt'[p].pver = head.pver
            /\ bt'[p].ipipes = {from \in Terms : <<from, p>> \in PipesOf(head)}
            /\ bt'[p].opipes = {t \in Terms : <<p, t>> \in PipesOf(head)}
        BY <2>a, <3>1, FilledCache DEF CacheOK
      <3>3. head.pver \in Nat
        BY <2>a DEF Heads
      <3> QED BY <3>1, <3>2, <3>3 DEF CacheOK, PipesOf
    <2>11. CASE _bus_pipe_create(p)
      <3>1. /\ pc[p] = "enter" /\ head' = Entered(head, p, to[p])
            /\ bt' = [bt EXCEPT ![p].opipes = @ \cup {to[p]}, ![p].pver = head'.pver]
        BY <2>11 DEF _bus_pipe_create
      <3>2. CacheOK(p)
        BY <3>1 DEF Up, CacheInv
      <3>3. /\ to[p] \in Terms /\ to[p] # p /\ <<p, to[p]>> \in Pairs /\ bt[p].pver = head.pver
        BY <3>1, RegisterNew
      <3>4. /\ head'.terms = head.terms /\ head'.tver = head.tver /\ head'.pver = head.pver + 1
            /\ head'.pipes = Append(head.pipes, <<p, to[p]>>)
        BY <3>1, <2>a DEF Entered, Heads
      <3>5. /\ bt'[p].tver = bt[p].tver /\ bt'[p].terms = bt[p].terms /\ bt'[p].pver = head'.pver
            /\ bt'[p].ipipes = bt[p].ipipes /\ bt'[p].opipes = bt[p].opipes \cup {to[p]}
        <4>1. bt' = [bt EXCEPT ![p] = [bt[p] EXCEPT !.opipes = @ \cup {to[p]}, !.pver = head'.pver]]
          BY <2>a, <3>1
        <4>2. bt'[p] = [bt[p] EXCEPT !.opipes = @ \cup {to[p]}, !.pver = head'.pver] /\ bt[p] \in Caches
          BY <2>a, <4>1
        <4> QED BY <4>2 DEF Caches
      <3>6. PipesOf(head') = PipesOf(head) \cup {<<p, to[p]>>}
        <4>1. head.pipes \in Seq(Pairs)
          BY <2>a DEF Heads
        <4> QED BY <3>3, <3>4, <4>1, ElemsAppend DEF PipesOf
      <3>7. head.pver \in Nat /\ head.tver \in Nat
        BY <2>a DEF Heads
      <3>8. \A from \in Terms : <<from, p>> \in PipesOf(head') <=> <<from, p>> \in PipesOf(head)
        BY <3>3, <3>6
      <3>9. \A t \in Terms : <<p, t>> \in PipesOf(head') <=> <<p, t>> \in PipesOf(head) \/ t = to[p]
        BY <3>3, <3>6
      <3>10. bt'[p].opipes = {t \in Terms : <<p, t>> \in PipesOf(head')}
        BY <3>2, <3>3, <3>5, <3>9 DEF CacheOK
      <3>11. bt'[p].ipipes = {from \in Terms : <<from, p>> \in PipesOf(head')}
        BY <3>2, <3>3, <3>5, <3>8 DEF CacheOK
      <3> QED BY <3>2, <3>4, <3>5, <3>7, <3>10, <3>11 DEF CacheOK
    <2> QED BY <1>2, <2>3, <2>4, <2>5, <2>6, <2>7, <2>8, <2>9, <2>10, <2>11
               DEF Moves, Call, Step, bus_send, bus_send_all, bus_send_by_type
  <1> QED BY <1>1, <1>2 DEF Next, Moves

(* With the type invariant and the directory's, the caches are coherent.   *)
LEMMA CacheIsCoherent == TypeOK /\ (failed = 0 => DirInv /\ CacheInv) => CacheCoherent
  BY DEF DirInv, CacheInv, CacheOK, CacheCoherent

----------------------------------------------------------------------------
(* The messages.                                                           *)

(* What one step may do to what was put in a pipe.                         *)
LEMMA PutCases ==
  ASSUME TypeOK, SelfInv, NEW p \in Terms, Moves(p), NEW ft \in Pairs
  PROVE  \/ Put(ft)' = Put(ft)
         \/ Put(ft)' = got[ft]
         \/ RingCommit(p) /\ ft = <<p, to[p]>> /\ Put(ft)' = Append(Put(ft), msg[p])
  <1>a. got[ft] \in Seq(Nat) /\ ring[ft] \in Seq(Nat) /\ msg[p] \in Nat
    BY DEF TypeOK
  <1>1. CASE ring'[ft] = ring[ft] /\ got'[ft] = got[ft]
    BY <1>1 DEF Put
  <1>2. CASE ring'[ft] = <<>> /\ got'[ft] = got[ft]
    <2>1. got[ft] \o <<>> = got[ft]
      BY <1>a
    <2> QED BY <1>2, <2>1 DEF Put
  <1>3. CASE /\ RingCommit(p) /\ ft = <<p, to[p]>>
             /\ ring'[ft] = Append(ring[ft], msg[p]) /\ got'[ft] = got[ft]
    <2>1. \A g, q \in Seq(Nat), m \in Nat : g \o Append(q, m) = Append(g \o q, m)
      OBVIOUS
    <2>2. got[ft] \o Append(ring[ft], msg[p]) = Append(got[ft] \o ring[ft], msg[p])
      BY <1>a, <2>1
    <2>3. Put(ft)' = Append(Put(ft), msg[p])
      BY <1>3, <2>2 DEF Put
    <2> QED BY <1>3, <2>3
  <1>4. CASE ring[ft] # <<>> /\ ring'[ft] = Tail(ring[ft]) /\ got'[ft] = Append(got[ft], Head(ring[ft]))
    <2>1. ASSUME NEW g \in Seq(Nat), NEW q \in Seq(Nat), q # <<>>
          PROVE  Append(g, Head(q)) \o Tail(q) = g \o q
      <3>1. Head(q) \in Nat /\ Tail(q) \in Seq(Nat) /\ <<Head(q)>> \in Seq(Nat)
        BY <2>1
      <3>2. q = <<Head(q)>> \o Tail(q)
        <4>1. /\ Len(q) \in Nat \ {0} /\ Len(Tail(q)) = Len(q) - 1 /\ Head(q) = q[1]
              /\ \A i \in 1..Len(q) - 1 : Tail(q)[i] = q[i + 1]
          BY <2>1
        <4>2. /\ <<Head(q)>> \o Tail(q) \in Seq(Nat) /\ Len(<<Head(q)>> \o Tail(q)) = Len(q)
              /\ \A i \in 1..Len(q) : (<<Head(q)>> \o Tail(q))[i] = IF i <= 1 THEN Head(q) ELSE Tail(q)[i - 1]
          BY <3>1, <4>1, ConcatProperties
        <4>3. \A i \in 1..Len(q) : (<<Head(q)>> \o Tail(q))[i] = q[i]
          BY <4>1, <4>2
        <4> QED BY <4>2, <4>3
      <3>3. Append(g, Head(q)) = g \o <<Head(q)>>
        BY <3>1, AppendIsConcat
      <3>4. (g \o <<Head(q)>>) \o Tail(q) = g \o (<<Head(q)>> \o Tail(q))
        BY <3>1, ConcatAssociative
      <3> QED BY <3>2, <3>3, <3>4
    <2>2. Append(got[ft], Head(ring[ft])) \o Tail(ring[ft]) = got[ft] \o ring[ft]
      BY <1>4, <1>a, <2>1
    <2> QED BY <1>4, <2>2 DEF Put
  <1> QED BY <1>1, <1>2, <1>3, <1>4, RingCases

(* A pipe keeps its order whatever a step puts in it or drops from it.     *)
LEMMA MsgStep ==
  ASSUME TypeOK, SelfInv, MsgInv, [Next]_vars
  PROVE  MsgInv'
  <1> USE DEF semVars, ringVars, callVars, history
  <1>1. CASE UNCHANGED vars
    BY <1>1 DEF vars, MsgInv, MsgOK, Put
  <1>2. ASSUME NEW p \in Terms, Moves(p)
        PROVE  MsgInv'
    <2>a. /\ sent \in Nat /\ msg \in [Terms -> Nat] /\ left \in [Terms -> SUBSET Terms]
          /\ to \in [Terms -> Terms \cup {"none"}]
          /\ \A ft \in Pairs : /\ got[ft] \in Seq(Nat) /\ ring[ft] \in Seq(Nat)
                              /\ Put(ft) \in Seq(Nat)
      BY DEF TypeOK, Put
    <2>b. ASSUME NEW ft \in Pairs
          PROVE  /\ Len(got[ft]) <= Len(Put(ft)) /\ Len(got[ft]) \in Nat
                 /\ \A i \in 1..Len(got[ft]) : got[ft][i] = Put(ft)[i]
      <3>1. \A g, q \in Seq(Nat) : /\ Len(g) <= Len(g \o q) /\ Len(g) \in Nat
                                  /\ \A i \in 1..Len(g) : g[i] = (g \o q)[i]
        OBVIOUS
      <3> QED BY <2>a, <3>1 DEF Put
    (* A step that puts nothing in the pipe and sends nothing new to it.   *)
    <2>1. ASSUME NEW ft \in Pairs, Put(ft)' \in {Put(ft), got[ft]},
                 sent' \in Nat, sent' >= sent,
                 \/ ft[2] \notin left'[ft[1]] \cup {to'[ft[1]]}
                 \/ /\ ft[2] \in left[ft[1]] \cup {to[ft[1]]} /\ msg'[ft[1]] = msg[ft[1]]
                 \/ msg'[ft[1]] = sent + 1
          PROVE  MsgOK(ft)'
      <3>1. MsgOK(ft)
        BY DEF MsgInv
      <3>2. /\ Len(Put(ft)') <= Len(Put(ft)) /\ Len(Put(ft)') \in Nat
            /\ \A i \in 1..Len(Put(ft)') : Put(ft)'[i] = Put(ft)[i] /\ Put(ft)[i] \in Nat
        BY <2>1, <2>a, <2>b
      <3>3. \A i \in 1..Len(Put(ft)') : i \in 1..Len(Put(ft))
        BY <2>a, <3>2
      <3>4. \A i, j \in 1..Len(Put(ft)') : i < j => Put(ft)'[i] < Put(ft)'[j]
        BY <3>1, <3>2, <3>3 DEF MsgOK
      <3>5. \A i \in 1..Len(Put(ft)') : Put(ft)'[i] <= sent
        BY <3>1, <3>2, <3>3 DEF MsgOK
      <3>6. \A i \in 1..Len(Put(ft)') : Put(ft)'[i] <= sent'
        BY <2>1, <2>a, <3>2, <3>5
      <3>7. ft[2] \in (left[ft[1]] \cup {to[ft[1]]})' =>
              \A i \in 1..Len(Put(ft)') : Put(ft)'[i] < msg'[ft[1]]
        BY <2>1, <2>a, <3>1, <3>2, <3>3, <3>5 DEF MsgOK
      <3> QED BY <3>4, <3>6, <3>7 DEF MsgOK
    <2>2. \A q \in Terms \ {p} : to'[q] = to[q] /\ left'[q] = left[q] /\ msg'[q] = msg[q]
      BY <1>2, OthersStay
    <2>3. \A ft \in Pairs : ft[1] \in Terms /\ ft[2] \in Terms
      BY DEF Pairs
    <2>4. \A q \in Terms : msg[q] <= sent /\ to[q] \notin left[q]
      BY DEF MsgInv
    (* Nothing is sent, or the send has ended.                             *)
    <2>5. ASSUME sent' = sent, pc[p] # "commit",
                 \/ to'[p] = to[p] /\ left'[p] = left[p] /\ msg'[p] = msg[p]
                 \/ to'[p] = "none" /\ left'[p] = {} /\ msg'[p] = 0
          PROVE  MsgInv'
      <3>1. ASSUME NEW ft \in Pairs
            PROVE  MsgOK(ft)'
        <4>1. Put(ft)' \in {Put(ft), got[ft]}
          BY <1>2, <2>5, PutCases DEF RingCommit
        <4>2. \/ ft[2] \notin left'[ft[1]] \cup {to'[ft[1]]}
              \/ ft[2] \in left[ft[1]] \cup {to[ft[1]]} /\ msg'[ft[1]] = msg[ft[1]]
          BY <2>2, <2>3, <2>5, NotTerms
        <4> QED BY <2>1, <2>5, <2>a, <4>1, <4>2
      <3>2. \A q \in Terms : msg'[q] <= sent' /\ to'[q] \notin left'[q]
        BY <2>2, <2>4, <2>5, <2>a
      <3> QED BY <3>1, <3>2 DEF MsgInv
    <2>c. ASSUME sent' = sent, pc[p] # "commit", UNCHANGED <<to, left, msg>> \/ NoSend(p)
          PROVE  MsgInv'
      <3>1. \/ to'[p] = to[p] /\ left'[p] = left[p] /\ msg'[p] = msg[p]
            \/ to'[p] = "none" /\ left'[p] = {} /\ msg'[p] = 0
        BY <2>a, <2>c DEF NoSend
      <3> QED BY <2>5, <2>c, <3>1
    <2>6. CASE \/ lock_create(p) \/ lock_setval(p) \/ lock_unlock(p) \/ bus_create(p)
               \/ _bus_create_attach(p) \/ bus_poll(p) \/ UpdateTerms(p) \/ PollPipes(p)
               \/ UpdatePipes(p) \/ AttachEnd(p) \/ SendPoll(p) \/ _bus_pipe_create(p) \/ ReadCommit(p)
      <3>1. sent' = sent /\ pc[p] # "commit" /\ UNCHANGED <<to, left, msg>>
        BY <2>6 DEF lock_create, lock_setval, lock_unlock, bus_create, _bus_create_attach, bus_poll,
                    UpdateTerms, PollPipes, UpdatePipes, AttachEnd, SendPoll, PollTerms,
                    _bus_pipe_create, ReadCommit
      <3> QED BY <2>c, <3>1
    <2>7. CASE \/ bus_recv_all(p) \/ (\E from \in Terms \ {p} : bus_recv(p, from))
               \/ _bus_register_pipe(p) \/ RingCopy(p)
      <3>1. sent' = sent /\ pc[p] # "commit" /\ (UNCHANGED <<to, left, msg>> \/ NoSend(p))
        BY <2>7 DEF bus_recv_all, bus_recv, RingPeek, _bus_register_pipe, RingCopy, SendFails
      <3> QED BY <2>c, <3>1
    <2>8. CASE bus_release(p) \/ Crash(p)
      <3>1. sent' = sent /\ to'[p] = "none" /\ left'[p] = {} /\ msg'[p] = 0 /\ pc'[p] = "down" /\ ring' = ring /\ got' = got
        BY <2>8, <2>a DEF bus_release, Crash, Stop, NoSend, TypeOK
      <3>2. ASSUME NEW ft \in Pairs
            PROVE  MsgOK(ft)'
        <4>1. Put(ft)' = Put(ft)
          BY <3>1 DEF Put
        <4>2. \/ ft[2] \notin left'[ft[1]] \cup {to'[ft[1]]}
              \/ ft[2] \in left[ft[1]] \cup {to[ft[1]]} /\ msg'[ft[1]] = msg[ft[1]]
          BY <2>2, <2>3, <3>1, NotTerms
        <4> QED BY <2>1, <2>a, <3>1, <4>1, <4>2
      <3>3. \A q \in Terms : msg'[q] <= sent' /\ to'[q] \notin left'[q]
        BY <2>2, <2>4, <2>a, <3>1
      <3> QED BY <3>2, <3>3 DEF MsgInv
    <2>9. ASSUME NEW t \in Terms, NEW S \in SUBSET Terms, t \notin S, Submit(p, t, S)
          PROVE  MsgInv'
      <3>1. /\ sent' = sent + 1 /\ msg'[p] = sent + 1 /\ to'[p] = t /\ left'[p] = S
            /\ ring' = ring /\ got' = got
        BY <2>9, <2>a DEF Submit
      <3>2. ASSUME NEW ft \in Pairs
            PROVE  MsgOK(ft)'
        <4>1. Put(ft)' = Put(ft)
          BY <3>1 DEF Put
        <4>2. \/ ft[2] \notin left'[ft[1]] \cup {to'[ft[1]]}
              \/ ft[2] \in left[ft[1]] \cup {to[ft[1]]} /\ msg'[ft[1]] = msg[ft[1]]
              \/ msg'[ft[1]] = sent + 1
          BY <2>2, <2>3, <3>1
        <4> QED BY <2>1, <2>a, <3>1, <4>1, <4>2
      <3>3. \A q \in Terms : msg'[q] <= sent' /\ to'[q] \notin left'[q]
        BY <2>2, <2>4, <2>9, <2>a, <3>1
      <3> QED BY <3>2, <3>3 DEF MsgInv
    <2>10. ASSUME NEW S \in SUBSET Terms, bus_send_by_type(p, S)
           PROVE  MsgInv'
      <3>1. PICK t \in FirstOf(bt[p].terms, S \ {p}) : Submit(p, t, S \ {p, t})
        BY <2>10 DEF bus_send_by_type
      <3>2. t \in Terms
        BY FirstOfType
      <3> QED BY <2>9, <3>1, <3>2
    <2>11. CASE bus_send_all(p) \/ \E t \in Terms : bus_send(p, t)
      BY <2>9, <2>10, <2>11 DEF bus_send_all, bus_send
    <2>12. CASE RingCommit(p)
      <3> DEFINE next == FirstOf(bt[p].terms, left[p])
      <3>1. next \subseteq left[p]
        BY FirstOfType
      <3>2. /\ sent' = sent
            /\ \/ NoSend(p)
               \/ \E t \in next : /\ to' = [to EXCEPT ![p] = t]
                                 /\ left' = [left EXCEPT ![p] = @ \ {t}] /\ msg' = msg
        BY <2>12 DEF RingCommit
      <3> HIDE DEF next
      <3>3. /\ msg'[p] \in {0, msg[p]} /\ msg'[p] \in Nat
            /\ to'[p] \in left[p] \cup {"none"} /\ left'[p] \subseteq left[p] /\ to'[p] \notin left'[p]
            /\ to'[p] # "none" => msg'[p] = msg[p]
            /\ to'[p] = "none" => left'[p] = {}
        <4>1. CASE NoSend(p)
          BY <2>a, <4>1 DEF NoSend
        <4>2. ASSUME NEW t \in next, to' = [to EXCEPT ![p] = t],
                     left' = [left EXCEPT ![p] = @ \ {t}], msg' = msg
              PROVE  /\ msg'[p] = msg[p] /\ to'[p] = t /\ left'[p] = left[p] \ {t}
                     /\ t \in left[p] /\ t # "none"
          BY <2>a, <3>1, <4>2, NotTerms
        <4> QED BY <2>a, <3>2, <4>1, <4>2
      <3>4. ASSUME NEW ft \in Pairs
            PROVE  MsgOK(ft)'
        <4>1. CASE Put(ft)' \in {Put(ft), got[ft]}
          <5>1. \/ ft[2] \notin left'[ft[1]] \cup {to'[ft[1]]}
                \/ ft[2] \in left[ft[1]] \cup {to[ft[1]]} /\ msg'[ft[1]] = msg[ft[1]]
            BY <2>2, <2>3, <3>3, NotTerms
          <5> QED BY <2>1, <2>a, <3>2, <4>1, <5>1
        <4>2. CASE ft = <<p, to[p]>> /\ Put(ft)' = Append(Put(ft), msg[p])
          <5>1. ft[1] = p /\ ft[2] = to[p] /\ to[p] \in Terms
            BY <2>3, <4>2
          <5>2. ft[2] \notin left'[ft[1]] \cup {to'[ft[1]]}
            BY <2>4, <3>3, <5>1, NotTerms
          <5>3. \A i \in 1..Len(Put(ft)) : Put(ft)[i] < msg[p] /\ Put(ft)[i] <= sent /\ Put(ft)[i] \in Nat
            BY <2>a, <5>1 DEF MsgInv, MsgOK
          <5>4. /\ Len(Put(ft)') = Len(Put(ft)) + 1 /\ Len(Put(ft)) \in Nat
                /\ \A i \in 1..Len(Put(ft)) : Put(ft)'[i] = Put(ft)[i]
                /\ Put(ft)'[Len(Put(ft)) + 1] = msg[p]
            <6>1. \A s \in Seq(Nat), m \in Nat :
                    /\ Len(Append(s, m)) = Len(s) + 1 /\ Len(s) \in Nat
                    /\ \A i \in 1..Len(s) : Append(s, m)[i] = s[i]
                    /\ Append(s, m)[Len(s) + 1] = m
              OBVIOUS
            <6>2. Put(ft) \in Seq(Nat) /\ msg[p] \in Nat
              BY <2>a
            <6> DEFINE s == Put(ft)
            <6>3. /\ Len(Append(s, msg[p])) = Len(s) + 1 /\ Len(s) \in Nat
                  /\ \A i \in 1..Len(s) : Append(s, msg[p])[i] = s[i]
                  /\ Append(s, msg[p])[Len(s) + 1] = msg[p]
              <7> HIDE DEF s
              <7> QED BY <6>1, <6>2 DEF s
            <6> QED BY <4>2, <6>3
          <5>5. \A i \in 1..Len(Put(ft)') : i \in 1..Len(Put(ft)) \/ i = Len(Put(ft)) + 1
            BY <5>4
          <5>6. \A i, j \in 1..Len(Put(ft)) : i < j => Put(ft)[i] < Put(ft)[j]
            BY DEF MsgInv, MsgOK
          <5>7. \A i, j \in 1..Len(Put(ft)') : i < j => Put(ft)'[i] < Put(ft)'[j]
            BY <5>3, <5>4, <5>5, <5>6
          <5>8. \A i \in 1..Len(Put(ft)') : Put(ft)'[i] <= sent'
            BY <2>4, <3>2, <5>3, <5>4, <5>5
          <5> QED BY <5>2, <5>7, <5>8 DEF MsgOK
        <4> QED BY <1>2, <4>1, <4>2, PutCases
      <3>5. \A q \in Terms : msg'[q] <= sent' /\ to'[q] \notin left'[q]
        BY <2>2, <2>4, <2>a, <3>2, <3>3
      <3> QED BY <3>4, <3>5 DEF MsgInv
    <2> QED BY <1>2, <2>6, <2>7, <2>8, <2>10, <2>11, <2>12 DEF Moves, Call, Step
  <1> QED BY <1>1, <1>2 DEF Next, Moves

LEMMA MsgOrder == MsgInv => InOrder
  BY DEF MsgInv, MsgOK, Put, InOrder

----------------------------------------------------------------------------
(* The inductive invariant and what follows from it.                       *)

LEMMA IInvInit == Init => IInv
  <1> SUFFICES ASSUME Init PROVE IInv
    OBVIOUS
  <1>1. TypeOK
    BY TypeInit
  <1>2. SemInv
    <2>1. Inside = {} /\ Unset /\ Value = 0 /\ Token = 0
      BY DEF Init, Inside, Unset, Value, Token
    <2>2. Cardinality({}) = 0 /\ IsFiniteSet({})
      BY FS_EmptySet
    <2> QED BY <2>1, <2>2 DEF Init, SemInv
  <1>3. SelfInv
    BY DEF Init, SelfInv, SelfOK, NoBus
  <1>4. DirInv
    BY BoundsAssumption DEF Init, DirInv, DirectoryUnique, PipesOf, Elems
  <1>5. ProcInv
    BY DEF Init, ProcInv, ProcOK, CheckedOK, At, Without, Seeking
  <1>6. CacheInv
    BY DEF Init, CacheInv, Up
  <1>7. MsgInv
    <2>1. \A ft \in Pairs : Put(ft) = <<>>
      BY DEF Init, Put
    <2>2. \A p \in Terms : msg[p] = 0 /\ to[p] = "none" /\ left[p] = {} /\ sent = 0
      BY DEF Init
    <2> QED BY <2>1, <2>2 DEF MsgInv, MsgOK
  <1> QED BY <1>1, <1>2, <1>3, <1>4, <1>5, <1>6, <1>7 DEF IInv

LEMMA IInvStep == IInv /\ [Next]_vars => IInv'
  <1> SUFFICES ASSUME IInv, [Next]_vars
               PROVE  IInv'
    OBVIOUS
  <1>1. TypeOK /\ SemInv /\ SelfInv /\ MsgInv
    BY DEF IInv
  <1>2. TypeOK' /\ SemInv' /\ SelfInv' /\ MsgInv'
    BY <1>1, TypeStep, SemStep, SelfStep, MsgStep
  <1>3. ASSUME failed' = 0
        PROVE  DirInv' /\ ProcInv' /\ CacheInv'
    <2>1. failed = 0
      BY <1>1, <1>3, FailedGrows
    <2>2. DirInv /\ ProcInv /\ CacheInv
      BY <2>1 DEF IInv
    <2> QED BY <1>1, <1>2, <2>1, <2>2, DirStep, ProcStep, CacheStep
  <1> QED BY <1>2, <1>3 DEF IInv

(* However the terminals start, stop, send and poll, and whichever calls on*)
(* the semaphore fail, the inductive invariant holds.                      *)
THEOREM InvariantHolds == Spec => []IInv
  BY IInvInit, IInvStep, PTL DEF Spec

(* Never more terminals are between lock_lock and lock_unlock than one and *)
(* the calls on the semaphore that have failed: the semaphore that         *)
(* lock_create makes in two calls excludes, and a call that fails and is   *)
(* ignored lets in one more at a time, not any number.                     *)
THEOREM LockExcludes == Spec => []MutualExclusion
  <1>1. IInv => MutualExclusion
    BY SemMutex DEF IInv
  <1> QED BY <1>1, InvariantHolds, PTL

(* While no call on the semaphore has failed the directory stays well      *)
(* formed and every cache that has its version agrees with it; a cache of  *)
(* outgoing pipes is never stale.                                          *)
THEOREM CachesAgree == Spec => []CacheCoherent
  <1>1. IInv => CacheCoherent
    BY CacheIsCoherent DEF IInv
  <1> QED BY <1>1, InvariantHolds, PTL

(* Receivers get the messages of a pipe in the order they were sent, each  *)
(* at most once, as long as no attach of one end met an operation of the   *)
(* other.                                                                  *)
THEOREM PipesAreInOrder == Spec => []InOrder
  <1>1. IInv => InOrder
    BY MsgOrder DEF IInv
  <1> QED BY <1>1, InvariantHolds, PTL

(* A ring whose pipe both ends have attached is only written by its sender *)
(* and read by its receiver, and is not torn any more.                     *)
NoLossStep ==
  failed' = 0 => \A ft \in Pairs \ torn :
    (ft[2] \in bt[ft[1]].opipes /\ ft[1] \in bt[ft[2]].ipipes /\ ft \notin HalfDone) =>
      /\ ft \notin torn'
      /\ \/ ring'[ft] = ring[ft]
         \/ ring'[ft] = Append(ring[ft], msg[ft[1]])
         \/ ring[ft] = <<Head(ring[ft])>> \o ring'[ft]
            /\ got'[ft] = Append(got[ft], Head(ring[ft]))

(* Nobody empties a pipe that both its ends have in their tables.          *)
LEMMA NotEmptied ==
  ASSUME TypeOK, ProcInv, CacheInv, NEW p \in Terms, NEW ft \in Pairs,
         ft[2] \in bt[ft[1]].opipes, ft[1] \in bt[ft[2]].ipipes
  PROVE  ~Empties(p, ft)
  <1> SUFFICES ASSUME Empties(p, ft)
               PROVE  FALSE
    OBVIOUS
  <1>1. CASE pc[p] \in {"make", "join", "listed"} /\ ft \in Attached(p, Directory(p), bt[p])
    <2>1. bt[p] = NoBus
      BY <1>1 DEF ProcInv, ProcOK, At, Without
    <2>2. ft[1] # p /\ ft[2] # p
      BY <2>1 DEF NoBus
    <2> QED BY <1>1, <2>2 DEF Attached
  <1>2. CASE pc[p] = "upd_p" /\ ft \in Attached(p, head, bt[p])
    <2>1. ASSUME NEW t \in NewOut(p, head, bt[p]), ft = <<p, t>>
          PROVE  FALSE
      <3>1. ft[1] = p /\ ft[2] = t
        BY <2>1
      <3> QED BY <3>1 DEF NewOut
    <2>2. ASSUME NEW from \in NewIn(p, head, bt[p]), ft = <<from, p>>
          PROVE  FALSE
      <3>1. ft[1] = from /\ ft[2] = p
        BY <2>2
      <3> QED BY <3>1 DEF NewIn
    <2> QED BY <1>2, <2>1, <2>2 DEF Attached
  <1>3. CASE pc[p] = "enter" /\ ft = <<p, to[p]>>
    <2>1. <<p, to[p]>> \notin PipesOf(head) /\ to[p] \in Terms
      BY <1>3, RegisterNew
    <2>2. CacheOK(p)
      BY <1>3 DEF CacheInv, Up
    <2> QED BY <1>3, <2>1, <2>2 DEF CacheOK
  <1> QED BY <1>1, <1>2, <1>3 DEF Empties

(* A pipe becomes torn only when somebody empties it, or while it is being *)
(* attached.                                                               *)
LEMMA TornCases ==
  ASSUME TypeOK, NEW p \in Terms, Moves(p), NEW ft \in Pairs, ft \in torn' \ torn
  PROVE  Empties(p, ft) \/ ft \in HalfDone
  <1> USE DEF semVars, ringVars, callVars, history
  <1>1. CASE torn' = torn
    BY <1>1
  <1>2. ASSUME NEW from, RingPeek(p, from)
        PROVE  ft \in HalfDone
    BY <1>2 DEF RingPeek, TornBy
  <1>3. CASE RingCopy(p)
    BY <1>3 DEF RingCopy, TornBy
  <1>4. CASE bus_release(p) \/ Crash(p)
    BY <1>4 DEF bus_release, Crash, Stop, HalfDone
  <1>5. CASE _bus_create_attach(p) \/ UpdatePipes(p)
    BY <1>5 DEF _bus_create_attach, UpdatePipes, AttachBegin, Raced, Empties
  <1>6. CASE _bus_pipe_create(p)
    BY <1>6 DEF _bus_pipe_create, Raced, Empties
  <1>7. ASSUME NEW t, NEW S, Submit(p, t, S)
        PROVE  torn' = torn
    BY <1>7 DEF Submit
  <1>8. CASE \/ lock_create(p) \/ bus_poll(p) \/ lock_setval(p) \/ lock_unlock(p) \/ bus_create(p)
             \/ UpdateTerms(p) \/ PollPipes(p) \/ AttachEnd(p) \/ SendPoll(p) \/ _bus_register_pipe(p)
             \/ RingCommit(p) \/ ReadCommit(p)
    BY <1>1, <1>8 DEF lock_create, bus_poll, lock_setval, lock_unlock, bus_create, UpdateTerms, PollPipes,
                      AttachEnd, SendPoll, PollTerms, _bus_register_pipe, RingCommit, ReadCommit
  <1> QED BY <1>1, <1>2, <1>3, <1>4, <1>5, <1>6, <1>7, <1>8
             DEF Moves, Call, Step, bus_send, bus_send_all, bus_send_by_type, bus_recv, bus_recv_all

LEMMA StepLosesNothing == IInv /\ [Next]_vars => NoLossStep
  <1> SUFFICES ASSUME IInv, [Next]_vars, failed' = 0, NEW ft \in Pairs \ torn,
                      ft[2] \in bt[ft[1]].opipes, ft[1] \in bt[ft[2]].ipipes, ft \notin HalfDone
               PROVE  /\ ft \notin torn'
                      /\ \/ ring'[ft] = ring[ft]
                         \/ ring'[ft] = Append(ring[ft], msg[ft[1]])
                         \/ ring[ft] = <<Head(ring[ft])>> \o ring'[ft]
                            /\ got'[ft] = Append(got[ft], Head(ring[ft]))
    BY DEF NoLossStep
  <1>1. CASE UNCHANGED vars
    BY <1>1 DEF vars, ringVars
  <1>2. ASSUME NEW p \in Terms, Moves(p)
        PROVE  /\ ft \notin torn'
               /\ \/ ring'[ft] = ring[ft]
                  \/ ring'[ft] = Append(ring[ft], msg[ft[1]])
                  \/ ring[ft] = <<Head(ring[ft])>> \o ring'[ft]
                     /\ got'[ft] = Append(got[ft], Head(ring[ft]))
    <2>1. TypeOK /\ SelfInv
      BY DEF IInv
    <2>2. ProcInv /\ CacheInv
      BY <2>1, FailedGrows DEF IInv
    <2>3. ~Empties(p, ft)
      BY <2>1, <2>2, NotEmptied
    <2>4. ft \notin torn'
      BY <1>2, <2>1, <2>3, TornCases
    <2>5. CASE pc[p] = "commit" /\ ft = <<p, to[p]>> /\ ring'[ft] = Append(ring[ft], msg[p])
      <3>1. ft[1] = p
        BY <2>5
      <3> QED BY <2>4, <2>5, <3>1
    <2>6. CASE ring[ft] # <<>> /\ ring'[ft] = Tail(ring[ft]) /\ got'[ft] = Append(got[ft], Head(ring[ft]))
      <3>1. \A s \in Seq(Nat) : s # <<>> => s = <<Head(s)>> \o Tail(s)
        OBVIOUS
      <3>2. ring[ft] \in Seq(Nat)
        BY <2>1 DEF TypeOK
      <3> QED BY <2>4, <2>6, <3>1, <3>2
    <2> QED BY <1>2, <2>1, <2>3, <2>4, <2>5, <2>6, RingCases
  <1> QED BY <1>1, <1>2 DEF Next, Moves

THEOREM AttachedLosesNothing == Spec => NoLossOnceAttached
  <1>1. IInv /\ [Next]_vars => [NoLossStep]_vars
    BY StepLosesNothing
  <1>2. NoLossOnceAttached <=> [][NoLossStep]_vars
    BY PTL DEF NoLossOnceAttached, NoLossStep
  <1> QED BY <1>1, <1>2, InvariantHolds, PTL DEF Spec
=============================================================================
