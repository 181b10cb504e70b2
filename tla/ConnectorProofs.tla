-------------------------- MODULE ConnectorProofs --------------------------
(***************************************************************************)
(* The connection of net/connector.c, for any size of its buffers, any     *)
(* packages and any lengths: bytes are neither lost nor repeated, no       *)
(* wake-up of a started connection is lost, and reading never finds the    *)
(* buffer full.                                                            *)
(***************************************************************************)
EXTENDS Connector, TLAPS

----------------------------------------------------------------------------
(* The two buffers, both of the same size: what each operation leaves.     *)

LEMMA Half ==
  /\ Size \div 2 \in Nat
  /\ 2 * (Size \div 2) <= Size /\ Size <= 2 * (Size \div 2) + 1
  BY SizeAssumption

(* Where the positions of a buffer may be.                                 *)
Positions(rd, wr) ==
  /\ wr \in 0..Size /\ rd \in 0..wr /\ rd <= Size \div 2

LEMMA RPositions == R!TypeOK => Positions(r_read, r_write) /\ R!buffer_read_len = r_write - r_read
  BY SizeAssumption DEF R!TypeOK, Positions, R!drift_threshold, R!buffer_read_len

LEMMA WPositions == W!TypeOK => Positions(w_read, w_write) /\ W!buffer_read_len = w_write - w_read
  BY SizeAssumption DEF W!TypeOK, Positions, W!drift_threshold, W!buffer_read_len

LEMMA RWrites ==
  ASSUME R!TypeOK, NEW n \in Nat, n <= R!buffer_write_len, R!buffer_write(Some(n), n)
  PROVE  R!TypeOK' /\ r_read' = r_read /\ r_write' = r_write + n
<1>1. /\ n \in Nat /\ r_write + n <= Size /\ R!SmallerOf(n, R!buffer_write_len) = n
  BY SizeAssumption DEF R!TypeOK, R!SmallerOf, R!buffer_write_len
<1>2. /\ r_write' = r_write + n /\ r_read' = r_read /\ r_taken' = r_taken
      /\ R!Store(Some(n), n)
  BY <1>1 DEF R!buffer_write
<1>3. R!Count \in Nat /\ R!Count' = R!Count + n
  BY <1>1, <1>2, SizeAssumption DEF R!TypeOK, R!Count
<1>4. \A i \in 0 .. n - 1 : Some(n)[i] = 0
  BY DEF Some
<1>5. rbuf' \in [R!Cells -> {0}]
  <2>1. ASSUME NEW c \in R!Cells, r_write <= c, c < r_write + n
        PROVE  Some(n)[c - r_write] = 0
    <3>1. c - r_write \in 0 .. n - 1
      BY <2>1, <1>1, SizeAssumption DEF R!Cells, R!TypeOK
    <3> QED BY <3>1, <1>4
  <2> QED BY <2>1, <1>2 DEF R!Store, R!TypeOK
<1>6. r_stream' \in [0 .. R!Count + n - 1 -> {0}]
  <2>1. ASSUME NEW i \in 0 .. R!Count + n - 1, ~(i < R!Count)
        PROVE  Some(n)[i - R!Count] = 0
    <3>1. i - R!Count \in 0 .. n - 1
      BY <2>1, <1>1, <1>3
    <3> QED BY <3>1, <1>4
  <2>2. ASSUME NEW i \in 0 .. R!Count + n - 1, i < R!Count
        PROVE  r_stream[i] = 0
    <3>1. i \in 0 .. R!Count - 1
      BY <2>2, <1>1, <1>3
    <3> QED BY <3>1 DEF R!TypeOK
  <2> QED BY <1>2, <2>1, <2>2 DEF R!Store
<1>7. 0 .. R!Count + n - 1 = 0 .. R!Count' - 1
  BY <1>3
<1>8. /\ r_write' \in 0..Size /\ r_read' \in 0..r_write' /\ r_read' <= R!drift_threshold
      /\ r_taken' \in Nat
  BY <1>1, <1>2, SizeAssumption DEF R!TypeOK
<1>9. R!drift_threshold' = R!drift_threshold /\ r_stream' \in [0 .. R!Count' - 1 -> {0}]
  BY <1>6, <1>7 DEF R!drift_threshold
<1> QED BY <1>2, <1>5, <1>8, <1>9 DEF R!TypeOK

LEMMA WWrites ==
  ASSUME W!TypeOK, NEW n \in Nat, n <= W!buffer_write_len, W!buffer_write(Some(n), n)
  PROVE  W!TypeOK' /\ w_read' = w_read /\ w_write' = w_write + n /\ w_taken' = w_taken
<1>1. /\ n \in Nat /\ w_write + n <= Size /\ W!SmallerOf(n, W!buffer_write_len) = n
  BY SizeAssumption DEF W!TypeOK, W!SmallerOf, W!buffer_write_len
<1>2. /\ w_write' = w_write + n /\ w_read' = w_read /\ w_taken' = w_taken
      /\ W!Store(Some(n), n)
  BY <1>1 DEF W!buffer_write
<1>3. W!Count \in Nat /\ W!Count' = W!Count + n
  BY <1>1, <1>2, SizeAssumption DEF W!TypeOK, W!Count
<1>4. \A i \in 0 .. n - 1 : Some(n)[i] = 0
  BY DEF Some
<1>5. wbuf' \in [W!Cells -> {0}]
  <2>1. ASSUME NEW c \in W!Cells, w_write <= c, c < w_write + n
        PROVE  Some(n)[c - w_write] = 0
    <3>1. c - w_write \in 0 .. n - 1
      BY <2>1, <1>1, SizeAssumption DEF W!Cells, W!TypeOK
    <3> QED BY <3>1, <1>4
  <2> QED BY <2>1, <1>2 DEF W!Store, W!TypeOK
<1>6. w_stream' \in [0 .. W!Count + n - 1 -> {0}]
  <2>1. ASSUME NEW i \in 0 .. W!Count + n - 1, ~(i < W!Count)
        PROVE  Some(n)[i - W!Count] = 0
    <3>1. i - W!Count \in 0 .. n - 1
      BY <2>1, <1>1, <1>3
    <3> QED BY <3>1, <1>4
  <2>2. ASSUME NEW i \in 0 .. W!Count + n - 1, i < W!Count
        PROVE  w_stream[i] = 0
    <3>1. i \in 0 .. W!Count - 1
      BY <2>2, <1>1, <1>3
    <3> QED BY <3>1 DEF W!TypeOK
  <2> QED BY <1>2, <2>1, <2>2 DEF W!Store
<1>7. 0 .. W!Count + n - 1 = 0 .. W!Count' - 1
  BY <1>3
<1>8. /\ w_write' \in 0..Size /\ w_read' \in 0..w_write' /\ w_read' <= W!drift_threshold
      /\ w_taken' \in Nat
  BY <1>1, <1>2, SizeAssumption DEF W!TypeOK
<1>9. W!drift_threshold' = W!drift_threshold /\ w_stream' \in [0 .. W!Count' - 1 -> {0}]
  BY <1>6, <1>7 DEF W!drift_threshold
<1> QED BY <1>2, <1>5, <1>8, <1>9 DEF W!TypeOK

(* Reading n unread bytes leaves n less, moved back or not.                *)
LEMMA RReads ==
  ASSUME R!TypeOK, NEW n \in Nat, R!buffer_read_nocopy(n)
  PROVE  /\ R!TypeOK'
         /\ r_write' - r_read' = IF n < r_write - r_read THEN r_write - r_read - n ELSE 0
<1> DEFINE k == R!SmallerOf(n, R!buffer_read_len)
           r == r_read + k
<1>1. k \in Nat /\ r \in Nat /\ r <= r_write /\ k <= n
      /\ (k = n \/ k = r_write - r_read) /\ (n < r_write - r_read => k = n)
  BY SizeAssumption DEF R!TypeOK, R!SmallerOf, R!buffer_read_len
<1>2. r_taken' = r_taken + k /\ r_stream' = r_stream
  BY DEF R!buffer_read_nocopy
<1>3. /\ rbuf' \in [R!Cells -> {0}]
      /\ \/ r > Size \div 2 /\ r_read' = 0 /\ r_write' = r_write - r
         \/ ~(r > Size \div 2) /\ r_read' = r /\ r_write' = r_write
  <2>1. CASE r > R!drift_threshold
    <3>1. rbuf' = R!Shifted(r, r_write) /\ r_read' = 0 /\ r_write' = r_write - r
      BY <2>1 DEF R!buffer_read_nocopy
    <3>2. \A c \in R!Cells : c < r_write - r => r + c \in R!Cells
      BY <1>1, SizeAssumption DEF R!Cells, R!TypeOK
    <3> QED BY <2>1, <3>1, <3>2 DEF R!Shifted, R!TypeOK, R!drift_threshold
  <2>2. CASE ~(r > R!drift_threshold)
    <3>1. r_read' = r /\ rbuf' = rbuf /\ r_write' = r_write
      BY <2>2 DEF R!buffer_read_nocopy
    <3> QED BY <2>2, <3>1 DEF R!TypeOK, R!drift_threshold
  <2> QED BY <2>1, <2>2
<1> HIDE DEF k
<1>4. R!Count' = R!Count
  BY <1>1, <1>2, <1>3, SizeAssumption DEF R!Count, R!TypeOK
<1>5. /\ r_write' \in 0..Size /\ r_read' \in 0..r_write' /\ r_read' <= Size \div 2
      /\ r_taken' \in Nat
  BY <1>1, <1>2, <1>3, Half, SizeAssumption DEF R!TypeOK
<1>6. R!TypeOK'
  BY <1>2, <1>3, <1>4, <1>5 DEF R!TypeOK, R!drift_threshold
<1>7. r_write' - r_read' = IF n < r_write - r_read THEN r_write - r_read - n ELSE 0
  BY <1>1, <1>3, SizeAssumption DEF R!TypeOK
<1> QED BY <1>6, <1>7

LEMMA WReads ==
  ASSUME W!TypeOK, NEW n \in Nat, n <= w_write - w_read, W!buffer_read_nocopy(n)
  PROVE  /\ W!TypeOK'
         /\ w_write' - w_read' = w_write - w_read - n /\ w_taken' = w_taken + n
<1> DEFINE r == w_read + n
<1>1. r \in Nat /\ r <= w_write /\ W!SmallerOf(n, W!buffer_read_len) = n
  BY SizeAssumption DEF W!TypeOK, W!SmallerOf, W!buffer_read_len
<1>2. w_taken' = w_taken + n /\ w_stream' = w_stream
  BY <1>1 DEF W!buffer_read_nocopy
<1>3. /\ wbuf' \in [W!Cells -> {0}]
      /\ \/ r > Size \div 2 /\ w_read' = 0 /\ w_write' = w_write - r
         \/ ~(r > Size \div 2) /\ w_read' = r /\ w_write' = w_write
  <2>1. CASE r > W!drift_threshold
    <3>1. wbuf' = W!Shifted(r, w_write) /\ w_read' = 0 /\ w_write' = w_write - r
      BY <1>1, <2>1 DEF W!buffer_read_nocopy
    <3>2. \A c \in W!Cells : c < w_write - r => r + c \in W!Cells
      BY <1>1, SizeAssumption DEF W!Cells, W!TypeOK
    <3> QED BY <2>1, <3>1, <3>2 DEF W!Shifted, W!TypeOK, W!drift_threshold
  <2>2. CASE ~(r > W!drift_threshold)
    <3>1. w_read' = r /\ wbuf' = wbuf /\ w_write' = w_write
      BY <1>1, <2>2 DEF W!buffer_read_nocopy
    <3> QED BY <2>2, <3>1 DEF W!TypeOK, W!drift_threshold
  <2> QED BY <2>1, <2>2
<1>4. W!Count' = W!Count
  BY <1>1, <1>2, <1>3, SizeAssumption DEF W!Count, W!TypeOK
<1>5. /\ w_write' \in 0..Size /\ w_read' \in 0..w_write' /\ w_read' <= Size \div 2
      /\ w_taken' \in Nat
  BY <1>1, <1>2, <1>3, Half, SizeAssumption DEF W!TypeOK
<1>6. W!TypeOK'
  BY <1>2, <1>3, <1>4, <1>5 DEF W!TypeOK, W!drift_threshold
<1>7. w_write' - w_read' = w_write - w_read - n
  BY <1>1, <1>3, SizeAssumption DEF W!TypeOK
<1> QED BY <1>2, <1>6, <1>7

LEMMA BothReset ==
  ASSUME R!TypeOK, W!TypeOK, R!buffer_reset, W!buffer_reset
  PROVE  /\ R!TypeOK' /\ W!TypeOK'
         /\ r_read' = 0 /\ r_write' = 0 /\ w_read' = 0 /\ w_write' = 0
         /\ W!Count' = W!Count
<1>1. R!Count \in Nat /\ R!Count' = R!Count /\ W!Count \in Nat /\ W!Count' = W!Count
  BY SizeAssumption DEF R!TypeOK, W!TypeOK, R!Count, W!Count, R!buffer_reset, W!buffer_reset
<1>2. R!TypeOK'
  BY <1>1, Half, SizeAssumption DEF R!TypeOK, R!buffer_reset, R!drift_threshold
<1>3. W!TypeOK'
  BY <1>1, Half, SizeAssumption DEF W!TypeOK, W!buffer_reset, W!drift_threshold
<1> QED BY <1>1, <1>2, <1>3 DEF R!buffer_reset, W!buffer_reset

----------------------------------------------------------------------------
(* The reactor's operations on the one handler.                            *)

LEMMA Registers ==
  ASSUME Rx!TypeOK, Con \in live, interest[Con] = {}, Rx!epoll_register(Con, {"IN"})
  PROVE  Rx!TypeOK' /\ interest'[Con] # {} /\ UNCHANGED <<live, batch, expired, rpc>>
  BY DEF Rx!TypeOK, Rx!epoll_register, Rx!loopVars, Rx!Masks, Rx!Callbacks

LEMMA Modifies ==
  ASSUME Rx!TypeOK, interest[Con] # {}, NEW m \in Rx!Masks, Rx!epoll_modify(Con, m)
  PROVE  Rx!TypeOK' /\ interest'[Con] = m /\ m # {} /\ UNCHANGED <<live, batch, expired, rpc>>
  BY DEF Rx!TypeOK, Rx!epoll_modify, Rx!loopVars, Rx!Masks, Rx!Callbacks

LEMMA ModifiesNothing ==
  ASSUME Rx!TypeOK, interest[Con] = {}, NEW m \in Rx!Masks, Rx!epoll_modify(Con, m)
  PROVE  Rx!TypeOK' /\ interest'[Con] = {} /\ UNCHANGED <<live, batch, expired, rpc>>
  BY DEF Rx!TypeOK, Rx!epoll_modify, Rx!loopVars, Rx!Masks, Rx!Callbacks

LEMMA Unregisters ==
  ASSUME Rx!TypeOK, Rx!epoll_unregister(Con)
  PROVE  Rx!TypeOK' /\ interest'[Con] = {} /\ Con \in expired' /\ UNCHANGED <<live, batch, rpc>>
  BY DEF Rx!TypeOK, Rx!epoll_unregister, Rx!loopVars, Rx!Masks, Rx!Callbacks

LEMMA Frees ==
  ASSUME Rx!TypeOK, Rx!Free(Con)
  PROVE  Rx!TypeOK' /\ UNCHANGED <<interest, batch, expired, rpc>>
  BY DEF Rx!TypeOK, Rx!Free, Rx!loopVars, Rx!Masks, Rx!Callbacks

LEMMA Returns ==
  ASSUME Rx!TypeOK, NEW ok \in BOOLEAN, Rx!CallbackReturns(ok)
  PROVE  /\ Rx!TypeOK' /\ UNCHANGED <<live, interest, batch, expired>>
         /\ rpc \in {"in", "out", "close"} /\ rpc' \in {"loop", "out", "close"}
         /\ (rpc = "in" /\ ~ok => rpc' = "close")
<1>1. /\ rpc \in {"in", "out", "close"} /\ rpc' \in {"loop", "out", "close"}
      /\ (rpc = "in" /\ ~ok => rpc' = "close")
  BY DEF Rx!CallbackReturns, Rx!Callbacks, Rx!AfterIn, Rx!AfterOut
<1>2. UNCHANGED <<live, interest, batch, expired, cur, type, gone>>
  BY DEF Rx!CallbackReturns
<1> QED BY <1>1, <1>2 DEF Rx!TypeOK, Rx!Masks, Rx!Callbacks

LEMMA Waits ==
  ASSUME Rx!TypeOK, Rx!epoll_wait
  PROVE  /\ Rx!TypeOK' /\ UNCHANGED <<live, interest, expired>> /\ rpc = "app" /\ rpc' = "loop"
         /\ Con \in DOMAIN batch' => interest[Con] # {}
<1>1. /\ rpc = "app" /\ rpc' = "loop" /\ gone' = {}
      /\ UNCHANGED <<live, interest, expired, cur, type>>
  BY DEF Rx!epoll_wait
<1>2. /\ DOMAIN batch' \subseteq {h \in {Con} : interest[h] # {}}
      /\ \A h \in DOMAIN batch' : batch'[h] \in (SUBSET {"IN", "OUT", "ERR"}) \ {{}}
  <2>1. PICK S \in SUBSET {h \in {Con} : interest[h] # {}} :
          \E b \in [S -> SUBSET {"IN", "OUT", "ERR"}] :
            (\A h \in S : b[h] \in Rx!EventTypes(h)) /\ batch' = b
    BY DEF Rx!epoll_wait
  <2>2. PICK b \in [S -> SUBSET {"IN", "OUT", "ERR"}] :
          (\A h \in S : b[h] \in Rx!EventTypes(h)) /\ batch' = b
    BY <2>1
  <2>3. \A h \in S : b[h] # {}
    BY <2>2 DEF Rx!EventTypes
  <2> QED BY <2>1, <2>2, <2>3
<1>3. Rx!TypeOK'
  BY <1>1, <1>2 DEF Rx!TypeOK, Rx!Callbacks, Rx!Masks
<1> QED BY <1>1, <1>2, <1>3

LEMMA Turns ==
  ASSUME Rx!TypeOK, Rx!NextEvent(Con)
  PROVE  /\ Rx!TypeOK' /\ UNCHANGED <<live, interest, expired>> /\ rpc = "loop"
         /\ Con \in DOMAIN batch /\ Con \notin DOMAIN batch'
         /\ rpc' = "in" => Con \notin expired
<1>1. /\ rpc = "loop" /\ Con \in DOMAIN batch
      /\ batch' = [g \in DOMAIN batch \ {Con} |-> batch[g]]
      /\ UNCHANGED <<live, interest, expired, gone>>
      /\ IF Con \in expired THEN UNCHANGED <<rpc, cur, type>>
                            ELSE cur' = Con /\ type' = batch[Con] /\ rpc' = Rx!First(batch[Con])
  BY DEF Rx!NextEvent, Rx!Skipped
<1>2. Rx!First(batch[Con]) \in {"loop", "in", "out", "close"}
  BY DEF Rx!First, Rx!AfterIn, Rx!AfterOut
<1>3. rpc' \in {"loop", "in", "out", "close"} /\ (rpc' = "in" => Con \notin expired)
  BY <1>1, <1>2
<1>4. Rx!TypeOK'
  BY <1>1, <1>3 DEF Rx!TypeOK, Rx!Callbacks, Rx!Masks
<1> QED BY <1>1, <1>3, <1>4

LEMMA Ends ==
  ASSUME Rx!TypeOK, Rx!EndDispatch
  PROVE  /\ Rx!TypeOK' /\ UNCHANGED <<live, interest>> /\ rpc = "loop" /\ rpc' = "app" /\ Con \notin DOMAIN batch'
  BY DEF Rx!TypeOK, Rx!EndDispatch, Rx!Callbacks, Rx!Masks

----------------------------------------------------------------------------
(* The inductive invariant.                                                *)

TypeInv ==
  /\ Rx!TypeOK /\ R!TypeOK /\ W!TypeOK
  /\ pkg \in PkgSizes /\ made \in BOOLEAN /\ up \in BOOLEAN /\ early \in BOOLEAN
  /\ interest[Con] # {} => up
  /\ up => Con \in live
  /\ cpc \in {"enter", "on_read", "ret"} /\ cret \in BOOLEAN

(* What was accepted is on the wire or in the buffer; a connection that is *)
(* down has nothing in it.                                                 *)
SentInv ==
  /\ accepted \in Nat /\ wire \in 0..accepted /\ accepted <= W!Count /\ W!Count <= MaxOut
  /\ up => accepted = wire + (w_write - w_read)
  /\ ~up => w_write = w_read
  /\ up /\ w_write > w_read => early \/ "OUT" \in interest[Con]

(* Where more than a package's rest may be unread.                         *)
Undrained ==
  \/ rpc = "in" /\ cpc = "on_read"
  \/ rpc = "in" /\ cpc = "ret" /\ ~cret
  \/ rpc = "close" /\ cpc = "enter"

(* What on_read leaves is less than a package, or the connection is about  *)
(* to be stopped, which throws it away.                                    *)
ReadInv ==
  /\ ~up => r_write = r_read
  /\ CloseStops => Undrained \/ r_write - r_read < pkg

(* An event that reaches _con_read is that of a connection that is up.     *)
EventInv ==
  /\ Con \in DOMAIN batch => Con \in expired \/ up
  /\ rpc = "in" /\ cpc = "enter" => up

IInv == TypeInv /\ SentInv /\ ReadInv /\ EventInv

LEMMA InitInv == Init => IInv
<1> SUFFICES ASSUME Init PROVE IInv
  OBVIOUS
<1>1. R!TypeOK /\ W!TypeOK
  <2>1. (CHOOSE b \in {0} : TRUE) = 0
    OBVIOUS
  <2>2. rbuf \in [R!Cells -> {0}] /\ wbuf \in [W!Cells -> {0}]
    BY <2>1 DEF Init, R!Init, W!Init
  <2>3. R!Count = 0 /\ W!Count = 0
    BY DEF Init, R!Init, W!Init, R!Count, W!Count
  <2>4. r_stream \in [0 .. R!Count - 1 -> {0}] /\ w_stream \in [0 .. W!Count - 1 -> {0}]
    BY <2>3 DEF Init, R!Init, W!Init
  <2>5. 0 \in 0..Size /\ 0 <= Size \div 2
    BY Half, SizeAssumption
  <2> QED BY <2>2, <2>4, <2>5 DEF Init, R!Init, W!Init, R!TypeOK, W!TypeOK, R!drift_threshold, W!drift_threshold
<1>2. Rx!TypeOK /\ interest[Con] = {} /\ DOMAIN batch = {} /\ rpc = "app"
  BY DEF Init, Rx!Init, Rx!TypeOK, Rx!Empty, Rx!Masks, Rx!Callbacks
<1>3. TypeInv
  BY <1>1, <1>2 DEF Init, TypeInv
<1>4. SentInv
  BY LenAssumption DEF Init, W!Init, SentInv, W!Count
<1>5. ReadInv
  <2>1. pkg > 0 /\ pkg \in Nat
    BY SizeAssumption DEF Init
  <2> QED BY <2>1 DEF Init, R!Init, ReadInv
<1>6. EventInv
  BY <1>2 DEF EventInv
<1> QED BY <1>3, <1>4, <1>5, <1>6 DEF IInv

(* The invariant is about the state's variables.                           *)
LEMMA StutterInv == IInv /\ UNCHANGED vars => IInv'
<1> SUFFICES ASSUME IInv, UNCHANGED vars PROVE IInv'
  OBVIOUS
<1>1. TypeInv'
  <2>1. Rx!TypeOK'
    BY DEF IInv, TypeInv, Rx!TypeOK, vars, reactorVars
  <2>2. R!TypeOK'
    BY DEF IInv, TypeInv, R!TypeOK, R!Count, R!drift_threshold, R!Cells, vars, rbufVars
  <2>3. W!TypeOK'
    BY DEF IInv, TypeInv, W!TypeOK, W!Count, W!drift_threshold, W!Cells, vars, wbufVars
  <2> QED BY <2>1, <2>2, <2>3 DEF IInv, TypeInv, vars, conVars, reactorVars
<1>2. SentInv' /\ ReadInv' /\ EventInv'
  BY DEF IInv, SentInv, ReadInv, Undrained, EventInv, W!Count, vars, conVars, reactorVars, rbufVars, wbufVars
<1> QED BY <1>1, <1>2 DEF IInv

----------------------------------------------------------------------------
(* The application's calls.                                                *)

LEMMA SetSockInv == ASSUME IInv, con_set_sock PROVE IInv'
<1> USE DEF IInv
<1>1. /\ ~up /\ up' /\ Con \in live /\ accepted' = 0 /\ wire' = 0
      /\ UNCHANGED <<pkg, made, reactorVars, rbufVars, wbufVars, cpc, cret, early>>
  BY DEF con_set_sock
<1>2. Rx!TypeOK' /\ up' \in BOOLEAN
  BY <1>1 DEF TypeInv, Rx!TypeOK, reactorVars, con_set_sock
<1>3. R!TypeOK' /\ W!TypeOK' /\ W!Count' = W!Count
  BY <1>1 DEF TypeInv, rbufVars, wbufVars, R!TypeOK, W!TypeOK, R!Count, W!Count,
         R!Cells, W!Cells, R!drift_threshold, W!drift_threshold
<1>4. TypeInv'
  BY <1>1, <1>2, <1>3 DEF TypeInv, reactorVars
<1>5. SentInv'
  <2>1. W!Count \in Nat
    BY SizeAssumption DEF TypeInv, W!TypeOK, W!Count
  <2>2. Positions(w_read, w_write)
    BY WPositions DEF TypeInv
  <2> QED BY <1>1, <1>3, <2>1, <2>2 DEF SentInv, wbufVars, Positions
<1>6. ReadInv'
  BY <1>1 DEF ReadInv, Undrained, rbufVars, reactorVars
<1>7. EventInv'
  BY <1>1 DEF EventInv, reactorVars
<1> QED BY <1>4, <1>5, <1>6, <1>7

LEMMA StartInv == ASSUME IInv, con_start PROVE IInv'
<1> USE DEF IInv
<1>1. /\ up /\ Con \in live /\ made' = TRUE /\ Rx!epoll_register(Con, {"IN"})
      /\ UNCHANGED <<pkg, rbufVars, wbufVars, up, cpc, cret, accepted, wire, early>>
  BY DEF con_start, TypeInv
<1>2. /\ Rx!TypeOK' /\ UNCHANGED <<live, batch, expired, rpc>>
      /\ "OUT" \in interest[Con] => "OUT" \in interest'[Con]
  <2>1. CASE interest[Con] = {}
    BY <1>1, <2>1, Registers DEF TypeInv
  <2>2. CASE interest[Con] # {}
    <3>1. interest' = interest /\ UNCHANGED <<live, batch, expired, rpc, cur, type, gone>>
      BY <1>1, <2>2 DEF TypeInv, Rx!TypeOK, Rx!epoll_register, Rx!loopVars
    <3> QED BY <3>1 DEF TypeInv, Rx!TypeOK
  <2> QED BY <2>1, <2>2
<1>3. R!TypeOK' /\ W!TypeOK' /\ W!Count' = W!Count
  BY <1>1 DEF TypeInv, rbufVars, wbufVars, R!TypeOK, W!TypeOK, R!Count, W!Count,
         R!Cells, W!Cells, R!drift_threshold, W!drift_threshold
<1>4. TypeInv'
  BY <1>1, <1>2, <1>3 DEF TypeInv
<1>5. SentInv'
  BY <1>1, <1>2, <1>3 DEF SentInv, wbufVars
<1>6. ReadInv'
  BY <1>1, <1>2 DEF ReadInv, Undrained, rbufVars
<1>7. EventInv'
  BY <1>1, <1>2 DEF EventInv
<1> QED BY <1>4, <1>5, <1>6, <1>7

LEMMA SendInv ==
  ASSUME IInv, NEW n \in SendLens, W!Count + n <= MaxOut, con_send(n)
  PROVE  IInv'
<1> USE DEF IInv
<1>0. n \in Nat /\ {"IN", "OUT"} \in Rx!Masks
  BY LenAssumption DEF Rx!Masks
<1>1. up /\ up' = up /\ early' = (interest[Con] = {}) /\ n <= W!buffer_write_len
      /\ W!buffer_write(Some(n), n) /\ Rx!epoll_modify(Con, {"IN", "OUT"})
      /\ accepted' = accepted + n
      /\ UNCHANGED <<pkg, made, rbufVars, up, cpc, cret, wire>>
  BY DEF con_send, Registered
<1>2. /\ Rx!TypeOK' /\ UNCHANGED <<live, batch, expired, rpc>>
      /\ early' \/ interest'[Con] = {"IN", "OUT"}
  <2>1. CASE interest[Con] = {}
    BY <1>0, <1>1, <2>1, ModifiesNothing DEF TypeInv
  <2>2. CASE interest[Con] # {}
    BY <1>0, <1>1, <2>2, Modifies DEF TypeInv
  <2> QED BY <2>1, <2>2
<1>3. W!TypeOK' /\ w_read' = w_read /\ w_write' = w_write + n /\ w_taken' = w_taken
  BY <1>0, <1>1, WWrites DEF TypeInv
<1>4. R!TypeOK'
  BY <1>1 DEF TypeInv, rbufVars, R!TypeOK, R!Count, R!Cells, R!drift_threshold
<1>5. TypeInv'
  BY <1>1, <1>2, <1>3, <1>4 DEF TypeInv
<1>6. SentInv'
  <2>1. Positions(w_read, w_write) /\ w_taken \in Nat
    BY WPositions DEF TypeInv, W!TypeOK
  <2>2. W!Count' = W!Count + n /\ W!Count \in Nat
    BY <1>0, <1>3, <2>1, SizeAssumption DEF W!Count, Positions
  <2>3. accepted' \in Nat /\ wire' \in 0..accepted' /\ accepted' <= W!Count' /\ W!Count' <= MaxOut
    BY <1>0, <1>1, <2>2, LenAssumption DEF SentInv
  <2>4. accepted' = wire' + (w_write' - w_read')
    BY <1>0, <1>1, <1>3, <2>1, SizeAssumption DEF SentInv, Positions
  <2> QED BY <1>1, <1>2, <2>3, <2>4 DEF SentInv
<1>7. ReadInv'
  BY <1>1, <1>2 DEF ReadInv, Undrained, rbufVars
<1>8. EventInv'
  BY <1>1, <1>2 DEF EventInv
<1> QED BY <1>5, <1>6, <1>7, <1>8

LEMMA StopInv == ASSUME IInv, con_stop PROVE IInv'
<1> USE DEF IInv
<1>1. /\ up' = FALSE /\ early' = FALSE /\ Rx!epoll_unregister(Con) /\ R!buffer_reset /\ W!buffer_reset
      /\ UNCHANGED <<pkg, made, cpc, cret, accepted, wire>> /\ Calling
  BY DEF con_stop
<1>2. /\ Rx!TypeOK' /\ interest'[Con] = {} /\ Con \in expired' /\ UNCHANGED <<live, batch, rpc>>
  BY <1>1, Unregisters DEF TypeInv
<1>3. /\ R!TypeOK' /\ W!TypeOK' /\ W!Count' = W!Count
      /\ r_read' = 0 /\ r_write' = 0 /\ w_read' = 0 /\ w_write' = 0
  BY <1>1, BothReset DEF TypeInv
<1>4. TypeInv'
  BY <1>1, <1>2, <1>3 DEF TypeInv
<1>5. SentInv'
  BY <1>1, <1>3 DEF SentInv
<1>6. ReadInv'
  <2>1. pkg \in Nat /\ pkg > 0
    BY SizeAssumption DEF TypeInv
  <2> QED BY <1>1, <1>3, <2>1 DEF ReadInv
<1>7. EventInv'
  BY <1>1, <1>2 DEF EventInv, Calling
<1> QED BY <1>4, <1>5, <1>6, <1>7

LEMMA ReleaseInv == ASSUME IInv, con_release PROVE IInv'
<1> USE DEF IInv
<1>1. ~up /\ Rx!Free(Con) /\ UNCHANGED <<rbufVars, wbufVars, conVars>>
  BY DEF con_release
<1>2. Rx!TypeOK' /\ UNCHANGED <<interest, batch, expired, rpc>>
  BY <1>1, Frees DEF TypeInv
<1>3. R!TypeOK' /\ W!TypeOK' /\ W!Count' = W!Count
  BY <1>1 DEF TypeInv, rbufVars, wbufVars, R!TypeOK, W!TypeOK, R!Count, W!Count,
         R!Cells, W!Cells, R!drift_threshold, W!drift_threshold
<1>4. TypeInv'
  BY <1>1, <1>2, <1>3 DEF TypeInv, conVars
<1>5. SentInv' /\ ReadInv' /\ EventInv'
  BY <1>1, <1>2, <1>3 DEF SentInv, ReadInv, Undrained, EventInv, conVars, rbufVars, wbufVars
<1> QED BY <1>4, <1>5

----------------------------------------------------------------------------
(* The callbacks.                                                          *)

(* Those that touch neither a buffer nor the reactor.                      *)
LEMMA QuietInv ==
  ASSUME IInv, UNCHANGED <<pkg, made, reactorVars, rbufVars, wbufVars, up, accepted, wire, early>>,
         cpc = "enter", cpc' = "ret", cret' \in BOOLEAN,
         rpc # "close" \/ (CloseStops => ~up)
  PROVE  IInv'
<1> USE DEF IInv
<1>1. Rx!TypeOK'
  BY DEF TypeInv, Rx!TypeOK, reactorVars
<1>2. R!TypeOK' /\ W!TypeOK' /\ W!Count' = W!Count
  BY DEF TypeInv, rbufVars, wbufVars, R!TypeOK, W!TypeOK, R!Count, W!Count,
         R!Cells, W!Cells, R!drift_threshold, W!drift_threshold
<1>3. TypeInv'
  BY <1>1, <1>2 DEF TypeInv, reactorVars
<1>4. SentInv' /\ EventInv'
  BY <1>2 DEF SentInv, EventInv, reactorVars, rbufVars, wbufVars
<1>5. ReadInv'
  <2>1. pkg \in Nat /\ pkg > 0 /\ Positions(r_read, r_write)
    BY RPositions, SizeAssumption DEF TypeInv
  <2>2. ~up => r_write - r_read = 0
    BY <2>1, SizeAssumption DEF ReadInv, Positions
  <2> QED BY <2>1, <2>2 DEF ReadInv, Undrained, reactorVars, rbufVars
<1> QED BY <1>3, <1>4, <1>5

LEMMA ReadSomeInv ==
  ASSUME IInv, NEW n \in 1..Size, ReadSome(n)
  PROVE  IInv'
<1> USE DEF IInv
<1>1. /\ rpc = "in" /\ cpc = "enter" /\ up /\ n <= R!buffer_write_len
      /\ R!buffer_write(Some(n), n) /\ cpc' = "on_read"
      /\ UNCHANGED <<pkg, made, reactorVars, wbufVars, up, cret, accepted, wire, early>>
  BY DEF ReadSome, EventInv
<1>2. R!TypeOK'
  BY <1>1, RWrites, SizeAssumption DEF TypeInv
<1>3. Rx!TypeOK'
  BY <1>1 DEF TypeInv, Rx!TypeOK, reactorVars
<1>4. W!TypeOK' /\ W!Count' = W!Count
  BY <1>1 DEF TypeInv, wbufVars, W!TypeOK, W!Count, W!Cells, W!drift_threshold
<1>5. TypeInv'
  BY <1>1, <1>2, <1>3, <1>4 DEF TypeInv, reactorVars
<1>6. SentInv' /\ EventInv' /\ ReadInv'
  BY <1>1, <1>4 DEF SentInv, EventInv, ReadInv, Undrained, reactorVars, wbufVars
<1> QED BY <1>5, <1>6

LEMMA OnReadInv ==
  ASSUME IInv, NEW res \in -1..Size, OnReadReturns(res)
  PROVE  IInv'
<1> USE DEF IInv
<1>1. /\ rpc = "in" /\ cpc = "on_read" /\ cpc' = "ret" /\ cret' = (res >= 0)
      /\ UNCHANGED <<pkg, made, reactorVars, wbufVars, up, accepted, wire, early>>
  BY DEF OnReadReturns, Ret
<1>2. Positions(r_read, r_write) /\ R!buffer_read_len = r_write - r_read
      /\ pkg \in Nat /\ pkg > 0
  BY RPositions, SizeAssumption DEF TypeInv
<1>3. /\ R!TypeOK'
      /\ res >= 0 => r_write' - r_read' < pkg
      /\ r_write = r_read => r_write' = r_read'
  <2>1. CASE res > 0
    <3>1. R!buffer_read_nocopy(res) /\ res \in Nat
      BY <2>1, SizeAssumption DEF OnReadReturns
    <3>2. /\ R!TypeOK'
          /\ r_write' - r_read' = IF res < r_write - r_read THEN r_write - r_read - res ELSE 0
      BY <3>1, RReads DEF TypeInv
    <3>3. r_read' \in Nat /\ r_write' \in Nat
      BY <3>2, SizeAssumption DEF R!TypeOK
    <3>4. res >= 0 => r_write - r_read - res < pkg
      BY <1>2 DEF OnReadReturns
    <3>5. r_write' - r_read' < pkg
      BY <1>2, <2>1, <3>2, <3>4, SizeAssumption DEF Positions
    <3>6. r_write = r_read => r_write' = r_read'
      <4>1. \A n \in Nat, a, b, c, d \in Nat :
              a = b /\ n > 0 /\ (c - d = IF n < a - b THEN a - b - n ELSE 0) => c = d
        OBVIOUS
      <4>2. r_read \in Nat /\ r_write \in Nat
        BY <1>2, SizeAssumption DEF Positions
      <4> QED BY <2>1, <3>1, <3>2, <3>3, <4>1, <4>2
    <3> QED BY <3>2, <3>5, <3>6
  <2>2. CASE ~(res > 0)
    <3>1. UNCHANGED rbufVars
      BY <2>2 DEF OnReadReturns
    <3>2. R!TypeOK'
      BY <3>1 DEF TypeInv, rbufVars, R!TypeOK, R!Count, R!Cells, R!drift_threshold
    <3>3. res >= 0 => r_write - r_read < pkg
      <4>1. res >= 0 => r_write - r_read - res < pkg
        BY <1>2 DEF OnReadReturns
      <4>2. res >= 0 => res = 0
        BY <2>2, SizeAssumption
      <4> QED BY <1>2, <4>1, <4>2, SizeAssumption DEF Positions
    <3> QED BY <3>1, <3>2, <3>3 DEF rbufVars
  <2> QED BY <2>1, <2>2
<1>4. Rx!TypeOK'
  BY <1>1 DEF TypeInv, Rx!TypeOK, reactorVars
<1>5. W!TypeOK' /\ W!Count' = W!Count
  BY <1>1 DEF TypeInv, wbufVars, W!TypeOK, W!Count, W!Cells, W!drift_threshold
<1>6. TypeInv'
  BY <1>1, <1>3, <1>4, <1>5 DEF TypeInv, reactorVars
<1>7. SentInv' /\ EventInv'
  BY <1>1, <1>5 DEF SentInv, EventInv, reactorVars, wbufVars
<1>8. ReadInv'
  BY <1>1, <1>3 DEF ReadInv, Undrained, reactorVars
<1> QED BY <1>6, <1>7, <1>8

LEMMA WriteSomeInv ==
  ASSUME IInv, NEW res \in 1..Size, WriteSome(res)
  PROVE  IInv'
<1> USE DEF IInv
<1>1. Positions(w_read, w_write) /\ W!buffer_read_len = w_write - w_read /\ w_taken \in Nat
  BY WPositions DEF TypeInv, W!TypeOK
<1>2. /\ rpc = "out" /\ cpc = "enter" /\ res \in Nat /\ res >= 1 /\ res <= w_write - w_read
      /\ W!buffer_read_nocopy(res) /\ wire' = wire + res
      /\ cpc' = "ret" /\ cret' = TRUE
      /\ UNCHANGED <<pkg, made, rbufVars, up, accepted, early>>
      /\ IF res = w_write - w_read THEN Rx!epoll_modify(Con, {"IN"}) ELSE UNCHANGED reactorVars
  BY <1>1, SizeAssumption DEF WriteSome, Ret
<1>3. up
  <2>1. w_write # w_read
    BY <1>1, <1>2, SizeAssumption DEF Positions
  <2> QED BY <2>1 DEF SentInv
<1>4. /\ W!TypeOK' /\ w_write' - w_read' = w_write - w_read - res /\ w_taken' = w_taken + res
  BY <1>1, <1>2, WReads DEF TypeInv
<1>5. w_read' \in Nat /\ w_write' \in Nat
  BY <1>4, SizeAssumption DEF W!TypeOK
<1>6. /\ Rx!TypeOK' /\ UNCHANGED <<live, batch, expired, rpc>>
      /\ res < w_write - w_read => UNCHANGED interest
  <2>1. CASE res = w_write - w_read
    <3>1. {"IN"} \in Rx!Masks /\ Rx!epoll_modify(Con, {"IN"})
      BY <1>2, <2>1 DEF Rx!Masks
    <3>2. ~(res < w_write - w_read)
      BY <1>1, <2>1, SizeAssumption DEF Positions
    <3> QED BY <3>1, <3>2, Modifies, ModifiesNothing DEF TypeInv
  <2>2. CASE res # w_write - w_read
    BY <1>2, <1>3, <2>2 DEF TypeInv, Rx!TypeOK, reactorVars
  <2> QED BY <2>1, <2>2
<1>7. R!TypeOK'
  BY <1>2 DEF TypeInv, rbufVars, R!TypeOK, R!Count, R!Cells, R!drift_threshold
<1>8. TypeInv'
  BY <1>2, <1>3, <1>4, <1>6, <1>7 DEF TypeInv
<1>9. SentInv'
  <2>0. w_read \in Nat /\ w_write \in Nat
    BY <1>1, SizeAssumption DEF Positions
  <2>1. W!Count' = W!Count
    <3>1. \A n, t, x, y \in Int : y = x - n => t + n + y = t + x
      OBVIOUS
    <3>2. w_write' - w_read' \in Int /\ w_write - w_read \in Int
      BY <1>5, <2>0
    <3>3. w_taken + res + (w_write' - w_read') = w_taken + (w_write - w_read)
      BY <1>1, <1>2, <1>4, <3>1, <3>2
    <3> QED BY <1>4, <3>3 DEF W!Count
  <2>2. accepted = wire + (w_write - w_read) /\ accepted \in Nat /\ wire \in Nat
    BY <1>3 DEF SentInv
  <2>3. accepted' = wire' + (w_write' - w_read') /\ wire' \in Nat /\ wire' <= accepted'
    BY <1>1, <1>2, <1>4, <2>2, SizeAssumption DEF Positions
  <2>4. w_write' > w_read' => early' \/ "OUT" \in interest'[Con]
    <3>1. w_write' > w_read' => res < w_write - w_read
      <4>1. \A n, a, b, c, d \in Nat : c - d = a - b - n /\ c > d => n < a - b
        OBVIOUS
      <4> QED BY <1>2, <1>4, <1>5, <2>0, <4>1
    <3>2. w_write > w_read
      BY <1>1, <1>2, SizeAssumption DEF Positions
    <3> QED BY <1>2, <1>3, <1>6, <3>1, <3>2 DEF SentInv
  <2>5. wire' \in 0..accepted'
    BY <1>2, <2>2, <2>3
  <2> QED BY <1>2, <1>3, <2>1, <2>2, <2>3, <2>4, <2>5 DEF SentInv
<1>10. ReadInv' /\ EventInv'
  BY <1>2, <1>6 DEF ReadInv, Undrained, EventInv, rbufVars
<1> QED BY <1>8, <1>9, <1>10

LEMMA ReturnInv == ASSUME IInv, Return PROVE IInv'
<1> USE DEF IInv
<1>1. /\ cpc = "ret" /\ cpc' = "enter" /\ cret' = TRUE /\ cret \in BOOLEAN
      /\ Rx!CallbackReturns(cret)
      /\ UNCHANGED <<pkg, made, rbufVars, wbufVars, up, accepted, wire, early>>
  BY DEF Return, TypeInv
<1>2. /\ Rx!TypeOK' /\ UNCHANGED <<live, interest, batch, expired>>
      /\ rpc \in {"in", "out", "close"} /\ rpc' \in {"loop", "out", "close"}
      /\ (rpc = "in" /\ ~cret => rpc' = "close")
  BY <1>1, Returns DEF TypeInv
<1>3. R!TypeOK' /\ W!TypeOK' /\ W!Count' = W!Count
  BY <1>1 DEF TypeInv, rbufVars, wbufVars, R!TypeOK, W!TypeOK, R!Count, W!Count,
         R!Cells, W!Cells, R!drift_threshold, W!drift_threshold
<1>4. TypeInv'
  BY <1>1, <1>2, <1>3 DEF TypeInv
<1>5. SentInv' /\ EventInv'
  BY <1>1, <1>2, <1>3 DEF SentInv, EventInv, wbufVars
<1>6. ReadInv'
  BY <1>1, <1>2 DEF ReadInv, Undrained, rbufVars
<1> QED BY <1>4, <1>5, <1>6

LEMMA LoopInv == ASSUME IInv, Loop PROVE IInv'
<1> USE DEF IInv
<1>1. UNCHANGED <<rbufVars, wbufVars, conVars>>
  BY DEF Loop
<1>2. R!TypeOK' /\ W!TypeOK' /\ W!Count' = W!Count
  BY <1>1 DEF TypeInv, rbufVars, wbufVars, R!TypeOK, W!TypeOK, R!Count, W!Count,
         R!Cells, W!Cells, R!drift_threshold, W!drift_threshold
<1>3. /\ Rx!TypeOK' /\ UNCHANGED <<live, interest>> /\ rpc \in {"app", "loop"}
      /\ Con \in DOMAIN batch' => Con \in expired' \/ up
      /\ rpc' = "in" => up
  <2>1. CASE Rx!epoll_wait
    BY <2>1, Waits DEF TypeInv
  <2>2. CASE Rx!NextEvent(Con)
    BY <2>2, Turns DEF TypeInv, EventInv
  <2>3. CASE Rx!EndDispatch
    BY <2>3, Ends DEF TypeInv
  <2> QED BY <2>1, <2>2, <2>3 DEF Loop
<1>4. TypeInv'
  BY <1>1, <1>2, <1>3 DEF TypeInv, conVars
<1>5. SentInv' /\ EventInv'
  BY <1>1, <1>2, <1>3 DEF SentInv, EventInv, wbufVars, conVars
<1>6. ReadInv'
  BY <1>1, <1>3 DEF ReadInv, Undrained, rbufVars, conVars
<1> QED BY <1>4, <1>5, <1>6

LEMMA NextInv == IInv /\ [Next]_vars => IInv'
<1> SUFFICES ASSUME IInv, [Next]_vars PROVE IInv'
  OBVIOUS
<1>1. CASE App
  BY <1>1, SetSockInv, StartInv, StopInv, ReleaseInv, SendInv DEF App
<1>2. CASE Write
  BY <1>2, WriteSomeInv DEF Write
<1>3. CASE ReadFull \/ \E ok \in BOOLEAN : ReadNothing(ok)
  BY <1>3, QuietInv DEF ReadFull, ReadNothing, Ret
<1>4. CASE \E n \in 1..Size : R!Count + n <= MaxIn /\ ReadSome(n)
  BY <1>4, ReadSomeInv
<1>5. CASE \E res \in -1..Size : OnReadReturns(res)
  BY <1>5, OnReadInv
<1>6. CASE \E ok \in BOOLEAN : WriteNothing(ok)
  BY <1>6, QuietInv DEF WriteNothing, Ret
<1>7. CASE _con_close
  BY <1>7, QuietInv DEF _con_close, Ret
<1>8. CASE Return
  BY <1>8, ReturnInv
<1>9. CASE Loop
  BY <1>9, LoopInv
<1>10. CASE UNCHANGED vars
  BY <1>10, StutterInv
<1> QED
  BY <1>1, <1>2, <1>3, <1>4, <1>5, <1>6, <1>7, <1>8, <1>9, <1>10 DEF Next, Callback

----------------------------------------------------------------------------
(* The invariant holds in every state of every behaviour of a connection.  *)
THEOREM InvariantHolds == Spec => []IInv
<1> QED BY InitInv, NextInv, PTL DEF Spec

(* What con_send accepted is on the wire or waits in the buffer, and while *)
(* some waits output events are asked for, unless the last con_send was    *)
(* before con_start.                                                       *)
THEOREM ConnectionKeeps == Spec => []Kept
<1>1. IInv => Kept
  <2> SUFFICES ASSUME IInv PROVE Kept
    OBVIOUS
  <2> USE DEF IInv
  <2>1. Positions(w_read, w_write) /\ W!buffer_read_len = w_write - w_read
    BY WPositions DEF TypeInv
  <2>2. accepted \in 0..MaxOut /\ wire \in 0..MaxOut
    <3>1. W!Count \in Int
      BY SizeAssumption DEF TypeInv, W!TypeOK, W!Count
    <3> QED BY <3>1, LenAssumption DEF SentInv
  <2>3. TypeOK
    BY <2>2 DEF TypeOK, TypeInv, Registered
  <2>4. W!buffer_read_len > 0 => w_write > w_read
    BY <2>1, SizeAssumption DEF Positions
  <2> QED BY <2>1, <2>3, <2>4 DEF Kept, SentInv
<1> QED BY <1>1, InvariantHolds, PTL

(* A buffer of four packages is never full when _con_read is called, if    *)
(* on_close stops the connection: less than half of it is behind the       *)
(* unread bytes' start, and less than a quarter is unread.                 *)
THEOREM NeverFullHolds == ASSUME CloseStops PROVE Spec => []NeverFull
<1>1. IInv => NeverFull
  <2> SUFFICES ASSUME IInv, Size >= 4 * pkg, rpc = "in", cpc = "enter"
               PROVE  R!buffer_write_len > 0
    BY DEF NeverFull
  <2>1. r_write - r_read < pkg
    BY DEF IInv, ReadInv, Undrained
  <2>2. Positions(r_read, r_write) /\ pkg \in Nat
    BY RPositions, SizeAssumption DEF IInv, TypeInv
  <2> QED BY <2>1, <2>2, Half, SizeAssumption DEF Positions, R!buffer_write_len
<1> QED BY <1>1, InvariantHolds, PTL
=============================================================================
