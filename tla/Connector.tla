----------------------------- MODULE Connector -----------------------------
(***************************************************************************)
(* net/connector.c: a TCP connection that is a handler of the reactor      *)
(* (module Reactor) and owns a read and a write buffer (module Buffer).    *)
(* con_send only queues bytes and asks for output events; _con_write sends *)
(* what the socket takes and stops asking when the queue is empty.         *)
(* _con_read reads what fits and offers everything unread to on_read,      *)
(* which consumes whole packages.                                          *)
(*                                                                         *)
(* The bytes themselves are module Buffer's business, here they are only   *)
(* counted.  The application may call con_set_sock, con_start, con_send    *)
(* and con_stop in any order, between dispatches and from inside on_read   *)
(* and on_close; it frees the connector outside or in on_close, and sets   *)
(* no socket on one that still has another.                                *)
(***************************************************************************)
EXTENDS Integers

CONSTANTS Con,        \* the connection's handler
          Size,       \* CONNECTOR_BUFFER_SIZE, or what con_set_rbuf was given
          PkgSizes,   \* the largest package of a protocol, for some protocols
          CloseStops, \* on_close is set and stops the connection, as in
                      \* test_net_echo.c; otherwise it may do anything
          SendLens,   \* buflen arguments of con_send
          MaxIn,      \* bound: bytes the peer sends
          MaxOut      \* bound: bytes given to con_send

ASSUME LenAssumption == SendLens \subseteq Nat /\ MaxIn \in Nat /\ MaxOut \in Nat
ASSUME CloseStopsAssumption == CloseStops \in BOOLEAN
ASSUME SizeAssumption == PkgSizes \subseteq Nat \ {0} /\ Size \in Nat \ {0}

VARIABLES
  live, interest, batch, expired, rpc, cur, type, gone,  \* the reactor
  rbuf, r_read, r_write, r_stream, r_taken,              \* con->rbuf
  wbuf, w_read, w_write, w_stream, w_taken,              \* con->wbuf
  pkg,       \* the largest package of the protocol spoken; never changes
  made,      \* con->wbuf is there: con_set_wbuf gave it or con_start made it
  up,        \* con->h.fd is a connected socket
  cpc,       \* in a callback: "enter", "on_read", "ret"
  cret,      \* what the callback is about to return: ok or < 0
  accepted,  \* history: bytes con_send took for this socket
  wire,      \* history: bytes write() took for it
  early      \* history: the last con_send was before con_start

reactorVars == <<live, interest, batch, expired, rpc, cur, type, gone>>
rbufVars == <<rbuf, r_read, r_write, r_stream, r_taken>>
wbufVars == <<wbuf, w_read, w_write, w_stream, w_taken>>
conVars == <<pkg, made, up, cpc, cret, accepted, wire, early>>
vars == <<reactorVars, rbufVars, wbufVars, conVars>>

Rx == INSTANCE Reactor WITH Handlers <- {Con}, SelfStop <- TRUE
R == INSTANCE Buffer WITH
       buffer <- rbuf, read_pos <- r_read, write_pos <- r_write, stream <- r_stream,
       taken <- r_taken, buffer_size <- Size, Bytes <- {0}, MaxBytes <- MaxIn
W == INSTANCE Buffer WITH
       buffer <- wbuf, read_pos <- w_read, write_pos <- w_write, stream <- w_stream,
       taken <- w_taken, buffer_size <- Size, Bytes <- {0}, MaxBytes <- MaxOut

Some(n) == [i \in 0 .. n - 1 |-> 0]   \* n bytes

(* con_create, and con_set_wbuf or not.                                    *)
Init ==
  /\ Rx!Init /\ R!Init /\ W!Init
  /\ pkg \in PkgSizes
  /\ made \in BOOLEAN
  /\ up = FALSE /\ cpc = "enter" /\ cret = TRUE /\ accepted = 0 /\ wire = 0 /\ early = FALSE

----------------------------------------------------------------------------
(* The application's calls: between dispatches, or from on_read, on_close. *)
Calling ==
  rpc = "app" \/ (rpc = "in" /\ cpc = "on_read") \/ (rpc = "close" /\ cpc = "enter")

Registered == interest[Con] # {}

con_set_sock ==
  /\ Calling /\ ~up /\ Con \in live
  /\ rpc = "close" => ~CloseStops
  /\ up' = TRUE /\ accepted' = 0 /\ wire' = 0
  /\ UNCHANGED <<pkg, made, reactorVars, rbufVars, wbufVars, cpc, cret, early>>

(* con_start; a second one finds the handler registered and returns -1.    *)
con_start ==
  /\ Calling /\ up
  /\ made' = TRUE
  /\ Rx!epoll_register(Con, {"IN"})
  /\ UNCHANGED <<pkg, rbufVars, wbufVars, up, cpc, cret, accepted, wire, early>>

(* con_send; without a buffer or room it returns -1 and changes nothing.   *)
(* Before con_start the bytes are queued and 0 is returned all the same,   *)
(* but reactor_modify fails: nobody asks for output events.                *)
con_send(n) ==
  /\ Calling /\ up /\ made
  /\ n <= W!buffer_write_len
  /\ W!buffer_write(Some(n), n)
  /\ accepted' = accepted + n /\ early' = ~Registered
  /\ Rx!epoll_modify(Con, {"IN", "OUT"})
  /\ UNCHANGED <<pkg, made, rbufVars, up, cpc, cret, wire>>

(* Fault: the write buffer keeps what the last connection did not send.    *)
StopKeepsBuffer ==
  /\ Calling /\ up
  /\ Rx!epoll_unregister(Con)
  /\ up' = FALSE /\ early' = FALSE
  /\ R!buffer_reset
  /\ UNCHANGED <<pkg, made, wbufVars, cpc, cret, accepted, wire>>

con_stop ==
  /\ Calling /\ up
  /\ Rx!epoll_unregister(Con)
  /\ up' = FALSE /\ early' = FALSE
  /\ R!buffer_reset /\ W!buffer_reset
  /\ UNCHANGED <<pkg, made, cpc, cret, accepted, wire>>

(* con_release, after its con_stop.  Nothing touches a connector behind    *)
(* its on_close; behind its on_read something would.                       *)
con_release ==
  /\ rpc = "app" \/ (rpc = "close" /\ cpc = "enter")
  /\ ~up
  /\ Rx!Free(Con)
  /\ UNCHANGED <<rbufVars, wbufVars, conVars>>

----------------------------------------------------------------------------
(* The callbacks.                                                          *)
Ret(ok) == cpc' = "ret" /\ cret' = ok

(* _con_read up to on_read.  A full buffer, the end of the stream and an   *)
(* error return < 0, EAGAIN and EINTR return 0.                            *)
ReadFull ==
  /\ rpc = "in" /\ cpc = "enter" /\ R!buffer_write_len = 0
  /\ Ret(FALSE)
  /\ UNCHANGED <<pkg, made, reactorVars, rbufVars, wbufVars, up, accepted, wire, early>>

ReadNothing(ok) ==
  /\ rpc = "in" /\ cpc = "enter" /\ R!buffer_write_len > 0
  /\ Ret(ok)
  /\ UNCHANGED <<pkg, made, reactorVars, rbufVars, wbufVars, up, accepted, wire, early>>

ReadSome(n) ==
  /\ rpc = "in" /\ cpc = "enter" /\ n <= R!buffer_write_len
  /\ R!buffer_write(Some(n), n)
  /\ cpc' = "on_read"
  /\ UNCHANGED <<pkg, made, reactorVars, wbufVars, up, cret, accepted, wire, early>>

(* on_read returns: the number of bytes it consumed, which leaves less     *)
(* than a package, or < 0.  When it called con_stop the buffer is empty by *)
(* now and there is nothing left to consume.                               *)
OnReadReturns(res) ==
  /\ rpc = "in" /\ cpc = "on_read"
  /\ res > 0 => res <= R!buffer_read_len \/ R!buffer_read_len = 0
  /\ res >= 0 => R!buffer_read_len - res < pkg
  /\ IF res > 0 THEN R!buffer_read_nocopy(res) ELSE UNCHANGED rbufVars
  /\ Ret(res >= 0)
  /\ UNCHANGED <<pkg, made, reactorVars, wbufVars, up, accepted, wire, early>>

(* Fault: the last byte is not sent, as if the length counted a terminator. *)
WriteAllButLast(res) ==
  /\ rpc = "out" /\ cpc = "enter" /\ res \in 1 .. W!buffer_read_len - 1
  /\ W!buffer_read_nocopy(res)
  /\ wire' = wire + res
  /\ Ret(TRUE)
  /\ UNCHANGED <<pkg, made, reactorVars, rbufVars, up, accepted, early>>

(* _con_write: the socket takes res bytes,                                 *)
WriteSome(res) ==
  /\ rpc = "out" /\ cpc = "enter" /\ res \in 1 .. W!buffer_read_len
  /\ W!buffer_read_nocopy(res)
  /\ IF res = W!buffer_read_len THEN Rx!epoll_modify(Con, {"IN"})
                                ELSE UNCHANGED reactorVars
  /\ wire' = wire + res
  /\ Ret(TRUE)
  /\ UNCHANGED <<pkg, made, rbufVars, up, accepted, early>>

(* ... or nothing now, or it fails; with nothing to send it returns 0.     *)
WriteNothing(ok) ==
  /\ rpc = "out" /\ cpc = "enter"
  /\ W!buffer_read_len = 0 => ok
  /\ Ret(ok)
  /\ UNCHANGED <<pkg, made, reactorVars, rbufVars, wbufVars, up, accepted, wire, early>>

(* _con_close: on_close, if there is one, has done what it wanted.         *)
_con_close ==
  /\ rpc = "close" /\ cpc = "enter"
  /\ CloseStops => ~up
  /\ Ret(TRUE)
  /\ UNCHANGED <<pkg, made, reactorVars, rbufVars, wbufVars, up, accepted, wire, early>>

(* Back in the dispatch loop.                                              *)
Return ==
  /\ cpc = "ret"
  /\ Rx!CallbackReturns(cret)
  /\ cpc' = "enter" /\ cret' = TRUE
  /\ UNCHANGED <<pkg, made, rbufVars, wbufVars, up, accepted, wire, early>>

Loop ==
  /\ Rx!epoll_wait \/ Rx!NextEvent(Con) \/ Rx!EndDispatch
  /\ UNCHANGED <<rbufVars, wbufVars, conVars>>

----------------------------------------------------------------------------
Write == \E res \in 1 .. Size : WriteSome(res)
Callback ==
  \/ ReadFull
  \/ \E ok \in BOOLEAN : ReadNothing(ok)
  \/ \E n \in 1 .. Size : R!Count + n <= MaxIn /\ ReadSome(n)
  \/ \E res \in -1 .. Size : OnReadReturns(res)
  \/ \E ok \in BOOLEAN : WriteNothing(ok)
  \/ _con_close \/ Return

App ==
  \/ con_set_sock \/ con_start \/ con_stop \/ con_release
  \/ \E n \in SendLens : W!Count + n <= MaxOut /\ con_send(n)

Next == App \/ Write \/ Callback \/ Loop
Spec == Init /\ [][Next]_vars

(* The thread dispatches for ever, epoll_wait keeps reporting a socket     *)
(* that can be written, a write that is tried again and again is not       *)
(* refused for ever, and callbacks return.                                 *)
Writable ==
  /\ Rx!epoll_wait /\ Con \in DOMAIN batch' /\ "OUT" \in batch'[Con]
  /\ UNCHANGED <<rbufVars, wbufVars, conVars>>
OnClose == CloseStops /\ rpc = "close" /\ con_stop
FairSpec ==
  /\ Spec
  /\ WF_vars(Callback) /\ WF_vars(Loop) /\ WF_vars(OnClose)
  /\ SF_vars(Writable) /\ SF_vars(Write)

----------------------------------------------------------------------------
(* Properties *)

TypeOK ==
  /\ Rx!TypeOK /\ R!TypeOK /\ W!TypeOK
  /\ pkg \in PkgSizes
  /\ made \in BOOLEAN /\ up \in BOOLEAN /\ (Registered => up)
  /\ cpc \in {"enter", "on_read", "ret"} /\ cret \in BOOLEAN
  /\ accepted \in 0..MaxOut /\ wire \in 0..MaxOut /\ early \in BOOLEAN

(* Every byte con_send accepted on this connection was written to its      *)
(* socket or is still in the buffer: partial writes neither skip nor       *)
(* repeat any, and nothing of an earlier connection is sent on a new one.  *)
(* And no wake-up is lost: while bytes wait, output events are asked for,  *)
(* whatever interleaving of partial writes and sends (from inside on_read  *)
(* too) led there; except that bytes sent between con_set_sock and         *)
(* con_start wait, with output off, for the next con_send.                 *)
Kept ==
  /\ TypeOK
  /\ up => accepted = wire + W!buffer_read_len
  /\ (up /\ W!buffer_read_len > 0) => early \/ "OUT" \in interest[Con]

(* With buffer.h's hint for the size, "4 * max pkg size", and an on_read   *)
(* that consumes every complete package or fails and has the connection    *)
(* stopped, _con_read never finds the buffer full, which would close a     *)
(* healthy connection: what was consumed drifts out of the buffer in time. *)
NeverFull ==
  (Size >= 4 * pkg /\ rpc = "in" /\ cpc = "enter") => R!buffer_write_len > 0

(* What is accepted is sent, as long as the connection lasts, unless the   *)
(* last con_send was before con_start.                                     *)
Flushed == (up /\ ~early /\ accepted > wire) ~> (accepted = wire \/ ~up)
=============================================================================
