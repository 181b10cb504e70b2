------------------------------ MODULE WsConn -------------------------------
(***************************************************************************)
(* net/wsconn.c: the server's side of a websocket.  rbuf holds what was    *)
(* read from the socket, rrbuf the payload of the frames parsed, wbuf what *)
(* is to be written.  Of the reactor only the events asked for are kept:   *)
(* that it calls nobody it should not is module Reactor's subject.  The    *)
(* bytes in a buffer's memory are module Buffer's: here a buffer is its    *)
(* unread cells and read_pos.                                              *)
(*                                                                         *)
(* A cell is a line of the request with its end of line, the blank line    *)
(* behind them, or a byte of a frame.  A request's lines after the first   *)
(* all have a colon, its first a space, and it is shorter than             *)
(* WS_HANDSHAKE_MAX_SIZE.  As in test_wsconn.c the connection is released  *)
(* once it was stopped, and not from inside on_build or on_read.           *)
(***************************************************************************)
EXTENDS Integers, Sequences

CONSTANTS Requests,     \* what clients ask: sequences of lines
          FrameLists,   \* what they send then: sequences of frames
          Residue,      \* flags of lines the uninitialised rest of request_data may hold
          BufSize,      \* the size of each buffer
          AnswerLen,    \* the length of a handshake's answer
          ShortLimit, MediumLimit,   \* 126 and 65535
          SendLens, MaxSends         \* lengths given to wsconn_send; bound on its calls

VARIABLES
  script,     \* the request and the frames of this client; never changes
  input,      \* the cells the client sent and read() has not returned
  up,         \* con->h.fd is a socket
  released,   \* wsconn_release was called
  status, interest,
  rbuf, rrbuf, wbuf,
  wspc,       \* "idle", "parse" after a read, a callback, "out" before
              \* out_func of the same event, "close" or "abort"
  got,        \* res: what read returned, later what was processed
  both,       \* the event in_func is called for reports output too
  sends,      \* calls of wsconn_send so far
  consumed,   \* history: the payload cells on_read took
  spoiled,    \* history: on_read answered <= 0, or a frame was cut off in rrbuf
  owed, wire  \* history: cells that should be written, cells that were

vars == <<script, input, up, released, status, interest, rbuf, rrbuf, wbuf, wspc, got, both,
          sends, consumed, spoiled, owed, wire>>
history == <<consumed, spoiled>>

Smaller(a, b) == IF a < b THEN a ELSE b
Buf == [data |-> <<>>, pos |-> 0]
Room(b) == BufSize - b.pos - Len(b.data)
Written(b, s) == [b EXCEPT !.data = @ \o SubSeq(s, 1, Smaller(Len(s), Room(b)))]
Taken(b, len) ==
  LET n == Smaller(len, Len(b.data))
      pos == b.pos + n
  IN [data |-> SubSeq(b.data, n + 1, Len(b.data)),
      pos |-> IF pos > BufSize \div 2 THEN 0 ELSE pos]

----------------------------------------------------------------------------
(* The cells of a request and of frames.  A frame has an opcode, may be    *)
(* masked, and gives its length in a header of 2, 4 or 10 bytes.           *)
Cells(n, c) == [i \in 1..n |-> c]
Lines(req) == [i \in 1..Len(req) |-> [t |-> "line", v |-> req[i]]] \o <<[t |-> "blank"]>>
Header(f) ==
  <<[t |-> "op", v |-> f.op], [t |-> "len", masked |-> f.masked, form |-> f.form, v |-> f.len]>>
    \o Cells(f.form - 2, [t |-> "ext"]) \o Cells(IF f.masked THEN 4 ELSE 0, [t |-> "mask"])
Payload(k, f) == [i \in 1..f.len |-> [t |-> "pay", v |-> <<k, i>>, on |-> f.masked]]
Bytes(k, f) == Header(f) \o Payload(k, f)
Encoded(frames) ==
  LET Upto[k \in Nat] == IF k = 0 THEN <<>> ELSE Upto[k - 1] \o Bytes(k, frames[k])
  IN Upto[Len(frames)]

(* wsconn_create, wsconn_set_fd and the callbacks' setters; the client     *)
(* does not wait for the answer to its request.                            *)
Init ==
  /\ script \in [request : Requests, frames : FrameLists]
  /\ input = Lines(script.request) \o Encoded(script.frames)
  /\ up = TRUE /\ released = FALSE /\ status = "WS_INIT" /\ interest = {}
  /\ rbuf = Buf /\ rrbuf = Buf /\ wbuf = Buf
  /\ wspc = "idle" /\ got = 0 /\ both = FALSE /\ sends = 0
  /\ consumed = <<>> /\ spoiled = FALSE /\ owed = <<>> /\ wire = <<>>

wsconn_established == status = "WS_ESTABLISHED"
Calling == wspc \in {"idle", "on_build", "on_read", "on_close"} /\ ~released

(* With the buffers it creates.                                            *)
wsconn_start ==
  /\ wspc = "idle" /\ up /\ interest = {}
  /\ interest' = {"IN"}
  /\ UNCHANGED <<script, input, up, released, status, rbuf, rrbuf, wbuf, wspc, got, both, sends,
                 history, owed, wire>>

wsconn_stop ==
  /\ Calling /\ up /\ interest # {}
  /\ up' = FALSE /\ interest' = {}
  /\ UNCHANGED <<script, input, released, status, rbuf, rrbuf, wbuf, wspc, got, both, sends,
                 history, owed, wire>>

(* With its wsconn_stop.                                                   *)
wsconn_release ==
  /\ Calling /\ wspc \in {"idle", "on_close"}
  /\ released' = TRUE /\ up' = FALSE /\ interest' = {}
  /\ UNCHANGED <<script, input, status, rbuf, rrbuf, wbuf, wspc, got, both, sends, history, owed, wire>>

----------------------------------------------------------------------------
(* wsconn_send *)
HeaderLen(n) == IF n < ShortLimit THEN 2 ELSE IF n <= MediumLimit THEN 4 ELSE 10
FirstByte == <<"head">>
Body(n) == Cells(HeaderLen(n) - 1, "size") \o Cells(n, "data")

(* Fault: the room is checked for the payload alone.                       *)
FitsPayload(n) == Room(wbuf) >= n

Fits(n) == Room(wbuf) >= n + HeaderLen(n)

(* The first byte is written before the room is known: without room for    *)
(* the rest wsconn_send returns -1 and leaves that byte behind.            *)
wsconn_send(n) ==
  /\ Calling /\ wsconn_established /\ sends < MaxSends
  /\ sends' = sends + 1
  /\ IF Fits(n)
       THEN /\ wbuf' = Written(Written(wbuf, FirstByte), Body(n))
            /\ owed' = owed \o FirstByte \o Body(n)
            /\ interest' = IF up THEN {"IN", "OUT"} ELSE interest
       ELSE /\ wbuf' = Written(wbuf, <<"stray">>)
            /\ owed' = IF Room(wbuf) > 0 THEN Append(owed, "stray") ELSE owed
            /\ UNCHANGED interest
  /\ UNCHANGED <<script, input, up, released, status, rbuf, rrbuf, wspc, got, both, history, wire>>

----------------------------------------------------------------------------
(* _wsconn_read: a full buffer, the end of the stream and an error have    *)
(* the reactor close the connection, EAGAIN and EINTR change nothing.      *)
Readable == wspc = "idle" /\ up /\ "IN" \in interest

ReadFails ==
  /\ Readable
  /\ wspc' = "close"
  /\ UNCHANGED <<script, input, up, released, status, interest, rbuf, rrbuf, wbuf, got, both, sends,
                 history, owed, wire>>

ReadSome(n, o) ==
  /\ Readable /\ (o => "OUT" \in interest) /\ n <= Room(rbuf) /\ n <= Len(input)
  /\ rbuf' = Written(rbuf, SubSeq(input, 1, n))
  /\ input' = SubSeq(input, n + 1, Len(input))
  /\ wspc' = "parse" /\ got' = n /\ both' = o
  /\ UNCHANGED <<script, up, released, status, interest, rrbuf, wbuf, sends, history, owed, wire>>

(* in_func has returned >= 0.                                              *)
Return == wspc' = IF both THEN "out" ELSE "idle"

(* The end of the request: a line's end followed by a blank line.          *)
Ends ==
  {i \in 2..Len(rbuf.data) : rbuf.data[i].t = "blank" /\ rbuf.data[i - 1].t = "line"}

(* Without it everything just read is taken out of the buffer again.       *)
RequestIncomplete ==
  /\ wspc = "parse" /\ ~wsconn_established /\ Ends = {}
  /\ rbuf' = Taken(rbuf, got)
  /\ Return
  /\ UNCHANGED <<script, input, up, released, status, interest, rrbuf, wbuf, got, both, sends,
                 history, owed, wire>>

(* _wsconn_parse_request: the flags of the lines behind the first; KEY2    *)
(* sets KEY1's.  A "refused" line is a Connection or an Upgrade with       *)
(* another value.                                                          *)
FlagsOf(line) == IF line = "SEC_KEY2" THEN {"SEC_KEY1"} ELSE {line}
_wsconn_parse_request(end, rest) ==
  rest \cup UNION {FlagsOf(rbuf.data[i].v) : i \in 2..end - 1}

WS_FLASH == {"UPGRADE", "CONNECTION", "HOST", "ORIGIN"}
WS_SHA1 == {"UPGRADE", "CONNECTION", "HOST", "SEC_ORIGIN", "SEC_KEY", "SEC_VERSION"}
WS_SHA1_EX == {"UPGRADE", "CONNECTION", "HOST", "ORIGIN", "SEC_KEY", "SEC_VERSION"}
WS_MD5 == {"HOST", "CONNECTION", "SEC_KEY1", "SEC_KEY2", "UPGRADE", "ORIGIN", "SEC_PROTOCOL"}

(* Which answer _wsconn_handshake gives.                                   *)
Handshake(flags) ==
  CASE "refused" \in flags -> {}
    [] WS_MD5 \subseteq flags -> {"md5"}
    [] WS_SHA1 \subseteq flags \/ WS_SHA1_EX \subseteq flags -> {"sha1"}
    [] WS_FLASH \subseteq flags -> {"flash"}
    [] OTHER -> {}

(* _wsconn_handshake, with the answer one of _wsconn_proc_md5_req,         *)
(* _wsconn_proc_sha1_req and _wsconn_proc_flash_req writes; then on_build. *)
_wsconn_handshake(rest) ==
  LET end == CHOOSE i \in Ends : \A j \in Ends : i <= j
      answer == Handshake(_wsconn_parse_request(end, rest))
      cells == Cells(AnswerLen, "answer")
  IN /\ wspc = "parse" /\ ~wsconn_established /\ Ends # {}
     /\ IF answer # {} /\ Room(wbuf) >= AnswerLen
          THEN /\ wbuf' = Written(wbuf, cells) /\ owed' = owed \o cells
               /\ interest' = {"IN", "OUT"} /\ status' = "WS_ESTABLISHED"
               /\ got' = end /\ wspc' = "on_build"
          ELSE wspc' = "close" /\ UNCHANGED <<wbuf, owed, interest, status, got>>
     /\ UNCHANGED <<script, input, up, released, rbuf, rrbuf, both, sends, history, wire>>

OnBuildReturns ==
  /\ wspc = "on_build"
  /\ rbuf' = Taken(rbuf, got)
  /\ Return
  /\ UNCHANGED <<script, input, up, released, status, interest, rrbuf, wbuf, got, both, sends,
                 history, owed, wire>>

----------------------------------------------------------------------------
(* _wsconn_frame: the frame at the head of rbuf, once it is complete.      *)
Total(c) == c.form + (IF c.masked THEN 4 ELSE 0) + c.v

Complete(d) == Len(d) >= 2 /\ Len(d) >= d[2].form /\ Len(d) >= Total(d[2])
TextOnly(d) == Len(d) >= 2 => d[1].v = 1

FrameIncomplete ==
  /\ wspc = "parse" /\ wsconn_established /\ TextOnly(rbuf.data) /\ ~Complete(rbuf.data)
  /\ Return
  /\ UNCHANGED <<script, input, up, released, status, interest, rbuf, rrbuf, wbuf, got, both, sends,
                 history, owed, wire>>

(* Only text frames are supported.                                         *)
FrameRefused ==
  /\ wspc = "parse" /\ wsconn_established /\ ~TextOnly(rbuf.data)
  /\ wspc' = "close"
  /\ UNCHANGED <<script, input, up, released, status, interest, rbuf, rrbuf, wbuf, got, both, sends,
                 history, owed, wire>>

(* The mask is applied in place, whether or not it was before.             *)
Unmasked(d) ==
  LET first == Total(d[2]) - d[2].v
  IN [i \in 1..Len(d) |->
        IF d[2].masked /\ i > first /\ i <= Total(d[2]) THEN [d[i] EXCEPT !.on = ~@] ELSE d[i]]

(* The payload goes to rrbuf as far as there is room, and all of rrbuf to  *)
(* on_read; if that is nothing the assertion fails.                        *)
_wsconn_frame ==
  LET d == Unmasked(rbuf.data)
      payload == SubSeq(d, Total(d[2]) - d[2].v + 1, Total(d[2]))
  IN /\ wspc = "parse" /\ wsconn_established
     /\ TextOnly(rbuf.data) /\ Complete(rbuf.data)
     /\ rbuf' = [rbuf EXCEPT !.data = d]
     /\ rrbuf' = Written(rrbuf, payload)
     /\ got' = Total(d[2])
     /\ spoiled' = (spoiled \/ Len(payload) > Room(rrbuf))
     /\ wspc' = IF rrbuf'.data = <<>> THEN "abort" ELSE "on_read"
     /\ UNCHANGED <<script, input, up, released, status, interest, wbuf, both, sends, consumed,
                    owed, wire>>

(* Fault: what on_read took stays in rrbuf.                                *)
OnReadKeeps(res) ==
  /\ wspc = "on_read" /\ res \in -1..Len(rrbuf.data)
  /\ rbuf' = IF res > 0 THEN Taken(rbuf, got) ELSE rbuf
  /\ consumed' = consumed \o SubSeq(rrbuf.data, 1, res)
  /\ spoiled' = (spoiled \/ res <= 0)
  /\ IF res < 0 THEN wspc' = "close" ELSE Return
  /\ UNCHANGED <<script, input, up, released, status, interest, rrbuf, wbuf, got, both, sends, owed, wire>>

(* on_read returns: when it took something the frame leaves rbuf, when it  *)
(* took nothing the frame stays there too.                                 *)
OnReadReturns(res) ==
  /\ wspc = "on_read" /\ res \in -1..Len(rrbuf.data)
  /\ IF res > 0 THEN rrbuf' = Taken(rrbuf, res) /\ rbuf' = Taken(rbuf, got)
                ELSE UNCHANGED <<rrbuf, rbuf>>
  /\ consumed' = consumed \o SubSeq(rrbuf.data, 1, res)
  /\ spoiled' = (spoiled \/ res <= 0)
  /\ IF res < 0 THEN wspc' = "close" ELSE Return
  /\ UNCHANGED <<script, input, up, released, status, interest, wbuf, got, both, sends, owed, wire>>

----------------------------------------------------------------------------
(* _wsconn_write; with nothing to write, EAGAIN or EINTR it changes        *)
(* nothing.  After on_read stopped the connection write() fails.           *)
Writable == (wspc = "idle" /\ "OUT" \in interest) \/ wspc = "out"

WriteSome(n) ==
  /\ Writable /\ up /\ n \in 1..Len(wbuf.data)
  /\ wbuf' = Taken(wbuf, n)
  /\ interest' = IF n = Len(wbuf.data) THEN {"IN"} ELSE interest
  /\ wire' = wire \o SubSeq(wbuf.data, 1, n)
  /\ wspc' = "idle"
  /\ UNCHANGED <<script, input, up, released, status, rbuf, rrbuf, got, both, sends, history, owed>>

WriteNothing ==
  /\ wspc = "out" /\ (up \/ wbuf.data = <<>>)
  /\ wspc' = "idle"
  /\ UNCHANGED <<script, input, up, released, status, interest, rbuf, rrbuf, wbuf, got, both, sends,
                 history, owed, wire>>

WriteFails ==
  /\ Writable /\ wbuf.data # <<>>
  /\ wspc' = "close"
  /\ UNCHANGED <<script, input, up, released, status, interest, rbuf, rrbuf, wbuf, got, both, sends,
                 history, owed, wire>>

(* The reactor's close_func: on_close, which may stop or release.          *)
_wsconn_close ==
  /\ wspc = "close"
  /\ wspc' = "on_close"
  /\ UNCHANGED <<script, input, up, released, status, interest, rbuf, rrbuf, wbuf, got, both, sends,
                 history, owed, wire>>

OnCloseReturns ==
  /\ wspc = "on_close"
  /\ wspc' = "idle"
  /\ UNCHANGED <<script, input, up, released, status, interest, rbuf, rrbuf, wbuf, got, both, sends,
                 history, owed, wire>>

Next ==
  \/ wsconn_start \/ wsconn_stop \/ wsconn_release
  \/ \E n \in SendLens : wsconn_send(n)
  \/ ReadFails \/ RequestIncomplete \/ OnBuildReturns
  \/ \E n \in 1..BufSize : WriteSome(n) \/ \E o \in BOOLEAN : ReadSome(n, o)
  \/ \E rest \in Residue : _wsconn_handshake(rest)
  \/ FrameIncomplete \/ FrameRefused \/ _wsconn_frame
  \/ \E res \in -1..BufSize : OnReadReturns(res)
  \/ WriteNothing \/ WriteFails \/ _wsconn_close \/ OnCloseReturns

Spec == Init /\ [][Next]_vars

----------------------------------------------------------------------------
(* Properties *)

(* What is to arrive at the application: all payload, unmasked, in order.  *)
Plain(k, f) == [i \in 1..f.len |-> [t |-> "pay", v |-> <<k, i>>, on |-> FALSE]]
Sent ==
  LET Upto[k \in Nat] == IF k = 0 THEN <<>> ELSE Upto[k - 1] \o Plain(k, script.frames[k])
  IN Upto[Len(script.frames)]

(* However the client's bytes are cut into reads, and however little of    *)
(* what it is offered on_read takes, what it took and is offered next is   *)
(* the payload of the frames from the first on, unmasked, none skipped and *)
(* none twice.  on_read must not answer 0 or < 0, nor let rrbuf fill.       *)
Delivered ==
  (status = "WS_ESTABLISHED" /\ ~spoiled) =>
    LET offered == consumed \o rrbuf.data
    IN offered = SubSeq(Sent, 1, Len(offered))

(* What is written is the answer followed by whole frames in the order     *)
(* wsconn_send accepted them, with the stray first bytes of refused ones;  *)
(* and while any of it other than a stray byte waits in wbuf of a          *)
(* connected socket, output events are asked for.                          *)
Framed ==
  /\ wire \o wbuf.data = owed
  /\ (up /\ \E i \in 1..Len(wbuf.data) : wbuf.data[i] # "stray") => "OUT" \in interest
=============================================================================
