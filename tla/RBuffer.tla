------------------------------ MODULE RBuffer ------------------------------
(***************************************************************************)
(* base/rbuffer.c: the lock-free ring buffer shared by ONE writing and ONE *)
(* reading thread (or process, when it lives in shared memory).            *)
(*                                                                         *)
(* A record is a four byte little-endian length followed by the payload.   *)
(* read_pos and write_pos are free-running unsigned counters (2^32 in the  *)
(* code, PosMod here) that only their owner advances, and only after every *)
(* byte of the record was copied.  A call is split into the steps another  *)
(* thread can observe: the room check, the copy of the length, the copy of *)
(* the payload and the atom_add that publishes the result.                 *)
(***************************************************************************)
EXTENDS Integers, Sequences

CONSTANTS Size,      \* r->size, a power of two
          PosMod,    \* 2^32: the positions are uint32_t
          Payloads,  \* the byte strings the writer may send
          ReadCaps   \* the values of *buf_size a reader may pass

LenSize == 4         \* sizeof(uint32_t)
Byte == 0..255

ASSUME SizeAssumption == Size \in Nat /\ Size > LenSize
ASSUME PosModAssumption == PosMod \in Nat /\ PosMod > Size /\ PosMod % Size = 0
ASSUME PayloadAssumption == Payloads \subseteq Seq(Byte)
ASSUME ReadCapAssumption == ReadCaps \subseteq Nat
ASSUME LenFits == Size \div 16777216 < 256   \* r->size is a uint32_t

VARIABLES
  buffer,     \* the bytes of r->buffer
  read_pos,   \* advanced by the reader only
  write_pos,  \* advanced by the writer only
  wpc,        \* where the writing thread is inside rbuffer_write
  wmsg,       \* its argument (buf, buf_size)
  rpc,        \* where the reading thread is inside rbuffer_peek / rbuffer_read
  rop,        \* which of the two it called
  rcap,       \* its argument *buf_size
  read_len,   \* the length it decoded
  out,        \* the reader's buf after the last successful copy
  recs        \* history: start position -> payload of every record that is
              \* published and not yet consumed

vars == <<buffer, read_pos, write_pos, wpc, wmsg, rpc, rop, rcap, read_len, out, recs>>
writerVars == <<wpc, wmsg>>
readerVars == <<rpc, rop, rcap, read_len, out>>

Positions == 0 .. PosMod - 1
Cells == 0 .. Size - 1

----------------------------------------------------------------------------
(* Unsigned arithmetic on the counters.                                    *)

Cell(p) == p % Size                       \* p & (r->size - 1)
Advance(p, n) == (p + n) % PosMod         \* atom_add
Distance(from, to) == (to - from) % PosMod
Used == Distance(read_pos, write_pos)
SmallerOf(a, b) == IF a < b THEN a ELSE b

(* The four bytes of a length, and the number four bytes stand for.        *)
LenBytes(n) ==
  <<n % 256, (n \div 256) % 256, (n \div 65536) % 256, (n \div 16777216) % 256>>
DecodeLen(b) == b[1] + 256 * b[2] + 65536 * b[3] + 16777216 * b[4]

(* memcpy(b + dst, s + from, n), and a read of n bytes in two pieces: the  *)
(* first k from the address c up, the rest from the start of the buffer.   *)
Memcpy(b, dst, s, from, n) ==
  [c \in Cells |-> IF dst <= c /\ c < dst + n THEN s[from + 1 + c - dst] ELSE b[c]]
Fetch(c, k, n) == [i \in 1..n |-> IF i <= k THEN buffer[c + i - 1] ELSE buffer[i - 1 - k]]

----------------------------------------------------------------------------
rbuffer_read_bytes == IF Used >= LenSize THEN Used - LenSize ELSE 0

(* Fault: the room does not account for the length word.                   *)
WriteBytesNoHeader == IF Used >= Size THEN 0 ELSE Size - Used

rbuffer_write_bytes ==
  IF Used >= Size - LenSize THEN 0 ELSE Size - LenSize - Used

(* rbuffer_create: both positions zero, the memory is what malloc returned *)
(* (all zero here; no byte is read before it is written).                  *)
Init ==
  /\ buffer = [c \in Cells |-> 0]
  /\ read_pos = 0 /\ write_pos = 0
  /\ wpc = "idle" /\ wmsg = <<>>
  /\ rpc = "idle" /\ rop = "read" /\ rcap = 0 /\ read_len = 0 /\ out = <<>>
  /\ recs = [p \in {} |-> <<>>]

----------------------------------------------------------------------------
(* rbuffer_write.  A call with buf_size = 0 or without room returns at     *)
(* once and changes nothing.                                               *)

WriteBegin(m) ==
  /\ wpc = "idle"
  /\ Len(m) > 0
  /\ Len(m) <= rbuffer_write_bytes
  /\ wpc' = "len" /\ wmsg' = m
  /\ UNCHANGED <<buffer, read_pos, write_pos, readerVars, recs>>

(* Fault: the second piece of a split length starts at its first byte.     *)
WriteLenRestart ==
  LET c == Cell(write_pos)
      k == SmallerOf(LenSize, Size - c)
      lb == LenBytes(Len(wmsg))
  IN /\ wpc = "len"
     /\ buffer' = Memcpy(Memcpy(buffer, c, lb, 0, k), 0, lb, 0, LenSize - k)
     /\ wpc' = "data"
     /\ UNCHANGED <<read_pos, write_pos, wmsg, readerVars, recs>>

(* The length goes in one piece, or in two when it meets the tail.         *)
WriteLen ==
  LET c == Cell(write_pos)
      k == SmallerOf(LenSize, Size - c)
      lb == LenBytes(Len(wmsg))
  IN /\ wpc = "len"
     /\ buffer' = Memcpy(Memcpy(buffer, c, lb, 0, k), 0, lb, k, LenSize - k)
     /\ wpc' = "data"
     /\ UNCHANGED <<read_pos, write_pos, wmsg, readerVars, recs>>

WriteData ==
  LET to_tail == Size - Cell(write_pos)
      n == Len(wmsg)
      k == SmallerOf(n, to_tail - LenSize)
  IN /\ wpc = "data"
     /\ buffer' = IF to_tail > LenSize
                  THEN Memcpy(Memcpy(buffer, Cell(write_pos + LenSize), wmsg, 0, k),
                              0, wmsg, k, n - k)
                  ELSE Memcpy(buffer, LenSize - to_tail, wmsg, 0, n)
     /\ wpc' = "commit"
     /\ UNCHANGED <<read_pos, write_pos, wmsg, readerVars, recs>>

WriteCommit ==
  /\ wpc = "commit"
  /\ write_pos' = Advance(write_pos, Len(wmsg) + LenSize)
  /\ recs' = [p \in DOMAIN recs \cup {write_pos} |->
                IF p = write_pos THEN wmsg ELSE recs[p]]
  /\ wpc' = "idle"
  /\ UNCHANGED <<buffer, read_pos, wmsg, readerVars>>

----------------------------------------------------------------------------
(* rbuffer_peek, and rbuffer_read which is a peek followed by an atom_add. *)

ReadBegin(op, cap) ==
  /\ rpc = "idle"
  /\ rbuffer_read_bytes > 0
  /\ rpc' = "len" /\ rop' = op /\ rcap' = cap
  /\ UNCHANGED <<buffer, read_pos, write_pos, writerVars, read_len, out, recs>>

(* Fault: a record that exactly fills the caller's buffer is refused.      *)
ReadLenStrict ==
  LET c == Cell(read_pos)
      n == DecodeLen(Fetch(c, SmallerOf(LenSize, Size - c), LenSize))
  IN /\ rpc = "len"
     /\ read_len' = n
     /\ rpc' = IF n > Size - LenSize \/ n >= rcap THEN "idle" ELSE "data"
     /\ UNCHANGED <<buffer, read_pos, write_pos, writerVars, rop, rcap, out, recs>>

(* A length that does not fit the ring or the caller's buffer is refused   *)
(* and the record stays where it is.                                       *)
ReadLen ==
  LET c == Cell(read_pos)
      n == DecodeLen(Fetch(c, SmallerOf(LenSize, Size - c), LenSize))
  IN /\ rpc = "len"
     /\ read_len' = n
     /\ rpc' = IF n > Size - LenSize \/ n > rcap THEN "idle" ELSE "data"
     /\ UNCHANGED <<buffer, read_pos, write_pos, writerVars, rop, rcap, out, recs>>

ReadData ==
  LET to_tail == Size - Cell(read_pos)
      k == SmallerOf(read_len, to_tail - LenSize)
  IN /\ rpc = "data"
     /\ out' = IF to_tail < LenSize
               THEN [i \in 1..read_len |-> buffer[LenSize - to_tail + i - 1]]
               ELSE Fetch(Cell(read_pos + LenSize), k, read_len)
     /\ rpc' = IF rop = "read" THEN "commit" ELSE "idle"
     /\ UNCHANGED <<buffer, read_pos, write_pos, writerVars, rop, rcap, read_len, recs>>

(* Fault: the reader catches up with the writer.                           *)
ReadCommitAll ==
  /\ rpc = "commit"
  /\ read_pos' = write_pos
  /\ recs' = [p \in {} |-> <<>>]
  /\ rpc' = "idle"
  /\ UNCHANGED <<buffer, write_pos, writerVars, rop, rcap, read_len, out>>

ReadCommit ==
  /\ rpc = "commit"
  /\ read_pos' = Advance(read_pos, LenSize + read_len)
  /\ recs' = [p \in DOMAIN recs \ {read_pos} |-> recs[p]]
  /\ rpc' = "idle"
  /\ UNCHANGED <<buffer, write_pos, writerVars, rop, rcap, read_len, out>>

----------------------------------------------------------------------------
Writer == (\E m \in Payloads : WriteBegin(m)) \/ WriteLen \/ WriteData \/ WriteCommit
Reader ==
  \/ \E op \in {"peek", "read"}, cap \in ReadCaps : ReadBegin(op, cap)
  \/ ReadLen \/ ReadData \/ ReadCommit

Next == Writer \/ Reader
Spec == Init /\ [][Next]_vars

(* A thread inside a call runs to its end, a writer inside a call too; the *)
(* reading side keeps calling rbuffer_read, as its polling loop does, with *)
(* a buffer of the given size.  Nothing obliges the writer to write.       *)
Fairness(cap) ==
  /\ WF_vars(WriteLen \/ WriteData \/ WriteCommit)
  /\ WF_vars(ReadLen \/ ReadData \/ ReadCommit)
  /\ SF_vars(ReadBegin("read", cap))

----------------------------------------------------------------------------
(* Properties.                                                             *)

Span(p) == LenSize + Len(recs[p])
RecordByte(m, i) == IF i < LenSize THEN LenBytes(Len(m))[i + 1] ELSE m[i - LenSize + 1]

TypeOK ==
  /\ buffer \in [Cells -> Byte]
  /\ read_pos \in Positions /\ write_pos \in Positions
  /\ wpc \in {"idle", "len", "data", "commit"} /\ wmsg \in Seq(Byte)
  /\ rpc \in {"idle", "len", "data", "commit"} /\ rop \in {"peek", "read"}
  /\ rcap \in Nat /\ read_len \in Nat /\ out \in Seq(Byte)
  /\ DOMAIN recs \subseteq Positions
  /\ \A p \in DOMAIN recs : recs[p] \in Seq(Byte)

(* The records published and not consumed tile the bytes between read_pos  *)
(* and write_pos exactly: the reader always stands on the start of a       *)
(* record, each record ends where the next one starts, and the last one    *)
(* ends at write_pos.  It is what makes the length word the reader decodes *)
(* a length word at all, whatever the two threads' steps and wherever the  *)
(* counters wrap.                                                          *)
Framing ==
  /\ Used <= Size
  /\ read_pos # write_pos => read_pos \in DOMAIN recs
  /\ \A p \in DOMAIN recs :
       /\ 0 < Len(recs[p])
       /\ Distance(read_pos, p) + Span(p) <= Used
       /\ \/ Distance(read_pos, p) + Span(p) = Used
          \/ Advance(p, Span(p)) \in DOMAIN recs

(* While rbuffer_write copies, the cells it may touch are disjoint from    *)
(* every published and unread byte, and from every cell a concurrent       *)
(* rbuffer_read is copying: the room it computed from a read_pos that may  *)
(* be stale by the time it is used never includes unread data.             *)
NoOverwrite ==
  wpc # "idle" =>
    /\ Used + LenSize + Len(wmsg) <= Size
    /\ \A i \in 0 .. LenSize + Len(wmsg) - 1, j \in 0 .. Used - 1 :
         Cell(write_pos + i) # Cell(read_pos + j)

(* Every byte of every published record is in its cell, length and payload,*)
(* including those of records that wrap around the end of the memory.      *)
Integrity ==
  \A p \in DOMAIN recs : \A i \in 0 .. Span(p) - 1 :
    buffer[Cell(p + i)] = RecordByte(recs[p], i)

(* What rbuffer_read hands out, and is about to consume, is the oldest     *)
(* published record, whole.                                                *)
Delivered ==
  /\ rpc \in {"data", "commit"} =>
       read_pos \in DOMAIN recs /\ read_len = Len(recs[read_pos])
  /\ rpc = "commit" => out = recs[read_pos]

(* rbuffer.c's records are whole from rbuffer_write to rbuffer_read, while *)
(* both run: the four parts above together.                                *)
Whole == TypeOK /\ Framing /\ Integrity /\ Delivered

(* A reading side that keeps calling rbuffer_read with a large enough      *)
(* buffer eventually consumes every record that was published.             *)
EventuallyRead ==
  \A p \in Positions : p \in DOMAIN recs ~> p \notin DOMAIN recs

(* Refinement: the ring implements a first-in first-out queue of whole     *)
(* messages.  The queue is what a scan of the bytes between read_pos and   *)
(* write_pos decodes: the record k bytes behind read_pos, the one behind   *)
(* it, and so on.                                                          *)
LengthAt(k) == DecodeLen([i \in 1..LenSize |-> buffer[Cell(read_pos + (k + (i - 1)))]])
RecordAt(k) == [i \in 1..LengthAt(k) |-> buffer[Cell(read_pos + (k + (LenSize + (i - 1))))]]
Scanned[k \in Nat] ==
  IF k >= Used THEN <<>> ELSE <<RecordAt(k)>> \o Scanned[k + (LenSize + LengthAt(k))]
Pending == Scanned[0]
Fifo == INSTANCE RBufferFifo WITH queue <- Pending, handed <- out, Messages <- Payloads
FifoSpec == Fifo!Spec
=============================================================================
