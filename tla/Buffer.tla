------------------------------- MODULE Buffer ------------------------------
(***************************************************************************)
(* base/buffer.c: the linear byte buffer of a connection.  Unread bytes    *)
(* lie between read_pos and write_pos; once read_pos is past half of the   *)
(* buffer they are moved back to its start with memcpy, not memmove.       *)
(*                                                                         *)
(* buffer_peek and the accessors change nothing.  A length that is too     *)
(* large is cut down to what is there (buffer_read, buffer_read_nocopy) or *)
(* to the room (buffer_write, buffer_write_nocopy).                        *)
(***************************************************************************)
EXTENDS Integers

CONSTANTS buffer_size,  \* the argument of buffer_create
          Bytes,        \* the contents
          MaxBytes      \* bound: bytes written over the life of the buffer

ASSUME SizeAssumption == buffer_size \in Nat \ {0}
ASSUME BytesAssumption == Bytes # {}
ASSUME MaxBytesAssumption == MaxBytes \in Nat

VARIABLES
  buffer,               \* the memory
  read_pos, write_pos,
  stream,               \* history: every byte written, numbered from 0
  taken                 \* history: how many of them were read or thrown away

vars == <<buffer, read_pos, write_pos, stream, taken>>

Cells == 0 .. buffer_size - 1
(* Fault: nothing is ever moved back.                                      *)
DriftAtEnd == buffer_size

drift_threshold == buffer_size \div 2

SmallerOf(a, b) == IF a < b THEN a ELSE b

buffer_read_len == IF write_pos > read_pos THEN write_pos - read_pos ELSE 0
buffer_write_len == buffer_size - write_pos

(* buffer_create; the memory is what malloc_func returned.                 *)
Init ==
  /\ buffer \in [Cells -> {CHOOSE b \in Bytes : TRUE}]
  /\ read_pos = 0 /\ write_pos = 0
  /\ stream = [i \in {} |-> 0] /\ taken = 0

(* How many bytes have been written in all.                                *)
Count == taken + (write_pos - read_pos)

(* memcpy(write buffer, src, n): the first n bytes of src are stored.      *)
Store(src, n) ==
  /\ buffer' = [c \in Cells |-> IF write_pos <= c /\ c < write_pos + n
                                  THEN src[c - write_pos] ELSE buffer[c]]
  /\ stream' = [i \in 0 .. Count + n - 1 |->
                  IF i < Count THEN stream[i] ELSE src[i - Count]]

(* buffer_write(cb, src, len); also a read() into buffer_write_buffer      *)
(* followed by buffer_write_nocopy.                                        *)
buffer_write(src, len) ==
  LET n == SmallerOf(len, buffer_write_len)
  IN /\ len >= 0
     /\ Store(src, n)
     /\ write_pos' = write_pos + n
     /\ UNCHANGED <<read_pos, taken>>

(* Fault: one byte too few is moved.                                       *)
ShiftedShort(r, w) == [c \in Cells |-> IF c < w - r - 1 THEN buffer[r + c] ELSE buffer[c]]

(* The shift: memcpy(buffer, buffer + r, w - r).                           *)
Shifted(r, w) == [c \in Cells |-> IF c < w - r THEN buffer[r + c] ELSE buffer[c]]

(* buffer_read_nocopy(cb, len), and buffer_read, which copies the same     *)
(* bytes out first.                                                        *)
buffer_read_nocopy(len) ==
  LET n == SmallerOf(len, buffer_read_len)
      r == read_pos + n
  IN /\ len >= 0
     /\ taken' = taken + n
     /\ IF r > drift_threshold
          THEN /\ buffer' = Shifted(r, write_pos)
               /\ read_pos' = 0 /\ write_pos' = write_pos - r
          ELSE read_pos' = r /\ UNCHANGED <<buffer, write_pos>>
     /\ UNCHANGED stream

buffer_reset ==
  /\ read_pos' = 0 /\ write_pos' = 0
  /\ taken' = Count
  /\ UNCHANGED <<buffer, stream>>

Sources(n) == [0 .. n - 1 -> Bytes]

Next ==
  \/ \E len \in 0 .. buffer_size + 1 : \E src \in Sources(len) :
       Count + len <= MaxBytes /\ buffer_write(src, len)
  \/ \E len \in 0 .. buffer_size + 1 : buffer_read_nocopy(len)
  \/ buffer_reset

Spec == Init /\ [][Next]_vars

----------------------------------------------------------------------------
(* Properties *)

(* The positions stay inside the buffer and in order, the two assertions   *)
(* of the code (buffer.c, lines 69 and 124), and between calls the read    *)
(* position is not past the threshold.                                     *)
TypeOK ==
  /\ buffer \in [Cells -> Bytes]
  /\ write_pos \in 0..buffer_size
  /\ read_pos \in 0..write_pos /\ read_pos <= drift_threshold
  /\ taken \in Nat
  /\ stream \in [0 .. Count - 1 -> Bytes]

(* "read / write like pop / push": the unread bytes are the ones written   *)
(* last, unchanged and in order, whatever mixture of partial reads,        *)
(* partial writes and moves there was.                                     *)
Stream ==
  \A i \in 0 .. write_pos - read_pos - 1 : buffer[read_pos + i] = stream[taken + i]

(* "threshold is half size, so memcpy src & dst will never overlap": when  *)
(* bytes are moved back, the last one lands before the first one's place.  *)
DriftNoOverlap ==
  [][write_pos' < write_pos => write_pos' <= taken' - taken + read_pos]_vars

(* buffer.c keeps its asserted bounds and the bytes it was given, and its  *)
(* moves never overlap: the three parts above together.                    *)
Streams == [](TypeOK /\ Stream) /\ DriftNoOverlap
=============================================================================
