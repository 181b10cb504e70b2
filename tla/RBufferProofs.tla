--------------------------- MODULE RBufferProofs ---------------------------
(***************************************************************************)
(* Proofs about RBuffer for every ring size, every counter width that is a *)
(* multiple of it, every set of payloads and every reader buffer.          *)
(***************************************************************************)
EXTENDS RBuffer, NatLemmas

----------------------------------------------------------------------------
(* The counters.                                                           *)

(* Advancing a position, with the wrap at 2^w made explicit.               *)
LEMMA AdvanceFact ==
  ASSUME NEW p \in Positions, NEW n \in 0 .. Size
  PROVE  /\ Advance(p, n) \in Positions
         /\ Advance(p, n) = IF p + n < PosMod THEN p + n ELSE p + n - PosMod
  <1>1. p + n \in Int /\ 0 <= p + n /\ p + n < PosMod + PosMod /\ PosMod > 0 /\ PosMod \in Nat
    BY SizeAssumption, PosModAssumption DEF Positions, LenSize
  <1> QED BY <1>1, ModOnce DEF Advance, Positions

(* The unsigned difference of two positions, likewise.                     *)
LEMMA DistanceFact ==
  ASSUME NEW p \in Positions, NEW q \in Positions
  PROVE  /\ Distance(p, q) \in Positions
         /\ Distance(p, q) = IF q >= p THEN q - p ELSE q - p + PosMod
  <1>1. q - p \in Int /\ -PosMod <= q - p /\ q - p < PosMod + PosMod /\ PosMod > 0 /\ PosMod \in Nat
    BY SizeAssumption, PosModAssumption DEF Positions, LenSize
  <1> QED BY <1>1, ModOnce DEF Distance, Positions

(* The cell of a position is the same however it is reached: PosMod is a   *)
(* multiple of Size, so wrapping the counter does not move the cell.       *)
LEMMA CellShift ==
  ASSUME NEW x \in Int
  PROVE  Cell(x + PosMod) = Cell(x)
  <1>1. Size \in Nat /\ Size > 0 /\ PosMod \in Int
    BY SizeAssumption, PosModAssumption DEF LenSize
  <1>2. PICK k \in Int : PosMod = Size * k
    <2>1. PICK k \in Int : PosMod = Size * k + (PosMod % Size)
      BY <1>1, ModDecompose
    <2>2. PosMod = Size * k
      BY <2>1, <1>1, PosModAssumption
    <2> QED BY <2>2
  <1>3. (x + Size * k) % Size = x % Size
    BY <1>1, ModShift
  <1> QED BY <1>2, <1>3 DEF Cell

(* The cell behind q is the cell the same distance behind p: this is where *)
(* the size of the ring has to divide 2^w.                                 *)
LEMMA CellOfDistance ==
  ASSUME NEW p \in Positions, NEW q \in Positions, NEW i \in Nat
  PROVE  Cell(q + i) = Cell(p + (Distance(p, q) + i))
  <1>0. PosMod \in Nat
    BY PosModAssumption
  <1>1. p \in Int /\ q \in Int /\ q + i \in Int
    BY <1>0 DEF Positions
  <1>2. Distance(p, q) = IF q >= p THEN q - p ELSE q - p + PosMod
    BY DistanceFact
  <1>3. CASE q >= p
    BY <1>1, <1>2, <1>3
  <1>4. CASE ~(q >= p)
    <2>1. p + (Distance(p, q) + i) = (q + i) + PosMod
      BY <1>0, <1>1, <1>2, <1>4
    <2>2. Cell((q + i) + PosMod) = Cell(q + i)
      BY <1>1, CellShift
    <2> QED BY <2>1, <2>2
  <1> QED BY <1>3, <1>4

(* The cells behind an advanced position.                                  *)
LEMMA CellOfAdvance ==
  ASSUME NEW p \in Positions, NEW n \in 0 .. Size, NEW i \in Nat
  PROVE  Cell(Advance(p, n) + i) = Cell(p + (n + i))
  <1>0. PosMod \in Nat /\ Size \in Nat
    BY PosModAssumption, SizeAssumption
  <1>1. p \in Int /\ n \in Int
    BY <1>0 DEF Positions
  <1>2. Advance(p, n) = IF p + n < PosMod THEN p + n ELSE p + n - PosMod
    BY AdvanceFact
  <1>3. CASE p + n < PosMod
    BY <1>1, <1>2, <1>3
  <1>4. CASE ~(p + n < PosMod)
    <2>1. p + (n + i) = (p + n - PosMod + i) + PosMod
      BY <1>0, <1>1
    <2>2. Cell((p + n - PosMod + i) + PosMod) = Cell(p + n - PosMod + i)
      BY <1>0, <1>1, CellShift
    <2> QED BY <2>1, <2>2, <1>2, <1>4
  <1> QED BY <1>3, <1>4

(* Positions less than a ring apart have different cells.                  *)
LEMMA CellDistinct ==
  ASSUME NEW p \in Int, NEW i \in Nat, NEW j \in Nat, i < Size, j < Size, i # j
  PROVE  Cell(p + i) # Cell(p + j)
  <1>1. Size \in Nat /\ Size > 0
    BY SizeAssumption DEF LenSize
  <1>2. CASE i < j
    BY <1>1, <1>2, ModDistinct DEF Cell
  <1>3. CASE j < i
    BY <1>1, <1>3, ModDistinct DEF Cell
  <1> QED BY <1>2, <1>3

(* A run of at most Size bytes has its cells in the ring.                  *)
LEMMA CellStep ==
  ASSUME NEW p \in Int, NEW i \in 0 .. Size
  PROVE  /\ Cell(p) \in Cells
         /\ Cell(p + i) \in Cells
         /\ Cell(p + i) = IF Cell(p) + i < Size THEN Cell(p) + i ELSE Cell(p) + i - Size
  <1>1. Size \in Nat /\ Size > 0
    BY SizeAssumption DEF LenSize
  <1>2. PICK c \in 0 .. Size - 1 : c = p % Size
    BY <1>1, ModRange
  <1>3. PICK q \in Int : p = Size * q + c
    BY <1>1, <1>2, ModDecompose
  <1>4. ((c + i) + Size * q) % Size = (c + i) % Size
    <2>1. c + i \in Int
      BY <1>1
    <2> QED BY <1>1, <2>1, ModShift
  <1>5. p + i = (c + i) + Size * q
    BY <1>1, <1>3, SMTT(30)
  <1>6. (c + i) % Size = IF c + i < Size THEN c + i ELSE c + i - Size
    BY <1>1, ModOnce
  <1> QED BY <1>1, <1>2, <1>4, <1>5, <1>6 DEF Cell, Cells

----------------------------------------------------------------------------
(* The copies.                                                             *)

(* The length a reader decodes is the length the writer encoded.           *)
LEMMA LenCodec ==
  ASSUME NEW n \in 0 .. Size
  PROVE  /\ LenBytes(n) \in [1..LenSize -> Byte]
         /\ DecodeLen(LenBytes(n)) = n
  <1>1. n \in Nat /\ n \div 16777216 < 256
    BY SizeAssumption, LenFits, SMTT(30)
  <1>2. n = (n % 256) + 256 * ((n \div 256) % 256) + 65536 * ((n \div 65536) % 256)
            + 16777216 * ((n \div 16777216) % 256)
    BY <1>1, SMTT(30)
  <1>3. /\ n % 256 \in Byte /\ (n \div 256) % 256 \in Byte
        /\ (n \div 65536) % 256 \in Byte /\ (n \div 16777216) % 256 \in Byte
    BY <1>1, SMTT(30) DEF Byte
  <1> QED BY <1>2, <1>3 DEF LenBytes, DecodeLen, LenSize

(* A copy of n bytes in two pieces, split at the end of the memory, puts   *)
(* byte i in the cell of position p + i and touches no other cell.         *)
CopyWrap(b, p, s, n) ==
  LET k == SmallerOf(n, Size - Cell(p))
  IN Memcpy(Memcpy(b, Cell(p), s, 0, k), 0, s, k, n - k)

(* What the two memcpy calls of a wrapping write leave in the ring: the    *)
(* bytes at their cells and everything else as it was.                     *)
LEMMA CopyWraps ==
  ASSUME NEW b \in [Cells -> Byte], NEW p \in Int, NEW n \in 0 .. Size,
         NEW s \in [1..n -> Byte]
  PROVE  /\ CopyWrap(b, p, s, n) \in [Cells -> Byte]
         /\ \A i \in 0 .. n - 1 : CopyWrap(b, p, s, n)[Cell(p + i)] = s[i + 1]
         /\ \A c \in Cells : (\A i \in 0 .. n - 1 : c # Cell(p + i))
                              => CopyWrap(b, p, s, n)[c] = b[c]
  <1>0. Size \in Nat /\ Size > 0
    BY SizeAssumption DEF LenSize
  <1>1. Cell(p) \in Cells
    BY <1>0, CellStep
  <1>2. \A i \in 0 .. n - 1 : Cell(p + i) = IF Cell(p) + i < Size THEN Cell(p) + i
                                                               ELSE Cell(p) + i - Size
    BY <1>0, CellStep
  <1>3. PICK d \in Cells : d = Cell(p)
    BY <1>1
  <1> DEFINE k == SmallerOf(n, Size - Cell(p))
             b2 == CopyWrap(b, p, s, n)
  <1>5. k = (IF n < Size - d THEN n ELSE Size - d) /\ k \in Int
    BY <1>0, <1>3 DEF SmallerOf, Cells
  <1>4. b2 = [c \in Cells |-> IF c < n - k THEN s[k + 1 + c]
                              ELSE IF d <= c /\ c < d + k THEN s[1 + c - d] ELSE b[c]]
    BY <1>0, <1>3, <1>5 DEF CopyWrap, Memcpy, Cells
  <1> HIDE DEF k, b2
  <1>6. b2 \in [Cells -> Byte]
    BY <1>0, <1>4, <1>5 DEF Cells
  <1>7. ASSUME NEW i \in 0 .. n - 1
        PROVE  b2[Cell(p + i)] = s[i + 1]
    <2>0. d \in Int /\ i \in Int /\ 0 <= i /\ i < n /\ n <= Size /\ 0 <= d /\ d < Size /\ n \in Int
      BY <1>0 DEF Cells
    <2>1. CASE d + i < Size
      <3>1. Cell(p + i) = d + i
        BY <2>1, <1>2, <1>3
      <3>2. d + i \in Cells
        BY <2>0, <2>1, <1>0 DEF Cells
      <3>3. ~(d + i < n - k) /\ d <= d + i /\ d + i < d + k /\ 1 + (d + i) - d = i + 1
        BY <2>0, <2>1, <1>0, <1>5
      <3> QED BY <3>1, <3>2, <3>3, <1>4
    <2>2. CASE ~(d + i < Size)
      <3>1. Cell(p + i) = d + i - Size
        BY <2>2, <1>2, <1>3
      <3>2. d + i - Size \in Cells
        BY <2>0, <2>2, <1>0 DEF Cells
      <3>3. d + i - Size < n - k /\ k + 1 + (d + i - Size) = i + 1
        BY <2>0, <2>2, <1>0, <1>5
      <3> QED BY <3>1, <3>2, <3>3, <1>4
    <2> QED BY <2>1, <2>2
  <1>8. ASSUME NEW c \in Cells, \A i \in 0 .. n - 1 : c # Cell(p + i)
        PROVE  b2[c] = b[c]
    <2>1. ~(d <= c /\ c < d + k)
      <3> SUFFICES ASSUME d <= c, c < d + k PROVE FALSE
        OBVIOUS
      <3>1. c - d \in 0 .. n - 1 /\ d + (c - d) < Size /\ d + (c - d) = c
        BY <1>0, <1>5 DEF Cells
      <3> QED BY <3>1, <1>2, <1>3, <1>8
    <2>2. ~(c < n - k)
      <3> SUFFICES ASSUME c < n - k PROVE FALSE
        OBVIOUS
      <3>1. c + Size - d \in 0 .. n - 1 /\ ~(d + (c + Size - d) < Size)
            /\ d + (c + Size - d) - Size = c
        BY <1>0, <1>5 DEF Cells
      <3> QED BY <3>1, <1>2, <1>3, <1>8
    <2> QED BY <2>1, <2>2, <1>4
  <1> QED BY <1>6, <1>7, <1>8 DEF b2

(* A read in two pieces, split at the end of the memory, fetches the cells *)
(* of positions p, p + 1, ...                                              *)
LEMMA FetchWraps ==
  ASSUME NEW p \in Int, NEW n \in 0 .. Size, NEW k \in Int, k = SmallerOf(n, Size - Cell(p))
  PROVE  Fetch(Cell(p), k, n) = [i \in 1..n |-> buffer[Cell(p + (i - 1))]]
  <1>0. Size \in Nat /\ Size > 0
    BY SizeAssumption DEF LenSize
  <1>1. PICK d \in Cells : d = Cell(p)
    BY <1>0, CellStep
  <1>2. ASSUME NEW i \in 1..n
        PROVE  (IF i <= k THEN buffer[d + i - 1] ELSE buffer[i - 1 - k]) = buffer[Cell(p + (i - 1))]
    <2>1. i - 1 \in 0 .. Size
      BY <1>0
    <2>2. Cell(p + (i - 1)) = IF d + (i - 1) < Size THEN d + (i - 1) ELSE d + (i - 1) - Size
      BY <1>0, <1>1, <2>1, CellStep
    <2>3. k = IF n < Size - d THEN n ELSE Size - d
      BY <1>1 DEF SmallerOf
    <2> QED BY <1>0, <2>2, <2>3 DEF Cells
  <1> QED BY <1>1, <1>2 DEF Fetch

----------------------------------------------------------------------------
(* The inductive invariant.  Framing alone is not inductive: consuming the *)
(* oldest record must not strand a record that starts inside it (Order),   *)
(* publishing a record needs all its bytes to be in the ring already       *)
(* (WriterInv), and the reader needs something to read (ReaderInv).        *)

Offset(p) == Distance(read_pos, p)

Order ==
  \A p, q \in DOMAIN recs : Offset(p) < Offset(q) => Offset(p) + Span(p) <= Offset(q)

WriterInv ==
  wpc # "idle" =>
    /\ 0 < Len(wmsg)
    /\ Used + LenSize + Len(wmsg) <= Size
    /\ wpc \in {"data", "commit"} =>
         \A i \in 0 .. LenSize - 1 : buffer[Cell(write_pos + i)] = RecordByte(wmsg, i)
    /\ wpc = "commit" =>
         \A i \in LenSize .. LenSize + Len(wmsg) - 1 :
           buffer[Cell(write_pos + i)] = RecordByte(wmsg, i)

ReaderInv == rpc # "idle" => read_pos # write_pos

IInv == TypeOK /\ Framing /\ Order /\ WriterInv /\ Integrity /\ ReaderInv /\ Delivered

(* How much of the ring is in use, with the wrap made explicit.            *)
LEMMA UsedFact ==
  ASSUME TypeOK
  PROVE  /\ Used \in Nat
         /\ Used = IF write_pos >= read_pos THEN write_pos - read_pos
                                             ELSE write_pos - read_pos + PosMod
         /\ \A p \in DOMAIN recs :
              /\ p \in Positions
              /\ Offset(p) \in Nat
              /\ Offset(p) = IF p >= read_pos THEN p - read_pos ELSE p - read_pos + PosMod
              /\ recs[p] \in Seq(Byte) /\ Len(recs[p]) \in Nat
              /\ Span(p) = LenSize + Len(recs[p])
  <1>1. read_pos \in Positions /\ write_pos \in Positions
        /\ \A p \in DOMAIN recs : p \in Positions /\ recs[p] \in Seq(Byte)
    BY DEF TypeOK
  <1>2. \A p \in Positions : p \in Nat
    BY PosModAssumption DEF Positions
  <1>3. \A p \in Positions : Distance(read_pos, p) \in Nat
    BY <1>1, <1>2, DistanceFact
  <1> QED BY <1>1, <1>2, <1>3, DistanceFact DEF Used, Offset, Span

(* The cells a writer may touch hold no published byte.                    *)
LEMMA WriterCells ==
  ASSUME TypeOK, NEW n \in Nat, Used + n <= Size,
         NEW i \in Nat, i < n, NEW p \in Positions, NEW j \in Nat,
         Distance(read_pos, p) + j < Used
  PROVE  Cell(write_pos + i) # Cell(p + j)
  <1>1. read_pos \in Positions /\ write_pos \in Positions
    BY DEF TypeOK
  <1>2. read_pos \in Int /\ Size \in Nat
    BY <1>1, PosModAssumption, SizeAssumption DEF Positions
  <1>3. Used \in Nat /\ Distance(read_pos, p) \in Nat
    BY <1>1, UsedFact, DistanceFact, PosModAssumption DEF Positions
  <1>4. Cell(write_pos + i) = Cell(read_pos + (Used + i))
    BY <1>1, CellOfDistance DEF Used
  <1>5. Cell(p + j) = Cell(read_pos + (Distance(read_pos, p) + j))
    BY <1>1, CellOfDistance
  <1>6. Cell(read_pos + (Used + i)) # Cell(read_pos + (Distance(read_pos, p) + j))
    <2>1. Used + i \in Nat /\ Used + i < Size
      BY <1>2, <1>3
    <2>2. /\ Distance(read_pos, p) + j \in Nat
          /\ Distance(read_pos, p) + j < Size /\ Distance(read_pos, p) + j # Used + i
      BY <1>2, <1>3
    <2> QED BY <1>2, <2>1, <2>2, CellDistinct
  <1> QED BY <1>4, <1>5, <1>6

(* The empty ring.                                                         *)
LEMMA InitInv ==
  Init => IInv
  <1> SUFFICES ASSUME Init PROVE IInv
    OBVIOUS
  <1>0. Size \in Nat /\ PosMod \in Nat /\ PosMod > 0
    BY SizeAssumption, PosModAssumption DEF LenSize
  <1>1. TypeOK
    BY <1>0 DEF Init, TypeOK, Positions, Cells, Byte
  <1>2. Used = 0
    BY <1>1, UsedFact DEF Init
  <1>3. Framing
    BY <1>0, <1>2 DEF Init, Framing
  <1> QED BY <1>1, <1>3 DEF Init, IInv, Order, WriterInv, Integrity, ReaderInv, Delivered

(* rbuffer_write accepts or refuses a payload.                             *)
LEMMA WriteBeginInv ==
  ASSUME IInv, NEW m \in Payloads, WriteBegin(m)
  PROVE  IInv'
  <1> USE DEF WriteBegin, readerVars
  <1>1. TypeOK'
    BY PayloadAssumption DEF IInv, TypeOK
  <1>2. Framing' /\ Order' /\ Integrity' /\ ReaderInv' /\ Delivered'
    BY DEF IInv, Framing, Order, Offset, Integrity, ReaderInv, Delivered, Used, Span
  <1>3. Used' = Used /\ Used \in Nat
    BY UsedFact DEF IInv, Used
  <1>4. Used + LenSize + Len(m) <= Size /\ 0 < Len(m)
    <2>1. Len(m) \in Nat
      BY PayloadAssumption
    <2> QED BY <1>3, <2>1, SizeAssumption DEF rbuffer_write_bytes, LenSize
  <1>5. WriterInv'
    BY <1>3, <1>4 DEF WriterInv
  <1> QED BY <1>1, <1>2, <1>5 DEF IInv

(* A step that rewrites only cells the writer reserved keeps the published *)
(* records intact.                                                         *)
LEMMA CopyKeepsRecords ==
  ASSUME IInv, wpc # "idle", NEW lo \in Nat, NEW n \in Nat, lo + n <= LenSize + Len(wmsg),
         \A c \in Cells : (\A i \in 0 .. n - 1 : c # Cell(write_pos + (lo + i)))
                            => buffer'[c] = buffer[c],
         recs' = recs
  PROVE  Integrity'
  <1> SUFFICES ASSUME NEW p \in DOMAIN recs, NEW j \in 0 .. Span(p) - 1
               PROVE  buffer'[Cell(p + j)] = RecordByte(recs[p], j)
    BY DEF Integrity, Span
  <1>0. /\ TypeOK /\ Used \in Nat /\ Len(wmsg) \in Nat /\ Size \in Nat
        /\ p \in Positions /\ Distance(read_pos, p) \in Nat
    BY UsedFact, SizeAssumption DEF IInv, TypeOK, Offset
  <1>1. /\ TypeOK /\ Used \in Nat /\ Used + (LenSize + Len(wmsg)) <= Size /\ Len(wmsg) \in Nat
        /\ p \in Positions /\ Distance(read_pos, p) \in Nat /\ p \in Int /\ Size \in Nat
    BY <1>0, PosModAssumption DEF IInv, WriterInv, LenSize, Positions
  <1>2. j \in Nat /\ Distance(read_pos, p) + j < Used
    BY <1>1, UsedFact DEF IInv, Framing, LenSize
  <1>3. Cell(p + j) \in Cells
    <2>1. 0 \in 0 .. Size /\ p + j \in Int
      BY <1>1, <1>2
    <2> QED BY <2>1, CellStep
  <1>4. \A i \in 0 .. n - 1 : Cell(p + j) # Cell(write_pos + (lo + i))
    <2> SUFFICES ASSUME NEW i \in 0 .. n - 1
                 PROVE  Cell(write_pos + (lo + i)) # Cell(p + j)
      OBVIOUS
    <2>1. lo + i \in Nat /\ lo + i < LenSize + Len(wmsg) /\ LenSize + Len(wmsg) \in Nat
      BY <1>1 DEF LenSize
    <2> QED BY <1>1, <1>2, <2>1, WriterCells
  <1>5. buffer'[Cell(p + j)] = buffer[Cell(p + j)]
    BY <1>3, <1>4
  <1> QED BY <1>5 DEF IInv, Integrity

(* A step that moves no position, no record and nothing of the reader.     *)
LEMMA CopyFrame ==
  ASSUME IInv, UNCHANGED <<read_pos, write_pos, wmsg, readerVars, recs>>
  PROVE  Framing' /\ Order' /\ ReaderInv' /\ Delivered' /\ Used' = Used
  BY DEF IInv, Framing, Order, Offset, ReaderInv, Delivered, Used, Span, readerVars

(* Storing the length puts its four bytes behind write_pos and leaves every*)
(* other cell alone.                                                       *)
LEMMA WriteLenCopies ==
  ASSUME IInv, WriteLen
  PROVE  /\ buffer' \in [Cells -> Byte]
         /\ \A i \in 0 .. LenSize - 1 : buffer'[Cell(write_pos + i)] = LenBytes(Len(wmsg))[i + 1]
         /\ \A c \in Cells : (\A i \in 0 .. LenSize - 1 : c # Cell(write_pos + i))
                              => buffer'[c] = buffer[c]
  <1>0. /\ wpc = "len" /\ wpc' = "data"
        /\ UNCHANGED <<read_pos, write_pos, wmsg, readerVars, recs>>
    BY DEF WriteLen
  <1>1. /\ TypeOK /\ write_pos \in Int /\ Len(wmsg) \in Nat /\ Used \in Nat /\ Size \in Nat
        /\ buffer \in [Cells -> Byte]
    BY UsedFact, PosModAssumption, SizeAssumption DEF IInv, TypeOK, Positions
  <1>2. 0 < Len(wmsg) /\ Used + LenSize + Len(wmsg) <= Size
    BY <1>0 DEF IInv, WriterInv
  <1>3. LenBytes(Len(wmsg)) \in [1..LenSize -> Byte]
    <2>1. Len(wmsg) \in 0 .. Size
      BY <1>1, <1>2 DEF LenSize
    <2> QED BY <2>1, LenCodec
  <1>5. buffer' = CopyWrap(buffer, write_pos, LenBytes(Len(wmsg)), LenSize)
    BY DEF WriteLen, CopyWrap
  <1>6. LenSize \in 0 .. Size
    BY <1>1, <1>2, <1>3 DEF LenSize
  <1> QED BY <1>1, <1>3, <1>5, <1>6, CopyWraps

(* The writer stores the length: only free cells change.                   *)
LEMMA WriteLenInv ==
  ASSUME IInv, WriteLen
  PROVE  IInv'
  <1>0. /\ wpc = "len" /\ wpc' = "data"
        /\ UNCHANGED <<read_pos, write_pos, wmsg, readerVars, recs>>
    BY DEF WriteLen
  <1>1. /\ TypeOK /\ write_pos \in Int /\ Len(wmsg) \in Nat /\ Used \in Nat /\ Size \in Nat
        /\ buffer \in [Cells -> Byte]
    BY UsedFact, PosModAssumption, SizeAssumption DEF IInv, TypeOK, Positions
  <1>2. 0 < Len(wmsg) /\ Used + LenSize + Len(wmsg) <= Size
    BY <1>0 DEF IInv, WriterInv
  <1>6. /\ buffer' \in [Cells -> Byte]
        /\ \A i \in 0 .. LenSize - 1 : buffer'[Cell(write_pos + i)] = LenBytes(Len(wmsg))[i + 1]
        /\ \A c \in Cells : (\A i \in 0 .. LenSize - 1 : c # Cell(write_pos + i))
                             => buffer'[c] = buffer[c]
    BY WriteLenCopies
  <1>7. TypeOK'
    BY <1>0, <1>1, <1>6 DEF TypeOK, readerVars
  <1>8. Integrity'
    <2>1. \A c \in Cells : (\A i \in 0 .. LenSize - 1 : c # Cell(write_pos + (0 + i)))
                            => buffer'[c] = buffer[c]
      BY <1>6 DEF LenSize
    <2>2. 0 + LenSize <= LenSize + Len(wmsg) /\ LenSize \in Nat /\ recs' = recs /\ wpc # "idle"
      BY <1>0, <1>1 DEF LenSize
    <2> QED BY <2>1, <2>2, CopyKeepsRecords
  <1>9. WriterInv'
    <2>1. \A i \in 0 .. LenSize - 1 : buffer'[Cell(write_pos + i)] = RecordByte(wmsg, i)
      BY <1>6 DEF RecordByte, LenSize
    <2> QED BY <1>0, <1>2, <2>1, CopyFrame DEF WriterInv, RecordByte
  <1> QED BY <1>0, <1>7, <1>8, <1>9, CopyFrame DEF IInv

(* Storing the payload puts it behind the length and leaves every other    *)
(* cell alone.                                                             *)
LEMMA WriteDataCopies ==
  ASSUME IInv, WriteData
  PROVE  /\ buffer' \in [Cells -> Byte]
         /\ \A i \in 0 .. Len(wmsg) - 1 : buffer'[Cell((write_pos + LenSize) + i)] = wmsg[i + 1]
         /\ \A c \in Cells : (\A i \in 0 .. Len(wmsg) - 1 : c # Cell((write_pos + LenSize) + i))
                              => buffer'[c] = buffer[c]
  <1>0. /\ wpc = "data" /\ wpc' = "commit"
        /\ UNCHANGED <<read_pos, write_pos, wmsg, readerVars, recs>>
    BY DEF WriteData
  <1>1. /\ TypeOK /\ write_pos \in Int /\ Len(wmsg) \in Nat /\ Used \in Nat /\ Size \in Nat
        /\ buffer \in [Cells -> Byte]
    BY UsedFact, PosModAssumption, SizeAssumption DEF IInv, TypeOK, Positions
  <1>2. 0 < Len(wmsg) /\ Used + LenSize + Len(wmsg) <= Size
    BY <1>0 DEF IInv, WriterInv
  <1>3. /\ Cell(write_pos) \in Cells /\ Cell(write_pos + LenSize) \in Cells
        /\ Cell(write_pos + LenSize) = IF Cell(write_pos) + LenSize < Size
                                       THEN Cell(write_pos) + LenSize
                                       ELSE Cell(write_pos) + LenSize - Size
    <2>1. LenSize \in 0 .. Size
      BY <1>1, <1>2 DEF LenSize
    <2> QED BY <1>1, <2>1, CellStep
  <1>4. PICK k \in Int : k = SmallerOf(Len(wmsg), Size - Cell(write_pos + LenSize))
    BY <1>1, <1>3 DEF SmallerOf, Cells
  <1>5. buffer' = Memcpy(Memcpy(buffer, Cell(write_pos + LenSize), wmsg, 0, k),
                         0, wmsg, k, Len(wmsg) - k)
    <2>1. CASE Size - Cell(write_pos) > LenSize
      <3>1. k = SmallerOf(Len(wmsg), Size - Cell(write_pos) - LenSize)
        BY <2>1, <1>1, <1>3, <1>4 DEF Cells, LenSize, SmallerOf
      <3> QED BY <2>1, <3>1 DEF WriteData
    <2>2. CASE ~(Size - Cell(write_pos) > LenSize)
      <3>1. Cell(write_pos + LenSize) = LenSize - (Size - Cell(write_pos)) /\ k = Len(wmsg)
        BY <2>2, <1>1, <1>2, <1>3, <1>4 DEF Cells, LenSize, SmallerOf
      <3>2. buffer' = Memcpy(buffer, Cell(write_pos + LenSize), wmsg, 0, Len(wmsg))
        BY <2>2, <3>1 DEF WriteData
      <3>3. Memcpy(Memcpy(buffer, Cell(write_pos + LenSize), wmsg, 0, Len(wmsg)),
                   0, wmsg, Len(wmsg), Len(wmsg) - Len(wmsg))
            = Memcpy(buffer, Cell(write_pos + LenSize), wmsg, 0, Len(wmsg))
        BY <1>1 DEF Memcpy, Cells
      <3> QED BY <3>1, <3>2, <3>3
    <2> QED BY <2>1, <2>2
  <1>6. /\ Len(wmsg) \in 0 .. Size /\ write_pos + LenSize \in Int
        /\ wmsg \in [1..Len(wmsg) -> Byte]
    BY <1>1, <1>2 DEF LenSize, TypeOK
  <1>7. buffer' = CopyWrap(buffer, write_pos + LenSize, wmsg, Len(wmsg))
    BY <1>4, <1>5 DEF CopyWrap
  <1> QED BY <1>1, <1>6, <1>7, CopyWraps

(* The writer stores the payload: only free cells change.                  *)
LEMMA WriteDataInv ==
  ASSUME IInv, WriteData
  PROVE  IInv'
  <1>0. /\ wpc = "data" /\ wpc' = "commit"
        /\ UNCHANGED <<read_pos, write_pos, wmsg, readerVars, recs>>
    BY DEF WriteData
  <1>1. /\ TypeOK /\ write_pos \in Int /\ Len(wmsg) \in Nat /\ Used \in Nat /\ Size \in Nat
        /\ buffer \in [Cells -> Byte]
    BY UsedFact, PosModAssumption, SizeAssumption DEF IInv, TypeOK, Positions
  <1>2. 0 < Len(wmsg) /\ Used + LenSize + Len(wmsg) <= Size
    BY <1>0 DEF IInv, WriterInv
  <1>6. /\ buffer' \in [Cells -> Byte]
        /\ \A i \in 0 .. Len(wmsg) - 1 : buffer'[Cell((write_pos + LenSize) + i)] = wmsg[i + 1]
        /\ \A c \in Cells : (\A i \in 0 .. Len(wmsg) - 1 : c # Cell((write_pos + LenSize) + i))
                             => buffer'[c] = buffer[c]
    BY WriteDataCopies
  <1>7. \A i \in Nat : (write_pos + LenSize) + i = write_pos + (LenSize + i)
    BY <1>1 DEF LenSize
  <1>8. TypeOK'
    BY <1>0, <1>1, <1>6 DEF TypeOK, readerVars
  <1>9. Integrity'
    <2>1. \A c \in Cells :
            (\A i \in 0 .. Len(wmsg) - 1 : c # Cell(write_pos + (LenSize + i)))
              => buffer'[c] = buffer[c]
      BY <1>1, <1>6, <1>7
    <2>2. LenSize + Len(wmsg) <= LenSize + Len(wmsg) /\ LenSize \in Nat /\ recs' = recs
          /\ wpc # "idle"
      BY <1>0, <1>1 DEF LenSize
    <2> QED BY <1>1, <2>1, <2>2, CopyKeepsRecords
  <1>10. \A i \in 0 .. LenSize - 1 : buffer'[Cell(write_pos + i)] = RecordByte(wmsg, i)
    <2> SUFFICES ASSUME NEW i \in 0 .. LenSize - 1
                 PROVE  buffer'[Cell(write_pos + i)] = RecordByte(wmsg, i)
      OBVIOUS
    <2>1. i \in 0 .. Size /\ i \in Nat /\ i < LenSize
      BY <1>1, <1>2 DEF LenSize
    <2>2. Cell(write_pos + i) \in Cells
      BY <1>1, <2>1, CellStep
    <2>3. \A j \in 0 .. Len(wmsg) - 1 : Cell(write_pos + i) # Cell(write_pos + (LenSize + j))
      <3> SUFFICES ASSUME NEW j \in 0 .. Len(wmsg) - 1
                   PROVE  Cell(write_pos + i) # Cell(write_pos + (LenSize + j))
        OBVIOUS
      <3>1. LenSize + j \in Nat /\ LenSize + j < Size /\ i < Size /\ i # LenSize + j
        BY <1>1, <1>2, <2>1 DEF LenSize
      <3> QED BY <1>1, <2>1, <3>1, CellDistinct
    <2>4. buffer'[Cell(write_pos + i)] = buffer[Cell(write_pos + i)]
      BY <1>1, <1>6, <1>7, <2>2, <2>3
    <2> QED BY <1>0, <2>4 DEF IInv, WriterInv
  <1>11. \A i \in LenSize .. LenSize + Len(wmsg) - 1 :
           buffer'[Cell(write_pos + i)] = RecordByte(wmsg, i)
    <2> SUFFICES ASSUME NEW i \in LenSize .. LenSize + Len(wmsg) - 1
                 PROVE  buffer'[Cell(write_pos + i)] = wmsg[i - LenSize + 1]
      BY <1>1 DEF RecordByte, LenSize
    <2>1. i - LenSize \in 0 .. Len(wmsg) - 1 /\ (write_pos + LenSize) + (i - LenSize) = write_pos + i
      BY <1>1 DEF LenSize
    <2> QED BY <1>6, <2>1
  <1>12. WriterInv'
    BY <1>0, <1>2, <1>10, <1>11, CopyFrame DEF WriterInv, RecordByte
  <1> QED BY <1>0, <1>8, <1>9, <1>12, CopyFrame DEF IInv

(* Where write_pos goes.                                                   *)
LEMMA WriteCommitMoves ==
  ASSUME IInv, WriteCommit
  PROVE  /\ write_pos' \in Positions
         /\ write_pos' = IF write_pos + (Len(wmsg) + LenSize) < PosMod
                         THEN write_pos + (Len(wmsg) + LenSize)
                         ELSE write_pos + (Len(wmsg) + LenSize) - PosMod
         /\ Used' = Used + (Len(wmsg) + LenSize)
  <1> DEFINE n == Len(wmsg) + LenSize
  <1>0. /\ wpc = "commit" /\ wpc' = "idle" /\ write_pos' = Advance(write_pos, n)
        /\ UNCHANGED <<buffer, read_pos, wmsg, rpc, rop, rcap, read_len, out>>
    BY DEF WriteCommit, readerVars
  <1>1. /\ TypeOK /\ Len(wmsg) \in Nat /\ Used \in Nat /\ Size \in Nat /\ PosMod \in Nat
        /\ Size < PosMod /\ read_pos \in Positions /\ write_pos \in Positions
        /\ wmsg \in Seq(Byte)
    BY UsedFact, PosModAssumption, SizeAssumption DEF IInv, TypeOK
  <1>2. 0 < Len(wmsg) /\ Used + n <= Size
    BY <1>0, <1>1 DEF IInv, WriterInv, LenSize
  <1>4. /\ write_pos' \in Positions
        /\ write_pos' = IF write_pos + n < PosMod THEN write_pos + n ELSE write_pos + n - PosMod
    <2>1. n \in 0 .. Size
      BY <1>1, <1>2 DEF LenSize
    <2> QED BY <1>0, <1>1, <2>1, AdvanceFact
  <1>6. Used' = Used + n
    <2>1. Used' = IF write_pos' >= read_pos THEN write_pos' - read_pos
                                            ELSE write_pos' - read_pos + PosMod
      BY <1>0, <1>1, <1>4, DistanceFact DEF Used
    <2>2. Used = IF write_pos >= read_pos THEN write_pos - read_pos
                                          ELSE write_pos - read_pos + PosMod
      BY <1>1, UsedFact
    <2> QED BY <1>1, <1>2, <1>4, <2>1, <2>2 DEF Positions, LenSize
  <1> QED BY <1>4, <1>6

(* write_pos moves: the stored record becomes the last of the chain.       *)
LEMMA WriteCommitInv ==
  ASSUME IInv, WriteCommit
  PROVE  IInv'
  <1> DEFINE n == Len(wmsg) + LenSize
  <1>0. /\ wpc = "commit" /\ wpc' = "idle" /\ write_pos' = Advance(write_pos, n)
        /\ UNCHANGED <<buffer, read_pos, wmsg, rpc, rop, rcap, read_len, out>>
    BY DEF WriteCommit, readerVars
  <1>1. /\ TypeOK /\ Len(wmsg) \in Nat /\ Used \in Nat /\ Size \in Nat /\ PosMod \in Nat
        /\ Size < PosMod /\ read_pos \in Positions /\ write_pos \in Positions
        /\ wmsg \in Seq(Byte)
    BY UsedFact, PosModAssumption, SizeAssumption DEF IInv, TypeOK
  <1>2. 0 < Len(wmsg) /\ Used + n <= Size
    BY <1>0, <1>1 DEF IInv, WriterInv, LenSize
  <1>3. /\ DOMAIN recs' = DOMAIN recs \cup {write_pos}
        /\ recs'[write_pos] = wmsg
        /\ \A p \in DOMAIN recs : p # write_pos => recs'[p] = recs[p]
    BY DEF WriteCommit
  <1>4. /\ write_pos' \in Positions
        /\ write_pos' = IF write_pos + n < PosMod THEN write_pos + n ELSE write_pos + n - PosMod
    BY WriteCommitMoves
  <1>5. TypeOK'
    BY <1>0, <1>1, <1>3, <1>4 DEF TypeOK
  <1>6. Used' = Used + n
    BY WriteCommitMoves
  <1>7. \A p \in DOMAIN recs :
          /\ p \in Positions /\ Offset(p) \in Nat /\ Len(recs[p]) \in Nat
          /\ 0 < Len(recs[p]) /\ Span(p) = LenSize + Len(recs[p])
          /\ Offset(p) + Span(p) <= Used /\ p # write_pos
    <2> SUFFICES ASSUME NEW p \in DOMAIN recs
                 PROVE  /\ p \in Positions /\ Offset(p) \in Nat /\ Len(recs[p]) \in Nat
                        /\ 0 < Len(recs[p]) /\ Span(p) = LenSize + Len(recs[p])
                        /\ Offset(p) + Span(p) <= Used /\ p # write_pos
      OBVIOUS
    <2>1. /\ p \in Positions /\ Offset(p) \in Nat /\ Len(recs[p]) \in Nat
          /\ Span(p) = LenSize + Len(recs[p])
      BY <1>1, UsedFact
    <2>2. 0 < Len(recs[p]) /\ Offset(p) + Span(p) <= Used
      BY DEF IInv, Framing, Offset
    <2>3. p # write_pos
      BY <1>1, <2>1, <2>2 DEF Offset, Used, LenSize
    <2> QED BY <2>1, <2>2, <2>3
  <1>8. /\ \A p \in DOMAIN recs : Offset(p)' = Offset(p) /\ Span(p)' = Span(p) /\ recs'[p] = recs[p]
        /\ Offset(write_pos) = Used /\ Distance(read_pos, write_pos)' = Used'
        /\ LenSize + Len(recs'[write_pos]) = n
    BY <1>0, <1>1, <1>3, <1>7 DEF Offset, Span, Used, LenSize
  <1>9. ASSUME NEW p \in DOMAIN recs, Offset(p) + Span(p) = Used
        PROVE  Advance(p, Span(p)) = write_pos
    <2>1. Span(p) \in 0 .. Size
      BY <1>1, <1>2, <1>7, <1>9 DEF LenSize
    <2>2. Advance(p, Span(p)) = IF p + Span(p) < PosMod THEN p + Span(p) ELSE p + Span(p) - PosMod
      BY <1>7, <2>1, AdvanceFact
    <2>3. Offset(p) = IF p >= read_pos THEN p - read_pos ELSE p - read_pos + PosMod
      BY <1>1, <1>7, DistanceFact DEF Offset
    <2>4. Used = IF write_pos >= read_pos THEN write_pos - read_pos
                                          ELSE write_pos - read_pos + PosMod
      BY <1>1, UsedFact
    <2>5. p \in Int /\ read_pos \in Int /\ write_pos \in Int /\ Span(p) \in Nat
          /\ 0 <= p /\ p < PosMod /\ 0 <= read_pos /\ read_pos < PosMod
          /\ 0 <= write_pos /\ write_pos < PosMod
      BY <1>1, <1>7, <2>1 DEF Positions
    <2> QED BY <1>1, <1>9, <2>2, <2>3, <2>4, <2>5
  <1>10. Framing'
    <2>1. Used' <= Size
      BY <1>2, <1>6
    <2>2. (read_pos # write_pos => read_pos \in DOMAIN recs)'
      BY <1>0, <1>3 DEF IInv, Framing
    <2>3. ASSUME NEW p \in DOMAIN recs'
          PROVE  /\ 0 < Len(recs'[p])
                 /\ (Distance(read_pos, p) + Span(p) <= Used)'
                 /\ \/ (Distance(read_pos, p) + Span(p) = Used)'
                    \/ (Advance(p, Span(p)) \in DOMAIN recs)'
      <3>1. CASE p = write_pos
        <4>1. Distance(read_pos', p) = Used /\ Span(p)' = n /\ recs'[p] = wmsg
          BY <3>1, <1>0, <1>3, <1>8 DEF Span, Offset
        <4> QED BY <4>1, <1>1, <1>2, <1>6 DEF LenSize
      <3>2. CASE p # write_pos
        <4>1. p \in DOMAIN recs /\ Distance(read_pos, p)' = Offset(p) /\ Span(p)' = Span(p)
              /\ Offset(p) + Span(p) <= Used /\ 0 < Len(recs[p]) /\ recs'[p] = recs[p]
          BY <3>2, <1>3, <1>7, <1>8, <2>3 DEF Offset
        <4>2. Offset(p) + Span(p) <= Used'
          BY <4>1, <1>1, <1>2, <1>6, <1>7 DEF LenSize
        <4>3. Advance(p, Span(p)) \in DOMAIN recs'
          BY <4>1, <1>3, <1>9 DEF IInv, Framing, Offset
        <4> QED BY <4>1, <4>2, <4>3
      <3> QED BY <3>1, <3>2
    <2> QED BY <2>1, <2>2, <2>3 DEF Framing
  <1>11. Order'
    <2> SUFFICES ASSUME NEW p \in DOMAIN recs', NEW q \in DOMAIN recs', (Offset(p) < Offset(q))'
                 PROVE  (Offset(p) + Span(p) <= Offset(q))'
      BY DEF Order
    <2>2. Distance(read_pos', write_pos) = Used
      BY <1>0, <1>8 DEF Offset
    <2>3. CASE p = write_pos
      <3>1. q \in DOMAIN recs /\ q # write_pos
        BY <2>2, <2>3, <1>0, <1>1, <1>3 DEF Offset
      <3>2. Distance(read_pos', q) = Offset(q) /\ Offset(q) <= Used
        BY <3>1, <1>0, <1>1, <1>7 DEF Offset, LenSize
      <3> QED BY <2>2, <2>3, <3>2, <1>1, <1>7, <3>1 DEF Offset
    <2>4. CASE p # write_pos /\ q = write_pos
      <3>1. p \in DOMAIN recs
        BY <2>4, <1>3
      <3> QED BY <3>1, <2>2, <2>4, <1>0, <1>7, <1>8 DEF Offset
    <2>5. CASE p # write_pos /\ q # write_pos
      <3>1. p \in DOMAIN recs /\ q \in DOMAIN recs
        BY <2>5, <1>3
      <3> QED BY <3>1, <1>8 DEF IInv, Order
    <2> QED BY <2>3, <2>4, <2>5
  <1>12. Integrity'
    <2> SUFFICES ASSUME NEW p \in DOMAIN recs', NEW i \in 0 .. Span(p)' - 1
                 PROVE  buffer[Cell(p + i)] = RecordByte(recs'[p], i)
      BY <1>0 DEF Integrity
    <2>1. CASE p = write_pos
      <3>1. Span(p)' = n /\ recs'[p] = wmsg
        BY <2>1, <1>3, <1>8 DEF Span
      <3>2. i \in 0 .. LenSize - 1 \/ i \in LenSize .. LenSize + Len(wmsg) - 1
        BY <3>1, <1>1 DEF LenSize
      <3> QED BY <2>1, <3>1, <3>2, <1>0 DEF IInv, WriterInv
    <2>2. CASE p # write_pos
      <3>1. p \in DOMAIN recs /\ recs'[p] = recs[p] /\ Span(p)' = Span(p)
        BY <2>2, <1>3, <1>8
      <3> QED BY <3>1 DEF IInv, Integrity
    <2> QED BY <2>1, <2>2
  <1>13. ReaderInv' /\ Delivered' /\ WriterInv'
    <2>1. read_pos # write_pos'
      <3>1. Used' > 0
        BY <1>1, <1>2, <1>6 DEF LenSize
      <3>2. Used' = IF write_pos' >= read_pos THEN write_pos' - read_pos
                                              ELSE write_pos' - read_pos + PosMod
        BY <1>0, <1>1, <1>4, DistanceFact DEF Used
      <3> QED BY <3>1, <3>2, <1>1 DEF Positions
    <2>2. rpc # "idle" => read_pos # write_pos /\ read_pos \in DOMAIN recs
      BY DEF IInv, ReaderInv, Framing
    <2> QED BY <1>0, <1>3, <2>1, <2>2 DEF IInv, ReaderInv, Delivered, WriterInv
  <1> QED BY <1>5, <1>10, <1>11, <1>12, <1>13 DEF IInv

(* A read or a peek starts.                                                *)
LEMMA ReadBeginInv ==
  ASSUME IInv, NEW op \in {"peek", "read"}, NEW cap \in ReadCaps, ReadBegin(op, cap)
  PROVE  IInv'
  <1> USE DEF ReadBegin, writerVars
  <1>1. TypeOK'
    BY ReadCapAssumption DEF IInv, TypeOK
  <1>2. Framing' /\ Order' /\ Integrity' /\ WriterInv' /\ Delivered'
    BY DEF IInv, Framing, Order, Offset, Integrity, WriterInv, Delivered, Used, Span
  <1>3. read_pos # write_pos
    <2>1. TypeOK /\ Used >= LenSize /\ Used \in Nat
      BY UsedFact DEF IInv, rbuffer_read_bytes
    <2> QED BY <2>1, UsedFact, PosModAssumption DEF TypeOK, Positions, LenSize
  <1> QED BY <1>1, <1>2, <1>3 DEF IInv, ReaderInv

(* What the reader finds at read_pos.                                      *)
LEMMA OldestRecord ==
  ASSUME IInv, rpc # "idle"
  PROVE  /\ read_pos \in DOMAIN recs /\ read_pos \in Int /\ Size \in Nat
         /\ recs[read_pos] \in Seq(Byte) /\ Len(recs[read_pos]) \in Nat
         /\ 0 < Len(recs[read_pos]) /\ LenSize + Len(recs[read_pos]) <= Size
         /\ \A i \in 0 .. LenSize - 1 :
              buffer[Cell(read_pos + i)] = LenBytes(Len(recs[read_pos]))[i + 1]
         /\ \A i \in 1 .. Len(recs[read_pos]) :
              buffer[Cell((read_pos + LenSize) + (i - 1))] = recs[read_pos][i]
  <1>1. read_pos \in DOMAIN recs
    BY DEF IInv, ReaderInv, Framing
  <1>2. /\ read_pos \in Positions /\ recs[read_pos] \in Seq(Byte) /\ Len(recs[read_pos]) \in Nat
        /\ Span(read_pos) = LenSize + Len(recs[read_pos]) /\ Used \in Nat
        /\ Offset(read_pos) = read_pos - read_pos
    BY <1>1, UsedFact, PosModAssumption DEF IInv, Positions
  <1>3. read_pos \in Int /\ Size \in Nat
    BY <1>2, PosModAssumption, SizeAssumption DEF Positions
  <1>4. 0 < Len(recs[read_pos]) /\ LenSize + Len(recs[read_pos]) <= Size
    BY <1>1, <1>2, <1>3 DEF IInv, Framing, Offset, LenSize
  <1>5. \A i \in 0 .. LenSize - 1 :
          buffer[Cell(read_pos + i)] = LenBytes(Len(recs[read_pos]))[i + 1]
    BY <1>1, <1>2, <1>4 DEF IInv, Integrity, RecordByte, LenSize
  <1>6. ASSUME NEW i \in 1 .. Len(recs[read_pos])
        PROVE  buffer[Cell((read_pos + LenSize) + (i - 1))] = recs[read_pos][i]
    <2> DEFINE j == LenSize + (i - 1)
    <2>1. /\ j \in 0 .. Span(read_pos) - 1 /\ ~(j < LenSize) /\ j - LenSize + 1 = i
          /\ (read_pos + LenSize) + (i - 1) = read_pos + j
      BY <1>2, <1>3 DEF LenSize
    <2>2. buffer[Cell(read_pos + j)] = RecordByte(recs[read_pos], j)
      BY <1>1, <2>1 DEF IInv, Integrity
    <2> HIDE DEF j
    <2> QED BY <2>1, <2>2 DEF RecordByte
  <1> QED BY <1>1, <1>2, <1>3, <1>4, <1>5, <1>6

(* The length the reader finds at read_pos is that of the oldest record.   *)
LEMMA ReadLenInv ==
  ASSUME IInv, ReadLen
  PROVE  IInv'
  <1> DEFINE c == Cell(read_pos)
             b == Fetch(c, SmallerOf(LenSize, Size - c), LenSize)
             n == Len(recs[read_pos])
  <1>0. /\ rpc = "len" /\ read_len' = DecodeLen(b) /\ rpc' \in {"idle", "data"}
        /\ UNCHANGED <<buffer, read_pos, write_pos, wpc, wmsg, rop, rcap, out, recs>>
    BY DEF ReadLen, writerVars
  <1>1. /\ read_pos \in Int /\ Size \in Nat /\ n \in Nat /\ 0 < n /\ LenSize + n <= Size
        /\ read_pos \in DOMAIN recs
        /\ \A i \in 0 .. LenSize - 1 : buffer[Cell(read_pos + i)] = LenBytes(n)[i + 1]
    BY <1>0, OldestRecord
  <1>2. b = [i \in 1..LenSize |-> buffer[Cell(read_pos + (i - 1))]]
    <2>1. LenSize \in 0 .. Size
      BY <1>1 DEF LenSize
    <2>2. SmallerOf(LenSize, Size - c) \in Int
      <3>1. Cell(read_pos) \in Cells
        BY <1>1, <2>1, CellStep
      <3> QED BY <1>1, <3>1 DEF SmallerOf, LenSize, Cells
    <2> QED BY <1>1, <2>1, <2>2, FetchWraps
  <1>3. read_len' = n
    <2>1. n \in 0 .. Size
      BY <1>1 DEF LenSize
    <2>2. \A i \in 1..LenSize : b[i] = LenBytes(n)[i]
      <3> SUFFICES ASSUME NEW i \in 1..LenSize PROVE b[i] = LenBytes(n)[i]
        OBVIOUS
      <3>1. i - 1 \in 0 .. LenSize - 1 /\ (i - 1) + 1 = i
        BY DEF LenSize
      <3> HIDE DEF b, n
      <3>2. b[i] = buffer[Cell(read_pos + (i - 1))]
        BY <1>2
      <3> QED BY <1>1, <3>1, <3>2
    <2>3. DecodeLen(b) = DecodeLen(LenBytes(n))
      <3> HIDE DEF b, n
      <3> QED BY <2>2 DEF DecodeLen, LenSize
    <2> QED BY <1>0, <2>1, <2>3, LenCodec
  <1>4. TypeOK'
    BY <1>0, <1>1, <1>3 DEF IInv, TypeOK
  <1>5. Framing' /\ Order' /\ Integrity' /\ WriterInv' /\ ReaderInv'
    BY <1>0 DEF IInv, Framing, Order, Offset, Integrity, WriterInv, ReaderInv, Used, Span
  <1>6. Delivered'
    BY <1>0, <1>1, <1>3 DEF Delivered
  <1> QED BY <1>4, <1>5, <1>6 DEF IInv

(* The bytes the reader copies are those of the oldest record.             *)
LEMMA ReadDataOut ==
  ASSUME IInv, ReadData
  PROVE  out' = recs[read_pos]
  <1> DEFINE m == recs[read_pos]
             t == Size - Cell(read_pos)
  <1>0. /\ rpc = "data" /\ rpc' \in {"commit", "idle"}
        /\ UNCHANGED <<buffer, read_pos, write_pos, wpc, wmsg, rop, rcap, read_len, recs>>
    BY DEF ReadData, writerVars
  <1>1. /\ read_pos \in Int /\ Size \in Nat /\ m \in Seq(Byte) /\ Len(m) \in Nat /\ 0 < Len(m)
        /\ LenSize + Len(m) <= Size /\ read_pos \in DOMAIN recs
        /\ \A i \in 1..Len(m) : buffer[Cell((read_pos + LenSize) + (i - 1))] = m[i]
    BY <1>0, OldestRecord
  <1>2. read_len = Len(m)
    BY <1>0 DEF IInv, Delivered
  <1>3. /\ Cell(read_pos) \in Cells /\ Cell(read_pos + LenSize) \in Cells
        /\ Cell(read_pos + LenSize) = IF Cell(read_pos) + LenSize < Size
                                      THEN Cell(read_pos) + LenSize
                                      ELSE Cell(read_pos) + LenSize - Size
    <2>1. LenSize \in 0 .. Size
      BY <1>1 DEF LenSize
    <2> QED BY <1>1, <2>1, CellStep
  <1>4. \A i \in 1..Len(m) : Cell((read_pos + LenSize) + (i - 1)) =
          IF Cell(read_pos + LenSize) + (i - 1) < Size THEN Cell(read_pos + LenSize) + (i - 1)
                                                     ELSE Cell(read_pos + LenSize) + (i - 1) - Size
    <2> SUFFICES ASSUME NEW i \in 1..Len(m)
                 PROVE  Cell((read_pos + LenSize) + (i - 1)) =
          IF Cell(read_pos + LenSize) + (i - 1) < Size THEN Cell(read_pos + LenSize) + (i - 1)
                                                     ELSE Cell(read_pos + LenSize) + (i - 1) - Size
      OBVIOUS
    <2>1. i - 1 \in 0 .. Size /\ read_pos + LenSize \in Int
      BY <1>1 DEF LenSize
    <2> QED BY <2>1, CellStep
  <1>5. out' = [i \in 1..Len(m) |-> buffer[Cell((read_pos + LenSize) + (i - 1))]]
    <2>1. CASE t < LenSize
      <3>1. out' = [i \in 1..Len(m) |-> buffer[LenSize - t + i - 1]]
        BY <2>1, <1>2 DEF ReadData
      <3>2. \A i \in 1..Len(m) : Cell((read_pos + LenSize) + (i - 1)) = LenSize - t + i - 1
        BY <2>1, <1>1, <1>3, <1>4, SMTT(20) DEF LenSize, Cells
      <3> QED BY <3>1, <3>2
    <2>2. CASE t = LenSize
      <3>1. Cell(read_pos + LenSize) = 0 /\ SmallerOf(Len(m), t - LenSize) = 0
        BY <2>2, <1>1, <1>3 DEF LenSize, Cells, SmallerOf
      <3>2. out' = Fetch(0, 0, Len(m))
        BY <2>2, <3>1, <1>2 DEF ReadData, LenSize
      <3>3. \A i \in 1..Len(m) : Cell((read_pos + LenSize) + (i - 1)) = i - 1 - 0
        BY <3>1, <1>1, <1>4 DEF LenSize
      <3>4. \A i \in 1..Len(m) : ~(i <= 0)
        BY <1>1
      <3> QED BY <3>2, <3>3, <3>4 DEF Fetch
    <2>3. CASE t > LenSize
      <3>1. Cell(read_pos + LenSize) = Cell(read_pos) + LenSize
        BY <2>3, <1>1, <1>3 DEF LenSize, Cells
      <3>2. SmallerOf(Len(m), t - LenSize) = SmallerOf(Len(m), Size - Cell(read_pos + LenSize))
            /\ SmallerOf(Len(m), t - LenSize) \in Int
        BY <3>1, <1>1, <1>3 DEF LenSize, Cells, SmallerOf
      <3>3. out' = Fetch(Cell(read_pos + LenSize), SmallerOf(Len(m), t - LenSize), Len(m))
        BY <2>3, <1>1, <1>2, <1>3 DEF ReadData, LenSize, Cells
      <3>4. Len(m) \in 0 .. Size /\ read_pos + LenSize \in Int
        BY <1>1 DEF LenSize
      <3> QED BY <3>2, <3>3, <3>4, FetchWraps
    <2> QED BY <2>1, <2>2, <2>3, <1>1, <1>3 DEF Cells, LenSize
  <1>6. out' = m
    <2>1. out' = [i \in 1..Len(m) |-> m[i]]
      BY <1>1, <1>5
    <2>2. m = [i \in 1..Len(m) |-> m[i]]
      BY <1>1
    <2> QED BY <2>1, <2>2
  <1> QED BY <1>6

(* They are handed out, and nothing else changes.                          *)
LEMMA ReadDataInv ==
  ASSUME IInv, ReadData
  PROVE  IInv'
  <1> DEFINE m == recs[read_pos]
  <1>0. /\ rpc = "data" /\ rpc' \in {"commit", "idle"}
        /\ UNCHANGED <<buffer, read_pos, write_pos, wpc, wmsg, rop, rcap, read_len, recs>>
    BY DEF ReadData, writerVars
  <1>1. /\ read_pos \in Int /\ Size \in Nat /\ m \in Seq(Byte) /\ Len(m) \in Nat /\ 0 < Len(m)
        /\ LenSize + Len(m) <= Size /\ read_pos \in DOMAIN recs
        /\ \A i \in 1..Len(m) : buffer[Cell((read_pos + LenSize) + (i - 1))] = m[i]
    BY <1>0, OldestRecord
  <1>2. read_len = Len(m)
    BY <1>0 DEF IInv, Delivered
  <1>6. out' = m
    BY ReadDataOut
  <1>7. TypeOK'
    BY <1>0, <1>1, <1>6 DEF IInv, TypeOK
  <1>8. Framing' /\ Order' /\ Integrity' /\ WriterInv' /\ ReaderInv'
    BY <1>0 DEF IInv, Framing, Order, Offset, Integrity, WriterInv, ReaderInv, Used, Span
  <1>9. Delivered'
    BY <1>0, <1>1, <1>2, <1>6 DEF Delivered
  <1> QED BY <1>7, <1>8, <1>9 DEF IInv

(* Where read_pos goes.                                                    *)
LEMMA ReadCommitMoves ==
  ASSUME IInv, ReadCommit
  PROVE  /\ read_pos' \in Positions
         /\ read_pos' = IF read_pos + (LenSize + read_len) < PosMod
                        THEN read_pos + (LenSize + read_len)
                        ELSE read_pos + (LenSize + read_len) - PosMod
         /\ LenSize + read_len <= Used
         /\ Used' = Used - (LenSize + read_len)
  <1> DEFINE n == LenSize + read_len
  <1>0. /\ rpc = "commit" /\ rpc' = "idle" /\ read_pos' = Advance(read_pos, n)
        /\ UNCHANGED <<buffer, write_pos, wpc, wmsg, rop, rcap, read_len, out>>
    BY DEF ReadCommit, writerVars
  <1>1. /\ TypeOK /\ Used \in Nat /\ Size \in Nat /\ PosMod \in Nat /\ Size < PosMod
        /\ read_pos \in Positions /\ write_pos \in Positions
        /\ read_pos \in DOMAIN recs /\ read_len = Len(recs[read_pos]) /\ read_len \in Nat
    BY <1>0, UsedFact, PosModAssumption, SizeAssumption DEF IInv, TypeOK, Delivered
  <1>2. \A p \in DOMAIN recs :
          /\ p \in Positions /\ Offset(p) \in Nat /\ Len(recs[p]) \in Nat
          /\ 0 < Len(recs[p]) /\ Span(p) = LenSize + Len(recs[p])
          /\ Offset(p) + Span(p) <= Used
          /\ Offset(p) = IF p >= read_pos THEN p - read_pos ELSE p - read_pos + PosMod
    <2>1. \A p \in DOMAIN recs : 0 < Len(recs[p]) /\ Offset(p) + Span(p) <= Used
      BY DEF IInv, Framing, Offset
    <2> QED BY <1>1, <2>1, UsedFact
  <1>3. Used <= Size /\ n <= Used /\ 0 < n /\ Offset(read_pos) = 0 /\ Span(read_pos) = n
    <2>1. Used <= Size
      BY DEF IInv, Framing
    <2>2. Offset(read_pos) = 0
      BY <1>1, <1>2 DEF Positions
    <2> QED BY <1>1, <1>2, <2>1, <2>2 DEF LenSize
  <1>4. /\ read_pos' \in Positions
        /\ read_pos' = IF read_pos + n < PosMod THEN read_pos + n ELSE read_pos + n - PosMod
    <2>1. n \in 0 .. Size
      BY <1>1, <1>3 DEF LenSize
    <2> QED BY <1>0, <1>1, <2>1, AdvanceFact
  <1>7. Used' = Used - n
    <2>1. Used' = IF write_pos >= read_pos' THEN write_pos - read_pos'
                                            ELSE write_pos - read_pos' + PosMod
      BY <1>0, <1>1, <1>4, DistanceFact DEF Used
    <2>2. Used = IF write_pos >= read_pos THEN write_pos - read_pos
                                          ELSE write_pos - read_pos + PosMod
      BY <1>1, UsedFact
    <2>3. /\ read_pos \in Int /\ write_pos \in Int /\ n \in Int /\ read_pos' \in Int
          /\ 0 <= read_pos /\ read_pos < PosMod /\ 0 <= write_pos /\ write_pos < PosMod
          /\ 0 < n /\ n <= Used /\ Used < PosMod
      BY <1>1, <1>3, <1>4 DEF Positions, LenSize
    <2> HIDE DEF n
    <2> QED BY <1>1, <1>4, <2>1, <2>2, <2>3, SMTT(20)
  <1> QED BY <1>3, <1>4, <1>7

(* read_pos moves: the chain loses its first record and nothing else.      *)
LEMMA ReadCommitInv ==
  ASSUME IInv, ReadCommit
  PROVE  IInv'
  <1> DEFINE n == LenSize + read_len
  <1>0. /\ rpc = "commit" /\ rpc' = "idle" /\ read_pos' = Advance(read_pos, n)
        /\ UNCHANGED <<buffer, write_pos, wpc, wmsg, rop, rcap, read_len, out>>
    BY DEF ReadCommit, writerVars
  <1>1. /\ TypeOK /\ Used \in Nat /\ Size \in Nat /\ PosMod \in Nat /\ Size < PosMod
        /\ read_pos \in Positions /\ write_pos \in Positions
        /\ read_pos \in DOMAIN recs /\ read_len = Len(recs[read_pos]) /\ read_len \in Nat
    BY <1>0, UsedFact, PosModAssumption, SizeAssumption DEF IInv, TypeOK, Delivered
  <1>2. \A p \in DOMAIN recs :
          /\ p \in Positions /\ Offset(p) \in Nat /\ Len(recs[p]) \in Nat
          /\ 0 < Len(recs[p]) /\ Span(p) = LenSize + Len(recs[p])
          /\ Offset(p) + Span(p) <= Used
          /\ Offset(p) = IF p >= read_pos THEN p - read_pos ELSE p - read_pos + PosMod
    <2>1. \A p \in DOMAIN recs : 0 < Len(recs[p]) /\ Offset(p) + Span(p) <= Used
      BY DEF IInv, Framing, Offset
    <2> QED BY <1>1, <2>1, UsedFact
  <1>3. Used <= Size /\ n <= Used /\ 0 < n /\ Offset(read_pos) = 0 /\ Span(read_pos) = n
    <2>1. Used <= Size
      BY DEF IInv, Framing
    <2>2. Offset(read_pos) = 0
      BY <1>1, <1>2 DEF Positions
    <2> QED BY <1>1, <1>2, <2>1, <2>2 DEF LenSize
  <1>4. /\ read_pos' \in Positions
        /\ read_pos' = IF read_pos + n < PosMod THEN read_pos + n ELSE read_pos + n - PosMod
    BY ReadCommitMoves
  <1>5. /\ DOMAIN recs' = DOMAIN recs \ {read_pos}
        /\ \A p \in DOMAIN recs' : recs'[p] = recs[p]
    BY DEF ReadCommit
  <1>6. TypeOK'
    BY <1>0, <1>1, <1>4, <1>5 DEF TypeOK
  <1>7. Used' = Used - n
    BY ReadCommitMoves
  <1>8. ASSUME NEW p \in DOMAIN recs'
        PROVE  /\ p \in DOMAIN recs /\ recs'[p] = recs[p] /\ Span(p)' = Span(p)
               /\ Distance(read_pos', p) = Offset(p) - n
    <2>1. p \in DOMAIN recs /\ p # read_pos /\ recs'[p] = recs[p]
      BY <1>5
    <2>2. Offset(p) > 0
      BY <1>1, <1>2, <2>1 DEF Positions
    <2>3. n <= Offset(p)
      <3>1. Offset(read_pos) < Offset(p)
        BY <1>2, <1>3, <2>1, <2>2
      <3>2. Offset(read_pos) + Span(read_pos) <= Offset(p)
        BY <1>1, <2>1, <3>1 DEF IInv, Order
      <3> QED BY <1>1, <1>3, <3>2 DEF LenSize
    <2>4. Distance(read_pos', p) = IF p >= read_pos' THEN p - read_pos' ELSE p - read_pos' + PosMod
      BY <1>2, <1>4, <2>1, DistanceFact
    <2>5. Offset(p) \in Nat /\ Offset(p) <= Used
      BY <1>1, <1>2, <2>1 DEF LenSize
    <2>6. Distance(read_pos', p) = Offset(p) - n
      <3>1. /\ read_pos \in Int /\ p \in Int /\ n \in Int /\ read_pos' \in Int
            /\ 0 <= read_pos /\ read_pos < PosMod /\ 0 <= p /\ p < PosMod
            /\ 0 < n /\ n <= Offset(p) /\ Offset(p) < PosMod
        BY <1>1, <1>2, <1>3, <1>4, <2>1, <2>3, <2>5 DEF Positions, LenSize
      <3>2. Offset(p) = IF p >= read_pos THEN p - read_pos ELSE p - read_pos + PosMod
        BY <1>2, <2>1
      <3> HIDE DEF n
      <3> QED BY <1>1, <1>4, <2>4, <3>1, <3>2
    <2> QED BY <2>1, <2>6 DEF Span
  <1>9. Framing'
    <2>1. Used' <= Size
      BY <1>1, <1>3, <1>7 DEF LenSize
    <2>2. (read_pos # write_pos => read_pos \in DOMAIN recs)'
      <3>1. CASE n = Used
        <4>1. Used' = 0
          BY <3>1, <1>1, <1>7
        <4>2. Used' = IF write_pos >= read_pos' THEN write_pos - read_pos'
                                                ELSE write_pos - read_pos' + PosMod
          BY <1>0, <1>1, <1>4, DistanceFact DEF Used
        <4>3. read_pos' = write_pos
          BY <4>1, <4>2, <1>1, <1>4 DEF Positions
        <4> QED BY <4>3, <1>0
      <3>2. CASE n # Used
        <4>1. Advance(read_pos, Span(read_pos)) \in DOMAIN recs
          BY <3>2, <1>1, <1>3 DEF IInv, Framing, Offset, LenSize
        <4>2. read_pos' \in DOMAIN recs /\ read_pos' # read_pos
          BY <4>1, <1>0, <1>1, <1>3, <1>4 DEF Positions, LenSize
        <4> QED BY <4>2, <1>5
      <3> QED BY <3>1, <3>2
    <2>3. ASSUME NEW p \in DOMAIN recs'
          PROVE  /\ 0 < Len(recs'[p])
                 /\ Distance(read_pos', p) + Span(p)' <= Used'
                 /\ \/ Distance(read_pos', p) + Span(p)' = Used'
                    \/ Advance(p, Span(p)') \in DOMAIN recs'
      <3>1. /\ p \in DOMAIN recs /\ recs'[p] = recs[p] /\ Span(p)' = Span(p)
            /\ Distance(read_pos', p) = Offset(p) - n
        BY <1>8
      <3>2. 0 < Len(recs[p]) /\ Offset(p) + Span(p) <= Used /\ Offset(p) \in Nat /\ Span(p) \in Nat
        BY <3>1, <1>2 DEF LenSize
      <3>3. CASE Offset(p) + Span(p) = Used
        BY <3>1, <3>2, <3>3, <1>1, <1>7 DEF LenSize
      <3>4. CASE Offset(p) + Span(p) # Used
        <4>1. Advance(p, Span(p)) \in DOMAIN recs
          BY <3>1, <3>4 DEF IInv, Framing, Offset
        <4>2. Advance(p, Span(p)) # read_pos
          <5>1. Span(p) \in 0 .. Size /\ 0 < Span(p)
            BY <3>1, <3>2, <1>1, <1>2, <1>3 DEF LenSize
          <5>2. Advance(p, Span(p)) = IF p + Span(p) < PosMod THEN p + Span(p)
                                                              ELSE p + Span(p) - PosMod
            BY <5>1, <3>1, <1>2, AdvanceFact
          <5>3. Offset(p) + Span(p) < PosMod
            BY <3>1, <3>2, <1>1, <1>2, <1>3 DEF LenSize
          <5> QED BY <5>1, <5>2, <5>3, <3>1, <3>2, <1>1, <1>2, SMTT(20) DEF Positions
        <4>3. Offset(p) - n + Span(p) <= Used - n
          BY <3>2, <1>1 DEF LenSize
        <4> QED BY <4>1, <4>2, <4>3, <3>1, <3>2, <1>5, <1>7
      <3> QED BY <3>3, <3>4
    <2> QED BY <2>1, <2>2, <2>3 DEF Framing
  <1>10. Order'
    <2> SUFFICES ASSUME NEW p \in DOMAIN recs', NEW q \in DOMAIN recs', (Offset(p) < Offset(q))'
                 PROVE  (Offset(p) + Span(p) <= Offset(q))'
      BY DEF Order
    <2>1. /\ p \in DOMAIN recs /\ q \in DOMAIN recs /\ Span(p)' = Span(p)
          /\ Offset(p)' = Offset(p) - n /\ Offset(q)' = Offset(q) - n
      BY <1>8 DEF Offset
    <2>2. /\ Offset(p) \in Nat /\ Offset(q) \in Nat /\ Span(p) \in Nat /\ n \in Nat
      BY <2>1, <1>1, <1>2 DEF LenSize
    <2>3. Offset(p) + Span(p) <= Offset(q)
      BY <2>1, <2>2 DEF IInv, Order
    <2> HIDE DEF n
    <2> QED BY <2>1, <2>2, <2>3
  <1>11. Integrity'
    BY <1>0, <1>8 DEF IInv, Integrity
  <1>12. WriterInv'
    <2>1. wpc # "idle" => Used' + LenSize + Len(wmsg) <= Size
      <3>1. Len(wmsg) \in Nat
        BY <1>1 DEF TypeOK
      <3> QED BY <3>1, <1>1, <1>3, <1>7 DEF IInv, WriterInv, LenSize
    <2> QED BY <2>1, <1>0 DEF IInv, WriterInv
  <1> QED BY <1>0, <1>6, <1>9, <1>10, <1>11, <1>12 DEF IInv, ReaderInv, Delivered

----------------------------------------------------------------------------
(* The ring as a queue.  Chain says that s is what a scan of the published *)
(* bytes decodes, message by message at the distances at[1], at[2], ... of *)
(* read_pos.  That there is such an s is an invariant (Chained): the scan  *)
(* never starts inside a record nor runs past write_pos.                   *)

Chain(s, at) ==
  /\ s \in Seq(Seq(Byte))
  /\ at[1] = 0 /\ at[Len(s) + 1] = Used
  /\ \A i \in 1..Len(s) :
       /\ at[i] \in Nat /\ at[i] < Used
       /\ s[i] = RecordAt(at[i])
       /\ at[i + 1] = at[i] + (LenSize + LengthAt(at[i]))

Chained ==
  /\ wpc # "idle" => wmsg \in Payloads
  /\ \E s, at : Chain(s, at)

(* What stands k bytes behind read_pos can be decoded, whatever it is.     *)
LEMMA RecordType ==
  ASSUME TypeOK, NEW k \in Nat
  PROVE  LengthAt(k) \in Nat /\ RecordAt(k) \in Seq(Byte)
  <1>1. ASSUME NEW j \in Nat PROVE buffer[Cell(read_pos + j)] \in Byte
    <2>1. read_pos + j \in Int /\ 0 \in 0 .. Size /\ buffer \in [Cells -> Byte]
      BY PosModAssumption, SizeAssumption DEF TypeOK, Positions
    <2>2. Cell(read_pos + j) \in Cells
      BY <2>1, CellStep
    <2> QED BY <2>1, <2>2
  <1>2. LengthAt(k) \in Nat
    <2> DEFINE b == [i \in 1..LenSize |-> buffer[Cell(read_pos + (k + (i - 1)))]]
    <2>1. \A i \in 1..LenSize : k + (i - 1) \in Nat
      OBVIOUS
    <2>2. \A i \in 1..LenSize : b[i] \in Byte
      BY <1>1, <2>1
    <2>3. 1 \in 1..LenSize /\ 2 \in 1..LenSize /\ 3 \in 1..LenSize /\ 4 \in 1..LenSize
      BY DEF LenSize
    <2>5. LengthAt(k) = DecodeLen(b)
      BY DEF LengthAt
    <2> HIDE DEF b
    <2>4. b[1] \in Nat /\ b[2] \in Nat /\ b[3] \in Nat /\ b[4] \in Nat
      <3>1. b[1] \in Byte /\ b[2] \in Byte /\ b[3] \in Byte /\ b[4] \in Byte
        BY <2>2, <2>3, Zenon
      <3>2. \A x \in Byte : x \in Nat
        BY DEF Byte
      <3> QED BY <3>1, <3>2
    <2> QED BY <2>4, <2>5 DEF DecodeLen
  <1>3. RecordAt(k) \in Seq(Byte)
    <2>1. \A i \in 1..LengthAt(k) : k + (LenSize + (i - 1)) \in Nat
      BY <1>2 DEF LenSize
    <2>2. RecordAt(k) \in [1..LengthAt(k) -> Byte]
      BY <1>1, <2>1 DEF RecordAt
    <2> QED BY <1>2, <2>2, FunctionIsSeq
  <1> QED BY <1>2, <1>3

(* The scan yields s.                                                      *)
LEMMA PendingIs ==
  ASSUME TypeOK, NEW s, NEW at, Chain(s, at)
  PROVE  Pending = s
  <1> DEFINE item == [k \in Nat |-> RecordAt(k)]
             next == [k \in Nat |-> k + (LenSize + LengthAt(k))]
  <1>1. Used \in Nat
    BY UsedFact
  <1>2. Onward(next)
    <2>1. \A k \in Nat : LengthAt(k) \in Nat
      BY RecordType
    <2> QED BY <2>1 DEF LenSize, Onward
  <1>3. \A k \in Nat : item[k] = RecordAt(k) /\ next[k] = k + (LenSize + LengthAt(k))
    OBVIOUS
  <1> HIDE DEF item, next
  <1>4. PICK f : Scans(f, Used, item, next)
    BY <1>1, <1>2, ScanExists
  <1>5. \A g : Scans(g, Used, item, next)
                <=> g = [k \in Nat |-> IF k >= Used THEN <<>>
                                ELSE <<RecordAt(k)>> \o g[k + (LenSize + LengthAt(k))]]
    BY <1>3 DEF Scans
  <1>6. Scanned = [k \in Nat |-> IF k >= Used THEN <<>>
                           ELSE <<RecordAt(k)>> \o Scanned[k + (LenSize + LengthAt(k))]]
    BY <1>4, <1>5, Zenon DEF Scanned
  <1>7. PICK g : g = Scanned
    OBVIOUS
  <1>8. Scans(g, Used, item, next)
    BY <1>5, <1>6, <1>7
  <1>9. s \in Seq(Seq(Byte)) /\ at[1] = 0 /\ Placed(s, at, Used, item, next)
    BY <1>3 DEF Chain, Placed
  <1>10. g[at[1]] = s
    BY <1>1, <1>8, <1>9, ScanYields
  <1> QED BY <1>7, <1>9, <1>10 DEF Pending

LEMMA PendingIsAll == TypeOK => \A s, at : Chain(s, at) => Pending = s
  BY PendingIs

(* The same in the next state.                                             *)
LEMMA PendingIsNext == (TypeOK => \A s, at : Chain(s, at) => Pending = s)'
  BY PendingIsAll, PTL

(* A step that leaves the published bytes alone leaves the chain alone.     *)
KeepsUsed == \A j \in Nat : j < Used => buffer'[Cell(read_pos + j)] = buffer[Cell(read_pos + j)]

LEMMA DecodesSame ==
  ASSUME TypeOK, KeepsUsed, read_pos' = read_pos, NEW k \in Nat,
         k + (LenSize + LengthAt(k)) <= Used
  PROVE  LengthAt(k)' = LengthAt(k) /\ RecordAt(k)' = RecordAt(k)
  <1>1. Used \in Nat /\ LengthAt(k) \in Nat
    BY UsedFact, RecordType
  <1>2. \A i \in 1..LenSize : k + (i - 1) \in Nat /\ k + (i - 1) < Used
    BY <1>1 DEF LenSize
  <1>3. \A i \in 1..LenSize : buffer'[Cell(read_pos + (k + (i - 1)))]
                             = buffer[Cell(read_pos + (k + (i - 1)))]
    BY <1>2 DEF KeepsUsed
  <1>4. LengthAt(k)' = LengthAt(k)
    BY <1>3 DEF LengthAt
  <1>5. \A i \in 1..LengthAt(k) : /\ k + (LenSize + (i - 1)) \in Nat
                                  /\ k + (LenSize + (i - 1)) < Used
    BY <1>1 DEF LenSize
  <1>6. \A i \in 1..LengthAt(k) : buffer'[Cell(read_pos + (k + (LenSize + (i - 1))))]
                                 = buffer[Cell(read_pos + (k + (LenSize + (i - 1))))]
    BY <1>5 DEF KeepsUsed
  <1>7. RecordAt(k)' = RecordAt(k)
    BY <1>4, <1>6 DEF RecordAt
  <1> QED BY <1>4, <1>7

(* No record of a chain goes beyond write_pos.                             *)
LEMMA ChainEnds ==
  ASSUME TypeOK, NEW s, NEW at, Chain(s, at), NEW i \in 1..Len(s)
  PROVE  at[i] \in Nat /\ at[i] + (LenSize + LengthAt(at[i])) <= Used
  <1>1. Used \in Nat /\ Len(s) \in Nat
    BY UsedFact DEF Chain
  <1>2. at[i] \in Nat /\ at[i + 1] = at[i] + (LenSize + LengthAt(at[i]))
    BY DEF Chain
  <1>3. at[i + 1] <= Used
    <2>1. CASE i + 1 \in 1..Len(s)
      BY <1>1, <2>1 DEF Chain
    <2>2. CASE i + 1 \notin 1..Len(s)
      <3>1. i + 1 = Len(s) + 1
        BY <1>1, <2>2
      <3> QED BY <1>1, <3>1 DEF Chain
    <2> QED BY <2>1, <2>2
  <1> QED BY <1>2, <1>3

LEMMA ChainStays ==
  ASSUME TypeOK, KeepsUsed, UNCHANGED <<read_pos, write_pos>>, NEW s, NEW at, Chain(s, at)
  PROVE  Chain(s, at)'
  <1>1. Used' = Used
    BY DEF Used
  <1>2. \A i \in 1..Len(s) : /\ LengthAt(at[i])' = LengthAt(at[i])
                             /\ RecordAt(at[i])' = RecordAt(at[i])
    BY ChainEnds, DecodesSame
  <1> QED BY <1>1, <1>2 DEF Chain

(* What the writer copies is not published.                                *)
LEMMA CopyKeepsUsed ==
  ASSUME IInv, wpc # "idle", NEW lo \in Nat, NEW n \in Nat, lo + n <= LenSize + Len(wmsg),
         \A c \in Cells : (\A i \in 0 .. n - 1 : c # Cell(write_pos + (lo + i)))
                            => buffer'[c] = buffer[c]
  PROVE  KeepsUsed
  <1> SUFFICES ASSUME NEW j \in Nat, j < Used
               PROVE  buffer'[Cell(read_pos + j)] = buffer[Cell(read_pos + j)]
    BY DEF KeepsUsed
  <1>1. /\ TypeOK /\ Used \in Nat /\ Len(wmsg) \in Nat /\ Size \in Nat
        /\ read_pos \in Positions /\ read_pos \in Int
    BY UsedFact, SizeAssumption, PosModAssumption DEF IInv, TypeOK, Positions
  <1>2. Used + (LenSize + Len(wmsg)) <= Size
    BY <1>1 DEF IInv, WriterInv, LenSize
  <1>3. Distance(read_pos, read_pos) = 0
    BY <1>1, DistanceFact, PosModAssumption DEF Positions
  <1>4. \A i \in 0 .. n - 1 : Cell(read_pos + j) # Cell(write_pos + (lo + i))
    <2> SUFFICES ASSUME NEW i \in 0 .. n - 1
                 PROVE  Cell(write_pos + (lo + i)) # Cell(read_pos + j)
      OBVIOUS
    <2>1. /\ lo + i \in Nat /\ lo + i < LenSize + Len(wmsg) /\ LenSize + Len(wmsg) \in Nat
          /\ Distance(read_pos, read_pos) + j < Used
      BY <1>1, <1>3 DEF LenSize
    <2> QED BY <1>1, <1>2, <2>1, WriterCells
  <1>5. Cell(read_pos + j) \in Cells
    <2>1. 0 \in 0 .. Size /\ read_pos + j \in Int
      BY <1>1
    <2> QED BY <2>1, CellStep
  <1> QED BY <1>4, <1>5

LEMMA WriteLenKeeps ==
  ASSUME IInv, WriteLen
  PROVE  KeepsUsed
  <1>1. wpc # "idle" /\ Len(wmsg) \in Nat
    BY DEF WriteLen, IInv, TypeOK
  <1>2. \A c \in Cells : (\A i \in 0 .. LenSize - 1 : c # Cell(write_pos + (0 + i)))
                          => buffer'[c] = buffer[c]
    BY WriteLenCopies DEF LenSize
  <1>3. 0 + LenSize <= LenSize + Len(wmsg) /\ LenSize \in Nat
    BY <1>1 DEF LenSize
  <1> QED BY <1>1, <1>2, <1>3, CopyKeepsUsed

LEMMA WriteDataKeeps ==
  ASSUME IInv, WriteData
  PROVE  KeepsUsed
  <1>1. wpc # "idle" /\ Len(wmsg) \in Nat /\ write_pos \in Int
    BY PosModAssumption DEF WriteData, IInv, TypeOK, Positions
  <1>2. \A i \in Nat : (write_pos + LenSize) + i = write_pos + (LenSize + i)
    BY <1>1 DEF LenSize
  <1>3. \A c \in Cells : (\A i \in 0 .. Len(wmsg) - 1 : c # Cell(write_pos + (LenSize + i)))
                          => buffer'[c] = buffer[c]
    BY <1>1, <1>2, WriteDataCopies
  <1>4. LenSize + Len(wmsg) <= LenSize + Len(wmsg) /\ LenSize \in Nat
    BY <1>1 DEF LenSize
  <1> QED BY <1>1, <1>3, <1>4, CopyKeepsUsed

(* Four bytes that encode a length, and the payload behind them, are       *)
(* decoded as the record they are.                                         *)
LEMMA DecodesRecord ==
  ASSUME TypeOK, NEW k \in Nat, NEW m \in Seq(Byte), LenSize + Len(m) <= Size,
         \A i \in 0 .. LenSize - 1 : buffer[Cell(read_pos + (k + i))] = LenBytes(Len(m))[i + 1],
         \A i \in 0 .. Len(m) - 1 : buffer[Cell(read_pos + (k + (LenSize + i)))] = m[i + 1]
  PROVE  LengthAt(k) = Len(m) /\ RecordAt(k) = m
  <1>1. Len(m) \in 0 .. Size
    BY SizeAssumption DEF LenSize
  <1> DEFINE b == [i \in 1..LenSize |-> buffer[Cell(read_pos + (k + (i - 1)))]]
  <1>2. \A i \in 1..LenSize : b[i] = LenBytes(Len(m))[i]
    <2>1. \A i \in 1..LenSize : i - 1 \in 0 .. LenSize - 1 /\ (i - 1) + 1 = i
      BY DEF LenSize
    <2>2. \A i \in 1..LenSize : b[i] = buffer[Cell(read_pos + (k + (i - 1)))]
      OBVIOUS
    <2> HIDE DEF b
    <2> QED BY <2>1, <2>2
  <1>3. LengthAt(k) = DecodeLen(b)
    BY DEF LengthAt
  <1>4. LengthAt(k) = Len(m)
    <2> HIDE DEF b
    <2>1. DecodeLen(b) = DecodeLen(LenBytes(Len(m)))
      BY <1>2 DEF DecodeLen, LenSize
    <2> QED BY <1>1, <1>3, <2>1, LenCodec
  <1>5. RecordAt(k) = [i \in 1..Len(m) |-> m[i]]
    <2>1. \A i \in 1..Len(m) : i - 1 \in 0 .. Len(m) - 1 /\ (i - 1) + 1 = i
      OBVIOUS
    <2> QED BY <1>4, <2>1 DEF RecordAt
  <1> QED BY <1>4, <1>5

(* What the writer is about to publish stands at write_pos ...             *)
LEMMA StoredRecord ==
  ASSUME IInv, wpc = "commit"
  PROVE  LengthAt(Used) = Len(wmsg) /\ RecordAt(Used) = wmsg
  <1>1. /\ TypeOK /\ Used \in Nat /\ wmsg \in Seq(Byte) /\ Len(wmsg) \in Nat
        /\ read_pos \in Positions /\ write_pos \in Positions /\ Size \in Nat
    BY UsedFact, SizeAssumption DEF IInv, TypeOK
  <1>2. LenSize + Len(wmsg) <= Size
    BY <1>1 DEF IInv, WriterInv, LenSize
  <1>3. \A i \in Nat : Cell(write_pos + i) = Cell(read_pos + (Used + i))
    BY <1>1, CellOfDistance DEF Used
  <1>4. ASSUME NEW i \in 0 .. LenSize - 1
        PROVE  buffer[Cell(read_pos + (Used + i))] = LenBytes(Len(wmsg))[i + 1]
    BY <1>3 DEF IInv, WriterInv, RecordByte, LenSize
  <1>5. ASSUME NEW i \in 0 .. Len(wmsg) - 1
        PROVE  buffer[Cell(read_pos + (Used + (LenSize + i)))] = wmsg[i + 1]
    <2>1. /\ LenSize + i \in LenSize .. LenSize + Len(wmsg) - 1 /\ LenSize + i \in Nat
          /\ ~(LenSize + i < LenSize) /\ (LenSize + i) - LenSize + 1 = i + 1
      BY <1>1 DEF LenSize
    <2>2. buffer[Cell(write_pos + (LenSize + i))] = RecordByte(wmsg, LenSize + i)
      BY <2>1 DEF IInv, WriterInv
    <2>3. RecordByte(wmsg, LenSize + i) = wmsg[i + 1]
      BY <2>1 DEF RecordByte
    <2> QED BY <1>3, <2>1, <2>2, <2>3
  <1> QED BY <1>1, <1>2, <1>4, <1>5, DecodesRecord

(* ... and what the reader is about to consume at read_pos.                *)
LEMMA FirstRecord ==
  ASSUME IInv, rpc # "idle"
  PROVE  LengthAt(0) = Len(recs[read_pos]) /\ RecordAt(0) = recs[read_pos]
  <1> DEFINE m == recs[read_pos]
  <1>1. /\ TypeOK /\ read_pos \in Int /\ Size \in Nat /\ m \in Seq(Byte) /\ Len(m) \in Nat
        /\ LenSize + Len(m) <= Size
        /\ \A i \in 0 .. LenSize - 1 : buffer[Cell(read_pos + i)] = LenBytes(Len(m))[i + 1]
        /\ \A i \in 1..Len(m) : buffer[Cell((read_pos + LenSize) + (i - 1))] = m[i]
    BY OldestRecord DEF IInv
  <1> HIDE DEF m
  <1>2. \A i \in 0 .. LenSize - 1 : buffer[Cell(read_pos + (0 + i))] = LenBytes(Len(m))[i + 1]
    BY <1>1 DEF LenSize
  <1>3. ASSUME NEW i \in 0 .. Len(m) - 1
        PROVE  buffer[Cell(read_pos + (0 + (LenSize + i)))] = m[i + 1]
    <2>1. i + 1 \in 1..Len(m) /\ (read_pos + LenSize) + ((i + 1) - 1) = read_pos + (0 + (LenSize + i))
      BY <1>1 DEF LenSize
    <2> QED BY <1>1, <2>1
  <1> QED BY <1>1, <1>2, <1>3, DecodesRecord DEF m

(* Publishing a record lengthens the chain by it.                          *)
LEMMA WriteCommitChain ==
  ASSUME IInv, WriteCommit, NEW s, NEW at, Chain(s, at), NEW m, m = wmsg
  PROVE  \E to : Chain(Append(s, m), to)'
  <1> DEFINE n == Len(s)
  <1>0. PICK u : u = Used
    OBVIOUS
  <1> DEFINE e == [i \in 1..n + 2 |-> IF i = n + 2 THEN u + (LenSize + Len(m)) ELSE at[i]]
  <1>11. PICK to : to = e
    OBVIOUS
  <1>1. /\ TypeOK /\ s \in Seq(Seq(Byte)) /\ n \in Nat /\ m \in Seq(Byte) /\ Len(m) \in Nat
        /\ Used \in Nat
    BY UsedFact DEF Chain, IInv, TypeOK
  <1>2. Used' = Used + (LenSize + Len(m)) /\ buffer' = buffer /\ read_pos' = read_pos
    BY <1>1, WriteCommitMoves DEF WriteCommit, LenSize
  <1>3. \A k \in Nat : LengthAt(k)' = LengthAt(k) /\ RecordAt(k)' = RecordAt(k)
    BY <1>2 DEF LengthAt, RecordAt
  <1>4. LengthAt(Used) = Len(m) /\ RecordAt(Used) = m
    BY StoredRecord DEF WriteCommit
  <1>5. /\ at[1] = 0 /\ at[n + 1] = Used
        /\ \A i \in 1..n : /\ at[i] \in Nat /\ at[i] < Used /\ s[i] = RecordAt(at[i])
                           /\ at[i + 1] = at[i] + (LenSize + LengthAt(at[i]))
    BY DEF Chain
  <1>6. \A i \in 1..n + 2 : to[i] = IF i = n + 2 THEN Used + (LenSize + Len(m)) ELSE at[i]
    BY <1>0, <1>11
  <1>7. /\ Append(s, m) \in Seq(Seq(Byte)) /\ Len(Append(s, m)) = n + 1
        /\ Append(s, m)[n + 1] = m /\ \A i \in 1..n : Append(s, m)[i] = s[i]
    BY <1>1
  <1> HIDE DEF n, e
  <1>8. to[1] = 0 /\ to[(n + 1) + 1] = Used'
    <2>1. 1 \in 1..n + 2 /\ 1 # n + 2 /\ (n + 1) + 1 = n + 2 /\ n + 2 \in 1..n + 2
      BY <1>1
    <2> QED BY <1>2, <1>5, <1>6, <2>1
  <1>9. ASSUME NEW i \in 1..n + 1
        PROVE  /\ to[i] \in Nat /\ to[i] < Used' /\ Append(s, m)[i] = RecordAt(to[i])'
               /\ to[i + 1] = to[i] + (LenSize + LengthAt(to[i]))'
    <2>1. i \in 1..n + 2 /\ i # n + 2 /\ i + 1 \in 1..n + 2
      BY <1>1
    <2>2. to[i] = at[i]
      BY <1>6, <2>1
    <2>3. CASE i = n + 1
      <3>1. to[i] = Used /\ to[i + 1] = Used + (LenSize + Len(m))
        BY <1>1, <1>5, <1>6, <2>1, <2>2, <2>3
      <3>2. LengthAt(to[i])' = Len(m) /\ RecordAt(to[i])' = m
        BY <1>1, <1>3, <1>4, <3>1
      <3> QED BY <1>1, <1>2, <1>7, <2>3, <3>1, <3>2 DEF LenSize
    <2>4. CASE i # n + 1
      <3>1. i \in 1..n /\ i + 1 # n + 2
        BY <1>1, <2>4
      <3>2. to[i + 1] = at[i + 1]
        BY <1>6, <2>1, <3>1
      <3>3. at[i] \in Nat /\ at[i] < Used'
        BY <1>1, <1>2, <1>5, <3>1 DEF LenSize
      <3>4. LengthAt(to[i])' = LengthAt(at[i]) /\ RecordAt(to[i])' = RecordAt(at[i])
        BY <1>3, <2>2, <3>3
      <3> QED BY <1>5, <1>7, <2>2, <3>1, <3>2, <3>3, <3>4
    <2> QED BY <2>3, <2>4
  <1>10. Chain(Append(s, m), to)'
    BY <1>7, <1>8, <1>9 DEF Chain
  <1> QED BY <1>10

(* What is k bytes behind an advanced read_pos.                            *)
LEMMA DecodesMoved ==
  ASSUME TypeOK, NEW n \in 0 .. Size, read_pos' = Advance(read_pos, n), buffer' = buffer,
         NEW k \in Nat
  PROVE  LengthAt(k)' = LengthAt(n + k) /\ RecordAt(k)' = RecordAt(n + k)
  <1>1. read_pos \in Positions /\ n \in Nat
    BY SizeAssumption DEF TypeOK
  <1>2. \A i \in Nat : Cell(read_pos' + i) = Cell(read_pos + (n + i))
    BY <1>1, CellOfAdvance
  <1>3. \A i \in 1..LenSize : Cell(read_pos' + (k + (i - 1))) = Cell(read_pos + ((n + k) + (i - 1)))
    <2>1. \A i \in 1..LenSize : k + (i - 1) \in Nat /\ n + (k + (i - 1)) = (n + k) + (i - 1)
      BY <1>1 DEF LenSize
    <2> QED BY <1>2, <2>1
  <1>4. LengthAt(k)' = LengthAt(n + k)
    BY <1>3 DEF LengthAt
  <1>5. LengthAt(n + k) \in Nat
    <2>1. n + k \in Nat
      BY <1>1
    <2> QED BY <2>1, RecordType
  <1>6. \A i \in 1..LengthAt(n + k) : Cell(read_pos' + (k + (LenSize + (i - 1))))
                                     = Cell(read_pos + ((n + k) + (LenSize + (i - 1))))
    <2>1. \A i \in 1..LengthAt(n + k) :
            /\ k + (LenSize + (i - 1)) \in Nat
            /\ n + (k + (LenSize + (i - 1))) = (n + k) + (LenSize + (i - 1))
      BY <1>1, <1>5 DEF LenSize
    <2> QED BY <1>2, <2>1
  <1>7. RecordAt(k)' = RecordAt(n + k)
    BY <1>4, <1>6 DEF RecordAt
  <1> QED BY <1>4, <1>7

(* Consuming a record takes it off the front of the chain.                 *)
LEMMA ReadCommitChain ==
  ASSUME IInv, ReadCommit, NEW s, NEW at, Chain(s, at)
  PROVE  s # <<>> /\ \E to : Chain(Tail(s), to)'
  <1> DEFINE m == Len(s)
  <1>16. PICK n : n = LenSize + read_len
    OBVIOUS
  <1> DEFINE e == [i \in 1..m |-> at[i + 1] - n]
  <1>17. PICK to : to = e
    OBVIOUS
  <1>1. /\ TypeOK /\ Used \in Nat /\ s \in Seq(Seq(Byte)) /\ m \in Nat /\ read_len \in Nat
        /\ n \in Nat /\ 0 < n /\ n <= Used /\ Used <= Size /\ Size \in Nat
    BY <1>16, UsedFact, ReadCommitMoves, SizeAssumption DEF IInv, TypeOK, Framing, Chain, LenSize
  <1>2. LengthAt(0) = read_len
    BY FirstRecord DEF IInv, Delivered, ReadCommit
  <1>3. Used' = Used - n /\ buffer' = buffer /\ read_pos' = Advance(read_pos, n)
    BY <1>16, ReadCommitMoves DEF ReadCommit
  <1>4. /\ at[1] = 0 /\ at[m + 1] = Used
        /\ \A i \in 1..m : /\ at[i] \in Nat /\ at[i] < Used /\ s[i] = RecordAt(at[i])
                           /\ at[i + 1] = at[i] + (LenSize + LengthAt(at[i]))
    BY DEF Chain
  <1>5. \A i \in 1..m : to[i] = at[i + 1] - n
    BY <1>17
  <1>6. n \in 0 .. Size
    BY <1>1
  <1>13. n = LenSize + LengthAt(0)
    BY <1>2, <1>16
  <1>14. s = <<>> <=> m = 0
    BY <1>1
  <1> HIDE DEF m, e
  <1>7. \A k \in Nat : LengthAt(k)' = LengthAt(n + k) /\ RecordAt(k)' = RecordAt(n + k)
    BY <1>1, <1>3, <1>6, DecodesMoved
  <1>8. m # 0
    BY <1>1, <1>4
  <1>9. /\ Tail(s) \in Seq(Seq(Byte)) /\ Len(Tail(s)) = m - 1
        /\ \A i \in 1..m - 1 : Tail(s)[i] = s[i + 1]
    BY <1>1, <1>8, <1>14 DEF m
  <1>10. to[1] = 0 /\ to[(m - 1) + 1] = Used'
    <2>1. 1 \in 1..m /\ m \in 1..m /\ (m - 1) + 1 = m
      BY <1>1, <1>8
    <2>2. at[1 + 1] = 0 + n
      BY <1>4, <1>13, <2>1
    <2> QED BY <1>1, <1>3, <1>4, <1>5, <2>1, <2>2
  <1>11. ASSUME NEW i \in 1..m
         PROVE  n <= at[i + 1] /\ at[i + 1] \in Nat
    <2> DEFINE Far == {j \in Nat : j < m => n <= at[j + 2] /\ at[j + 2] \in Nat}
    <2>1. 0 \in Far
      <3>1. 1 \in 1..m
        BY <1>1, <1>8
      <3>2. at[1 + 1] = 0 + n
        BY <1>4, <1>13, <3>1
      <3> QED BY <1>1, <3>2
    <2>2. ASSUME NEW j \in Nat, j \in Far PROVE j + 1 \in Far
      <3> SUFFICES ASSUME j + 1 < m PROVE n <= at[(j + 1) + 2] /\ at[(j + 1) + 2] \in Nat
        OBVIOUS
      <3>1. j < m /\ j + 2 \in 1..m /\ (j + 2) + 1 = (j + 1) + 2
        BY <1>1
      <3>2. n <= at[j + 2] /\ at[j + 2] \in Nat
        BY <2>2, <3>1
      <3>3. at[(j + 2) + 1] = at[j + 2] + (LenSize + LengthAt(at[j + 2]))
        BY <1>4, <3>1
      <3>4. LengthAt(at[j + 2]) \in Nat
        BY <1>1, <3>2, RecordType
      <3> QED BY <1>1, <3>1, <3>2, <3>3, <3>4 DEF LenSize
    <2> HIDE DEF Far
    <2>3. i - 1 \in Far
      BY <1>1, <2>1, <2>2, NatInductionSet
    <2>4. i - 1 < m /\ (i - 1) + 2 = i + 1
      BY <1>1
    <2> QED BY <2>3, <2>4 DEF Far
  <1>12. ASSUME NEW i \in 1..m - 1
         PROVE  /\ to[i] \in Nat /\ to[i] < Used' /\ Tail(s)[i] = RecordAt(to[i])'
                /\ to[i + 1] = to[i] + (LenSize + LengthAt(to[i]))'
    <2>1. i \in 1..m /\ i + 1 \in 1..m
      BY <1>1
    <2>2. /\ to[i] = at[i + 1] - n /\ to[i + 1] = at[(i + 1) + 1] - n
          /\ n <= at[i + 1] /\ at[i + 1] \in Nat /\ at[i + 1] < Used
          /\ s[i + 1] = RecordAt(at[i + 1])
          /\ at[(i + 1) + 1] = at[i + 1] + (LenSize + LengthAt(at[i + 1]))
      BY <1>4, <1>5, <1>11, <2>1
    <2>3. to[i] \in Nat /\ n + to[i] = at[i + 1] /\ to[i] < Used'
      BY <1>1, <1>3, <2>2
    <2>4. LengthAt(to[i])' = LengthAt(at[i + 1]) /\ RecordAt(to[i])' = RecordAt(at[i + 1])
      BY <1>7, <2>3
    <2>5. LengthAt(at[i + 1]) \in Nat /\ LenSize \in Nat
      BY <1>1, <2>2, RecordType DEF LenSize
    <2>6. to[i + 1] = to[i] + (LenSize + LengthAt(at[i + 1]))
      <3>1. at[i + 1] \in Nat /\ n <= at[i + 1]
        BY <2>2
      <3>2. LenSize + LengthAt(at[i + 1]) \in Nat
        BY <2>5
      <3>3. at[(i + 1) + 1] - n = (at[i + 1] - n) + (LenSize + LengthAt(at[i + 1]))
        <4>1. \A a, d \in Nat : n <= a => (a + d) - n = (a - n) + d
          BY <1>1
        <4> QED BY <2>2, <3>1, <3>2, <4>1
      <3> QED BY <2>2, <3>3
    <2>7. Tail(s)[i] = s[i + 1]
      BY <1>9
    <2> QED BY <2>2, <2>3, <2>4, <2>6, <2>7
  <1>15. Chain(Tail(s), to)'
    BY <1>9, <1>10, <1>12 DEF Chain
  <1> QED BY <1>8, <1>14, <1>15

----------------------------------------------------------------------------
(* Theorems.                                                               *)

(* The inductive invariant holds in every state of rbuffer.c with one      *)
(* writer and one reader: the positions enclose a chain of whole records,  *)
(* the writer only touches free cells, and the reader is somewhere in the  *)
(* first record.                                                           *)
THEOREM Invariance == Spec => []IInv
  <1>1. Init => IInv
    BY InitInv
  <1>2. IInv /\ [Next]_vars => IInv'
    <2> SUFFICES ASSUME IInv, [Next]_vars PROVE IInv'
      OBVIOUS
    <2>1. ASSUME NEW m \in Payloads, WriteBegin(m) PROVE IInv'
      BY <2>1, WriteBeginInv
    <2>2. CASE WriteLen
      BY <2>2, WriteLenInv
    <2>3. CASE WriteData
      BY <2>3, WriteDataInv
    <2>4. CASE WriteCommit
      BY <2>4, WriteCommitInv
    <2>5. ASSUME NEW op \in {"peek", "read"}, NEW cap \in ReadCaps, ReadBegin(op, cap) PROVE IInv'
      BY <2>5, ReadBeginInv
    <2>6. CASE ReadLen
      BY <2>6, ReadLenInv
    <2>7. CASE ReadData
      BY <2>7, ReadDataInv
    <2>8. CASE ReadCommit
      BY <2>8, ReadCommitInv
    <2>9. CASE UNCHANGED vars
      BY <2>9 DEF vars, IInv, TypeOK, Framing, Order, Offset, WriterInv, Integrity, ReaderInv,
                  Delivered, Used, Span
    <2> QED BY <2>1, <2>2, <2>3, <2>4, <2>5, <2>6, <2>7, <2>8, <2>9 DEF Next, Writer, Reader
  <1> QED BY <1>1, <1>2, PTL DEF Spec

(* Type correctness of the ring buffer.                                    *)
THEOREM TypeCorrect == Spec => []TypeOK
  <1>1. IInv => TypeOK
    BY DEF IInv
  <1> QED BY <1>1, Invariance, PTL

(* The reader always stands on a record boundary (see Framing).            *)
THEOREM FramingHolds == Spec => []Framing
  <1>1. IInv => Framing
    BY DEF IInv
  <1> QED BY <1>1, Invariance, PTL

(* Published bytes are intact until they are consumed (see Integrity).     *)
THEOREM IntegrityHolds == Spec => []Integrity
  <1>1. IInv => Integrity
    BY DEF IInv
  <1> QED BY <1>1, Invariance, PTL

(* rbuffer_read hands out the oldest record, whole (see Delivered).        *)
THEOREM DeliveredHolds == Spec => []Delivered
  <1>1. IInv => Delivered
    BY DEF IInv
  <1> QED BY <1>1, Invariance, PTL

(* For every ring size and set of payloads the records are framed, intact  *)
(* and handed out whole, at every step of both threads (see Whole).        *)
THEOREM WholeHolds == Spec => []Whole
  <1>1. TypeOK /\ Framing /\ Integrity /\ Delivered => Whole
    BY DEF Whole
  <1> QED BY <1>1, TypeCorrect, FramingHolds, IntegrityHolds, DeliveredHolds, PTL

(* A writing thread inside rbuffer_write never touches a cell that holds a *)
(* published, unread byte (see NoOverwrite): the two threads' copies never *)
(* race on a byte, so neither needs a lock.                                *)
THEOREM NoOverwriteHolds == Spec => []NoOverwrite
  <1>1. IInv => NoOverwrite
    <2> SUFFICES ASSUME IInv, wpc # "idle"
                 PROVE  /\ Used + LenSize + Len(wmsg) <= Size
                        /\ \A i \in 0 .. LenSize + Len(wmsg) - 1, j \in 0 .. Used - 1 :
                             Cell(write_pos + i) # Cell(read_pos + j)
      BY DEF NoOverwrite
    <2>1. Used + LenSize + Len(wmsg) <= Size
      BY DEF IInv, WriterInv
    <2>2. TypeOK /\ Len(wmsg) \in Nat /\ Used \in Nat /\ read_pos \in Positions /\ Size \in Nat
      BY UsedFact, SizeAssumption DEF IInv, TypeOK
    <2>3. Distance(read_pos, read_pos) = 0
      BY <2>2, DistanceFact, PosModAssumption DEF Positions
    <2>4. ASSUME NEW i \in 0 .. LenSize + Len(wmsg) - 1, NEW j \in 0 .. Used - 1
          PROVE  Cell(write_pos + i) # Cell(read_pos + j)
      <3>1. /\ LenSize + Len(wmsg) \in Nat /\ Used + (LenSize + Len(wmsg)) <= Size
            /\ i \in Nat /\ i < LenSize + Len(wmsg) /\ j \in Nat
            /\ Distance(read_pos, read_pos) + j < Used
        BY <2>1, <2>2, <2>3 DEF LenSize
      <3> QED BY <3>1, <2>2, WriterCells
    <2> QED BY <2>1, <2>4
  <1> QED BY <1>1, Invariance, PTL

(* The scan of the published bytes always comes out as whole messages.     *)
LEMMA ChainedHolds == Spec => []Chained
  <1>1. Init => Chained
    <2> SUFFICES ASSUME Init PROVE Chained
      OBVIOUS
    <2> DEFINE at == [i \in {1} |-> 0]
    <2>1. Used = 0
      BY InitInv, UsedFact DEF Init, IInv
    <2>2. /\ <<>> \in Seq(Seq(Byte)) /\ Len(<<>>) = 0 /\ at[0 + 1] = 0 /\ at[1] = 0
          /\ 1..0 = {}
      OBVIOUS
    <2>3. Chain(<<>>, at)
      BY <2>1, <2>2 DEF Chain
    <2>4. wpc = "idle"
      BY DEF Init
    <2> QED BY <2>3, <2>4 DEF Chained
  <1>2. IInv /\ Chained /\ [Next]_vars => Chained'
    <2> SUFFICES ASSUME IInv, Chained, [Next]_vars PROVE Chained'
      OBVIOUS
    <2>0. TypeOK
      BY DEF IInv
    <2>1. PICK s, at : Chain(s, at)
      BY DEF Chained
    <2>2. ASSUME KeepsUsed, UNCHANGED <<read_pos, write_pos>>,
                 (wpc # "idle" => wmsg \in Payloads)'
          PROVE  Chained'
      <3>1. Chain(s, at)'
        BY <2>0, <2>1, <2>2, ChainStays
      <3> QED BY <2>2, <3>1 DEF Chained
    <2>3. buffer' = buffer => KeepsUsed
      BY DEF KeepsUsed
    <2>4. ASSUME NEW m \in Payloads, WriteBegin(m) PROVE Chained'
      BY <2>2, <2>3, <2>4 DEF WriteBegin
    <2>5. CASE WriteLen
      BY <2>2, <2>5, WriteLenKeeps DEF WriteLen, Chained
    <2>6. CASE WriteData
      BY <2>2, <2>6, WriteDataKeeps DEF WriteData, Chained
    <2>7. CASE WriteCommit
      <3>1. PICK m : m = wmsg
        OBVIOUS
      <3>2. PICK to : Chain(Append(s, m), to)'
        BY <2>1, <2>7, <3>1, WriteCommitChain
      <3>3. wpc' = "idle"
        BY <2>7 DEF WriteCommit
      <3> QED BY <3>2, <3>3 DEF Chained
    <2>8. CASE (\E op \in {"peek", "read"}, cap \in ReadCaps : ReadBegin(op, cap)) \/ ReadLen \/ ReadData
      BY <2>2, <2>3, <2>8 DEF ReadBegin, ReadLen, ReadData, writerVars, Chained
    <2>9. CASE ReadCommit
      <3>1. PICK to : Chain(Tail(s), to)'
        BY <2>1, <2>9, ReadCommitChain
      <3> QED BY <2>9, <3>1 DEF Chained, ReadCommit, writerVars
    <2>10. CASE UNCHANGED vars
      BY <2>2, <2>3, <2>10 DEF vars, Chained
    <2> QED BY <2>4, <2>5, <2>6, <2>7, <2>8, <2>9, <2>10 DEF Next, Writer, Reader
  <1> QED BY <1>1, <1>2, Invariance, PTL DEF Spec

(* The ring is a first-in first-out queue of whole messages (see FifoSpec):*)
(* the queue is what the memory between the two positions decodes to;      *)
(* atom_add of write_pos enqueues, the copy of the payload hands out the   *)
(* head, atom_add of read_pos removes it, and no other step of either      *)
(* thread changes it.                                                      *)
THEOREM RingIsFifo == Spec => FifoSpec
  <1>1. Init => Fifo!Init
    <2> SUFFICES ASSUME Init PROVE Fifo!Init
      OBVIOUS
    <2> DEFINE at == [i \in {1} |-> 0]
    <2>1. TypeOK /\ Used = 0
      BY InitInv, UsedFact DEF Init, IInv
    <2>2. /\ <<>> \in Seq(Seq(Byte)) /\ Len(<<>>) = 0 /\ at[0 + 1] = 0 /\ at[1] = 0
          /\ 1..0 = {}
      OBVIOUS
    <2>3. Chain(<<>>, at)
      BY <2>1, <2>2 DEF Chain
    <2>4. Pending = <<>>
      BY <2>1, <2>3, PendingIs
    <2> QED BY <2>4 DEF Init, Fifo!Init
  <1>2. IInv /\ IInv' /\ Chained /\ [Next]_vars => [Fifo!Next]_<<Pending, out>>
    <2> SUFFICES ASSUME IInv, IInv', Chained, [Next]_vars
                 PROVE  [Fifo!Next]_<<Pending, out>>
      OBVIOUS
    <2>0. TypeOK /\ TypeOK'
      BY DEF IInv
    <2>1. PICK s, at : Chain(s, at)
      BY DEF Chained
    <2>2. Pending = s
      BY <2>0, <2>1, PendingIs
    <2>3. ASSUME NEW r, NEW to, Chain(r, to)' PROVE Pending' = r
      BY <2>0, <2>3, PendingIsNext
    <2>4. ASSUME KeepsUsed, UNCHANGED <<read_pos, write_pos>>
          PROVE  Pending' = Pending
      <3>1. Chain(s, at)'
        BY <2>0, <2>1, <2>4, ChainStays
      <3> QED BY <2>2, <2>3, <3>1
    <2>5. buffer' = buffer => KeepsUsed
      BY DEF KeepsUsed
    <2>6. ASSUME NEW m \in Payloads, WriteBegin(m) PROVE UNCHANGED <<Pending, out>>
      BY <2>4, <2>5, <2>6 DEF WriteBegin, readerVars
    <2>7. CASE WriteLen \/ WriteData
      BY <2>4, <2>7, WriteLenKeeps, WriteDataKeeps DEF WriteLen, WriteData, readerVars
    <2>8. CASE WriteCommit
      <3>1. PICK m : m = wmsg
        OBVIOUS
      <3>2. PICK to : Chain(Append(s, m), to)'
        BY <2>1, <2>8, <3>1, WriteCommitChain
      <3>3. Pending' = Append(Pending, m)
        BY <2>2, <2>3, <3>2
      <3>4. m \in Payloads /\ Len(m) > 0 /\ out' = out
        BY <2>8, <3>1 DEF WriteCommit, readerVars, Chained, IInv, WriterInv, TypeOK
      <3>5. Fifo!Enqueue(m)
        BY <3>3, <3>4 DEF Fifo!Enqueue
      <3> QED BY <3>4, <3>5 DEF Fifo!Next
    <2>9. CASE (\E op \in {"peek", "read"}, cap \in ReadCaps : ReadBegin(op, cap)) \/ ReadLen
      BY <2>4, <2>5, <2>9 DEF ReadBegin, ReadLen, writerVars
    <2>10. ASSUME rpc # "idle" PROVE Pending # <<>> /\ Head(Pending) = recs[read_pos]
      <3>1. read_pos # write_pos
        BY <2>10 DEF IInv, ReaderInv
      <3>2. 0 < Used
        BY <2>0, <3>1, UsedFact, PosModAssumption DEF TypeOK, Positions
      <3>3. s \in Seq(Seq(Byte)) /\ at[1] = 0 /\ at[Len(s) + 1] = Used
        BY <2>1 DEF Chain
      <3>4. Len(s) # 0
        BY <3>2, <3>3
      <3>5. 1 \in 1..Len(s)
        BY <3>3, <3>4
      <3>6. s[1] = RecordAt(0)
        BY <2>1, <3>3, <3>5 DEF Chain
      <3> QED BY <2>2, <2>10, <3>3, <3>4, <3>6, FirstRecord
    <2>11. CASE ReadData
      <3>1. Pending' = Pending
        BY <2>4, <2>5, <2>11 DEF ReadData, writerVars
      <3>2. recs[read_pos] = out'
        BY <2>11, ReadDataOut
      <3>3. Fifo!Peek
        BY <2>10, <2>11, <3>1, <3>2 DEF ReadData, Fifo!Peek
      <3> QED BY <3>3 DEF Fifo!Next
    <2>12. CASE ReadCommit
      <3>1. PICK to : Chain(Tail(s), to)'
        BY <2>1, <2>12, ReadCommitChain
      <3>2. Pending' = Tail(Pending)
        BY <2>2, <2>3, <3>1
      <3>3. out = recs[read_pos] /\ out' = out /\ rpc # "idle"
        BY <2>12 DEF ReadCommit, IInv, Delivered
      <3>4. Fifo!Consume
        BY <2>10, <3>2, <3>3 DEF Fifo!Consume
      <3> QED BY <3>4 DEF Fifo!Next
    <2>13. CASE UNCHANGED vars
      BY <2>4, <2>5, <2>13 DEF vars
    <2> QED BY <2>6, <2>7, <2>8, <2>9, <2>11, <2>12, <2>13 DEF Next, Writer, Reader
  <1> QED BY <1>1, <1>2, Invariance, ChainedHolds, PTL DEF Spec, FifoSpec, Fifo!Spec
=============================================================================
