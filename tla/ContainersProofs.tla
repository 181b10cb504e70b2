-------------------------- MODULE ContainersProofs -------------------------
(***************************************************************************)
(* Proofs about the components of module MCContainers.  The linear buffer, *)
(* for every size, every alphabet and any number of bytes: the positions   *)
(* stay in order, the unread bytes are the last ones written, and the      *)
(* memcpy that moves them back never overlaps.  The id table, for any ids  *)
(* and slots, and the hash table, for any data, keys and chains: what is   *)
(* found, and looped over, is what is there.  The buddy allocator, for a   *)
(* pool of any order: its tree says exactly what is in use, and it fails   *)
(* only when nothing of the size is free.  (SlabProofs has the slab        *)
(* allocator.)                                                             *)
(***************************************************************************)
EXTENDS MCContainers, NatLemmas, FiniteSetTheorems, SequenceTheorems

----------------------------------------------------------------------------
(* The linear buffer.                                                      *)

(* The inductive invariant: the moved bytes are found again only because   *)
(* the positions are in order and stream is as long as Count says.         *)
IInv == TypeOK /\ Stream

(* Half of the size, for the provers.                                      *)
LEMMA Half ==
  drift_threshold \in Nat /\ 2 * drift_threshold <= buffer_size
    /\ buffer_size <= 2 * drift_threshold + 1
  BY SizeAssumption DEF drift_threshold

(* buffer_create: there is nothing to read.                                *)
LEMMA InitInv == Init => IInv
<1> SUFFICES ASSUME Init PROVE IInv
  OBVIOUS
<1>1. (CHOOSE b \in Bytes : TRUE) \in Bytes
  BY BytesAssumption
<1>2. buffer \in [Cells -> Bytes]
  BY <1>1 DEF Init
<1> QED
  BY <1>2, Half, SizeAssumption DEF Init, IInv, TypeOK, Stream, Count

(* buffer_write only fills cells behind the unread bytes.                  *)
LEMMA WriteInv ==
  ASSUME IInv, NEW len \in Nat, NEW src \in Sources(len), buffer_write(src, len)
  PROVE  IInv'
<1> DEFINE n == SmallerOf(len, buffer_write_len)
<1>1. n \in Nat /\ n <= len /\ write_pos + n <= buffer_size
  BY SizeAssumption DEF IInv, TypeOK, SmallerOf, buffer_write_len
<1>2. /\ write_pos' = write_pos + n /\ read_pos' = read_pos /\ taken' = taken
      /\ Store(src, n)
  BY DEF buffer_write
<1>3. Count \in Nat /\ Count' = Count + n
  BY <1>1, <1>2, SizeAssumption DEF IInv, TypeOK, Count
<1>4. src \in [0 .. len - 1 -> Bytes]
  BY DEF Sources
<1>5. buffer' \in [Cells -> Bytes]
  <2>1. ASSUME NEW c \in Cells, write_pos <= c, c < write_pos + n
        PROVE  src[c - write_pos] \in Bytes
    <3>1. c - write_pos \in 0 .. len - 1
      BY <2>1, <1>1, SizeAssumption DEF Cells, IInv, TypeOK
    <3> QED BY <3>1, <1>4
  <2> QED BY <2>1, <1>2 DEF Store, IInv, TypeOK
<1>6. stream' \in [0 .. Count' - 1 -> Bytes]
  <2>1. ASSUME NEW i \in 0 .. Count + n - 1, ~(i < Count)
        PROVE  src[i - Count] \in Bytes
    <3>1. i - Count \in 0 .. len - 1
      BY <2>1, <1>1, <1>3
    <3> QED BY <3>1, <1>4
  <2>2. ASSUME NEW i \in 0 .. Count + n - 1, i < Count
        PROVE  stream[i] \in Bytes
    <3>1. i \in 0 .. Count - 1
      BY <2>2, <1>1, <1>3
    <3> QED BY <3>1 DEF IInv, TypeOK
  <2>3. stream' = [i \in 0 .. Count + n - 1 |->
                     IF i < Count THEN stream[i] ELSE src[i - Count]]
    BY <1>2 DEF Store
  <2>4. stream' \in [0 .. Count + n - 1 -> Bytes]
    BY <2>1, <2>2, <2>3
  <2>5. 0 .. Count + n - 1 = 0 .. Count' - 1
    BY <1>1, <1>3
  <2> QED BY <2>4, <2>5
<1>7. TypeOK'
  BY <1>1, <1>2, <1>5, <1>6, Half, SizeAssumption DEF IInv, TypeOK
<1>8. Stream'
  <2> SUFFICES ASSUME NEW i \in 0 .. write_pos' - read_pos' - 1
               PROVE  buffer'[read_pos + i] = stream'[taken + i]
    BY <1>2 DEF Stream
  <2>1. /\ read_pos + i \in Cells /\ taken + i \in 0 .. Count + n - 1
        /\ i \in Nat
    BY <1>1, <1>2, <1>3, SizeAssumption, SMTT(20) DEF IInv, TypeOK, Cells, Count
  <2>2. CASE i < write_pos - read_pos
    <3>1. i \in 0 .. write_pos - read_pos - 1 /\ taken + i < Count
          /\ ~(write_pos <= read_pos + i)
      BY <2>1, <2>2, SizeAssumption DEF IInv, TypeOK, Count
    <3>2. buffer'[read_pos + i] = buffer[read_pos + i]
      BY <1>2, <2>1, <3>1 DEF Store
    <3>3. stream'[taken + i] = stream[taken + i]
      BY <1>2, <2>1, <3>1 DEF Store
    <3> QED BY <3>1, <3>2, <3>3 DEF IInv, Stream
  <2>3. CASE i >= write_pos - read_pos
    <3>1. /\ write_pos <= read_pos + i /\ read_pos + i < write_pos + n
          /\ ~(taken + i < Count)
          /\ read_pos + i - write_pos = taken + i - Count
      BY <1>1, <1>2, <2>1, <2>3, SizeAssumption DEF IInv, TypeOK, Count
    <3>2. buffer'[read_pos + i] = src[read_pos + i - write_pos]
      BY <1>1, <1>2, <2>1, <3>1 DEF Store, IInv, TypeOK
    <3>3. stream'[taken + i] = src[taken + i - Count]
      BY <1>1, <1>2, <1>3, <2>1, <3>1 DEF Store, IInv, TypeOK
    <3> QED BY <3>1, <3>2, <3>3
  <2> QED BY <2>1, <2>2, <2>3, SizeAssumption DEF IInv, TypeOK
<1> QED BY <1>7, <1>8 DEF IInv

(* buffer_read_nocopy: the bytes stay where they are, or all of them move  *)
(* back by the new read position.                                          *)
LEMMA ReadInv ==
  ASSUME IInv, NEW len \in Nat, buffer_read_nocopy(len)
  PROVE  IInv'
<1> DEFINE n == SmallerOf(len, buffer_read_len)
           r == read_pos + n
<1>1. n \in Nat /\ r \in Nat /\ r <= write_pos
  BY SizeAssumption DEF IInv, TypeOK, SmallerOf, buffer_read_len
<1>2. taken' = taken + n /\ stream' = stream
  BY DEF buffer_read_nocopy
<1>3. CASE r > drift_threshold
  <2>1. buffer' = Shifted(r, write_pos) /\ read_pos' = 0 /\ write_pos' = write_pos - r
    BY <1>3 DEF buffer_read_nocopy
  <2>2. \A c \in Cells : c < write_pos - r => r + c \in Cells
    BY <1>1, SizeAssumption DEF Cells, IInv, TypeOK
  <2>3. buffer' \in [Cells -> Bytes]
    BY <2>1, <2>2 DEF Shifted, IInv, TypeOK
  <2>4. Count' = Count
    BY <1>1, <1>2, <2>1, SizeAssumption DEF Count, IInv, TypeOK
  <2>5. TypeOK'
    BY <1>1, <1>2, <2>1, <2>3, <2>4, Half, SizeAssumption DEF IInv, TypeOK
  <2>6. Stream'
    <3> SUFFICES ASSUME NEW i \in 0 .. write_pos - r - 1
                 PROVE  buffer'[i] = stream[taken + n + i]
      BY <1>1, <1>2, <2>1 DEF Stream, IInv, TypeOK
    <3>1. i \in Cells /\ i < write_pos - r /\ n + i \in 0 .. write_pos - read_pos - 1
      BY <1>1, SizeAssumption DEF Cells, IInv, TypeOK
    <3>2. buffer'[i] = buffer[r + i]
      BY <2>1, <3>1 DEF Shifted
    <3>3. buffer[read_pos + (n + i)] = stream[taken + (n + i)]
      BY <3>1 DEF IInv, Stream
    <3>4. read_pos + (n + i) = r + i /\ taken + (n + i) = taken + n + i
      BY <1>1, SizeAssumption DEF IInv, TypeOK
    <3> QED BY <3>2, <3>3, <3>4
  <2> QED BY <2>5, <2>6 DEF IInv
<1>4. CASE ~(r > drift_threshold)
  <2>1. read_pos' = r /\ buffer' = buffer /\ write_pos' = write_pos
    BY <1>4 DEF buffer_read_nocopy
  <2>2. Count' = Count
    BY <1>1, <1>2, <2>1, SizeAssumption DEF Count, IInv, TypeOK
  <2>3. TypeOK'
    BY <1>1, <1>2, <1>4, <2>1, <2>2, Half, SizeAssumption DEF IInv, TypeOK
  <2>4. Stream'
    <3> SUFFICES ASSUME NEW i \in 0 .. write_pos - r - 1
                 PROVE  buffer[r + i] = stream[taken + n + i]
      BY <1>1, <1>2, <2>1 DEF Stream, IInv, TypeOK
    <3>1. n + i \in 0 .. write_pos - read_pos - 1
      BY <1>1, SizeAssumption DEF IInv, TypeOK
    <3>2. buffer[read_pos + (n + i)] = stream[taken + (n + i)]
      BY <3>1 DEF IInv, Stream
    <3>3. read_pos + (n + i) = r + i /\ taken + (n + i) = taken + n + i
      BY <1>1, SizeAssumption DEF IInv, TypeOK
    <3> QED BY <3>2, <3>3
  <2> QED BY <2>3, <2>4 DEF IInv
<1> QED BY <1>3, <1>4

(* buffer_reset: everything unread is dropped.                             *)
LEMMA ResetInv == ASSUME IInv, buffer_reset PROVE IInv'
  BY Half, SizeAssumption DEF IInv, TypeOK, Stream, Count, buffer_reset

(* Every step of the buffer preserves the invariant.                       *)
LEMMA NextInv == ASSUME IInv, [Next]_vars PROVE IInv'
<1>1. CASE \E len \in 0 .. buffer_size + 1 : \E src \in Sources(len) :
             Count + len <= MaxBytes /\ buffer_write(src, len)
  BY <1>1, WriteInv, SizeAssumption
<1>2. CASE \E len \in 0 .. buffer_size + 1 : buffer_read_nocopy(len)
  BY <1>2, ReadInv, SizeAssumption
<1>3. CASE buffer_reset
  BY <1>3, ResetInv
<1>4. CASE UNCHANGED vars
  BY <1>4 DEF vars, IInv, TypeOK, Stream, Count, Cells
<1> QED BY <1>1, <1>2, <1>3, <1>4 DEF Next

(* The invariant holds in every state of every behaviour of buffer.c.      *)
THEOREM Invariance == Spec => []IInv
<1> QED BY InitInv, NextInv, PTL DEF Spec

(* The positions never leave the buffer nor pass each other: the asserts   *)
(* in buffer_read_nocopy and buffer_write_nocopy cannot fail.              *)
THEOREM TypeCorrect == Spec => []TypeOK
<1>1. IInv => TypeOK
  BY DEF IInv
<1> QED BY <1>1, Invariance, PTL

(* The unread bytes are the last ones written, in order.                   *)
THEOREM StreamHolds == Spec => []Stream
<1>1. IInv => Stream
  BY DEF IInv
<1> QED BY <1>1, Invariance, PTL

(* The memcpy in buffer_read_nocopy never overlaps, for odd sizes too.     *)
THEOREM DriftNoOverlapHolds == Spec => DriftNoOverlap
<1> DEFINE Safe == write_pos' < write_pos => write_pos' <= taken' - taken + read_pos
<1>1. ASSUME IInv, [Next]_vars PROVE [Safe]_vars
  <2>1. CASE \E len \in 0 .. buffer_size + 1 : \E src \in Sources(len) :
               Count + len <= MaxBytes /\ buffer_write(src, len)
    <3> PICK len \in 0 .. buffer_size + 1 : \E src \in Sources(len) : buffer_write(src, len)
      BY <2>1
    <3>1. write_pos' = write_pos + SmallerOf(len, buffer_write_len)
      BY DEF buffer_write
    <3> QED BY <1>1, <3>1, SizeAssumption DEF IInv, TypeOK, SmallerOf, buffer_write_len
  <2>2. CASE \E len \in 0 .. buffer_size + 1 : buffer_read_nocopy(len)
    <3> PICK len \in 0 .. buffer_size + 1 : buffer_read_nocopy(len)
      BY <2>2
    <3> DEFINE n == SmallerOf(len, buffer_read_len)
    <3>1. n \in Nat /\ read_pos + n <= write_pos /\ taken' = taken + n
      BY <1>1, SizeAssumption DEF IInv, TypeOK, SmallerOf, buffer_read_len, buffer_read_nocopy
    <3>2. \/ read_pos + n > drift_threshold /\ write_pos' = write_pos - (read_pos + n)
          \/ write_pos' = write_pos
      BY DEF buffer_read_nocopy
    <3> QED BY <1>1, <3>1, <3>2, Half, SizeAssumption DEF IInv, TypeOK
  <2>3. CASE buffer_reset
    BY <1>1, <2>3, SizeAssumption DEF IInv, TypeOK, buffer_reset, Count
  <2> QED BY <1>1, <2>1, <2>2, <2>3 DEF Next
<1> QED BY <1>1, Invariance, PTL DEF Spec, DriftNoOverlap

(* For every buffer size and set of bytes: the bounds, the bytes and the   *)
(* moves (see Streams).                                                    *)
THEOREM StreamsHolds == Spec => Streams
<1> QED BY TypeCorrect, StreamHolds, DriftNoOverlapHolds, PTL DEF Streams

----------------------------------------------------------------------------
(* Sequences joined one after the other, as both loops visit their table.  *)

Elements(s) == {s[i] : i \in 1..Len(s)}
OnceEach(s) == \A i, j \in 1..Len(s) : s[i] = s[j] => i = j

LEMMA ConcatElements ==
  ASSUME NEW T, NEW s \in Seq(T), NEW t \in Seq(T)
  PROVE  /\ s \o t \in Seq(T) /\ Elements(s \o t) = Elements(s) \cup Elements(t)
         /\ OnceEach(s) /\ OnceEach(t) /\ Elements(s) \cap Elements(t) = {} => OnceEach(s \o t)
  <1> DEFINE w == s \o t
  <1>1. w \in Seq(T) /\ Len(w) = Len(s) + Len(t)
    BY ConcatProperties
  <1>2. \A i \in 1..Len(w) : w[i] = IF i <= Len(s) THEN s[i] ELSE t[i - Len(s)]
    BY ConcatProperties
  <1>3. Len(s) \in Nat /\ Len(t) \in Nat
    BY LenProperties
  <1> HIDE DEF w
  <1>4. Elements(w) = Elements(s) \cup Elements(t)
    <2>1. ASSUME NEW i \in 1..Len(w) PROVE w[i] \in Elements(s) \cup Elements(t)
      BY <1>1, <1>2, <1>3 DEF Elements
    <2>2. ASSUME NEW i \in 1..Len(s) PROVE s[i] \in Elements(w)
      <3>1. i \in 1..Len(w) /\ w[i] = s[i]
        BY <1>1, <1>2, <1>3
      <3> QED BY <3>1 DEF Elements
    <2>3. ASSUME NEW i \in 1..Len(t) PROVE t[i] \in Elements(w)
      <3>1. Len(s) + i \in 1..Len(w) /\ ~(Len(s) + i <= Len(s)) /\ (Len(s) + i) - Len(s) = i
        BY <1>1, <1>3
      <3>2. w[Len(s) + i] = t[i]
        BY <1>2, <3>1
      <3> QED BY <3>1, <3>2 DEF Elements
    <2>4. Elements(w) \subseteq Elements(s) \cup Elements(t)
      BY <2>1 DEF Elements
    <2>5. Elements(s) \subseteq Elements(w) /\ Elements(t) \subseteq Elements(w)
      BY <2>2, <2>3 DEF Elements
    <2> QED BY <2>4, <2>5
  <1>5. ASSUME OnceEach(s), OnceEach(t), Elements(s) \cap Elements(t) = {} PROVE OnceEach(w)
    <2> SUFFICES ASSUME NEW i \in 1..Len(w), NEW j \in 1..Len(w), w[i] = w[j] PROVE i = j
      BY DEF OnceEach
    <2>1. i \in Nat /\ j \in Nat /\ 1 <= i /\ 1 <= j
          /\ i <= Len(s) + Len(t) /\ j <= Len(s) + Len(t)
      BY <1>1
    <2>2. ASSUME NEW k \in Nat, 1 <= k, k <= Len(s) + Len(t)
          PROVE  \/ k <= Len(s) /\ k \in 1..Len(s)
                 \/ ~(k <= Len(s)) /\ k - Len(s) \in 1..Len(t)
      BY <1>3, <2>2
    <2>3. CASE i <= Len(s) /\ j <= Len(s)
      BY <1>2, <1>3, <1>5, <2>1, <2>3 DEF OnceEach
    <2>4. CASE i <= Len(s) /\ ~(j <= Len(s))
      <3>1. i \in 1..Len(s) /\ j - Len(s) \in 1..Len(t)
        BY <2>1, <2>2, <2>4
      <3>2. s[i] = t[j - Len(s)]
        BY <1>2, <2>4
      <3> QED BY <1>5, <3>1, <3>2 DEF Elements
    <2>5. CASE ~(i <= Len(s)) /\ j <= Len(s)
      <3>1. j \in 1..Len(s) /\ i - Len(s) \in 1..Len(t)
        BY <2>1, <2>2, <2>5
      <3>2. s[j] = t[i - Len(s)]
        BY <1>2, <2>5
      <3> QED BY <1>5, <3>1, <3>2 DEF Elements
    <2>6. CASE ~(i <= Len(s)) /\ ~(j <= Len(s))
      <3>1. i - Len(s) \in 1..Len(t) /\ j - Len(s) \in 1..Len(t)
        BY <2>1, <2>2, <2>6
      <3>2. t[i - Len(s)] = t[j - Len(s)]
        BY <1>2, <2>6
      <3>3. i - Len(s) = j - Len(s)
        BY <1>5, <3>1, <3>2 DEF OnceEach
      <3> QED BY <1>3, <2>1, <3>3
    <2> QED BY <2>3, <2>4, <2>5, <2>6
  <1> QED BY <1>1, <1>4, <1>5 DEF w

(* A sequence without repetitions is as long as it has elements.           *)
LEMMA LengthIsCardinality ==
  ASSUME NEW T, NEW s \in Seq(T), OnceEach(s)
  PROVE  IsFiniteSet(Elements(s)) /\ Cardinality(Elements(s)) = Len(s)
  <1> DEFINE g == [i \in 1..Len(s) |-> s[i]]
  <1>1. Len(s) \in Nat
    BY LenProperties
  <1>2. g \in [1..Len(s) -> Elements(s)]
    BY DEF Elements
  <1>3. \A i, j \in 1..Len(s) : g[i] = g[j] => i = j
    BY DEF OnceEach
  <1>4. \A x \in Elements(s) : \E i \in 1..Len(s) : g[i] = x
    BY DEF Elements
  <1>5. g \in Bijection(1..Len(s), Elements(s))
    BY <1>2, <1>3, <1>4 DEF Bijection, Injection, Surjection, IsInjective
  <1>6. IsFiniteSet(1..Len(s)) /\ Cardinality(1..Len(s)) = Len(s)
    BY <1>1, FS_Interval
  <1>7. ExistsBijection(1..Len(s), Elements(s))
    BY <1>5 DEF ExistsBijection
  <1> HIDE DEF g
  <1> QED BY <1>6, <1>7, FS_Bijection

(* What the pieces hold is what is met; once when no two share an element. *)
LEMMA JoinElements ==
  ASSUME NEW T, NEW n \in Nat, NEW piece, \A k \in 0..n - 1 : piece[k] \in Seq(T) /\ OnceEach(piece[k]),
         \A k, l \in 0..n - 1 : k # l => Elements(piece[k]) \cap Elements(piece[l]) = {},
         NEW f, Joins(f, piece)
  PROVE  /\ f[n] \in Seq(T) /\ OnceEach(f[n])
         /\ Elements(f[n]) = UNION {Elements(piece[k]) : k \in 0..n - 1}
  <1>4. f[0] = <<>> /\ \A i \in Nat : f[i + 1] = f[i] \o piece[i]
    BY JoinSteps
  <1> DEFINE Sofar(k) == UNION {Elements(piece[j]) : j \in 0..k - 1}
             P == {k \in Nat : k <= n => /\ f[k] \in Seq(T) /\ OnceEach(f[k])
                                         /\ Elements(f[k]) = Sofar(k)}
  <1>5. 0 \in P
    <2>1. <<>> \in Seq(T) /\ Len(<<>>) = 0
      OBVIOUS
    <2>2. Elements(<<>>) = {} /\ OnceEach(<<>>)
      BY <2>1 DEF Elements, OnceEach
    <2>3. Sofar(0) = {}
      OBVIOUS
    <2> HIDE DEF Sofar
    <2> QED BY <1>4, <2>1, <2>2, <2>3
  <1>6. ASSUME NEW k \in Nat, k \in P PROVE k + 1 \in P
    <2>0. Sofar(k + 1) = Sofar(k) \cup Elements(piece[k])
      <3>1. \A j : j \in 0..(k + 1) - 1 <=> j \in 0..k - 1 \/ j = k
        OBVIOUS
      <3> QED BY <3>1
    <2>a. CASE ~(k + 1 <= n)
      <3> HIDE DEF Sofar
      <3> QED BY <2>a
    <2>b. CASE k + 1 <= n
      <3>1. k \in 0..n - 1 /\ k <= n
        BY <2>b
      <3>2. Elements(f[k]) \cap Elements(piece[k]) = {}
        <4>1. \A j \in 0..k - 1 : j \in 0..n - 1 /\ j # k
          BY <2>b
        <4>2. \A j \in 0..k - 1 : Elements(piece[j]) \cap Elements(piece[k]) = {}
          BY <3>1, <4>1
        <4>3. Sofar(k) \cap Elements(piece[k]) = {}
          BY <4>2
        <4> HIDE DEF Sofar
        <4> QED BY <1>6, <3>1, <4>3
      <3> HIDE DEF Sofar
      <3>3. f[k] \in Seq(T) /\ OnceEach(f[k]) /\ Elements(f[k]) = Sofar(k)
        BY <1>6, <3>1
      <3>4. piece[k] \in Seq(T) /\ OnceEach(piece[k])
        BY <3>1
      <3>5. f[k + 1] = f[k] \o piece[k]
        BY <1>4
      <3>6. f[k + 1] \in Seq(T) /\ OnceEach(f[k + 1])
            /\ Elements(f[k + 1]) = Elements(f[k]) \cup Elements(piece[k])
        <4> DEFINE s == f[k]
                   t == piece[k]
        <4>1. s \in Seq(T) /\ t \in Seq(T) /\ OnceEach(s) /\ OnceEach(t) /\ Elements(s) \cap Elements(t) = {}
          BY <3>2, <3>3, <3>4
        <4>2. f[k + 1] = s \o t
          BY <3>5
        <4> HIDE DEF s, t
        <4>3. s \o t \in Seq(T) /\ OnceEach(s \o t) /\ Elements(s \o t) = Elements(s) \cup Elements(t)
          BY <4>1, ConcatElements
        <4>4. f[k + 1] \in Seq(T) /\ OnceEach(f[k + 1]) /\ Elements(f[k + 1]) = Elements(s) \cup Elements(t)
          BY <4>2, <4>3
        <4> QED BY <4>4 DEF s, t
      <3>7. Elements(f[k + 1]) = Sofar(k + 1)
        BY <2>0, <3>3, <3>6
      <3> QED BY <3>6, <3>7
    <2> QED BY <2>a, <2>b
  <1>7. Nat \subseteq P
    <2> HIDE DEF P
    <2> QED BY <1>5, <1>6, NatInductionSet
  <1>8. n \in P
    <2> HIDE DEF P
    <2> QED BY <1>7
  <1>9. f[n] \in Seq(T) /\ OnceEach(f[n]) /\ Elements(f[n]) = Sofar(n)
    <2> HIDE DEF Sofar
    <2>1. n <= n
      OBVIOUS
    <2> QED BY <1>8, <2>1
  <1> QED BY <1>9

----------------------------------------------------------------------------
(* The id table.                                                           *)

Places == 0..IdSlots - 1
Away(id, i) == (i - id) % IdSlots
Way(id, i) == {j \in Places : Away(id, j) < Away(id, i)}

(* Until a removal cuts a way, the slots hold each kept id once, with no   *)
(* empty slot on the way to it.                                            *)
Exact ==
  /\ \A i \in Places : slots[i] # Id!None => slots[i] \in kept
  /\ \A id \in kept : \E i \in Places : slots[i] = id
  /\ \A i, j \in Places : slots[i] # Id!None /\ slots[i] = slots[j] => i = j
  /\ \A i \in Places : slots[i] # Id!None =>
       \A j \in Way(slots[i], i) : slots[j] # Id!None

IdTypes ==
  /\ slots \in [Places -> Ids \cup {Id!None}]
  /\ kept \subseteq Ids /\ cut \in BOOLEAN

IdInv == IdTypes /\ (~cut => Exact)

(* The instance has its own copies of the standard modules.                *)
LEMMA IdCardinality == \A S : Id!Cardinality(S) = Cardinality(S)
  BY DEF Id!Cardinality, Cardinality

LEMMA NoneIsNoId == Id!None \notin Ids /\ Id!None = -1
  BY IdtableAssumption DEF Id!None

LEMMA AwayType ==
  ASSUME NEW id \in Ids, NEW i \in Places
  PROVE  Away(id, i) \in Nat /\ Away(id, i) < IdSlots
  <1>1. i - id \in Int /\ IdSlots \in Nat /\ IdSlots > 0
    BY IdtableAssumption DEF Places
  <1>2. (i - id) % IdSlots \in 0..IdSlots - 1
    BY <1>1, ModRange
  <1> QED BY <1>1, <1>2 DEF Away

(* No two slots are equally far from an id's first.                        *)
LEMMA AwayDistinct ==
  ASSUME NEW id \in Ids, NEW i \in Places, NEW j \in Places, Away(id, i) = Away(id, j)
  PROVE  i = j
  <1>1. /\ i \in Int /\ j \in Int /\ id \in Int /\ IdSlots \in Nat /\ IdSlots > 0
        /\ i < j + IdSlots /\ j < i + IdSlots
    BY IdtableAssumption DEF Places
  <1>2. i - id \in Int /\ j - id \in Int
    BY <1>1
  <1>3. CASE i < j
    <2>1. i - id < j - id /\ j - id < (i - id) + IdSlots
      BY <1>1, <1>3
    <2> QED BY <1>1, <1>2, <2>1, ModDistinct DEF Away
  <1>4. CASE j < i
    <2>1. j - id < i - id /\ i - id < (j - id) + IdSlots
      BY <1>1, <1>4
    <2> QED BY <1>1, <1>2, <2>1, ModDistinct DEF Away
  <1> QED BY <1>1, <1>3, <1>4

LEMMA BetweenIsWay ==
  ASSUME IdTypes, NEW id \in Ids, NEW i \in Places
  PROVE  Id!Between(slots, id, i) = Way(id, i)
  <1>1. DOMAIN slots = Places
    BY DEF IdTypes
  <1>2. IsFiniteSet(Places) /\ Cardinality(Places) = IdSlots
    <2>1. IdSlots \in Nat /\ IdSlots > 0 /\ IdSlots - 1 \in Int /\ ~(0 > IdSlots - 1)
          /\ (IdSlots - 1) - 0 + 1 = IdSlots
      BY IdtableAssumption
    <2> QED BY <2>1, FS_Interval DEF Places
  <1>3. Id!Cardinality(DOMAIN slots) = IdSlots
    BY <1>1, <1>2, IdCardinality
  <1> QED BY <1>1, <1>3 DEF Id!Between, Way, Away

(* The slot a probe for an empty one stops at: the nearest.                *)
LEMMA ProbeForNone ==
  ASSUME IdTypes, NEW id \in Ids
  PROVE  /\ Id!Probe(slots, id, Id!None) = {} <=> \A i \in Places : slots[i] # Id!None
         /\ Id!Probe(slots, id, Id!None) # {} =>
              \E p \in Places : /\ Id!Probe(slots, id, Id!None) = {p} /\ slots[p] = Id!None
                                /\ \A j \in Way(id, p) : slots[j] # Id!None
  <1> DEFINE Hits == Id!Probe(slots, id, Id!None)
             Near == {Away(id, i) : i \in {k \in Places : slots[k] = Id!None}}
  <1>1. \A i : i \in Hits <=> /\ i \in Places /\ slots[i] = Id!None
                              /\ \A j \in Way(id, i) : slots[j] # Id!None
    <2>1. DOMAIN slots = Places
      BY DEF IdTypes
    <2>2. Hits = {i \in Places : slots[i] = Id!None
                    /\ \A j \in Id!Between(slots, id, i) : slots[j] \notin {Id!None, Id!None}}
      BY <2>1 DEF Id!Probe
    <2> QED BY <2>2, BetweenIsWay
  <1>2. ASSUME NEW i \in Places, slots[i] = Id!None PROVE Hits # {}
    <2>1. Near \in SUBSET Nat /\ Near # {}
      BY <1>2, AwayType
    <2>2. PICK m \in Near : \A k \in Near : m <= k
      <3> HIDE DEF Near
      <3> QED BY <2>1, LeastNat
    <2>3. PICK p \in Places : slots[p] = Id!None /\ Away(id, p) = m
      BY <2>2
    <2>4. ASSUME NEW j \in Way(id, p) PROVE slots[j] # Id!None
      <3>1. j \in Places /\ Away(id, j) < m
        BY <2>3 DEF Way
      <3>2. Away(id, j) \in Nat /\ m \in Nat
        BY <2>1, <2>2, <3>1, AwayType
      <3>3. ~(m <= Away(id, j))
        BY <3>1, <3>2
      <3> QED BY <2>2, <3>1, <3>3
    <2>5. p \in Hits
      BY <1>1, <2>3, <2>4
    <2> QED BY <2>5
  <1>3. ASSUME NEW p \in Hits, NEW q \in Hits PROVE p = q
    <2> HIDE DEF Hits
    <2>1. p \in Places /\ q \in Places /\ slots[p] = Id!None /\ slots[q] = Id!None
      BY <1>1
    <2>2. ~(Away(id, p) < Away(id, q)) /\ ~(Away(id, q) < Away(id, p))
      BY <1>1, <2>1 DEF Way
    <2>3. Away(id, p) = Away(id, q)
      BY <2>1, <2>2, AwayType
    <2> QED BY <2>1, <2>3, AwayDistinct
  <1>4. Hits = {} <=> \A i \in Places : slots[i] # Id!None
    <2> HIDE DEF Hits
    <2> QED BY <1>1, <1>2
  <1>5. ASSUME Hits # {}
        PROVE  \E p \in Places : /\ Hits = {p} /\ slots[p] = Id!None
                                 /\ \A j \in Way(id, p) : slots[j] # Id!None
    <2> HIDE DEF Hits
    <2>1. PICK p \in Hits : TRUE
      BY <1>5
    <2>2. Hits = {p}
      BY <1>3, <2>1
    <2> QED BY <1>1, <2>1, <2>2
  <1> QED BY <1>4, <1>5

(* The slots a probe for an id stops at hold that id.                      *)
LEMMA ProbeForId ==
  ASSUME IdTypes, NEW id \in Ids
  PROVE  \A i : i \in Id!Probe(slots, id, id) <=>
           /\ i \in Places /\ slots[i] = id
           /\ \A j \in Way(id, i) : slots[j] \notin {id, Id!None}
  <1>1. DOMAIN slots = Places
    BY DEF IdTypes
  <1>2. Id!Probe(slots, id, id) =
          {i \in Places : slots[i] = id /\ \A j \in Id!Between(slots, id, i) : slots[j] \notin {id, Id!None}}
    BY <1>1 DEF Id!Probe
  <1> QED BY <1>2, BetweenIsWay

LEMMA WayStops ==
  ASSUME NEW id \in Ids, NEW i \in Places PROVE i \notin Way(id, i)
  BY AwayType DEF Way

(* While no way is cut, a probe finds just the kept ids, each in its slot. *)
LEMMA ProbeFinds ==
  ASSUME IdTypes, Exact, NEW id \in Ids
  PROVE  /\ id \in kept <=> Id!Probe(slots, id, id) # {}
         /\ \A i \in Places : slots[i] = id => Id!Probe(slots, id, id) = {i}
  <1>0. id # Id!None
    BY NoneIsNoId
  <1>1. ASSUME NEW i \in Places, slots[i] = id PROVE Id!Probe(slots, id, id) = {i}
    <2>1. ASSUME NEW j \in Way(id, i) PROVE slots[j] \notin {id, Id!None}
      <3>1. j \in Places /\ j # i
        BY WayStops DEF Way
      <3>2. slots[j] # Id!None
        BY <1>0, <1>1 DEF Exact
      <3>3. slots[j] # id
        BY <1>0, <1>1, <3>1 DEF Exact
      <3> QED BY <3>2, <3>3
    <2>2. i \in Id!Probe(slots, id, id)
      BY <1>1, <2>1, ProbeForId
    <2>3. \A k \in Id!Probe(slots, id, id) : k = i
      BY <1>0, <1>1, ProbeForId DEF Exact
    <2> QED BY <2>2, <2>3
  <1>2. ASSUME id \in kept PROVE Id!Probe(slots, id, id) # {}
    BY <1>1, <1>2 DEF Exact
  <1>3. ASSUME NEW i \in Id!Probe(slots, id, id) PROVE id \in kept
    <2>1. i \in Places /\ slots[i] = id
      BY ProbeForId
    <2> QED BY <1>0, <2>1 DEF Exact
  <1> QED BY <1>1, <1>2, <1>3

LEMMA EmptySlots ==
  /\ Id!Empty(IdSlots) \in [Places -> Ids \cup {Id!None}]
  /\ \A i \in Places : Id!Empty(IdSlots)[i] = Id!None
  BY DEF Id!Empty, Places

LEMMA IdInit == Id!Init => IdInv
  <1> SUFFICES ASSUME Id!Init PROVE IdInv
    OBVIOUS
  <1>1. slots = Id!Empty(IdSlots) /\ kept = {} /\ cut = FALSE
    BY DEF Id!Init
  <1>2. IdTypes
    BY <1>1, EmptySlots DEF IdTypes
  <1>3. Exact
    BY <1>1, EmptySlots DEF Exact
  <1> QED BY <1>2, <1>3 DEF IdInv

(* The new id goes to the nearest empty slot, so none is on its way.       *)
LEMMA IdAdd ==
  ASSUME IdInv, NEW id \in Ids, Id!idtable_add(id)
  PROVE  IdInv'
  <1>1. id \notin kept /\ Id!Probe(slots, id, Id!None) # {} /\ id # Id!None
    BY NoneIsNoId DEF Id!idtable_add
  <1>2. slots' = Id!Added(slots, id) /\ kept' = kept \cup {id} /\ cut' = cut
    BY DEF Id!idtable_add
  <1>3. IdTypes
    BY DEF IdInv
  <1>4. PICK p \in Places : /\ Id!Probe(slots, id, Id!None) = {p} /\ slots[p] = Id!None
                            /\ \A j \in Way(id, p) : slots[j] # Id!None
    BY <1>1, <1>3, ProbeForNone
  <1>5. slots' = [i \in Places |-> IF i = p THEN id ELSE slots[i]]
    <2>1. DOMAIN slots = Places
      BY <1>3 DEF IdTypes
    <2> QED BY <1>2, <1>4, <2>1 DEF Id!Added
  <1>6. \A i \in Places : slots'[i] = IF i = p THEN id ELSE slots[i]
    BY <1>5
  <1>7. IdTypes'
    BY <1>2, <1>3, <1>5 DEF IdTypes, Id!None
  <1>8. ASSUME ~cut PROVE Exact'
    <2>1. Exact
      BY <1>8 DEF IdInv
    <2>2. \A i \in Places : slots'[i] # Id!None => slots'[i] \in kept'
      BY <1>2, <1>6, <2>1 DEF Exact
    <2>3. \A x \in kept' : \E i \in Places : slots'[i] = x
      <3>1. ASSUME NEW x \in kept PROVE \E i \in Places : slots'[i] = x
        <4>1. PICK i \in Places : slots[i] = x
          BY <2>1 DEF Exact
        <4>2. x # Id!None
          BY <1>3, NoneIsNoId DEF IdTypes
        <4> QED BY <1>4, <1>6, <4>1, <4>2
      <3> QED BY <1>2, <1>6, <3>1
    <2>4. ASSUME NEW i \in Places, NEW j \in Places, slots'[i] # Id!None, slots'[i] = slots'[j] PROVE i = j
      <3>1. \A k \in Places : slots[k] # id
        BY <1>1, <2>1 DEF Exact
      <3> QED BY <1>6, <2>1, <2>4, <3>1 DEF Exact
    <2>5. ASSUME NEW i \in Places, slots'[i] # Id!None, NEW j \in Way(slots'[i], i) PROVE slots'[j] # Id!None
      <3>1. j \in Places
        BY DEF Way
      <3>2. CASE i = p
        BY <1>1, <1>4, <1>6, <2>5, <3>1, <3>2
      <3>3. CASE i # p
        BY <1>1, <1>6, <2>1, <2>5, <3>1, <3>3 DEF Exact
      <3> QED BY <3>2, <3>3
    <2>6. \A i \in Places : slots'[i] # Id!None => \A j \in Way(slots'[i], i) : slots'[j] # Id!None
      BY <2>5
    <2>7. Id!None' = Id!None /\ \A x, i : Way(x, i)' = Way(x, i)
      BY DEF Id!None, Way, Away, Places
    <2> QED BY <2>2, <2>3, <2>4, <2>6, <2>7 DEF Exact, Places
  <1> QED BY <1>2, <1>7, <1>8 DEF IdInv

(* A removal that leaves no gap on the way of another id keeps the rest.   *)
LEMMA IdRemove ==
  ASSUME IdInv, NEW id \in Ids, Id!idtable_remove(id)
  PROVE  IdInv'
  <1> DEFINE hit == Id!Probe(slots, id, id)
  <1>1. /\ id \in kept
        /\ slots' = [i \in DOMAIN slots |-> IF i \in hit THEN Id!None ELSE slots[i]]
        /\ kept' = kept \ {id}
        /\ cut' = (cut \/ \E i \in DOMAIN slots :
                            slots[i] \notin {id, Id!None} /\ hit \cap Id!Between(slots, slots[i], i) # {})
    BY DEF Id!idtable_remove
  <1>2. IdTypes
    BY DEF IdInv
  <1>3. DOMAIN slots = Places
    BY <1>2 DEF IdTypes
  <1>4. IdTypes'
    <2> HIDE DEF hit
    <2>1. slots' \in [Places -> Ids \cup {Id!None}]
      BY <1>1, <1>2, <1>3 DEF IdTypes
    <2>2. kept' \subseteq Ids /\ cut' \in BOOLEAN
      BY <1>1, <1>2 DEF IdTypes
    <2> QED BY <2>1, <2>2 DEF IdTypes, Places, Id!None
  <1>5. ASSUME ~cut' PROVE Exact'
    <2>1. Exact
      BY <1>1, <1>5 DEF IdInv
    <2>2. id # Id!None
      BY NoneIsNoId
    <2>3. PICK p \in Places : slots[p] = id
      BY <1>1, <2>1 DEF Exact
    <2>4. hit = {p}
      BY <1>2, <2>1, <2>3, ProbeFinds
    <2>5. \A i \in Places : slots'[i] = IF i = p THEN Id!None ELSE slots[i]
      <3> HIDE DEF hit
      <3> QED BY <1>1, <1>3, <2>4
    <2>6. ASSUME NEW i \in Places, slots[i] \notin {id, Id!None} PROVE p \notin Way(slots[i], i)
      <3>1. slots[i] \in Ids
        BY <1>2, <2>6 DEF IdTypes
      <3>2. Id!Between(slots, slots[i], i) = Way(slots[i], i)
        BY <1>2, <3>1, BetweenIsWay
      <3>3. hit \cap Id!Between(slots, slots[i], i) = {}
        <4> HIDE DEF hit
        <4> QED BY <1>1, <1>3, <1>5, <2>6
      <3> QED BY <2>4, <3>2, <3>3
    <2> HIDE DEF hit
    <2>7. \A i \in Places : i # p => slots[i] # id
      BY <2>1, <2>2, <2>3 DEF Exact
    <2>8. \A i \in Places : slots'[i] # Id!None => slots'[i] \in kept'
      BY <1>1, <2>1, <2>5, <2>7 DEF Exact
    <2>9. \A x \in kept' : \E i \in Places : slots'[i] = x
      BY <1>1, <2>1, <2>3, <2>5 DEF Exact
    <2>10. \A i, j \in Places : slots'[i] # Id!None /\ slots'[i] = slots'[j] => i = j
      BY <2>1, <2>5 DEF Exact
    <2>11. ASSUME NEW i \in Places, slots'[i] # Id!None, NEW j \in Way(slots'[i], i) PROVE slots'[j] # Id!None
      <3>1. i # p /\ slots'[i] = slots[i] /\ slots[i] \notin {id, Id!None}
        BY <2>5, <2>7, <2>11
      <3>2. j \in Way(slots[i], i) /\ j \in Places /\ j # p
        BY <2>6, <2>11, <3>1 DEF Way
      <3>3. slots[j] # Id!None
        BY <2>1, <3>1, <3>2 DEF Exact
      <3> QED BY <2>5, <3>2, <3>3
    <2>12. \A i \in Places : slots'[i] # Id!None => \A j \in Way(slots'[i], i) : slots'[j] # Id!None
      BY <2>11
    <2>13. Id!None' = Id!None /\ \A x, i : Way(x, i)' = Way(x, i)
      BY DEF Id!None, Way, Away, Places
    <2> QED BY <2>8, <2>9, <2>10, <2>12, <2>13 DEF Exact, Places
  <1> QED BY <1>4, <1>5 DEF IdInv

LEMMA IdNext == ASSUME IdInv, [Id!Next]_(Id!vars) PROVE IdInv'
  <1>1. CASE \E id \in Ids : Id!idtable_add(id)
    BY <1>1, IdAdd
  <1>2. CASE \E id \in Ids : Id!idtable_remove(id)
    BY <1>2, IdRemove
  <1>3. CASE Id!idtable_cleanup
    <2>1. slots' = Id!Empty(IdSlots) /\ kept' = {} /\ cut' = FALSE
      BY <1>3 DEF Id!idtable_cleanup
    <2>2. IdTypes'
      BY <2>1, EmptySlots DEF IdTypes, Places, Id!None
    <2>3. Exact'
      BY <2>1, EmptySlots DEF Exact, Places, Id!None
    <2> QED BY <2>2, <2>3 DEF IdInv
  <1>4. CASE UNCHANGED Id!vars
    BY <1>4 DEF Id!vars, IdInv, IdTypes, Exact, Places, Way, Away, Id!None
  <1> QED BY <1>1, <1>2, <1>3, <1>4 DEF Id!Next

(* As many slots are in use as ids are kept.                               *)
LEMMA KeptCount ==
  ASSUME IdTypes, Exact
  PROVE  /\ IsFiniteSet(kept)
         /\ Cardinality(kept) = IdSlots <=> \A i \in Places : slots[i] # Id!None
  <1> DEFINE used == {i \in Places : slots[i] # Id!None}
             g == [i \in used |-> slots[i]]
  <1>1. IsFiniteSet(Places) /\ Cardinality(Places) = IdSlots
    <2>1. IdSlots \in Nat /\ IdSlots > 0 /\ IdSlots - 1 \in Int /\ ~(0 > IdSlots - 1)
          /\ (IdSlots - 1) - 0 + 1 = IdSlots
      BY IdtableAssumption
    <2> QED BY <2>1, FS_Interval DEF Places
  <1>2. used \in SUBSET Places
    OBVIOUS
  <1>3. IsFiniteSet(used) /\ (Cardinality(used) = IdSlots <=> used = Places)
    <2> HIDE DEF used
    <2> QED BY <1>1, <1>2, FS_Subset
  <1>4. g \in [used -> kept]
    BY DEF Exact
  <1>5. \A i, j \in used : g[i] = g[j] => i = j
    BY DEF Exact
  <1>6. \A x \in kept : \E i \in used : g[i] = x
    <2>1. ASSUME NEW x \in kept PROVE \E i \in used : g[i] = x
      <3>1. PICK i \in Places : slots[i] = x
        BY DEF Exact
      <3>2. x # Id!None
        BY NoneIsNoId DEF IdTypes
      <3> QED BY <3>1, <3>2
    <2> QED BY <2>1
  <1>7. ExistsBijection(used, kept)
    <2> HIDE DEF used, g
    <2> QED BY <1>4, <1>5, <1>6 DEF ExistsBijection, Bijection, Injection, Surjection, IsInjective
  <1>8. IsFiniteSet(kept) /\ Cardinality(kept) = Cardinality(used)
    <2> HIDE DEF used
    <2> QED BY <1>3, <1>7, FS_Bijection
  <1>9. used = Places <=> \A i \in Places : slots[i] # Id!None
    OBVIOUS
  <1> HIDE DEF used
  <1> QED BY <1>3, <1>8, <1>9

(* Counting on from a start, each slot has its turn once.                  *)
LEMMA Turns ==
  ASSUME NEW start \in Nat
  PROVE  /\ \A k \in Places : (start + k) % IdSlots \in Places
         /\ \A k, l \in Places : (start + k) % IdSlots = (start + l) % IdSlots => k = l
         /\ \A i \in Places : \E k \in Places : (start + k) % IdSlots = i
  <1>0. IdSlots \in Nat /\ IdSlots > 0
    BY IdtableAssumption
  <1>1. ASSUME NEW k \in Places PROVE (start + k) % IdSlots \in Places
    <2>1. start + k \in Int
      BY DEF Places
    <2> QED BY <1>0, <2>1, ModRange DEF Places
  <1>2. ASSUME NEW k \in Places, NEW l \in Places, (start + k) % IdSlots = (start + l) % IdSlots
        PROVE  k = l
    <2>1. start + k \in Int /\ start + l \in Int /\ k \in Int /\ l \in Int
      BY DEF Places
    <2>2. CASE k < l
      <3>1. start + k < start + l /\ start + l < (start + k) + IdSlots
        BY <1>0, <2>1, <2>2 DEF Places
      <3> QED BY <1>0, <1>2, <2>1, <3>1, ModDistinct
    <2>3. CASE l < k
      <3>1. start + l < start + k /\ start + k < (start + l) + IdSlots
        BY <1>0, <2>1, <2>3 DEF Places
      <3> QED BY <1>0, <1>2, <2>1, <3>1, ModDistinct
    <2> QED BY <2>1, <2>2, <2>3
  <1>3. ASSUME NEW i \in Places PROVE \E k \in Places : (start + k) % IdSlots = i
    <2> DEFINE k == (i - start) % IdSlots
    <2>1. i - start \in Int /\ i \in Int
      BY DEF Places
    <2>2. k \in Places
      BY <1>0, <2>1, ModRange DEF Places
    <2>3. PICK q \in Int : i - start = IdSlots * q + k
      BY <1>0, <2>1, ModDecompose
    <2> HIDE DEF k
    <2>4. IdSlots * q \in Int /\ k \in Int /\ start + k = i + IdSlots * (-q) /\ -q \in Int
      BY <1>0, <2>1, <2>2, <2>3, SMTT(30) DEF Places
    <2>5. (start + k) % IdSlots = i % IdSlots
      <3> DEFINE m == -q
      <3>1. m \in Int /\ start + k = i + IdSlots * m
        BY <2>4
      <3> HIDE DEF m
      <3>2. (i + IdSlots * m) % IdSlots = i % IdSlots
        BY <1>0, <2>1, <3>1, ModShift
      <3> QED BY <3>1, <3>2
    <2>6. i % IdSlots = i
      <3>1. -IdSlots <= i /\ i < IdSlots + IdSlots /\ ~(i < 0) /\ i < IdSlots
        BY <1>0 DEF Places
      <3> QED BY <1>0, <2>1, <3>1, ModOnce
    <2> QED BY <2>2, <2>5, <2>6
  <1> QED BY <1>1, <1>2, <1>3

(* idtable_loop meets every kept id once.                                  *)
LEMMA LoopMeetsAll ==
  ASSUME IdTypes, Exact, NEW start \in Nat
  PROVE  LET v == Id!idtable_loop(start)
         IN Len(v) = Cardinality(kept) /\ {v[i] : i \in 1..Len(v)} = kept
  <1> DEFINE At(i) == slots[(start + i) % IdSlots]
             piece == [i \in Nat |-> IF At(i) = Id!None THEN <<>> ELSE <<At(i)>>]
             u == CHOOSE f : f = [i \in Nat |-> IF i = 0 THEN <<>>
                    ELSE f[i - 1] \o (IF At(i - 1) = Id!None THEN <<>> ELSE <<At(i - 1)>>)]
  <1>1. \E f : f = [i \in Nat |-> IF i = 0 THEN <<>>
                    ELSE f[i - 1] \o (IF At(i - 1) = Id!None THEN <<>> ELSE <<At(i - 1)>>)]
    <2>1. PICK f : f = [i \in Nat |-> IF i = 0 THEN <<>> ELSE f[i - 1] \o piece[i - 1]]
      <3> HIDE DEF piece
      <3> QED BY JoinExists
    <2>2. \A i \in Nat : i # 0 => i - 1 \in Nat
      OBVIOUS
    <2>3. \A i \in Nat : piece[i] = IF At(i) = Id!None THEN <<>> ELSE <<At(i)>>
      OBVIOUS
    <2> HIDE DEF piece, At
    <2>4. [i \in Nat |-> IF i = 0 THEN <<>> ELSE f[i - 1] \o piece[i - 1]]
            = [i \in Nat |-> IF i = 0 THEN <<>>
                ELSE f[i - 1] \o (IF At(i - 1) = Id!None THEN <<>> ELSE <<At(i - 1)>>)]
      BY <2>2, <2>3
    <2>5. f = [i \in Nat |-> IF i = 0 THEN <<>>
                ELSE f[i - 1] \o (IF At(i - 1) = Id!None THEN <<>> ELSE <<At(i - 1)>>)]
      BY <2>1, <2>4
    <2> QED BY <2>5
  <1>2. u = [i \in Nat |-> IF i = 0 THEN <<>>
              ELSE u[i - 1] \o (IF At(i - 1) = Id!None THEN <<>> ELSE <<At(i - 1)>>)]
    <2> HIDE DEF At
    <2> QED BY <1>1
  <1>3. Id!idtable_loop(start) = u[IdSlots]
    BY DEF Id!idtable_loop
  <1> HIDE DEF u
  <1>4. \A i \in Nat : piece[i] = IF At(i) = Id!None THEN <<>> ELSE <<At(i)>>
    OBVIOUS
  <1>5. Joins(u, piece)
    <2>1. \A i \in Nat : i # 0 => i - 1 \in Nat
      OBVIOUS
    <2> HIDE DEF piece, At
    <2> QED BY <1>2, <1>4, <2>1 DEF Joins
  <1>6. IdSlots \in Nat /\ 0..IdSlots - 1 = Places
    BY IdtableAssumption DEF Places
  <1>7. ASSUME NEW k \in Places
        PROVE  /\ piece[k] \in Seq(Ids) /\ OnceEach(piece[k])
               /\ Elements(piece[k]) = IF At(k) = Id!None THEN {} ELSE {At(k)}
    <2>1. k \in Nat /\ At(k) \in Ids \cup {Id!None}
      BY Turns DEF IdTypes, Places
    <2> HIDE DEF At, piece
    <2>2. CASE At(k) = Id!None
      <3>1. piece[k] = <<>>
        BY <1>4, <2>1, <2>2, Zenon
      <3>2. <<>> \in Seq(Ids) /\ Len(<<>>) = 0
        OBVIOUS
      <3> QED BY <2>2, <3>1, <3>2 DEF Elements, OnceEach
    <2>3. CASE At(k) # Id!None
      <3>1. piece[k] = <<At(k)>> /\ At(k) \in Ids
        BY <1>4, <2>1, <2>3
      <3>2. <<At(k)>> \in Seq(Ids) /\ Len(<<At(k)>>) = 1 /\ <<At(k)>>[1] = At(k) /\ 1..1 = {1}
        BY <3>1
      <3> QED BY <2>3, <3>1, <3>2 DEF Elements, OnceEach
    <2> QED BY <2>2, <2>3
  <1>8. ASSUME NEW k \in Places, NEW l \in Places, k # l
        PROVE  Elements(piece[k]) \cap Elements(piece[l]) = {}
    <2>1. At(k) # Id!None => At(k) # At(l)
      BY <1>8, Turns DEF Exact
    <2> HIDE DEF piece, At
    <2> QED BY <1>7, <2>1
  <1>9. UNION {Elements(piece[k]) : k \in Places} = kept
    <2>1. ASSUME NEW x \in kept PROVE \E k \in Places : x \in Elements(piece[k])
      <3>1. PICK i \in Places : slots[i] = x
        BY DEF Exact
      <3>2. PICK k \in Places : (start + k) % IdSlots = i
        BY Turns
      <3>3. At(k) = x /\ x # Id!None
        BY <3>1, <3>2, NoneIsNoId DEF IdTypes
      <3> HIDE DEF piece, At
      <3> QED BY <1>7, <3>3
    <2>2. ASSUME NEW k \in Places PROVE Elements(piece[k]) \subseteq kept
      <3>1. At(k) # Id!None => At(k) \in kept
        BY Turns DEF Exact
      <3> HIDE DEF piece, At
      <3> QED BY <1>7, <3>1
    <2> HIDE DEF piece, At
    <2> QED BY <2>1, <2>2
  <1> HIDE DEF piece, At
  <1>10. u[IdSlots] \in Seq(Ids) /\ OnceEach(u[IdSlots]) /\ Elements(u[IdSlots]) = kept
    <2>1. \A k \in 0..IdSlots - 1 : piece[k] \in Seq(Ids) /\ OnceEach(piece[k])
      BY <1>6, <1>7
    <2>2. \A k, l \in 0..IdSlots - 1 : k # l => Elements(piece[k]) \cap Elements(piece[l]) = {}
      BY <1>6, <1>8
    <2>3. /\ u[IdSlots] \in Seq(Ids) /\ OnceEach(u[IdSlots])
          /\ Elements(u[IdSlots]) = UNION {Elements(piece[k]) : k \in 0..IdSlots - 1}
      BY <1>5, <1>6, <2>1, <2>2, JoinElements
    <2> QED BY <1>6, <1>9, <2>3
  <1>11. Cardinality(kept) = Len(u[IdSlots])
    BY <1>10, LengthIsCardinality
  <1> QED BY <1>3, <1>10, <1>11 DEF Elements

LEMMA IdImplies == IdInv => Id!FindsAll
  <1> SUFFICES ASSUME IdInv, ~cut PROVE Id!FindsAll
    BY DEF Id!FindsAll
  <1>1. IdTypes /\ Exact
    BY DEF IdInv
  <1>2. \A id \in Ids : Id!idtable_get(slots, id) <=> id \in kept
    BY <1>1, ProbeFinds DEF Id!idtable_get
  <1>3. \A id \in Ids : Id!Probe(slots, id, Id!None) = {} <=> Cardinality(kept) = IdSlots
    BY <1>1, ProbeForNone, KeptCount
  <1>4. \A start \in 0..IdSlots :
          LET v == Id!idtable_loop(start)
          IN Len(v) = Cardinality(kept) /\ {v[i] : i \in 1..Len(v)} = kept
    <2>1. 0..IdSlots \subseteq Nat
      OBVIOUS
    <2> QED BY <1>1, <2>1, LoopMeetsAll
  <1> QED BY <1>2, <1>3, <1>4, IdCardinality DEF Id!FindsAll

LEMMA IdRefines ==
  /\ MCInit => Id!Init
  /\ [MCNext]_allVars => [Id!Next]_(Id!vars)
  BY DEF MCInit, MCNext, allVars, idVars, Id!vars

(* base/idtable.c: whatever ids are added and removed, for any number of   *)
(* slots, until a removal cuts a way.                                      *)
THEOREM TableIsExact == MCSpec => []FindsAll
  <1>1. MCInit => IdInv
    BY IdRefines, IdInit
  <1>2. IdInv /\ [MCNext]_allVars => IdInv'
    BY IdRefines, IdNext
  <1>3. IdInv => FindsAll
    BY IdImplies DEF FindsAll
  <1> QED BY <1>1, <1>2, <1>3, PTL DEF MCSpec

----------------------------------------------------------------------------
(* The hash table.                                                         *)

Chain(b) == htable.chain[b]

HaTypes ==
  /\ htable = [chain |-> htable.chain, count |-> htable.count]
  /\ htable.chain \in [Ha!Buckets -> Seq(Data)]
  /\ entered \subseteq Data /\ IsFiniteSet(entered)
  /\ lost \in Nat

(* An entry is in the chain of its bucket, once.                           *)
Chained ==
  /\ \A b \in Ha!Buckets : OnceEach(Chain(b)) /\ \A d \in Elements(Chain(b)) : Ha!Bucket(d) = b
  /\ \A d : d \in entered <=> \E b \in Ha!Buckets : d \in Elements(Chain(b))

HaInv ==
  /\ HaTypes /\ Chained
  /\ htable.count = Cardinality(entered) + lost

(* The instance has its own copies of the standard modules.                *)
LEMMA HaCardinality == \A S : Ha!Cardinality(S) = Cardinality(S)
  BY DEF Ha!Cardinality, Cardinality

LEMMA BucketType == \A d \in Data : Ha!Bucket(d) \in Ha!Buckets
  <1> SUFFICES ASSUME NEW d \in Data PROVE Ha!Bucket(d) \in Ha!Buckets
    OBVIOUS
  <1>1. HashKey[d] \in Int /\ m_size \in Nat /\ m_size > 0
    BY HashAssumption
  <1>2. HashKey[d] % m_size \in 0..m_size - 1
    BY <1>1, ModRange
  <1> QED BY <1>2 DEF Ha!Bucket, Ha!Buckets, HashEach

(* What was entered is in the chain of its bucket.                         *)
LEMMA InItsChain ==
  ASSUME HaInv, NEW d \in Data
  PROVE  d \in entered <=> d \in Elements(Chain(Ha!Bucket(d)))
  <1>1. Ha!Bucket(d) \in Ha!Buckets
    BY BucketType
  <1> QED BY <1>1 DEF HaInv, Chained

(* The walk along a chain stops at the entry itself.                       *)
LEMMA PlaceIs ==
  ASSUME HaInv, NEW d \in Data
  PROVE  LET c == Chain(Ha!Bucket(d))
             i == Ha!Place(htable, d)
         IN /\ d \notin entered => i = 0
            /\ d \in entered => i \in 1..Len(c) /\ i > 0 /\ c[i] = d
  <1> DEFINE c == Chain(Ha!Bucket(d))
             equal == {i \in 1..Len(c) : HashCmp(c[i], d) = 0}
  <1>1. Ha!Place(htable, d) = IF equal = {} THEN 0 ELSE CHOOSE i \in equal : \A j \in equal : i <= j
    BY DEF Ha!Place, Chain
  <1>2. \A i : i \in equal <=> i \in 1..Len(c) /\ c[i] = d
    BY DEF HashCmp
  <1>3. OnceEach(c)
    BY BucketType DEF HaInv, Chained
  <1>4. d \in entered <=> d \in Elements(c)
    BY InItsChain
  <1> HIDE DEF c, equal
  <1>5. d \in entered <=> equal # {}
    BY <1>2, <1>4 DEF Elements
  <1>6. ASSUME equal # {}
        PROVE  LET i == CHOOSE i \in equal : \A j \in equal : i <= j
               IN i \in equal
    <2>1. equal \in SUBSET Nat
      BY <1>2
    <2>2. \E i \in equal : \A j \in equal : i <= j
      BY <1>6, <2>1, LeastNat
    <2> QED BY <2>2
  <1>7. CASE equal = {}
    BY <1>1, <1>5, <1>7
  <1>8. CASE equal # {}
    <2>1. Ha!Place(htable, d) \in equal
      BY <1>1, <1>6, <1>8
    <2>2. Ha!Place(htable, d) \in 1..Len(c) /\ c[Ha!Place(htable, d)] = d
      BY <1>2, <2>1
    <2>3. Ha!Place(htable, d) > 0
      BY <2>2
    <2> QED BY <1>5, <1>8, <2>2, <2>3 DEF c
  <1> QED BY <1>7, <1>8

LEMMA EmptyTable ==
  /\ Ha!Empty.chain = [b \in Ha!Buckets |-> <<>>] /\ Ha!Empty.count = 0
  /\ \A n : [Ha!Empty EXCEPT !.count = n] = [chain |-> [b \in Ha!Buckets |-> <<>>], count |-> n]
  BY DEF Ha!Empty

LEMMA NothingChained ==
  ASSUME NEW h, NEW n, h = [chain |-> [b \in Ha!Buckets |-> <<>>], count |-> n]
  PROVE  /\ h = [chain |-> h.chain, count |-> h.count] /\ h.count = n
         /\ h.chain \in [Ha!Buckets -> Seq(Data)]
         /\ \A b \in Ha!Buckets : OnceEach(h.chain[b]) /\ Elements(h.chain[b]) = {}
  <1>1. h.chain = [b \in Ha!Buckets |-> <<>>] /\ h.count = n
    OBVIOUS
  <1>2. <<>> \in Seq(Data) /\ Len(<<>>) = 0
    OBVIOUS
  <1>3. OnceEach(<<>>) /\ Elements(<<>>) = {}
    BY <1>2 DEF OnceEach, Elements
  <1>4. h.chain \in [Ha!Buckets -> Seq(Data)]
    BY <1>1, <1>2
  <1>5. \A b \in Ha!Buckets : h.chain[b] = <<>>
    BY <1>1
  <1> QED BY <1>1, <1>3, <1>4, <1>5

LEMMA HaInit == Ha!Init => HaInv
  <1> SUFFICES ASSUME Ha!Init PROVE HaInv
    OBVIOUS
  <1>1. htable = Ha!Empty /\ entered = {} /\ lost = 0
    BY DEF Ha!Init
  <1>2. htable = [chain |-> [b \in Ha!Buckets |-> <<>>], count |-> 0]
    BY <1>1 DEF Ha!Empty
  <1>3. HaTypes
    BY <1>1, <1>2, NothingChained, FS_EmptySet DEF HaTypes
  <1>4. Chained
    BY <1>1, <1>2, NothingChained DEF Chained, Chain
  <1>5. htable.count = Cardinality(entered) + lost
    BY <1>1, <1>2, FS_EmptySet
  <1> QED BY <1>3, <1>4, <1>5 DEF HaInv

(* One chain changes: the others hold what they held.                      *)
LEMMA OneChain ==
  ASSUME HaInv, NEW b \in Ha!Buckets, NEW c \in Seq(Data), NEW gone,
         htable'.chain = [htable.chain EXCEPT ![b] = c],
         OnceEach(c), \A d \in Elements(c) : Ha!Bucket(d) = b,
         entered' = (entered \ gone) \cup Elements(c),
         \A d \in entered : d \in gone => d \in Elements(Chain(b)),
         Elements(Chain(b)) \ gone \subseteq Elements(c)
  PROVE  /\ htable'.chain \in [Ha!Buckets -> Seq(Data)]
         /\ Chained'
  <1>1. htable.chain \in [Ha!Buckets -> Seq(Data)] /\ Chained
    BY DEF HaInv, HaTypes
  <1>2. /\ htable'.chain \in [Ha!Buckets -> Seq(Data)]
        /\ \A x \in Ha!Buckets : htable'.chain[x] = IF x = b THEN c ELSE htable.chain[x]
    BY <1>1
  <1>3. \A x : Chain(x)' = htable'.chain[x]
    BY DEF Chain
  <1>4. Ha!Buckets' = Ha!Buckets /\ \A d : Ha!Bucket(d)' = Ha!Bucket(d)
    BY DEF Ha!Buckets, Ha!Bucket, HashEach
  <1>5. \A x \in Ha!Buckets : /\ OnceEach(htable'.chain[x])
                              /\ \A d \in Elements(htable'.chain[x]) : Ha!Bucket(d) = x
    BY <1>1, <1>2 DEF Chained, Chain
  <1>6. ASSUME NEW d \in entered' PROVE \E x \in Ha!Buckets : d \in Elements(htable'.chain[x])
    <2>1. CASE d \in Elements(c)
      BY <1>2, <2>1
    <2>2. CASE d \in entered /\ d \notin gone
      <3>1. PICK x \in Ha!Buckets : d \in Elements(Chain(x))
        BY <1>1, <2>2 DEF Chained
      <3>2. CASE x = b
        BY <1>2, <2>2, <3>1, <3>2
      <3>3. CASE x # b
        BY <1>2, <3>1, <3>3 DEF Chain
      <3> QED BY <3>2, <3>3
    <2> QED BY <2>1, <2>2
  <1>7. ASSUME NEW x \in Ha!Buckets, NEW d \in Elements(htable'.chain[x]) PROVE d \in entered'
    <2>1. CASE x = b
      BY <1>2, <2>1
    <2>2. CASE x # b
      <3>1. d \in Elements(Chain(x))
        BY <1>2, <2>2 DEF Chain
      <3>2. d \in entered /\ Ha!Bucket(d) = x
        BY <1>1, <3>1 DEF Chained
      <3>3. d \notin Elements(Chain(b))
        BY <1>1, <2>2, <3>2 DEF Chained
      <3> QED BY <3>2, <3>3
    <2> QED BY <2>1, <2>2
  <1>8. \A d : d \in entered' <=> \E x \in Ha!Buckets : d \in Elements(htable'.chain[x])
    BY <1>6, <1>7
  <1> QED BY <1>2, <1>3, <1>4, <1>5, <1>8 DEF Chained

LEMMA HaInsert ==
  ASSUME HaInv, NEW d \in Data, Ha!hash_insert(d)
  PROVE  HaInv'
  <1> DEFINE b == Ha!Bucket(d)
             c == Chain(b)
  <1>1. /\ Ha!Place(htable, d) = 0 /\ lost' = lost /\ entered' = entered \cup {d}
        /\ htable' = [chain |-> [htable.chain EXCEPT ![b] = Append(htable.chain[b], d)], count |-> htable.count + 1]
    BY DEF Ha!hash_insert, Ha!Inserted
  <1>2. b \in Ha!Buckets /\ c \in Seq(Data)
    BY BucketType DEF HaInv, HaTypes, Chain
  <1>3. d \notin entered
    BY <1>1, PlaceIs
  <1>4. d \notin Elements(c)
    BY <1>3, InItsChain
  <1>5. OnceEach(c) /\ \A x \in Elements(c) : Ha!Bucket(x) = b
    BY <1>2 DEF HaInv, Chained
  <1>6. Elements(c) \subseteq entered
    BY <1>2 DEF HaInv, Chained
  <1>7. htable'.chain = [htable.chain EXCEPT ![b] = Append(c, d)] /\ htable'.count = htable.count + 1
        /\ htable' = [chain |-> htable'.chain, count |-> htable'.count]
    BY <1>1 DEF Chain
  <1> HIDE DEF c
  <1>8. /\ Append(c, d) \in Seq(Data) /\ OnceEach(Append(c, d))
        /\ Elements(Append(c, d)) = Elements(c) \cup {d}
    <2>1. <<d>> \in Seq(Data) /\ Len(<<d>>) = 1 /\ <<d>>[1] = d /\ 1..1 = {1}
      OBVIOUS
    <2>2. OnceEach(<<d>>) /\ Elements(<<d>>) = {d}
      BY <2>1 DEF OnceEach, Elements
    <2>3. Append(c, d) = c \o <<d>>
      BY <1>2, AppendIsConcat
    <2>4. Elements(c) \cap Elements(<<d>>) = {}
      BY <1>4, <2>2
    <2> DEFINE t == <<d>>
    <2>5. t \in Seq(Data) /\ OnceEach(t) /\ Elements(t) = {d} /\ Append(c, d) = c \o t
          /\ Elements(c) \cap Elements(t) = {}
      BY <2>1, <2>2, <2>3, <2>4
    <2> HIDE DEF t
    <2>6. c \o t \in Seq(Data) /\ OnceEach(c \o t) /\ Elements(c \o t) = Elements(c) \cup Elements(t)
      BY <1>2, <1>5, <2>5, ConcatElements
    <2> QED BY <2>5, <2>6
  <1>9. htable'.chain \in [Ha!Buckets -> Seq(Data)] /\ Chained'
    <2>1. entered' = (entered \ {}) \cup Elements(Append(c, d))
      BY <1>1, <1>6, <1>8
    <2>2. \A x \in Elements(Append(c, d)) : Ha!Bucket(x) = b
      BY <1>5, <1>8
    <2>3. Elements(Chain(b)) \ {} \subseteq Elements(Append(c, d))
      BY <1>8 DEF c
    <2> HIDE DEF b
    <2> QED BY <1>2, <1>7, <1>8, <2>1, <2>2, <2>3, OneChain
  <1>10. HaTypes'
    <2>1. IsFiniteSet(entered') /\ entered' \subseteq Data
      BY <1>1, FS_AddElement DEF HaInv, HaTypes
    <2> QED BY <1>1, <1>7, <1>9, <2>1 DEF HaInv, HaTypes, Ha!Buckets
  <1>11. htable'.count = Cardinality(entered') + lost'
    <2>1. Cardinality(entered') = Cardinality(entered) + 1 /\ Cardinality(entered) \in Nat
      BY <1>1, <1>3, FS_AddElement, FS_CardinalityType DEF HaInv, HaTypes
    <2> QED BY <1>1, <1>7, <2>1 DEF HaInv, HaTypes
  <1> QED BY <1>9, <1>10, <1>11 DEF HaInv

(* The entries from one place of a chain to another.                       *)
LEMMA PartElements ==
  ASSUME NEW c \in Seq(Data), OnceEach(c), NEW m \in Nat \ {0}, NEW n \in Nat, n <= Len(c)
  PROVE  /\ SubSeq(c, m, n) \in Seq(Data) /\ OnceEach(SubSeq(c, m, n))
         /\ Elements(SubSeq(c, m, n)) = {c[j] : j \in m..n}
  <1> DEFINE w == SubSeq(c, m, n)
  <1>1. Len(c) \in Nat /\ \A i \in 1..Len(c) : c[i] \in Data
    BY ElementOfSeq, LenProperties
  <1>2. \A i \in m..n : i \in 1..Len(c) /\ c[i] \in Data
    BY <1>1
  <1>3. /\ w \in Seq(Data) /\ Len(w) = IF m <= n THEN n - m + 1 ELSE 0
        /\ \A i \in 1..n - m + 1 : w[i] = c[m + i - 1]
    BY <1>2, SubSeqProperties
  <1> HIDE DEF w
  <1>4. \A i \in 1..Len(w) : m + i - 1 \in m..n /\ m + i - 1 \in 1..Len(c) /\ w[i] = c[m + i - 1]
    BY <1>1, <1>3
  <1>5. \A j \in m..n : j - m + 1 \in 1..Len(w) /\ m + (j - m + 1) - 1 = j
    BY <1>3
  <1>6. OnceEach(w)
    <2> SUFFICES ASSUME NEW i \in 1..Len(w), NEW j \in 1..Len(w), w[i] = w[j] PROVE i = j
      BY DEF OnceEach
    <2>1. m + i - 1 = m + j - 1
      BY <1>4 DEF OnceEach
    <2> QED BY <2>1
  <1>7. Elements(w) = {c[j] : j \in m..n}
    <2>1. ASSUME NEW i \in 1..Len(w) PROVE w[i] \in {c[j] : j \in m..n}
      BY <1>4
    <2>2. ASSUME NEW j \in m..n PROVE c[j] \in Elements(w)
      <3>1. w[j - m + 1] = c[j]
        BY <1>4, <1>5
      <3> QED BY <1>5, <3>1 DEF Elements
    <2> QED BY <2>1, <2>2 DEF Elements
  <1> QED BY <1>3, <1>6, <1>7 DEF w

(* What hash_remove leaves of a chain, when the entry is not its head.     *)
LEMMA UnlinkedElements ==
  ASSUME NEW c \in Seq(Data), OnceEach(c), NEW i \in 1..Len(c), i # 1
  PROVE  /\ Ha!Unlinked(c, i) \in Seq(Data) /\ OnceEach(Ha!Unlinked(c, i))
         /\ Elements(Ha!Unlinked(c, i)) = Elements(c) \ {c[i]}
  <1> DEFINE s == SubSeq(c, 1, i - 1)
             t == SubSeq(c, i + 1, Len(c))
  <1>1. /\ Len(c) \in Nat /\ i \in Nat /\ i - 1 \in Nat /\ i + 1 \in Nat \ {0} /\ 1 \in Nat \ {0}
        /\ i - 1 <= Len(c) /\ Len(c) <= Len(c)
    BY LenProperties
  <1>2. s \in Seq(Data) /\ OnceEach(s) /\ Elements(s) = {c[j] : j \in 1..i - 1}
    <2> HIDE DEF s
    <2>1. /\ SubSeq(c, 1, i - 1) \in Seq(Data) /\ OnceEach(SubSeq(c, 1, i - 1))
          /\ Elements(SubSeq(c, 1, i - 1)) = {c[j] : j \in 1..i - 1}
      BY <1>1, PartElements
    <2> QED BY <2>1 DEF s
  <1>3. t \in Seq(Data) /\ OnceEach(t) /\ Elements(t) = {c[j] : j \in i + 1..Len(c)}
    <2> HIDE DEF t
    <2>1. /\ SubSeq(c, i + 1, Len(c)) \in Seq(Data) /\ OnceEach(SubSeq(c, i + 1, Len(c)))
          /\ Elements(SubSeq(c, i + 1, Len(c))) = {c[j] : j \in i + 1..Len(c)}
      BY <1>1, PartElements
    <2> QED BY <2>1 DEF t
  <1>4. Ha!Unlinked(c, i) = s \o t
    BY DEF Ha!Unlinked
  <1> HIDE DEF s, t
  <1>5. Elements(s) \cap Elements(t) = {}
    <2>1. ASSUME NEW j \in 1..i - 1, NEW k \in i + 1..Len(c) PROVE c[j] # c[k]
      <3>1. j \in 1..Len(c) /\ k \in 1..Len(c) /\ j # k
        BY <1>1
      <3> QED BY <3>1 DEF OnceEach
    <2> QED BY <1>2, <1>3, <2>1
  <1>6. Elements(s) \cup Elements(t) = Elements(c) \ {c[i]}
    <2>1. ASSUME NEW j \in 1..Len(c), j # i PROVE c[j] \in Elements(s) \cup Elements(t)
      <3>1. j \in 1..i - 1 \/ j \in i + 1..Len(c)
        BY <1>1, <2>1
      <3> QED BY <1>2, <1>3, <3>1
    <2>2. ASSUME NEW j \in 1..Len(c), j \in 1..i - 1 \/ j \in i + 1..Len(c) PROVE c[j] # c[i]
      <3>1. j # i
        BY <1>1, <2>2
      <3> QED BY <3>1 DEF OnceEach
    <2>3. \A j : j \in 1..i - 1 \/ j \in i + 1..Len(c) => j \in 1..Len(c)
      BY <1>1
    <2> QED BY <1>2, <1>3, <2>1, <2>2, <2>3 DEF Elements
  <1>7. s \o t \in Seq(Data) /\ OnceEach(s \o t) /\ Elements(s \o t) = Elements(s) \cup Elements(t)
    <2>1. s \in Seq(Data) /\ OnceEach(s) /\ t \in Seq(Data) /\ OnceEach(t)
      BY <1>2, <1>3
    <2> QED BY <1>5, <2>1, ConcatElements
  <1> QED BY <1>4, <1>6, <1>7

(* A head takes its chain along: both are counted, entered and lost.       *)
LEMMA HaRemove ==
  ASSUME HaInv, NEW d \in Data, Ha!hash_remove(d)
  PROVE  HaInv'
  <1> DEFINE b == Ha!Bucket(d)
             c == Chain(b)
             i == Ha!Place(htable, d)
             rest == IF i = 1 THEN {c[j] : j \in 2..Len(c)} ELSE {}
             w == Ha!Unlinked(c, i)
  <1>1. /\ i > 0 /\ lost' = lost + Cardinality(rest)
        /\ entered' = entered \ ({c[i]} \cup rest)
        /\ htable' = [chain |-> [htable.chain EXCEPT ![b] = w], count |-> htable.count - 1]
    BY HaCardinality DEF Ha!hash_remove, Chain
  <1>2. b \in Ha!Buckets /\ c \in Seq(Data) /\ Len(c) \in Nat
    BY BucketType, LenProperties DEF HaInv, HaTypes, Chain
  <1>3. d \in entered /\ i \in 1..Len(c) /\ c[i] = d
    BY <1>1, PlaceIs
  <1>4. OnceEach(c) /\ \A x \in Elements(c) : Ha!Bucket(x) = b
    BY <1>2 DEF HaInv, Chained
  <1>5. Elements(c) \subseteq entered
    BY <1>2 DEF HaInv, Chained
  <1>6. htable'.chain = [htable.chain EXCEPT ![b] = w] /\ htable'.count = htable.count - 1
        /\ htable' = [chain |-> htable'.chain, count |-> htable'.count]
    BY <1>1
  <1>7. /\ w \in Seq(Data) /\ OnceEach(w) /\ Elements(w) = Elements(c) \ ({d} \cup rest)
        /\ d \notin rest /\ rest \subseteq Elements(c)
    <2>1. CASE i = 1
      <3>1. w = <<>> /\ <<>> \in Seq(Data) /\ Len(<<>>) = 0
        BY <2>1 DEF Ha!Unlinked
      <3>2. OnceEach(<<>>) /\ Elements(<<>>) = {}
        BY <3>1 DEF OnceEach, Elements
      <3>3. rest = {c[j] : j \in 2..Len(c)}
        BY <2>1
      <3>4. \A j : j \in 1..Len(c) <=> j = 1 \/ j \in 2..Len(c)
        BY <1>2, <1>3
      <3>5. Elements(c) = {d} \cup rest
        <4> HIDE DEF rest, c, w
        <4> QED BY <1>3, <2>1, <3>3, <3>4 DEF Elements
      <3>6. d \notin rest
        <4>1. ASSUME NEW j \in 2..Len(c) PROVE c[j] # d
          <5>1. j \in 1..Len(c) /\ j # 1
            BY <3>4
          <5> QED BY <1>3, <1>4, <2>1, <5>1 DEF OnceEach
        <4> HIDE DEF rest, c
        <4> QED BY <3>3, <4>1
      <3> HIDE DEF rest, c, w
      <3> QED BY <3>1, <3>2, <3>5, <3>6
    <2>2. CASE i # 1
      <3>1. rest = {}
        BY <2>2
      <3> HIDE DEF rest, c, i
      <3>2. w \in Seq(Data) /\ OnceEach(w) /\ Elements(w) = Elements(c) \ {c[i]}
        BY <1>2, <1>3, <1>4, <2>2, UnlinkedElements
      <3> HIDE DEF w
      <3> QED BY <1>3, <3>1, <3>2
    <2> QED BY <2>1, <2>2
  <1>8. entered' = entered \ ({d} \cup rest)
    BY <1>1, <1>3
  <1>c. c = Chain(b)
    OBVIOUS
  <1> HIDE DEF b, c, i, rest, w
  <1>9. htable'.chain \in [Ha!Buckets -> Seq(Data)] /\ Chained'
    <2> DEFINE gone == {d} \cup rest
    <2>1. entered' = (entered \ gone) \cup Elements(w)
      BY <1>5, <1>7, <1>8
    <2>2. \A x \in Elements(w) : Ha!Bucket(x) = b
      BY <1>4, <1>7
    <2>3. \A x \in entered : x \in gone => x \in Elements(Chain(b))
      <3>1. d \in Elements(c)
        BY <1>3 DEF Elements
      <3> QED BY <1>7, <1>c, <3>1
    <2>4. Elements(Chain(b)) \ gone \subseteq Elements(w)
      BY <1>7, <1>c
    <2> HIDE DEF gone
    <2> QED BY <1>2, <1>6, <1>7, <2>1, <2>2, <2>3, <2>4, OneChain
  <1>10. /\ IsFiniteSet(entered') /\ IsFiniteSet(rest) /\ Cardinality(rest) \in Nat
         /\ Cardinality(entered) \in Nat
         /\ Cardinality(entered') = Cardinality(entered) - (Cardinality(rest) + 1)
    <2>1. IsFiniteSet(entered) /\ rest \in SUBSET entered
      BY <1>5, <1>7 DEF HaInv, HaTypes
    <2>2. IsFiniteSet(rest)
      BY <2>1, FS_Subset
    <2>3. IsFiniteSet(rest \cup {d}) /\ Cardinality(rest \cup {d}) = Cardinality(rest) + 1
      BY <1>7, <2>2, FS_AddElement
    <2>4. entered \cap (rest \cup {d}) = rest \cup {d} /\ entered' = entered \ (rest \cup {d})
      BY <1>3, <1>8, <2>1
    <2>5. /\ IsFiniteSet(entered \ (rest \cup {d}))
          /\ Cardinality(entered \ (rest \cup {d})) = Cardinality(entered) - Cardinality(entered \cap (rest \cup {d}))
      BY <2>1, FS_Difference
    <2>6. Cardinality(rest) \in Nat /\ Cardinality(entered) \in Nat
      BY <2>1, <2>2, FS_CardinalityType
    <2> QED BY <2>2, <2>3, <2>4, <2>5, <2>6
  <1>11. HaTypes'
    <2>1. entered' \subseteq Data
      BY <1>8 DEF HaInv, HaTypes
    <2>2. lost' \in Nat
      BY <1>1, <1>10 DEF HaInv, HaTypes
    <2> QED BY <1>6, <1>9, <1>10, <2>1, <2>2 DEF HaTypes, Ha!Buckets
  <1>12. htable'.count = Cardinality(entered') + lost'
    BY <1>1, <1>6, <1>10 DEF HaInv, HaTypes
  <1> QED BY <1>9, <1>11, <1>12 DEF HaInv

LEMMA HaNext == ASSUME HaInv, [Ha!Next]_(Ha!vars) PROVE HaInv'
  <1>1. CASE \E d \in Data : Ha!hash_insert(d)
    BY <1>1, HaInsert
  <1>2. CASE \E d \in Data : Ha!hash_remove(d)
    BY <1>2, HaRemove
  <1>3. ASSUME NEW n, htable' = [chain |-> [b \in Ha!Buckets |-> <<>>], count |-> n],
               n = lost', entered' = {}, lost' \in Nat
        PROVE  HaInv'
    <2>1. HaTypes'
      BY <1>3, NothingChained, FS_EmptySet DEF HaTypes, Ha!Buckets
    <2>2. Chained'
      BY <1>3, NothingChained DEF Chained, Chain, Ha!Buckets
    <2>3. htable'.count = Cardinality(entered') + lost'
      BY <1>3, NothingChained, FS_EmptySet
    <2> QED BY <2>1, <2>2, <2>3 DEF HaInv
  <1>4. CASE Ha!hash_clean
    <2>1. Cardinality(entered) \in Nat /\ lost \in Nat /\ htable.count = Cardinality(entered) + lost
      BY FS_CardinalityType DEF HaInv, HaTypes
    <2>2. /\ htable' = [Ha!Empty EXCEPT !.count = htable.count]
          /\ lost' = lost + Cardinality(entered) /\ entered' = {}
      BY <1>4, HaCardinality DEF Ha!hash_clean
    <2>3. htable' = [chain |-> [b \in Ha!Buckets |-> <<>>], count |-> htable.count]
      BY <2>2, EmptyTable
    <2>4. htable.count = lost' /\ lost' \in Nat
      BY <2>1, <2>2
    <2> QED BY <1>3, <2>2, <2>3, <2>4
  <1>5. CASE Ha!hash_release
    <2>1. htable' = [chain |-> [b \in Ha!Buckets |-> <<>>], count |-> 0] /\ entered' = {} /\ lost' = 0
      BY <1>5 DEF Ha!hash_release, Ha!Empty
    <2> QED BY <1>3, <2>1
  <1>6. CASE UNCHANGED Ha!vars
    BY <1>6 DEF Ha!vars, HaInv, HaTypes, Chained, Chain, Ha!Buckets, Ha!Bucket, HashEach
  <1> QED BY <1>1, <1>2, <1>4, <1>5, <1>6 DEF Ha!Next

(* hash_loop visits every entry once.                                      *)
LEMMA LoopVisitsAll ==
  ASSUME HaInv
  PROVE  LET visited == Ha!hash_loop(htable)
         IN Len(visited) = Cardinality(entered) /\ {visited[i] : i \in 1..Len(visited)} = entered
  <1> DEFINE u == CHOOSE f : f = [b \in Nat |-> IF b = 0 THEN <<>> ELSE f[b - 1] \o htable.chain[b - 1]]
             piece == htable.chain
  <1>1. u = [b \in Nat |-> IF b = 0 THEN <<>> ELSE u[b - 1] \o htable.chain[b - 1]]
    <2>1. \E f : f = [b \in Nat |-> IF b = 0 THEN <<>> ELSE f[b - 1] \o piece[b - 1]]
      <3> HIDE DEF piece
      <3> QED BY JoinExists
    <2> QED BY <2>1
  <1>2. Ha!hash_loop(htable) = u[m_size]
    BY DEF Ha!hash_loop
  <1>3. Joins(u, piece)
    <2> HIDE DEF u
    <2> QED BY <1>1 DEF Joins
  <1>4. m_size \in Nat /\ Ha!Buckets = 0..m_size - 1
    BY HashAssumption DEF Ha!Buckets
  <1>5. \A k \in 0..m_size - 1 : piece[k] \in Seq(Data) /\ OnceEach(piece[k])
    BY <1>4 DEF HaInv, HaTypes, Chained, Chain
  <1>6. \A k, l \in 0..m_size - 1 : k # l => Elements(piece[k]) \cap Elements(piece[l]) = {}
    BY <1>4 DEF HaInv, Chained, Chain
  <1>7. UNION {Elements(piece[k]) : k \in 0..m_size - 1} = entered
    BY <1>4 DEF HaInv, Chained, Chain
  <1> HIDE DEF u, piece
  <1>8. /\ u[m_size] \in Seq(Data) /\ OnceEach(u[m_size])
        /\ Elements(u[m_size]) = UNION {Elements(piece[k]) : k \in 0..m_size - 1}
    BY <1>3, <1>4, <1>5, <1>6, JoinElements
  <1>9. Cardinality(entered) = Len(u[m_size])
    BY <1>7, <1>8, LengthIsCardinality
  <1> QED BY <1>2, <1>7, <1>8, <1>9 DEF Elements

LEMMA HaImplies == HaInv => Ha!Found
  <1> SUFFICES ASSUME HaInv PROVE Ha!Found
    OBVIOUS
  <1>1. ASSUME NEW d \in Data PROVE Ha!hash_find(htable, d) = IF d \in entered THEN {d} ELSE {}
    <2>1. CASE d \in entered
      <3>1. /\ Ha!Place(htable, d) \in 1..Len(Chain(Ha!Bucket(d)))
            /\ Ha!Place(htable, d) > 0 /\ Chain(Ha!Bucket(d))[Ha!Place(htable, d)] = d
        BY <2>1, PlaceIs
      <3>2. Ha!Place(htable, d) # 0
        BY <3>1
      <3> QED BY <2>1, <3>1, <3>2 DEF Ha!hash_find, Chain
    <2>2. CASE d \notin entered
      BY <2>2, PlaceIs DEF Ha!hash_find
    <2> QED BY <2>1, <2>2
  <1>2. LET visited == Ha!hash_loop(htable)
        IN Len(visited) = Ha!Cardinality(entered) /\ {visited[i] : i \in 1..Len(visited)} = entered
    BY LoopVisitsAll, HaCardinality
  <1>3. htable.count = Ha!Cardinality(entered) + lost
    BY HaCardinality DEF HaInv
  <1> QED BY <1>1, <1>2, <1>3 DEF Ha!Found

LEMMA HaRefines ==
  /\ MCInit => Ha!Init
  /\ [MCNext]_allVars => [Ha!Next]_(Ha!vars)
  BY DEF MCInit, MCNext, allVars, haVars, Ha!vars

(* base/hash.c: whatever was inserted, removed and cleaned, for any data,  *)
(* any hash and any number of chains.                                      *)
THEOREM TableFinds == MCSpec => []Found
  <1>1. MCInit => HaInv
    BY HaRefines, HaInit
  <1>2. HaInv /\ [MCNext]_allVars => HaInv'
    BY HaRefines, HaNext
  <1>3. HaInv => Found
    BY HaImplies DEF Found
  <1> QED BY <1>1, <1>2, <1>3, PTL DEF MCSpec

----------------------------------------------------------------------------
(* The buddy allocator.                                                    *)

Indices == 1..Bu!tree_size - 1
SizeOf(i) == Bu!SizeFromIndex(i)
AtOf(i) == Bu!ShiftFromIndex(i)
EndOf(i) == AtOf(i) + SizeOf(i)
Taken == {i \in Indices : state[i] = "USED"}
UsedBlocks == {Bu!Block(i) : i \in Taken}

(* What a closed set of indices must hold that holds i: below i are the    *)
(* members of all of them, so that a set proves something of them.         *)
Closed(X) == \A x \in X : 2 * x < Bu!tree_size => 2 * x \in X /\ 2 * x + 1 \in X
Below(i, t) == \A X \in SUBSET Indices : i \in X /\ Closed(X) => t \in X

(* An index that has children agrees with them.                            *)
Fits(s, a, b) ==
  /\ s \in {"UNUSED", "USED"} => a = "UNUSED" /\ b = "UNUSED"
  /\ s = "FULL" <=> a \in Bu!Full /\ b \in Bu!Full
  /\ s = "SPLIT" => ~(a = "UNUSED" /\ b = "UNUSED")
Agrees(i) == Fits(state[i], state[2 * i], state[2 * i + 1])
AgreeBut(p) == \A i \in Indices \ {p} : 2 * i < Bu!tree_size => Agrees(i)
AllAgree == \A i \in Indices : 2 * i < Bu!tree_size => Agrees(i)

Brother(i) == IF i % 2 = 1 THEN i - 1 ELSE i + 1
ParentIs(i, s) == i > 1 => state[i \div 2] = s

(* The block that is still in use though nobody holds it: the one being    *)
(* freed, now or after the search of buddy_realloc.                        *)
Lent(t) == t \in Taken /\ held = UsedBlocks \ {Bu!Block(t)}
Holds(old) ==
  IF old = Bu!Null THEN held = UsedBlocks ELSE \E t \in Indices : Lent(t) /\ AtOf(t) = old

(* Every block of the size that begins before end overlaps one in use.     *)
Overlapped(k, size) == \E u \in Taken : AtOf(u) < (k + 1) * size /\ k * size < EndOf(u)
Passed(end, size) == \A k \in Nat : k * size < end => Overlapped(k, size)

Powers == {Bu!Pow2[m] : m \in 0..Order}
Olds == Nat \cup {Bu!Null}

Searching ==
  /\ bcall \in [op : {"alloc"}, index : Indices, size : Powers, old : Olds, mem : Olds]
  /\ SizeOf(bcall.index) >= bcall.size
  /\ ParentIs(bcall.index, "SPLIT")
  /\ AgreeBut(bcall.index \div 2)
  /\ AllAgree \/ state[bcall.index] = "UNUSED"
  /\ Holds(bcall.old)
  /\ Passed(AtOf(bcall.index), bcall.size)
Filling ==
  /\ bcall \in [op : {"full"}, index : Indices, size : Powers, old : Olds, mem : Olds]
  /\ state[bcall.index] \in Bu!Full
  /\ ParentIs(bcall.index, "SPLIT")
  /\ AgreeBut(bcall.index \div 2)
  /\ Holds(bcall.old)
Finding ==
  /\ bcall \in [op : {"find"}, index : Indices, offset : Nat, current : Nat, step : Nat]
  /\ bcall.current = AtOf(bcall.index) /\ bcall.step = SizeOf(bcall.index)
  /\ AllAgree
  /\ \E t \in Indices : Lent(t) /\ AtOf(t) = bcall.offset /\ Below(bcall.index, t)
(* i was freed, its parent not yet told.                                   *)
Freed(i) ==
  /\ AgreeBut(i \div 2)
  /\ ParentIs(i, IF state[Brother(i)] \in Bu!Full THEN "FULL" ELSE "SPLIT")
Merging ==
  /\ bcall \in [op : {"merge"}, index : Indices, loop : Indices]
  /\ state[bcall.loop] = "UNUSED"
  /\ \/ bcall.loop = bcall.index /\ Freed(bcall.loop)
     \/ /\ AgreeBut(bcall.loop \div 2) /\ ParentIs(bcall.loop, "SPLIT")
        /\ ParentIs(bcall.index, "UNUSED")
  /\ held = UsedBlocks
Opening ==
  /\ bcall \in [op : {"unfull"}, index : Indices, loop : Indices]
  /\ \/ AllAgree /\ (bcall.loop > 1 => state[bcall.loop \div 2] # "FULL")
     \/ /\ bcall.loop > 1 /\ Freed(bcall.loop)
        /\ state[bcall.loop] \notin Bu!Full
        /\ ~(state[bcall.loop] = "UNUSED" /\ state[Brother(bcall.loop)] = "UNUSED")
  /\ held = UsedBlocks
Waiting == bcall = Bu!Idle /\ AllAgree /\ held = UsedBlocks

Marked ==
  /\ state \in [Indices -> {"UNUSED", "USED", "SPLIT", "FULL"}]
  /\ \A i \in Indices : 2 * i >= Bu!tree_size => state[i] \in {"UNUSED", "USED"}
BuInv == Marked /\ (Waiting \/ Searching \/ Filling \/ Finding \/ Merging \/ Opening)

(* Powers of two: the recursive definition has a solution, which doubles.  *)
LEMMA Doubles ==
  /\ Bu!Pow2[0] = 1
  /\ \A k \in Nat : Bu!Pow2[k + 1] = 2 * Bu!Pow2[k] /\ Bu!Pow2[k] \in Nat \ {0}
  <1>a. PICK twice : twice = [x \in Nat \ {0} |-> 2 * x]
    OBVIOUS
  <1>b. PICK one : one = 1
    OBVIOUS
  <1>2. \A y \in Nat \ {0} : twice[y] \in Nat \ {0} /\ twice[y] = 2 * y
    BY <1>a
  <1> DEFINE w == CHOOSE f : f = [i \in Nat |-> IF i = 0 THEN one ELSE twice[f[i - 1]]]
  <1>c. w = [i \in Nat |-> IF i = 0 THEN one ELSE twice[w[i - 1]]]
    BY WalkExists
  <1> HIDE DEF w
  <1>1. PICK f : f = [i \in Nat |-> IF i = 0 THEN one ELSE twice[f[i - 1]]]
    BY <1>c
  <1>3. \A k \in Nat : f[k] \in Nat \ {0}
    <2>1. one \in Nat \ {0} /\ \A y \in Nat \ {0} : twice[y] \in Nat \ {0}
      BY <1>2, <1>b
    <2> DEFINE S == Nat \ {0}
    <2> HIDE DEF S
    <2>2. one \in S /\ \A y \in S : twice[y] \in S
      BY <2>1 DEF S
    <2>3. \A n \in Nat : f[n] \in S
      BY <1>1, <2>2, WalkStays
    <2> QED BY <2>3 DEF S
  <1>4. \A k \in Nat : f[k] = IF k = 0 THEN one ELSE twice[f[k - 1]]
    BY <1>1
  <1>5. \A k \in Nat : f[k] = IF k = 0 THEN 1 ELSE 2 * f[k - 1]
    <2> TAKE k \in Nat
    <2>1. CASE k = 0
      BY <1>4, <2>1, <1>b
    <2>2. CASE k # 0
      <3>1. k - 1 \in Nat
        BY <2>2
      <3>2. f[k - 1] \in Nat \ {0}
        BY <1>3, <3>1
      <3>3. twice[f[k - 1]] = 2 * f[k - 1]
        BY <1>2, <3>2
      <3> QED BY <1>4, <2>2, <3>3
    <2> QED BY <2>1, <2>2
  <1>6. f = [k \in Nat |-> IF k = 0 THEN 1 ELSE 2 * f[k - 1]]
    <2>1. f = [k \in Nat |-> f[k]]
      BY <1>1
    <2>2. [k \in Nat |-> f[k]] = [k \in Nat |-> IF k = 0 THEN 1 ELSE 2 * f[k - 1]]
      BY <1>5
    <2> QED BY <2>1, <2>2
  <1>7. Bu!Pow2 = [k \in Nat |-> IF k = 0 THEN 1 ELSE 2 * Bu!Pow2[k - 1]]
    BY <1>6 DEF Bu!Pow2
  <1> DEFINE p == Bu!Pow2
  <1> HIDE DEF p
  <1>8. p = [k \in Nat |-> IF k = 0 THEN 1 ELSE 2 * p[k - 1]]
    BY <1>7 DEF p
  <1>9. \A k \in Nat : p[k] = IF k = 0 THEN 1 ELSE 2 * p[k - 1]
    BY <1>8
  <1>10. p[0] = 1 /\ \A k \in Nat : p[k + 1] = 2 * p[k]
    <2>1. \A k \in Nat : k + 1 \in Nat /\ k + 1 # 0 /\ (k + 1) - 1 = k
      OBVIOUS
    <2>2. p[0] = 1
      BY <1>9
    <2>3. ASSUME NEW k \in Nat PROVE p[k + 1] = 2 * p[k]
      BY <1>9, <2>1
    <2> QED BY <2>2, <2>3
  <1>11. \A k \in Nat : p[k] \in Nat \ {0}
    <2> DEFINE P == {k \in Nat : p[k] \in Nat \ {0}}
    <2>1. 0 \in P
      BY <1>10
    <2>2. ASSUME NEW n \in Nat, n \in P PROVE n + 1 \in P
      BY <1>10, <2>2
    <2> HIDE DEF P
    <2>3. Nat \subseteq P
      BY <2>1, <2>2, NatInductionSet
    <2> QED BY <2>3 DEF P
  <1> QED BY <1>10, <1>11 DEF p

LEMMA PowerIsNat == Powers \subseteq Nat \ {0}
  <1> SUFFICES ASSUME NEW m \in 0..Order PROVE Bu!Pow2[m] \in Nat \ {0}
    BY DEF Powers
  <1>1. m \in Nat
    BY BuddyAssumption
  <1> QED BY <1>1, Doubles

(* A larger exponent makes at least twice the power.                       *)
LEMMA LargerPower ==
  ASSUME NEW a \in Nat, NEW b \in Nat, a < b
  PROVE  2 * Bu!Pow2[a] <= Bu!Pow2[b]
  <1> DEFINE p == Bu!Pow2
             P == {d \in Nat : 2 * p[a] <= p[a + d + 1]}
  <1> HIDE DEF p
  <1>1. \A k \in Nat : p[k + 1] = 2 * p[k] /\ p[k] \in Nat \ {0}
    BY Doubles DEF p
  <1>2. 0 \in P
    BY <1>1
  <1>3. ASSUME NEW n \in Nat, n \in P PROVE n + 1 \in P
    <2>1. a + n + 1 \in Nat /\ a + (n + 1) + 1 = (a + n + 1) + 1
      OBVIOUS
    <2>2. p[(a + n + 1) + 1] = 2 * p[a + n + 1] /\ p[a + n + 1] \in Nat /\ p[a] \in Nat
      BY <1>1, <2>1
    <2>3. 2 * p[a] <= p[a + n + 1]
      BY <1>3
    <2>4. 2 * p[a] <= p[a + (n + 1) + 1]
      BY <2>1, <2>2, <2>3
    <2> QED BY <2>4
  <1> HIDE DEF P
  <1>4. Nat \subseteq P
    BY <1>2, <1>3, NatInductionSet
  <1>5. b - a - 1 \in Nat /\ a + (b - a - 1) + 1 = b
    OBVIOUS
  <1>6. b - a - 1 \in P
    BY <1>4, <1>5
  <1>7. 2 * p[a] <= p[a + (b - a - 1) + 1]
    BY <1>6 DEF P
  <1>8. 2 * p[a] <= p[b]
    BY <1>5, <1>7
  <1> QED BY <1>8 DEF p

(* The product of two powers, as far as the allocator needs it.            *)
LEMMA PowerProduct ==
  ASSUME NEW m \in Nat, NEW n \in Nat
  PROVE  Bu!Pow2[m + n] = Bu!Pow2[m] * Bu!Pow2[n]
  <1> DEFINE p == Bu!Pow2
             P == {d \in Nat : p[m + d] = p[m] * p[d]}
  <1> HIDE DEF p
  <1>1. p[0] = 1 /\ \A k \in Nat : p[k + 1] = 2 * p[k] /\ p[k] \in Nat \ {0}
    BY Doubles DEF p
  <1>2. 0 \in P
    BY <1>1
  <1>3. ASSUME NEW k \in Nat, k \in P PROVE k + 1 \in P
    <2>1. m + k \in Nat /\ m + (k + 1) = (m + k) + 1
      OBVIOUS
    <2>2. p[m + (k + 1)] = 2 * p[m + k] /\ p[k + 1] = 2 * p[k]
      BY <1>1, <2>1
    <2>3. p[m + k] = p[m] * p[k]
      BY <1>3
    <2>4. p[m] \in Nat /\ p[k] \in Nat
      BY <1>1
    <2>5. ASSUME NEW x \in Nat, NEW y \in Nat PROVE 2 * (x * y) = x * (2 * y)
      BY SMT
    <2>6. p[m + (k + 1)] = p[m] * p[k + 1]
      BY <2>2, <2>3, <2>4, <2>5
    <2> QED BY <2>6
  <1> HIDE DEF P
  <1>4. Nat \subseteq P
    BY <1>2, <1>3, NatInductionSet
  <1>5. p[m + n] = p[m] * p[n]
    BY <1>4 DEF P
  <1> QED BY <1>5 DEF p
(* The sizes of the pool and of the tree.                                  *)
LEMMA PoolSizes ==
  /\ Order \in Nat /\ Bu!pool_size = Bu!Pow2[Order] /\ Bu!tree_size = Bu!Pow2[Order + 1]
  /\ Bu!pool_size \in Nat \ {0} /\ Bu!tree_size = 2 * Bu!pool_size
  /\ Indices = 1..Bu!tree_size - 1 /\ Indices \subseteq Nat \ {0} /\ 1 \in Indices
  <1>1. Order \in Nat
    BY BuddyAssumption
  <1>2. Bu!pool_size = Bu!Pow2[Order] /\ Bu!tree_size = 2 * Bu!pool_size
    BY DEF Bu!pool_size, Bu!tree_size
  <1>3. Bu!Pow2[Order] \in Nat \ {0} /\ Bu!Pow2[Order + 1] = 2 * Bu!Pow2[Order]
    BY <1>1, Doubles
  <1>4. Indices = 1..Bu!tree_size - 1
    BY DEF Indices
  <1>5. 1..Bu!tree_size - 1 \subseteq Nat \ {0} /\ 1 \in 1..Bu!tree_size - 1
    BY <1>2, <1>3
  <1> QED BY <1>1, <1>2, <1>3, <1>4, <1>5

(* A number has one integer logarithm, which ILOG2 finds.                  *)
LEMMA LogIs ==
  ASSUME NEW i \in Nat, NEW k \in 0..Order + 1, Bu!Pow2[k] <= i, i < Bu!Pow2[k + 1]
  PROVE  Bu!ILOG2(i) = k
  <1> DEFINE p == Bu!Pow2
             C(l) == p[l] <= i /\ i < p[l + 1]
  <1> HIDE DEF p
  <1>1. Order \in Nat
    BY PoolSizes
  <1>2. k \in Nat /\ C(k)
    BY <1>1 DEF p
  <1>3. ASSUME NEW l \in 0..Order + 1, C(l), l # k PROVE FALSE
    <2>1. l \in Nat /\ l + 1 \in Nat /\ k + 1 \in Nat
      BY <1>1
    <2>2. \A a \in Nat : p[a + 1] = 2 * p[a] /\ p[a] \in Nat \ {0}
      BY Doubles DEF p
    <2>3. CASE l < k
      <3>1. 2 * p[l] <= p[k]
        BY <1>2, <2>1, <2>3, LargerPower DEF p
      <3> QED BY <1>2, <1>3, <2>1, <2>2, <3>1
    <2>4. CASE k < l
      <3>1. 2 * p[k] <= p[l]
        BY <1>2, <2>1, <2>4, LargerPower DEF p
      <3> QED BY <1>2, <1>3, <2>1, <2>2, <3>1
    <2> QED BY <1>2, <1>3, <2>1, <2>3, <2>4
  <1>4. Bu!ILOG2(i) = CHOOSE l \in 0..Order + 1 : C(l)
    BY DEF Bu!ILOG2, p
  <1> HIDE DEF C
  <1>5. k \in 0..Order + 1 /\ \A l \in 0..Order + 1 : C(l) => l = k
    BY <1>2, <1>3
  <1>6. (CHOOSE l \in 0..Order + 1 : C(l)) = k
    BY <1>2, <1>5
  <1> QED BY <1>4, <1>6

LEMMA LogExists ==
  ASSUME NEW i \in Nat, 1 <= i, i < Bu!tree_size
  PROVE  \E k \in 0..Order : Bu!Pow2[k] <= i /\ i < Bu!Pow2[k + 1]
  <1> DEFINE p == Bu!Pow2
             P == {l \in Nat : i < p[l]}
  <1> HIDE DEF p
  <1>1. Order \in Nat /\ i < p[Order + 1]
    BY PoolSizes DEF p
  <1>2. Order + 1 \in P
    BY <1>1
  <1>3. PICK m \in P : \A l \in P : m <= l
    <2>1. P \in SUBSET Nat /\ P # {}
      BY <1>2
    <2> HIDE DEF P
    <2> QED BY <2>1, LeastNat
  <1>4. m # 0
    <2>1. p[0] = 1
      BY Doubles DEF p
    <2> QED BY <2>1, <1>3
  <1>5. m \in Nat /\ m <= Order + 1 /\ i < p[m]
    BY <1>2, <1>3
  <1>6. m - 1 \in 0..Order /\ m - 1 \in Nat /\ (m - 1) + 1 = m
    BY <1>1, <1>4, <1>5
  <1>7. m - 1 \notin P
    BY <1>3, <1>6
  <1>8. ~(i < p[m - 1]) /\ p[m - 1] \in Nat
    BY <1>6, <1>7, Doubles DEF p
  <1>9. p[m - 1] <= i
    BY <1>8
  <1> QED BY <1>5, <1>6, <1>9 DEF p

LEMMA Quotient == ASSUME NEW a \in Nat \ {0}, NEW b \in Nat PROVE (a * b) \div a = b
  <1>1. b \in Int /\ a \in Int /\ a > 0
    OBVIOUS
  <1> QED BY <1>1, SMTT(30)

(* The place of an index in the pool, by its level in the tree.            *)
At(i, k) ==
  /\ Bu!Pow2[k] <= i /\ i < Bu!Pow2[k + 1]
  /\ SizeOf(i) = Bu!Pow2[Order - k]
  /\ AtOf(i) = Bu!Pow2[Order - k] * (i - Bu!Pow2[k])

LEMMA AtLevel ==
  ASSUME NEW i \in Nat, NEW k \in 0..Order, Bu!Pow2[k] <= i, i < Bu!Pow2[k + 1]
  PROVE  At(i, k)
  <1>1. Order \in Nat /\ k \in Nat /\ k \in 0..Order + 1 /\ Order - k \in Nat /\ k + (Order - k) = Order
    BY PoolSizes
  <1>2. Bu!ILOG2(i) = k
    BY <1>1, LogIs
  <1>3. Bu!Pow2[k] \in Nat \ {0} /\ Bu!Pow2[Order - k] \in Nat
    BY <1>1, Doubles
  <1>4. Bu!pool_size = Bu!Pow2[k] * Bu!Pow2[Order - k]
    BY <1>1, PoolSizes, PowerProduct
  <1>5. Bu!pool_size \div Bu!Pow2[k] = Bu!Pow2[Order - k]
    BY <1>3, <1>4, Quotient
  <1>6. SizeOf(i) = Bu!Pow2[Order - k]
    BY <1>2, <1>5 DEF SizeOf, Bu!SizeFromIndex
  <1>7. AtOf(i) = SizeOf(i) * (i - Bu!Pow2[k])
    BY <1>2 DEF SizeOf, AtOf, Bu!ShiftFromIndex
  <1> QED BY <1>6, <1>7 DEF At

LEMMA AtSome == ASSUME NEW i \in Indices PROVE \E k \in 0..Order : At(i, k)
  <1>1. i \in Nat /\ 1 <= i /\ i < Bu!tree_size
    BY PoolSizes
  <1>2. PICK k \in 0..Order : Bu!Pow2[k] <= i /\ i < Bu!Pow2[k + 1]
    BY <1>1, LogExists
  <1>3. At(i, k)
    BY <1>1, <1>2, AtLevel
  <1> QED BY <1>3

LEMMA SizeType ==
  ASSUME NEW i \in Indices
  PROVE  /\ SizeOf(i) \in Nat \ {0} /\ SizeOf(i) \in Powers /\ AtOf(i) \in Nat
         /\ \E c \in Nat : AtOf(i) = SizeOf(i) * c
  <1>1. PICK k \in 0..Order : At(i, k)
    BY AtSome
  <1>2. Order - k \in 0..Order /\ Order - k \in Nat /\ k \in Nat
    BY PoolSizes
  <1>3. Bu!Pow2[Order - k] \in Nat \ {0} /\ Bu!Pow2[k] \in Nat
    BY <1>2, Doubles
  <1>4. SizeOf(i) = Bu!Pow2[Order - k] /\ AtOf(i) = SizeOf(i) * (i - Bu!Pow2[k])
    BY <1>1 DEF At
  <1>5. i - Bu!Pow2[k] \in Nat
    BY <1>1, <1>3, PoolSizes DEF At
  <1>6. ASSUME NEW a \in Nat, NEW b \in Nat PROVE a * b \in Nat
    BY SMT
  <1>7. AtOf(i) \in Nat
    BY <1>3, <1>4, <1>5, <1>6
  <1> QED BY <1>2, <1>3, <1>4, <1>5, <1>7 DEF Powers

LEMMA RootIsPool == SizeOf(1) = Bu!pool_size /\ AtOf(1) = 0
  <1>1. 1 \in Nat /\ Order \in Nat /\ 0 \in 0..Order /\ Order - 0 = Order
    BY PoolSizes
  <1>2. Bu!Pow2[0] = 1 /\ Bu!Pow2[0 + 1] = 2 * Bu!Pow2[0]
    BY Doubles
  <1>3. At(1, 0)
    BY <1>1, <1>2, AtLevel
  <1>4. Bu!Pow2[Order] \in Nat
    BY <1>1, Doubles
  <1> QED BY <1>1, <1>2, <1>3, <1>4, PoolSizes DEF At

(* The two children of an index are the halves of its block.               *)
Halved(i, l, r) ==
  /\ l \in Indices /\ r \in Indices
  /\ SizeOf(i) = SizeOf(l) + SizeOf(l) /\ SizeOf(r) = SizeOf(l)
  /\ AtOf(l) = AtOf(i) /\ AtOf(r) = AtOf(i) + SizeOf(l)

LEMMA Halves ==
  ASSUME NEW i \in Indices, 2 * i < Bu!tree_size
  PROVE  Halved(i, 2 * i, 2 * i + 1)
  <1>0. i \in Nat /\ i >= 1 /\ Order \in Nat
    BY PoolSizes
  <1>1. PICK k \in 0..Order : At(i, k)
    BY AtSome
  <1> DEFINE q == Bu!Pow2[k]
  <1>2. k \in Nat /\ k + 1 \in Nat /\ q \in Nat \ {0} /\ Bu!Pow2[k + 1] = 2 * q
        /\ Bu!Pow2[k + 1 + 1] = 2 * (2 * q)
    BY <1>0, Doubles
  <1>3. q <= i /\ i < 2 * q /\ SizeOf(i) = Bu!Pow2[Order - k]
        /\ AtOf(i) = Bu!Pow2[Order - k] * (i - q)
    BY <1>1, <1>2 DEF At
  <1>4. k # Order
    <2> SUFFICES ASSUME k = Order PROVE FALSE
      OBVIOUS
    <2>1. Bu!tree_size = 2 * q
      BY <1>2, PoolSizes
    <2> QED BY <2>1, <1>0, <1>2, <1>3
  <1>5. k + 1 \in 0..Order /\ Order - (k + 1) \in Nat /\ Order - (k + 1) + 1 = Order - k
    BY <1>0, <1>2, <1>4
  <1> DEFINE h == Bu!Pow2[Order - (k + 1)]
  <1>6. h \in Nat \ {0} /\ Bu!Pow2[Order - k] = 2 * h
    BY <1>5, Doubles
  <1>7. At(2 * i, k + 1)
    <2>1. 2 * i \in Nat /\ 2 * q <= 2 * i /\ 2 * i < 2 * (2 * q)
      BY <1>0, <1>2, <1>3
    <2> QED BY <2>1, <1>2, <1>5, AtLevel
  <1>8. At(2 * i + 1, k + 1)
    <2>1. 2 * i + 1 \in Nat /\ 2 * q <= 2 * i + 1 /\ 2 * i + 1 < 2 * (2 * q)
      BY <1>0, <1>2, <1>3
    <2> QED BY <2>1, <1>2, <1>5, AtLevel
  <1>9. SizeOf(2 * i) = h /\ SizeOf(2 * i + 1) = h /\ SizeOf(i) = h + h
    BY <1>3, <1>6, <1>7, <1>8 DEF At
  <1>10. /\ AtOf(2 * i) = h * (2 * i - 2 * q) /\ AtOf(2 * i + 1) = h * ((2 * i + 1) - 2 * q)
         /\ AtOf(i) = (2 * h) * (i - q)
    <2>1. AtOf(2 * i) = h * (2 * i - Bu!Pow2[k + 1])
      BY <1>7, Zenon DEF At
    <2>2. AtOf(2 * i + 1) = h * ((2 * i + 1) - Bu!Pow2[k + 1])
      BY <1>8, Zenon DEF At
    <2>3. Bu!Pow2[k + 1] = 2 * q
      BY <1>2
    <2>4. AtOf(i) = (2 * h) * (i - q)
      BY <1>3, <1>6, Zenon
    <2>5. AtOf(2 * i) = h * (2 * i - 2 * q) /\ AtOf(2 * i + 1) = h * ((2 * i + 1) - 2 * q)
      BY <2>1, <2>2, <2>3, Zenon
    <2> QED BY <2>4, <2>5
  <1> HIDE DEF h, q
  <1>11. AtOf(2 * i) = AtOf(i) /\ AtOf(2 * i + 1) = AtOf(i) + h
    <2>1. ASSUME NEW x \in Nat, NEW a \in Nat, NEW b \in Nat
          PROVE  x * (2 * a - 2 * b) = (2 * x) * (a - b) /\ x * ((2 * a + 1) - 2 * b) = (2 * x) * (a - b) + x
      BY SMT
    <2>2. h \in Nat /\ q \in Nat
      BY <1>2, <1>6
    <2> QED BY <2>1, <2>2, <1>0, <1>10
  <1>12. 2 * i \in Indices /\ 2 * i + 1 \in Indices
    BY <1>0, PoolSizes
  <1> QED BY <1>9, <1>11, <1>12 DEF Halved

(* A block that has no halves is a smallest one.                           *)
LEMMA LeafSize == ASSUME NEW i \in Indices, 2 * i >= Bu!tree_size PROVE SizeOf(i) = 1
  <1>0. i \in Nat /\ i < Bu!tree_size /\ Order \in Nat /\ Order \in 0..Order /\ Order - Order = 0
    BY PoolSizes
  <1>1. Bu!Pow2[Order] <= i /\ i < Bu!Pow2[Order + 1]
    BY <1>0, PoolSizes
  <1>2. At(i, Order)
    BY <1>0, <1>1, AtLevel
  <1> QED BY <1>0, <1>2, Doubles DEF At

(* A block larger than a power has halves not smaller than it.             *)
LEMMA HalfFits ==
  ASSUME NEW i \in Indices, NEW s \in Powers, SizeOf(i) > s
  PROVE  2 * i < Bu!tree_size /\ SizeOf(2 * i) >= s
  <1>0. PICK m \in 0..Order : s = Bu!Pow2[m]
    BY DEF Powers
  <1>1. m \in Nat /\ s \in Nat \ {0} /\ Order \in Nat
    BY <1>0, PoolSizes, Doubles
  <1>2. 2 * i < Bu!tree_size
    <2> SUFFICES ASSUME ~(2 * i < Bu!tree_size) PROVE FALSE
      OBVIOUS
    <2>1. 2 * i >= Bu!tree_size
      BY PoolSizes
    <2> QED BY <2>1, <1>1, LeafSize
  <1>3. PICK e \in 0..Order : SizeOf(2 * i) = Bu!Pow2[e]
    <2>1. SizeOf(2 * i) \in Powers
      BY <1>2, Halves, SizeType DEF Halved
    <2> QED BY <2>1 DEF Powers
  <1>4. e \in Nat /\ SizeOf(2 * i) \in Nat \ {0} /\ SizeOf(i) = 2 * SizeOf(2 * i)
    <2>1. SizeOf(2 * i) \in Nat \ {0} /\ SizeOf(i) = SizeOf(2 * i) + SizeOf(2 * i)
      BY <1>2, Halves, SizeType DEF Halved
    <2> QED BY <2>1, <1>1
  <1>5. SizeOf(2 * i) >= s
    <2>1. CASE e < m
      <3>1. 2 * Bu!Pow2[e] <= Bu!Pow2[m]
        BY <2>1, <1>1, <1>4, LargerPower
      <3> QED BY <3>1, <1>0, <1>1, <1>3, <1>4
    <2>2. CASE e = m
      BY <2>2, <1>0, <1>1, <1>3
    <2>3. CASE m < e
      <3>1. 2 * Bu!Pow2[m] <= Bu!Pow2[e]
        BY <2>3, <1>1, <1>4, LargerPower
      <3> QED BY <3>1, <1>0, <1>1, <1>3, <1>4
    <2> QED BY <2>1, <2>2, <2>3, <1>1, <1>4
  <1> QED BY <1>2, <1>5

(* No two indices have the same block.                                     *)
LEMMA OneIndex ==
  ASSUME NEW i \in Indices, NEW j \in Indices, Bu!Block(i) = Bu!Block(j)
  PROVE  i = j
  <1>0. SizeOf(i) = SizeOf(j) /\ AtOf(i) = AtOf(j)
    BY DEF SizeOf, AtOf, Bu!Block
  <1>1. PICK k \in 0..Order : At(i, k)
    BY AtSome
  <1>2. PICK l \in 0..Order : At(j, l)
    BY AtSome
  <1>3. Order - k \in Nat /\ Order - l \in Nat /\ k \in Nat /\ l \in Nat /\ Order \in Nat
    BY PoolSizes
  <1>4. Bu!Pow2[Order - k] = Bu!Pow2[Order - l]
    BY <1>0, <1>1, <1>2 DEF At
  <1>5. Bu!Pow2[Order - k] \in Nat \ {0} /\ Bu!Pow2[k] \in Nat
    BY <1>3, Doubles
  <1>6. ~(Order - k < Order - l) /\ ~(Order - l < Order - k)
    <2>1. ASSUME Order - k < Order - l PROVE FALSE
      <3>1. 2 * Bu!Pow2[Order - k] <= Bu!Pow2[Order - l]
        BY <2>1, <1>3, LargerPower
      <3> QED BY <3>1, <1>4, <1>5
    <2>2. ASSUME Order - l < Order - k PROVE FALSE
      <3>1. 2 * Bu!Pow2[Order - l] <= Bu!Pow2[Order - k]
        BY <2>2, <1>3, LargerPower
      <3> QED BY <3>1, <1>4, <1>5
    <2> QED BY <2>1, <2>2
  <1>7. k = l
    BY <1>3, <1>6
  <1>8. Bu!Pow2[Order - k] * (i - Bu!Pow2[k]) = Bu!Pow2[Order - k] * (j - Bu!Pow2[k])
    BY <1>0, <1>1, <1>2, <1>7 DEF At
  <1>9. ASSUME NEW x \in Nat \ {0}, NEW a \in Int, NEW b \in Int, x * a = x * b PROVE a = b
    BY <1>9, SMT
  <1>10. i \in Nat /\ j \in Nat
    BY PoolSizes
  <1>11. i - Bu!Pow2[k] \in Int /\ j - Bu!Pow2[k] \in Int
    BY <1>5, <1>10
  <1>12. i - Bu!Pow2[k] = j - Bu!Pow2[k]
    BY <1>5, <1>8, <1>9, <1>11
  <1> QED BY <1>5, <1>10, <1>12

(* Every index but the root is one of its parent's two children.           *)
Child(i, p) == p \in Indices /\ p < i /\ 2 * p < Bu!tree_size /\ (i = 2 * p \/ i = 2 * p + 1)

LEMMA ParentOf == ASSUME NEW i \in Indices, i > 1 PROVE Child(i, i \div 2)
  <1>1. i \in Nat /\ i < Bu!tree_size /\ Bu!tree_size \in Nat
    BY PoolSizes
  <1>2. i \div 2 \in Nat /\ i \div 2 >= 1 /\ i \div 2 < i /\ (i = 2 * (i \div 2) \/ i = 2 * (i \div 2) + 1)
    BY <1>1
  <1> DEFINE p == i \div 2
  <1> HIDE DEF p
  <1>3. p \in Nat /\ p >= 1 /\ p < i /\ (i = 2 * p \/ i = 2 * p + 1)
    BY <1>2 DEF p
  <1>4. p \in Indices /\ 2 * p < Bu!tree_size
    BY <1>1, <1>3, PoolSizes
  <1>5. Child(i, p)
    BY <1>3, <1>4 DEF Child
  <1> QED BY <1>5 DEF p

(* From the leaves up: what passes from its children to an index holds of  *)
(* every index.                                                            *)
Upward(P) == \A i \in Indices : (2 * i < Bu!tree_size => 2 * i \in P /\ 2 * i + 1 \in P) => i \in P

LEMMA LeavesUp ==
  ASSUME NEW P, Upward(P)
  PROVE  Indices \subseteq P
  <1> DEFINE T == Bu!tree_size
             Q == {n \in Nat : n <= T /\ T - n \in Indices \ P}
  <1> SUFFICES ASSUME NEW j \in Indices, j \notin P PROVE FALSE
    OBVIOUS
  <1>1. T \in Nat /\ Indices = 1..T - 1
    BY PoolSizes
  <1> HIDE DEF T
  <1>2. T - j \in Nat /\ T - j <= T /\ T - (T - j) = j
    BY <1>1
  <1>3. T - j \in Q
    BY <1>2
  <1>4. PICK m \in Q : \A n \in Q : m <= n
    <2>1. Q \in SUBSET Nat /\ Q # {}
      BY <1>3
    <2> HIDE DEF Q
    <2> QED BY <2>1, LeastNat
  <1> DEFINE i == T - m
  <1>5. i \in Indices /\ i \notin P /\ m \in Nat /\ m <= T
    BY <1>4
  <1>6. ASSUME NEW k \in Indices, i < k PROVE k \in P
    <2>1. T - k \in Nat /\ T - k <= T /\ T - (T - k) = k /\ T - k < m
      BY <1>1, <1>5, <1>6
    <2>2. T - k \notin Q
      BY <1>4, <1>5, <2>1
    <2> QED BY <2>1, <2>2
  <1> HIDE DEF i
  <1>7. ASSUME 2 * i < T PROVE 2 * i \in P /\ 2 * i + 1 \in P
    <2>1. i \in Nat /\ i >= 1 /\ 2 * i \in Indices /\ 2 * i + 1 \in Indices
      <3>1. i \in Indices /\ 2 * i < Bu!tree_size
        BY <1>5, <1>7 DEF T
      <3> QED BY <3>1, Halves, PoolSizes DEF Halved
    <2>2. i < 2 * i /\ i < 2 * i + 1
      BY <2>1
    <2> QED BY <1>6, <2>1, <2>2
  <1>8. i \in P
    BY <1>5, <1>7 DEF Upward, T
  <1> QED BY <1>5, <1>8

LEMMA BelowItself == \A i : Below(i, i)
  BY DEF Below

LEMMA BelowRoot == ASSUME NEW t \in Indices PROVE Below(1, t)
  <1> SUFFICES ASSUME NEW X \in SUBSET Indices, 1 \in X, Closed(X) PROVE t \in X
    BY DEF Below
  <1> SUFFICES ASSUME t \notin X PROVE FALSE
    OBVIOUS
  <1> DEFINE R == Indices \ X
  <1>1. PICK m \in R : \A k \in R : m <= k
    <2>1. R \in SUBSET Nat /\ R # {}
      BY PoolSizes
    <2> HIDE DEF R
    <2> QED BY <2>1, LeastNat
  <1>2. m \in Indices /\ m \in Nat /\ m # 1 /\ m > 1
    BY <1>1, PoolSizes
  <1> DEFINE p == m \div 2
  <1>3. Child(m, p)
    BY <1>2, ParentOf
  <1> HIDE DEF p
  <1>4. p \in Indices /\ p < m /\ p \in Nat
    BY <1>3, PoolSizes DEF Child
  <1>5. p \in X
    <2>1. ~(m <= p)
      BY <1>2, <1>4
    <2> QED BY <1>1, <1>4, <2>1
  <1>6. 2 * p \in X /\ 2 * p + 1 \in X
    BY <1>3, <1>5 DEF Child, Closed
  <1> QED BY <1>1, <1>3, <1>6 DEF Child

(* What is below an index and not it is below one of its children.         *)
LEMMA BelowChild ==
  ASSUME NEW i \in Indices, NEW t, Below(i, t), t # i
  PROVE  2 * i < Bu!tree_size /\ (Below(2 * i, t) \/ Below(2 * i + 1, t))
  <1> DEFINE Under(u) == 2 * i < Bu!tree_size /\ (Below(2 * i, u) \/ Below(2 * i + 1, u))
             X == {u \in Indices : u = i \/ Under(u)}
  <1>1. ASSUME NEW u \in Indices, NEW j, Below(j, u), 2 * u < Bu!tree_size
        PROVE  Below(j, 2 * u) /\ Below(j, 2 * u + 1)
    <2> SUFFICES ASSUME NEW Y \in SUBSET Indices, j \in Y, Closed(Y)
                 PROVE  2 * u \in Y /\ 2 * u + 1 \in Y
      BY DEF Below
    <2>1. u \in Y
      BY <1>1 DEF Below
    <2> QED BY <1>1, <2>1 DEF Closed
  <1>2. ASSUME NEW u \in Indices, u = i \/ Under(u), 2 * u < Bu!tree_size
        PROVE  2 * u \in X /\ 2 * u + 1 \in X
    <2>1. 2 * u \in Indices /\ 2 * u + 1 \in Indices
      BY <1>2, Halves DEF Halved
    <2>2. CASE u = i
      BY <2>1, <2>2, <1>2, BelowItself
    <2>3. CASE Under(u)
      BY <2>1, <2>3, <1>1, <1>2
    <2> QED BY <1>2, <2>2, <2>3
  <1>3. X \in SUBSET Indices /\ i \in X /\ Closed(X)
    BY <1>2 DEF Closed
  <1>4. t \in X
    BY <1>3 DEF Below
  <1> QED BY <1>4

(* ... and its block is part of the index's block.                         *)
Within(t, i) == AtOf(i) <= AtOf(t) /\ EndOf(t) <= EndOf(i)

LEMMA WithinHalf ==
  ASSUME NEW i \in Indices, 2 * i < Bu!tree_size
  PROVE  \A t \in Indices : Within(t, 2 * i) \/ Within(t, 2 * i + 1) => Within(t, i)
  <1> TAKE t \in Indices
  <1>1. Halved(i, 2 * i, 2 * i + 1)
    BY Halves
  <1> DEFINE l == 2 * i
             r == 2 * i + 1
  <1> HIDE DEF l, r
  <1>2. Halved(i, l, r)
    BY <1>1 DEF l, r
  <1>3. /\ AtOf(i) \in Nat /\ SizeOf(l) \in Nat /\ AtOf(t) \in Nat /\ SizeOf(t) \in Nat
    BY <1>2, SizeType DEF Halved
  <1>4. Within(t, l) \/ Within(t, r) => Within(t, i)
    BY <1>2, <1>3 DEF Halved, Within, EndOf
  <1> QED BY <1>4 DEF l, r

LEMMA WithinSelf == \A i \in Indices : Within(i, i)
  BY SizeType DEF Within, EndOf

LEMMA WithinChildren ==
  ASSUME NEW i \in Indices, NEW x \in Indices, 2 * x < Bu!tree_size, Within(x, i)
  PROVE  Within(2 * x, i) /\ Within(2 * x + 1, i)
  <1> DEFINE l == 2 * x
             r == 2 * x + 1
  <1>1. Halved(x, l, r)
    BY Halves
  <1> HIDE DEF l, r
  <1>2. AtOf(x) \in Nat /\ SizeOf(l) \in Nat /\ AtOf(i) \in Nat /\ SizeOf(i) \in Nat
    BY <1>1, SizeType DEF Halved
  <1>3. Within(l, i) /\ Within(r, i)
    BY <1>1, <1>2 DEF Halved, Within, EndOf
  <1> QED BY <1>3 DEF l, r

LEMMA BelowWithin ==
  ASSUME NEW i \in Indices, NEW t \in Indices, Below(i, t)
  PROVE  Within(t, i)
  <1> DEFINE X == {u \in Indices : Within(u, i)}
  <1>1. i \in X /\ X \in SUBSET Indices
    BY WithinSelf
  <1>2. ASSUME NEW x \in X, 2 * x < Bu!tree_size PROVE 2 * x \in X /\ 2 * x + 1 \in X
    BY <1>2, WithinChildren, Halves DEF Halved
  <1>3. Closed(X)
    BY <1>2 DEF Closed
  <1> QED BY <1>1, <1>3 DEF Below

(* Nothing is in use below a block that is used, or unused, as a whole.    *)
LEMMA NothingBelow ==
  ASSUME Marked, AllAgree, NEW i \in Indices, state[i] \in {"UNUSED", "USED"},
         NEW t \in Indices, Below(i, t), t # i
  PROVE  state[t] = "UNUSED"
  <1> DEFINE X == {u \in Indices : u = i \/ state[u] = "UNUSED"}
  <1>1. ASSUME NEW x \in X, 2 * x < Bu!tree_size PROVE 2 * x \in X /\ 2 * x + 1 \in X
    <2>1. 2 * x \in Indices /\ 2 * x + 1 \in Indices
      BY <1>1, Halves DEF Halved
    <2>2. state[x] \in {"UNUSED", "USED"}
      OBVIOUS
    <2>3. state[2 * x] = "UNUSED" /\ state[2 * x + 1] = "UNUSED"
      BY <1>1, <2>2 DEF AllAgree, Agrees, Fits
    <2> QED BY <2>1, <2>3
  <1>2. X \in SUBSET Indices /\ i \in X /\ Closed(X)
    BY <1>1 DEF Closed
  <1>3. t \in X
    BY <1>2 DEF Below
  <1> QED BY <1>3

(* A block that is not unused has memory in use in it ...                  *)
UsedIn(i) == \E u \in Indices : state[u] = "USED" /\ Within(u, i)

LEMMA SomeUsed ==
  ASSUME Marked, AllAgree, NEW i \in Indices, state[i] # "UNUSED"
  PROVE  UsedIn(i)
  <1> DEFINE P == {j \in Indices : state[j] # "UNUSED" => UsedIn(j)}
  <1>1. ASSUME NEW j \in Indices, 2 * j < Bu!tree_size => 2 * j \in P /\ 2 * j + 1 \in P
        PROVE  j \in P
    <2> SUFFICES ASSUME state[j] # "UNUSED" PROVE UsedIn(j)
      OBVIOUS
    <2>1. CASE state[j] = "USED"
      BY <2>1, WithinSelf DEF UsedIn
    <2>2. CASE state[j] # "USED"
      <3>1. state[j] \in {"SPLIT", "FULL"}
        BY <2>2 DEF Marked
      <3>2. 2 * j < Bu!tree_size
        <4>1. ~(2 * j >= Bu!tree_size)
          BY <3>1 DEF Marked
        <4> QED BY <4>1, PoolSizes
      <3>3. Agrees(j)
        BY <3>2 DEF AllAgree
      <3>4. state[2 * j] # "UNUSED" \/ state[2 * j + 1] # "UNUSED"
        BY <3>1, <3>3 DEF Agrees, Fits, Bu!Full
      <3>5. UsedIn(2 * j) \/ UsedIn(2 * j + 1)
        BY <1>1, <3>2, <3>4
      <3> QED BY <3>2, <3>5, WithinHalf DEF UsedIn
    <2> QED BY <2>1, <2>2
  <1> HIDE DEF P
  <1>2. Upward(P)
    BY <1>1 DEF Upward
  <1>3. i \in P
    BY <1>2, LeavesUp
  <1> QED BY <1>3 DEF P

(* ... and one that is used or full is in use everywhere.                  *)
UsedAt(x) == \E u \in Indices : state[u] = "USED" /\ AtOf(u) <= x /\ x < EndOf(u)

LEMMA AllUsed ==
  ASSUME Marked, AllAgree, NEW i \in Indices, state[i] \in Bu!Full
  PROVE  \A x \in Nat : AtOf(i) <= x /\ x < EndOf(i) => UsedAt(x)
  <1> DEFINE Covered(j) == \A x \in Nat : AtOf(j) <= x /\ x < EndOf(j) => UsedAt(x)
             P == {j \in Indices : state[j] \in Bu!Full => Covered(j)}
  <1>1. ASSUME NEW j \in Indices, 2 * j < Bu!tree_size => 2 * j \in P /\ 2 * j + 1 \in P
        PROVE  j \in P
    <2> SUFFICES ASSUME state[j] \in Bu!Full PROVE Covered(j)
      OBVIOUS
    <2>1. CASE state[j] = "USED"
      BY <2>1 DEF UsedAt
    <2>2. CASE state[j] # "USED"
      <3>1. state[j] = "FULL"
        BY <2>2 DEF Bu!Full
      <3>2. 2 * j < Bu!tree_size
        <4>1. ~(2 * j >= Bu!tree_size)
          BY <3>1 DEF Marked
        <4> QED BY <4>1, PoolSizes
      <3>3. Agrees(j)
        BY <3>2 DEF AllAgree
      <3>4. state[2 * j] \in Bu!Full /\ state[2 * j + 1] \in Bu!Full
        BY <3>1, <3>3 DEF Agrees, Fits
      <3>5. Covered(2 * j) /\ Covered(2 * j + 1)
        BY <1>1, <3>2, <3>4
      <3>6. Halved(j, 2 * j, 2 * j + 1)
        BY <3>2, Halves
      <3> DEFINE l == 2 * j
                 r == 2 * j + 1
      <3> HIDE DEF l, r, Covered
      <3>7. Halved(j, l, r) /\ Covered(l) /\ Covered(r)
        BY <3>5, <3>6 DEF l, r
      <3>8. ASSUME NEW x \in Nat, AtOf(j) <= x, x < EndOf(j) PROVE UsedAt(x)
        <4>1. AtOf(j) \in Nat /\ SizeOf(l) \in Nat
          BY <3>7, SizeType DEF Halved
        <4>2. (AtOf(l) <= x /\ x < EndOf(l)) \/ (AtOf(r) <= x /\ x < EndOf(r))
          BY <3>7, <3>8, <4>1 DEF Halved, EndOf
        <4> QED BY <3>7, <4>2 DEF Covered
      <3> QED BY <3>8 DEF Covered
    <2> QED BY <2>1, <2>2
  <1> HIDE DEF P
  <1>2. Upward(P)
    BY <1>1 DEF Upward
  <1>3. i \in P
    BY <1>2, LeavesUp
  <1> QED BY <1>3 DEF P

(* The climb of the search: from a right child to its parent, as long as   *)
(* it is one.                                                              *)
Climbing(f, n) == \A j \in 1..n : f[j] = IF j % 2 = 1 /\ j > 1 THEN f[j \div 2] ELSE j

LEMMA ClimbPrefix == \A n \in Nat : \E f : Climbing(f, n)
  <1> DEFINE P == {n \in Nat : \E f : Climbing(f, n)}
  <1>1. 0 \in P
    <2>1. 1..0 = {}
      OBVIOUS
    <2>2. \A f : Climbing(f, 0)
      BY <2>1 DEF Climbing
    <2> QED BY <2>2
  <1>2. ASSUME NEW n \in Nat, n \in P PROVE n + 1 \in P
    <2>1. PICK f : Climbing(f, n)
      BY <1>2
    <2> DEFINE m == n + 1
               top == IF m % 2 = 1 /\ m > 1 THEN f[m \div 2] ELSE m
               h == [j \in 1..m |-> IF j = m THEN top ELSE f[j]]
    <2>2. \A j \in 1..m : h[j] = IF j = m THEN top ELSE f[j]
      OBVIOUS
    <2> HIDE DEF h
    <2>3. ASSUME NEW j \in 1..m PROVE h[j] = IF j % 2 = 1 /\ j > 1 THEN h[j \div 2] ELSE j
      <3>1. j > 1 => j \div 2 \in 1..m /\ j \div 2 # m
        OBVIOUS
      <3>2. CASE j = m
        <4>1. h[j] = IF j % 2 = 1 /\ j > 1 THEN f[j \div 2] ELSE j
          BY <2>2, <3>2
        <4>2. j > 1 => h[j \div 2] = f[j \div 2]
          BY <2>2, <3>1
        <4> QED BY <4>1, <4>2
      <3>3. CASE j # m
        <4>1. j \in 1..n
          BY <3>3
        <4>2. h[j] = IF j % 2 = 1 /\ j > 1 THEN f[j \div 2] ELSE j
          BY <2>1, <2>2, <3>3, <4>1 DEF Climbing
        <4>3. j > 1 => h[j \div 2] = f[j \div 2]
          BY <2>2, <3>1
        <4> QED BY <4>2, <4>3
      <3> QED BY <3>2, <3>3
    <2>4. Climbing(h, n + 1)
      BY <2>3 DEF Climbing
    <2> QED BY <2>4
  <1> HIDE DEF P
  <1>3. Nat \subseteq P
    BY <1>1, <1>2, NatInductionSet
  <1> QED BY <1>3 DEF P

LEMMA ClimbExists ==
  \E f : f = [j \in 1..Bu!tree_size - 1 |-> IF j % 2 = 1 /\ j > 1 THEN f[j \div 2] ELSE j]
  <1> DEFINE n == Bu!tree_size - 1
  <1>1. n \in Nat
    BY PoolSizes
  <1> HIDE DEF n
  <1>2. PICK f : Climbing(f, n)
    BY <1>1, ClimbPrefix
  <1> DEFINE w == [j \in 1..n |-> f[j]]
  <1>3. \A j \in 1..n : w[j] = f[j]
    OBVIOUS
  <1>4. \A j \in 1..n : j > 1 => j \div 2 \in 1..n
    BY <1>1
  <1>5. w = [j \in 1..n |-> w[j]]
    OBVIOUS
  <1> HIDE DEF w
  <1>6. \A j \in 1..n : w[j] = IF j % 2 = 1 /\ j > 1 THEN w[j \div 2] ELSE j
    BY <1>2, <1>3, <1>4 DEF Climbing
  <1>7. w = [j \in 1..n |-> IF j % 2 = 1 /\ j > 1 THEN w[j \div 2] ELSE j]
    BY <1>5, <1>6
  <1> QED BY <1>7 DEF n

(* What every right child passes to its parent holds where the climb ends. *)
Climbs(X) == \A j \in X : j % 2 = 1 /\ j > 1 => j \div 2 \in X

LEMMA ClimbStays ==
  ASSUME NEW X \in SUBSET Indices, Climbs(X), NEW i \in X
  PROVE  \E u \in X : /\ u = 1 \/ u % 2 = 0
                      /\ Bu!NextIndex(i) = IF u = 1 THEN Bu!Null ELSE u + 1
  <1> DEFINE up == CHOOSE f : f = [j \in 1..Bu!tree_size - 1 |-> IF j % 2 = 1 /\ j > 1 THEN f[j \div 2] ELSE j]
  <1>1. up = [j \in 1..Bu!tree_size - 1 |-> IF j % 2 = 1 /\ j > 1 THEN up[j \div 2] ELSE j]
    BY ClimbExists
  <1>2. Bu!NextIndex(i) = IF up[i] = 1 THEN Bu!Null ELSE up[i] + 1
    BY DEF Bu!NextIndex
  <1> HIDE DEF up
  <1>3. \A j \in Indices : up[j] = IF j % 2 = 1 /\ j > 1 THEN up[j \div 2] ELSE j
    BY <1>1 DEF Indices
  <1> DEFINE Good(j) == up[j] \in X /\ (up[j] = 1 \/ up[j] % 2 = 0)
             R == {j \in X : ~Good(j)}
  <1>4. R = {}
    <2> SUFFICES ASSUME R # {} PROVE FALSE
      OBVIOUS
    <2>1. PICK m \in R : \A k \in R : m <= k
      <3>1. R \in SUBSET Nat
        BY PoolSizes
      <3> HIDE DEF R
      <3> QED BY <3>1, LeastNat
    <2>2. m \in X /\ m \in Nat /\ m >= 1 /\ m \in Indices /\ ~Good(m)
      BY <2>1, PoolSizes
    <2>3. up[m] = IF m % 2 = 1 /\ m > 1 THEN up[m \div 2] ELSE m
      BY <1>3, <2>2
    <2>4. CASE m % 2 = 1 /\ m > 1
      <3>1. m \div 2 \in X /\ m \div 2 \in Nat /\ m \div 2 < m
        BY <2>2, <2>4 DEF Climbs
      <3>2. ~(m <= m \div 2)
        BY <2>2, <3>1
      <3>3. Good(m \div 2)
        BY <2>1, <3>1, <3>2
      <3> QED BY <2>2, <2>3, <2>4, <3>3
    <2>5. CASE ~(m % 2 = 1 /\ m > 1)
      <3>1. m = 1 \/ m % 2 = 0
        BY <2>2, <2>5
      <3> QED BY <2>2, <2>3, <2>5, <3>1
    <2> QED BY <2>4, <2>5
  <1>5. Good(i)
    BY <1>4
  <1> QED BY <1>2, <1>5

(* The rounded size of a request is that of some block.                    *)
LEMMA Rounded ==
  ASSUME NEW n \in 1..Bu!pool_size
  PROVE  Bu!ROUNDUP(n) \in Powers /\ SizeOf(1) >= Bu!ROUNDUP(n)
  <1>1. ASSUME NEW m \in 0..Order PROVE Bu!Pow2[m] \in Powers /\ SizeOf(1) >= Bu!Pow2[m]
    <2>1. m \in Nat /\ Order \in Nat
      BY PoolSizes
    <2>2. Bu!Pow2[m] \in Nat /\ Bu!Pow2[Order] \in Nat
      BY <2>1, Doubles
    <2>3. Bu!Pow2[Order] >= Bu!Pow2[m]
      <3>1. CASE m = Order
        BY <3>1, <2>2
      <3>2. CASE m < Order
        <4>1. 2 * Bu!Pow2[m] <= Bu!Pow2[Order]
          BY <2>1, <3>2, LargerPower
        <4> QED BY <2>2, <4>1
      <3> QED BY <2>1, <3>1, <3>2
    <2>4. SizeOf(1) = Bu!Pow2[Order]
      BY RootIsPool, PoolSizes
    <2> QED BY <2>3, <2>4 DEF Powers
  <1>2. CASE n = 1
    <2>1. Bu!ROUNDUP(n) = 1 /\ Bu!Pow2[0] = 1 /\ 0 \in 0..Order
      BY <1>2, Doubles, PoolSizes DEF Bu!ROUNDUP
    <2> QED BY <1>1, <2>1
  <1>3. CASE n # 1
    <2>0. Order \in Nat /\ Bu!pool_size \in Nat /\ Bu!tree_size = 2 * Bu!pool_size
      BY PoolSizes
    <2>1. n - 1 \in Nat /\ 1 <= n - 1 /\ n - 1 < Bu!tree_size /\ n - 1 < Bu!pool_size
      BY <1>3, <2>0
    <2>2. PICK k \in 0..Order : Bu!Pow2[k] <= n - 1 /\ n - 1 < Bu!Pow2[k + 1]
      BY <2>1, LogExists
    <2>3. k \in Nat /\ k \in 0..Order + 1 /\ k # Order
      <3>1. Bu!Pow2[Order] = Bu!pool_size
        BY PoolSizes
      <3> QED BY <2>0, <2>1, <2>2, <3>1
    <2>4. Bu!ILOG2(n - 1) = k
      BY <2>1, <2>2, <2>3, LogIs
    <2>5. Bu!ROUNDUP(n) = Bu!Pow2[k + 1] /\ k + 1 \in 0..Order
      BY <1>3, <2>0, <2>3, <2>4 DEF Bu!ROUNDUP
    <2> QED BY <1>1, <2>5
  <1> QED BY <1>2, <1>3

(* One index marked anew: the others keep their state, and agree as before *)
(* unless one of their children is the index.                              *)
MarkedAs(p, v) == state' = [state EXCEPT ![p] = v]

LEMMA Remarked ==
  ASSUME Marked, NEW p \in Indices, NEW v \in {"UNUSED", "USED", "SPLIT", "FULL"}, MarkedAs(p, v),
         2 * p < Bu!tree_size \/ v \in {"UNUSED", "USED"}
  PROVE  /\ Marked' /\ state'[p] = v /\ \A j \in Indices \ {p} : state'[j] = state[j]
         /\ \A j \in Indices : 2 * j < Bu!tree_size /\ j # p /\ j # p \div 2 => Agrees(j)' = Agrees(j)
  <1>1. state'[p] = v /\ \A j \in Indices \ {p} : state'[j] = state[j]
    BY DEF Marked, MarkedAs
  <1>2. state' \in [Indices -> {"UNUSED", "USED", "SPLIT", "FULL"}]
    BY DEF Marked, MarkedAs
  <1>3. \A j \in Indices : 2 * j >= Bu!tree_size => state'[j] \in {"UNUSED", "USED"}
    <2> TAKE j \in Indices
    <2> HAVE 2 * j >= Bu!tree_size
    <2>1. CASE j = p
      <3>1. ~(2 * p < Bu!tree_size)
        BY <2>1, PoolSizes
      <3> QED BY <2>1, <3>1, <1>1
    <2>2. CASE j # p
      BY <2>2, <1>1 DEF Marked
    <2> QED BY <2>1, <2>2
  <1>4. ASSUME NEW j \in Indices, 2 * j < Bu!tree_size, j # p, j # p \div 2
        PROVE  Agrees(j)' = Agrees(j)
    <2>1. 2 * j # p /\ 2 * j + 1 # p
      BY <1>4, PoolSizes
    <2>2. 2 * j \in Indices /\ 2 * j + 1 \in Indices
      BY <1>4, Halves DEF Halved
    <2>3. state'[j] = state[j] /\ state'[2 * j] = state[2 * j] /\ state'[2 * j + 1] = state[2 * j + 1]
      BY <1>1, <1>4, <2>1, <2>2
    <2> QED BY <2>3 DEF Agrees
  <1> QED BY <1>1, <1>2, <1>3, <1>4 DEF Marked

(* An index, its brother and their parent.                                 *)
LEMMA Family ==
  ASSUME NEW i \in Indices, i > 1
  PROVE  /\ Child(i, i \div 2) /\ Brother(i) \in Indices /\ Brother(i) # i
         /\ Bu!Pair(i) = {i, Brother(i)}
         /\ \A s : Fits(s[i \div 2], s[2 * (i \div 2)], s[2 * (i \div 2) + 1])
                     <=> Fits(s[i \div 2], s[i], s[Brother(i)])
  <1> DEFINE p == i \div 2
  <1>1. Child(i, p)
    BY ParentOf
  <1>2. i \in Nat /\ p \in Nat /\ Bu!Pair(i) = {2 * p, 2 * p + 1}
    BY PoolSizes DEF Bu!Pair
  <1>3. 2 * p \in Indices /\ 2 * p + 1 \in Indices
    BY <1>1, Halves DEF Child, Halved
  <1> HIDE DEF p
  <1>4. CASE i = 2 * p
    <2>1. i % 2 # 1
      BY <1>2, <1>4
    <2>2. Brother(i) = 2 * p + 1
      BY <1>4, <2>1 DEF Brother
    <2>3. Brother(i) # i
      BY <1>2, <1>4, <2>2
    <2>4. \A s : Fits(s[p], s[2 * p], s[2 * p + 1]) <=> Fits(s[p], s[i], s[Brother(i)])
      BY <1>4, <2>2
    <2> QED BY <1>1, <1>2, <1>3, <1>4, <2>2, <2>3, <2>4 DEF p
  <1>5. CASE i = 2 * p + 1
    <2>1. i % 2 = 1 /\ i - 1 = 2 * p
      BY <1>2, <1>5
    <2>2. Brother(i) = 2 * p
      BY <1>5, <2>1 DEF Brother
    <2>3. Brother(i) # i
      BY <1>2, <1>5, <2>2
    <2>4. \A s, a, b : Fits(s, a, b) <=> Fits(s, b, a)
      BY DEF Fits
    <2>5. \A s : Fits(s[p], s[2 * p], s[2 * p + 1]) <=> Fits(s[p], s[i], s[Brother(i)])
      BY <1>5, <2>2, <2>4
    <2> QED BY <1>1, <1>2, <1>3, <1>5, <2>2, <2>3, <2>5 DEF p
  <1> QED BY <1>1, <1>4, <1>5 DEF Child

LEMMA ParentAgrees ==
  ASSUME NEW i \in Indices, i > 1
  PROVE  /\ Agrees(i \div 2) <=> Fits(state[i \div 2], state[i], state[Brother(i)])
         /\ Agrees(i \div 2)' <=> Fits(state'[i \div 2], state'[i], state'[Brother(i)])
  BY Family DEF Agrees

(* The blocks in use, after one more, one less, or none of them changed.   *)
LEMMA BlocksKept ==
  ASSUME Marked, NEW p \in Indices, NEW v \in {"UNUSED", "SPLIT", "FULL"}, MarkedAs(p, v),
         state[p] # "USED"
  PROVE  Taken' = Taken /\ UsedBlocks' = UsedBlocks
  <1>1. state'[p] = v /\ \A j \in Indices \ {p} : state'[j] = state[j]
    BY DEF Marked, MarkedAs
  <1>2. v # "USED"
    OBVIOUS
  <1>3. \A j \in Indices : state'[j] = "USED" <=> state[j] = "USED"
    BY <1>1, <1>2
  <1>4. Taken' = Taken
    BY <1>3 DEF Taken
  <1> QED BY <1>4 DEF UsedBlocks

LEMMA BlocksMore ==
  ASSUME Marked, NEW i \in Indices, MarkedAs(i, "USED"), state[i] # "USED"
  PROVE  /\ Taken' = Taken \cup {i} /\ UsedBlocks' = UsedBlocks \cup {Bu!Block(i)}
         /\ \A t \in Taken : UsedBlocks' \ {Bu!Block(t)} = (UsedBlocks \ {Bu!Block(t)}) \cup {Bu!Block(i)}
  <1>1. state'[i] = "USED" /\ \A j \in Indices \ {i} : state'[j] = state[j]
    BY DEF Marked, MarkedAs
  <1>2. Taken' = Taken \cup {i}
    BY <1>1 DEF Taken
  <1>3. UsedBlocks' = UsedBlocks \cup {Bu!Block(i)}
    BY <1>2 DEF UsedBlocks
  <1>4. ASSUME NEW t \in Taken PROVE Bu!Block(t) # Bu!Block(i)
    <2>1. t \in Indices /\ t # i
      BY DEF Taken
    <2> QED BY <2>1, OneIndex
  <1> QED BY <1>2, <1>3, <1>4

LEMMA BlocksLess ==
  ASSUME Marked, NEW i \in Indices, MarkedAs(i, "UNUSED"), state[i] = "USED"
  PROVE  UsedBlocks' = UsedBlocks \ {Bu!Block(i)}
  <1>1. state'[i] = "UNUSED" /\ \A j \in Indices \ {i} : state'[j] = state[j]
    BY DEF Marked, MarkedAs
  <1>2. Taken' = Taken \ {i} /\ i \in Taken
    BY <1>1 DEF Taken
  <1>3. \A t \in Taken : Bu!Block(t) = Bu!Block(i) => t = i
    BY OneIndex DEF Taken
  <1>4. ASSUME NEW b PROVE b \in UsedBlocks' <=> b \in UsedBlocks \ {Bu!Block(i)}
    <2>1. b \in UsedBlocks' <=> \E t \in Taken \ {i} : b = Bu!Block(t)
      BY <1>2 DEF UsedBlocks
    <2>2. b \in UsedBlocks <=> \E t \in Taken : b = Bu!Block(t)
      BY DEF UsedBlocks
    <2> QED BY <1>2, <1>3, <2>1, <2>2
  <1> QED BY <1>4

----------------------------------------------------------------------------
(* The calls. *)

LEMMA BuInit == Bu!Init => BuInv
  <1> SUFFICES ASSUME Bu!Init PROVE BuInv
    OBVIOUS
  <1>1. state = [i \in Indices |-> "UNUSED"] /\ bcall = Bu!Idle /\ held = {}
    BY DEF Bu!Init, Indices
  <1>2. \A i \in Indices : state[i] = "UNUSED"
    BY <1>1
  <1>3. Marked
    BY <1>1 DEF Marked
  <1>4. AllAgree
    <2> SUFFICES ASSUME NEW i \in Indices, 2 * i < Bu!tree_size PROVE Agrees(i)
      BY DEF AllAgree
    <2>1. 2 * i \in Indices /\ 2 * i + 1 \in Indices
      BY Halves DEF Halved
    <2> QED BY <1>2, <2>1 DEF Agrees, Fits, Bu!Full
  <1>5. UsedBlocks = {}
    BY <1>2 DEF UsedBlocks, Taken
  <1> QED BY <1>1, <1>3, <1>4, <1>5 DEF BuInv, Waiting

(* The phase of the call in progress.                                      *)
LEMMA Phase ==
  ASSUME BuInv
  PROVE  /\ Marked
         /\ bcall = Bu!Idle => Waiting
         /\ bcall.op = "alloc" => Searching
         /\ bcall.op = "full" => Filling
         /\ bcall.op = "find" => Finding
         /\ bcall.op = "merge" => Merging
         /\ bcall.op = "unfull" => Opening
  <1>1. bcall = Bu!Idle => bcall.op = "idle"
    BY DEF Bu!Idle
  <1>2. Waiting => bcall.op = "idle"
    BY <1>1 DEF Waiting
  <1>3. Searching => bcall.op = "alloc"
    BY DEF Searching
  <1>4. Filling => bcall.op = "full"
    BY DEF Filling
  <1>5. Finding => bcall.op = "find"
    BY DEF Finding
  <1>6. Merging => bcall.op = "merge"
    BY DEF Merging
  <1>7. Opening => bcall.op = "unfull"
    BY DEF Opening
  <1> QED BY <1>1, <1>2, <1>3, <1>4, <1>5, <1>6, <1>7 DEF BuInv

LEMMA NoLocation == Bu!Null = -1 /\ Bu!Null \notin Nat
  BY DEF Bu!Null

(* The search begins at the root.                                          *)
LEMMA SearchBegins ==
  ASSUME Marked, AllAgree, UNCHANGED state, NEW n \in 1..Bu!pool_size, NEW old \in Olds,
         bcall' = Bu!Search(Bu!ROUNDUP(n), old), Holds(old)'
  PROVE  BuInv'
  <1>1. bcall' = [op |-> "alloc", index |-> 1, size |-> Bu!ROUNDUP(n), old |-> old, mem |-> Bu!Null]
    BY DEF Bu!Search
  <1>2. Bu!ROUNDUP(n) \in Powers /\ SizeOf(1) >= Bu!ROUNDUP(n) /\ 1 \in Indices /\ Bu!Null \in Olds
    BY Rounded, PoolSizes DEF Olds
  <1>3. /\ bcall' \in [op : {"alloc"}, index : Indices, size : Powers, old : Olds, mem : Olds]
        /\ bcall'.index = 1 /\ bcall'.size = Bu!ROUNDUP(n) /\ bcall'.old = old
    BY <1>1, <1>2
  <1>4. Marked' /\ AllAgree'
    BY DEF Marked, AllAgree, Agrees
  <1>5. ASSUME NEW k \in Nat, NEW s \in Nat, k * s < 0 PROVE FALSE
    BY <1>5, SMT
  <1>6. ASSUME NEW m \in Powers PROVE m \in Nat
    BY PowerIsNat
  <1>7. Passed(AtOf(1), Bu!ROUNDUP(n))'
    BY <1>2, <1>5, <1>6, RootIsPool DEF Passed
  <1>8. AgreeBut(1 \div 2)' /\ ParentIs(1, "SPLIT")'
    BY <1>4 DEF AgreeBut, AllAgree, ParentIs
  <1>9. Searching'
    BY <1>2, <1>3, <1>4, <1>7, <1>8 DEF Searching
  <1> QED BY <1>4, <1>9 DEF BuInv

(* buddy_free goes down from the root.                                     *)
LEMMA FreeBegins ==
  ASSUME Marked, AllAgree, UNCHANGED state, NEW t \in Indices, Lent(t)',
         bcall' = Bu!Freeing(AtOf(t))
  PROVE  BuInv'
  <1>1. bcall' = [op |-> "find", index |-> 1, offset |-> AtOf(t), current |-> 0, step |-> Bu!pool_size]
    BY DEF Bu!Freeing
  <1>2. AtOf(t) \in Nat /\ 0 \in Nat /\ Bu!pool_size \in Nat /\ 1 \in Indices
    BY SizeType, PoolSizes
  <1>3. /\ bcall' \in [op : {"find"}, index : Indices, offset : Nat, current : Nat, step : Nat]
        /\ bcall'.index = 1 /\ bcall'.offset = AtOf(t) /\ bcall'.current = 0 /\ bcall'.step = Bu!pool_size
    BY <1>1, <1>2
  <1>4. Marked' /\ AllAgree'
    BY DEF Marked, AllAgree, Agrees
  <1>5. Below(1, t)
    BY BelowRoot
  <1>6. bcall'.current = AtOf(bcall'.index) /\ bcall'.step = SizeOf(bcall'.index)
    BY <1>3, RootIsPool
  <1>7. \E u \in Indices : Lent(u)' /\ AtOf(u) = bcall'.offset /\ Below(bcall'.index, u)
    BY <1>3, <1>5
  <1>8. Finding'
    BY <1>3, <1>4, <1>6, <1>7 DEF Finding
  <1> QED BY <1>4, <1>8 DEF BuInv

(* buddy_alloc returns.                                                    *)
LEMMA AnswerInv ==
  ASSUME Marked, AllAgree, UNCHANGED <<state, held>>, Holds(bcall.old), NEW mem, Bu!Answered(mem)
  PROVE  BuInv'
  <1>0. Marked' /\ AllAgree' /\ UsedBlocks' = UsedBlocks /\ held' = held /\ Taken' = Taken
    BY DEF Marked, AllAgree, Agrees, UsedBlocks, Taken
  <1>1. CASE bcall.old = Bu!Null
    <2>1. bcall' = Bu!Idle /\ held = UsedBlocks
      BY <1>1 DEF Bu!Answered, Holds
    <2> QED BY <2>1, <1>0 DEF BuInv, Waiting
  <1>2. CASE bcall.old # Bu!Null
    <2>1. PICK t \in Indices : Lent(t) /\ AtOf(t) = bcall.old
      BY <1>2 DEF Holds
    <2>2. bcall' = Bu!Freeing(AtOf(t)) /\ Lent(t)'
      BY <1>0, <1>2, <2>1 DEF Bu!Answered, Lent
    <2> QED BY <2>2, FreeBegins
  <1> QED BY <1>1, <1>2

LEMMA BuAlloc ==
  ASSUME BuInv, NEW n \in 1..Bu!pool_size, Bu!buddy_alloc(n)
  PROVE  BuInv'
  <1>1. bcall = Bu!Idle /\ bcall' = Bu!Search(Bu!ROUNDUP(n), Bu!Null) /\ UNCHANGED <<state, held>>
    BY DEF Bu!buddy_alloc
  <1>2. Marked /\ AllAgree /\ held = UsedBlocks
    BY <1>1, Phase DEF Waiting
  <1>3. Holds(Bu!Null)'
    BY <1>1, <1>2 DEF Holds, UsedBlocks, Taken
  <1>4. Bu!Null \in Olds
    BY DEF Olds
  <1> QED BY <1>1, <1>2, <1>3, <1>4, SearchBegins

(* A block that the program gives back.                                    *)
LEMMA GivenBack ==
  ASSUME BuInv, bcall = Bu!Idle, NEW b \in held, held' = held \ {b}, UNCHANGED state
  PROVE  Marked /\ AllAgree /\ \E t \in Indices : Lent(t)' /\ AtOf(t) = b.at
  <1>1. Marked /\ AllAgree /\ held = UsedBlocks
    BY Phase DEF Waiting
  <1>2. PICK t \in Taken : b = Bu!Block(t)
    BY <1>1 DEF UsedBlocks
  <1>3. t \in Indices /\ AtOf(t) = b.at
    BY <1>2 DEF Taken, AtOf, Bu!Block
  <1>4. UsedBlocks' = UsedBlocks /\ Taken' = Taken
    BY DEF UsedBlocks, Taken
  <1>5. Lent(t)'
    BY <1>1, <1>2, <1>4 DEF Lent
  <1> QED BY <1>1, <1>3, <1>5

LEMMA BuFree ==
  ASSUME BuInv, NEW b \in held, Bu!buddy_free(b)
  PROVE  BuInv'
  <1>1. bcall = Bu!Idle /\ bcall' = Bu!Freeing(b.at) /\ held' = held \ {b} /\ UNCHANGED state
    BY DEF Bu!buddy_free
  <1>2. Marked /\ AllAgree
    BY <1>1, GivenBack
  <1>3. PICK t \in Indices : Lent(t)' /\ AtOf(t) = b.at
    BY <1>1, GivenBack
  <1>4. bcall' = Bu!Freeing(AtOf(t))
    BY <1>1, <1>3
  <1> QED BY <1>1, <1>2, <1>3, <1>4, FreeBegins

LEMMA BuRealloc ==
  ASSUME BuInv, NEW b \in held, NEW n \in 0..Bu!pool_size + 1, Bu!buddy_realloc(b, n)
  PROVE  BuInv'
  <1>1. /\ bcall = Bu!Idle /\ held' = held \ {b} /\ UNCHANGED state
        /\ bcall' = IF n \in 1..Bu!pool_size THEN Bu!Search(Bu!ROUNDUP(n), b.at) ELSE Bu!Freeing(b.at)
    BY DEF Bu!buddy_realloc
  <1>2. Marked /\ AllAgree
    BY <1>1, GivenBack
  <1>3. PICK t \in Indices : Lent(t)' /\ AtOf(t) = b.at
    BY <1>1, GivenBack
  <1>4. CASE n \in 1..Bu!pool_size
    <2>1. b.at \in Nat
      BY <1>3, SizeType
    <2>2. b.at \in Olds /\ b.at # Bu!Null
      BY <2>1, NoLocation DEF Olds
    <2>3. Holds(b.at)'
      BY <1>3, <2>2 DEF Holds
    <2> QED BY <1>1, <1>2, <1>4, <2>2, <2>3, SearchBegins
  <1>5. CASE ~(n \in 1..Bu!pool_size)
    <2>1. bcall' = Bu!Freeing(AtOf(t))
      BY <1>1, <1>3, <1>5
    <2> QED BY <1>1, <1>2, <1>3, <2>1, FreeBegins
  <1> QED BY <1>4, <1>5

(* The root has no parent to disagree with.                                *)
LEMMA RootAgrees ==
  ASSUME NEW i \in Indices, ~(i > 1)
  PROVE  i \div 2 \notin Indices
  <1>1. i = 1
    BY PoolSizes
  <1>2. 1 \div 2 = 0 /\ 0 \notin Indices
    BY PoolSizes
  <1> QED BY <1>1, <1>2

(* The search finds a block.                                               *)
LEMMA AllocFound ==
  ASSUME Marked, Searching, NEW i, i = bcall.index,
         state[i] = "UNUSED", MarkedAs(i, "USED"), held' = held \cup {Bu!Block(i)},
         bcall' = [bcall EXCEPT !.op = "full", !.mem = AtOf(i)]
  PROVE  BuInv'
  <1>1. /\ bcall \in [op : {"alloc"}, index : Indices, size : Powers, old : Olds, mem : Olds]
        /\ i \in Indices /\ bcall.old \in Olds
        /\ ParentIs(i, "SPLIT") /\ AgreeBut(i \div 2) /\ Holds(bcall.old)
    BY DEF Searching
  <1>2. AtOf(i) \in Olds
    BY <1>1, SizeType DEF Olds
  <1>3. /\ bcall' \in [op : {"full"}, index : Indices, size : Powers, old : Olds, mem : Olds]
        /\ bcall'.index = i /\ bcall'.old = bcall.old
    BY <1>1, <1>2
  <1>4. /\ Marked' /\ state'[i] = "USED" /\ \A j \in Indices \ {i} : state'[j] = state[j]
        /\ \A j \in Indices : 2 * j < Bu!tree_size /\ j # i /\ j # i \div 2 => Agrees(j)' = Agrees(j)
    BY <1>1, Remarked
  <1>5. ParentIs(i, "SPLIT")'
    <2> SUFFICES ASSUME i > 1 PROVE state'[i \div 2] = "SPLIT"
      BY DEF ParentIs
    <2>1. i \div 2 \in Indices /\ i \div 2 # i
      BY <1>1, ParentOf, PoolSizes DEF Child
    <2> QED BY <1>1, <1>4, <2>1 DEF ParentIs
  <1>6. AgreeBut(i \div 2)'
    <2> SUFFICES ASSUME NEW j \in Indices, j # i \div 2, 2 * j < Bu!tree_size PROVE Agrees(j)'
      BY DEF AgreeBut
    <2>1. Agrees(j)
      BY <1>1 DEF AgreeBut
    <2>2. CASE j # i
      BY <2>1, <2>2, <1>4
    <2>3. CASE j = i
      <3>1. 2 * i \in Indices /\ 2 * i + 1 \in Indices /\ 2 * i # i /\ 2 * i + 1 # i
        BY <1>1, <2>3, Halves, PoolSizes DEF Halved
      <3>2. state[2 * i] = "UNUSED" /\ state[2 * i + 1] = "UNUSED"
        BY <2>1, <2>3 DEF Agrees, Fits
      <3>3. state'[2 * i] = "UNUSED" /\ state'[2 * i + 1] = "UNUSED"
        BY <1>4, <3>1, <3>2
      <3> QED BY <1>4, <2>3, <3>3 DEF Agrees, Fits, Bu!Full
    <2> QED BY <2>2, <2>3
  <1>7. /\ Taken' = Taken \cup {i} /\ UsedBlocks' = UsedBlocks \cup {Bu!Block(i)}
        /\ \A t \in Taken : UsedBlocks' \ {Bu!Block(t)} = (UsedBlocks \ {Bu!Block(t)}) \cup {Bu!Block(i)}
    BY <1>1, BlocksMore
  <1>8. Holds(bcall.old)'
    <2>0. bcall'.old = bcall.old
      BY <1>3
    <2>1. CASE bcall.old = Bu!Null
      BY <2>0, <2>1, <1>1, <1>7 DEF Holds
    <2>2. CASE bcall.old # Bu!Null
      <3>1. PICK t \in Indices : Lent(t) /\ AtOf(t) = bcall.old
        BY <1>1, <2>2 DEF Holds
      <3>2. Lent(t)'
        BY <1>7, <3>1 DEF Lent
      <3> QED BY <2>0, <2>2, <3>1, <3>2 DEF Holds
    <2> QED BY <2>1, <2>2
  <1>9. state'[i] \in Bu!Full
    BY <1>4 DEF Bu!Full
  <1>10. Filling'
    BY <1>3, <1>5, <1>6, <1>8, <1>9 DEF Filling
  <1> QED BY <1>4, <1>10 DEF BuInv

(* The search goes down.                                                   *)
LEMMA AllocDown ==
  ASSUME Marked, Searching, NEW i, i = bcall.index, NEW s, s = bcall.size,
         SizeOf(i) > s, state[i] \in {"UNUSED", "SPLIT"}, MarkedAs(i, "SPLIT"), UNCHANGED held,
         bcall' = [bcall EXCEPT !.index = 2 * i]
  PROVE  BuInv'
  <1>1. /\ bcall \in [op : {"alloc"}, index : Indices, size : Powers, old : Olds, mem : Olds]
        /\ i \in Indices /\ s \in Powers /\ bcall.old \in Olds
        /\ ParentIs(i, "SPLIT") /\ AgreeBut(i \div 2) /\ Holds(bcall.old)
        /\ AllAgree \/ state[i] = "UNUSED"
        /\ Passed(AtOf(i), s)
    BY DEF Searching
  <1>2. 2 * i < Bu!tree_size /\ SizeOf(2 * i) >= s
    BY <1>1, HalfFits
  <1>3. 2 * i \in Indices /\ 2 * i + 1 \in Indices /\ AtOf(2 * i) = AtOf(i) /\ 2 * i # i /\ 2 * i + 1 # i
        /\ i \in Nat /\ (2 * i) \div 2 = i /\ 2 * i > 1
    BY <1>1, <1>2, Halves, PoolSizes DEF Halved
  <1>4. /\ bcall' \in [op : {"alloc"}, index : Indices, size : Powers, old : Olds, mem : Olds]
        /\ bcall'.index = 2 * i /\ bcall'.size = s /\ bcall'.old = bcall.old
    BY <1>1, <1>3
  <1>5. /\ Marked' /\ state'[i] = "SPLIT" /\ \A j \in Indices \ {i} : state'[j] = state[j]
        /\ \A j \in Indices : 2 * j < Bu!tree_size /\ j # i /\ j # i \div 2 => Agrees(j)' = Agrees(j)
    BY <1>1, <1>2, Remarked
  <1>6. Taken' = Taken /\ UsedBlocks' = UsedBlocks
    BY <1>1, BlocksKept
  <1>7. ParentIs(2 * i, "SPLIT")'
    BY <1>3, <1>5 DEF ParentIs
  <1>8. ASSUME i > 1 PROVE Agrees(i \div 2)'
    <2>1. Child(i, i \div 2) /\ Brother(i) \in Indices /\ Brother(i) # i
      BY <1>1, <1>8, Family
    <2>2. i \div 2 \in Indices /\ i \div 2 # i
      BY <1>3, <2>1, PoolSizes DEF Child
    <2>3. state'[i \div 2] = "SPLIT" /\ state'[i] = "SPLIT"
      BY <1>1, <1>5, <1>8, <2>2 DEF ParentIs
    <2>4. Fits(state'[i \div 2], state'[i], state'[Brother(i)])
      BY <2>3 DEF Fits, Bu!Full
    <2> QED BY <1>1, <1>8, <2>4, ParentAgrees
  <1>9. AgreeBut(i)'
    <2> SUFFICES ASSUME NEW j \in Indices, j # i, 2 * j < Bu!tree_size PROVE Agrees(j)'
      BY DEF AgreeBut
    <2>1. CASE j = i \div 2
      <3>1. i > 1
        BY <1>1, <2>1, RootAgrees
      <3> QED BY <1>8, <2>1, <3>1
    <2>2. CASE j # i \div 2
      BY <1>1, <1>5, <2>2 DEF AgreeBut
    <2> QED BY <2>1, <2>2
  <1>10. AllAgree' \/ state'[2 * i] = "UNUSED"
    <2>1. CASE state[i] = "UNUSED"
      <3>1. Agrees(i)
        <4>1. i # i \div 2
          BY <1>3
        <4> QED BY <1>1, <1>2, <4>1 DEF AgreeBut
      <3> QED BY <1>3, <1>5, <2>1, <3>1 DEF Agrees, Fits
    <2>2. CASE state[i] # "UNUSED"
      <3>1. Agrees(i) /\ state[i] = "SPLIT"
        BY <1>1, <1>2, <2>2 DEF AllAgree
      <3>2. Agrees(i)'
        BY <1>3, <1>5, <3>1 DEF Agrees
      <3>3. AllAgree'
        BY <1>9, <3>2 DEF AllAgree, AgreeBut
      <3> QED BY <3>3
    <2> QED BY <2>1, <2>2
  <1>11. Holds(bcall.old)'
    BY <1>1, <1>4, <1>6 DEF Holds, Lent
  <1>12. Passed(AtOf(2 * i), s)'
    BY <1>1, <1>3, <1>6 DEF Passed, Overlapped
  <1>13. Searching'
    BY <1>2, <1>3, <1>4, <1>7, <1>9, <1>10, <1>11, <1>12 DEF Searching
  <1> QED BY <1>5, <1>13 DEF BuInv

(* A split block's parent is split.                                        *)
LEMMA ParentSplit ==
  ASSUME Marked, NEW p \in Indices, p > 1, Agrees(p \div 2), state[p] = "SPLIT"
  PROVE  state[p \div 2] = "SPLIT"
  <1>1. Fits(state[p \div 2], state[p], state[Brother(p)])
    BY ParentAgrees
  <1>2. p \div 2 \in Indices
    BY ParentOf DEF Child
  <1>3. state[p \div 2] \in {"UNUSED", "USED", "SPLIT", "FULL"}
    BY <1>2 DEF Marked
  <1> QED BY <1>1, <1>3 DEF Fits, Bu!Full

(* An index that cannot serve the search has no free block of the size.    *)
LEMMA NothingFree ==
  ASSUME Marked, AllAgree, NEW i \in Indices, NEW s \in Powers,
         state[i] \in Bu!Full \/ (state[i] # "UNUSED" /\ SizeOf(i) = s)
  PROVE  \A k \in Nat : AtOf(i) <= k * s /\ k * s < EndOf(i) => Overlapped(k, s)
  <1> TAKE k \in Nat
  <1> HAVE AtOf(i) <= k * s /\ k * s < EndOf(i)
  <1>0. s \in Nat \ {0} /\ AtOf(i) \in Nat
    BY PowerIsNat, SizeType
  <1>1. k * s \in Nat /\ (k + 1) * s = k * s + s
    BY <1>0, SMT
  <1> DEFINE x == k * s
  <1>2. x \in Nat /\ (k + 1) * s = x + s /\ AtOf(i) <= x /\ x < EndOf(i)
    BY <1>1
  <1> HIDE DEF x
  <1>3. CASE state[i] \in Bu!Full
    <2>1. PICK u \in Indices : state[u] = "USED" /\ AtOf(u) <= x /\ x < EndOf(u)
      BY <1>2, <1>3, AllUsed DEF UsedAt
    <2>2. u \in Taken /\ AtOf(u) \in Nat
      BY <2>1, SizeType DEF Taken
    <2>3. AtOf(u) < (k + 1) * s
      BY <1>0, <1>2, <2>1, <2>2
    <2>4. k * s < EndOf(u)
      BY <2>1 DEF x
    <2> QED BY <2>2, <2>3, <2>4 DEF Overlapped
  <1>4. CASE state[i] # "UNUSED" /\ SizeOf(i) = s
    <2>1. PICK u \in Indices : state[u] = "USED" /\ Within(u, i)
      BY <1>4, SomeUsed DEF UsedIn
    <2>2. u \in Taken /\ AtOf(u) \in Nat /\ SizeOf(u) \in Nat \ {0}
      BY <2>1, SizeType DEF Taken
    <2>3. PICK c \in Nat : AtOf(i) = s * c
      BY <1>4, SizeType
    <2>4. s * c <= k * s /\ k * s < s * c + s
      BY <1>2, <1>4, <2>3 DEF EndOf, x
    <2>5. k = c
      <3>1. ASSUME NEW a \in Nat, NEW b \in Nat, NEW d \in Nat \ {0}, a < b PROVE d * a + d <= b * d
        <4>1. (b - a - 1) \in Nat
          BY <3>1
        <4>2. d * (b - a - 1) >= 0
          BY <4>1, SMT
        <4>3. b * d = d * a + d + d * (b - a - 1)
          BY SMT
        <4>4. b * d \in Int /\ d * a \in Int /\ d * (b - a - 1) \in Int
          BY <4>1, SMT
        <4> QED BY <4>2, <4>3, <4>4
      <3>2. \A a, b \in Nat : a * b = b * a /\ a * b \in Nat
        BY SMT
      <3>3. ~(k < c)
        <4>1. ASSUME k < c PROVE FALSE
          <5>1. s * k + s <= c * s
            BY <1>0, <3>1, <4>1
          <5>2. s * k = k * s /\ c * s = s * c /\ k * s \in Nat /\ s * c \in Nat
            BY <1>0, <3>2
          <5> QED BY <1>0, <2>4, <5>1, <5>2
        <4> QED BY <4>1
      <3>4. ~(c < k)
        <4>1. ASSUME c < k PROVE FALSE
          <5>1. s * c + s <= k * s
            BY <1>0, <3>1, <4>1
          <5>2. k * s \in Nat /\ s * c \in Nat
            BY <1>0, <3>2
          <5> QED BY <1>0, <2>4, <5>1, <5>2
        <4> QED BY <4>1
      <3> QED BY <3>3, <3>4
    <2>6. x = AtOf(i)
      <3>1. k * s = s * k
        BY <1>0, SMT
      <3> QED BY <2>3, <2>5, <3>1 DEF x
    <2>7. AtOf(u) < x + s /\ x < EndOf(u)
      BY <1>0, <1>4, <2>1, <2>2, <2>6 DEF Within, EndOf
    <2>8. AtOf(u) < (k + 1) * s /\ k * s < EndOf(u)
      BY <1>2, <2>7 DEF x
    <2> QED BY <2>2, <2>8 DEF Overlapped
  <1> QED BY <1>3, <1>4

LEMMA PassedOn ==
  ASSUME Marked, AllAgree, NEW i \in Indices, NEW s \in Powers, Passed(AtOf(i), s),
         state[i] \in Bu!Full \/ (state[i] # "UNUSED" /\ SizeOf(i) = s)
  PROVE  Passed(EndOf(i), s)
  <1> SUFFICES ASSUME NEW k \in Nat, k * s < EndOf(i) PROVE Overlapped(k, s)
    BY DEF Passed
  <1>1. CASE AtOf(i) <= k * s
    BY <1>1, NothingFree
  <1>2. CASE ~(AtOf(i) <= k * s)
    <2>1. s \in Nat /\ AtOf(i) \in Nat
      BY PowerIsNat, SizeType
    <2>2. k * s \in Nat
      BY <2>1, SMT
    <2>3. k * s < AtOf(i)
      BY <1>2, <2>1, <2>2
    <2> QED BY <2>3 DEF Passed
  <1> QED BY <1>1, <1>2

(* Where the search goes on from there.                                    *)
LEMMA NextServes ==
  ASSUME Marked, AllAgree, NEW i \in Indices, ParentIs(i, "SPLIT"), NEW s \in Powers, SizeOf(i) >= s
  PROVE  \/ Bu!NextIndex(i) = Bu!Null /\ EndOf(i) = Bu!pool_size
         \/ \E n \in Indices : /\ Bu!NextIndex(i) = n /\ AtOf(n) = EndOf(i)
                               /\ ParentIs(n, "SPLIT") /\ SizeOf(n) >= s
  <1> DEFINE Same(j) == EndOf(j) = EndOf(i) /\ SizeOf(j) >= s /\ ParentIs(j, "SPLIT")
             X == {j \in Indices : Same(j)}
  <1>0. s \in Nat
    BY PowerIsNat
  <1>1. ASSUME NEW j \in X, j % 2 = 1, j > 1 PROVE j \div 2 \in X
    <2> DEFINE p == j \div 2
    <2>1. Child(j, p) /\ j \in Nat
      BY <1>1, ParentOf, PoolSizes
    <2>2. state[p] = "SPLIT"
      BY <1>1 DEF ParentIs
    <2> HIDE DEF p
    <2>3. p \in Indices /\ p \in Nat /\ 2 * p < Bu!tree_size
      BY <2>1, PoolSizes DEF Child
    <2>4. j = 2 * p + 1
      <3>1. (2 * p) % 2 # 1
        BY <2>3
      <3> QED BY <1>1, <2>1, <3>1 DEF Child
    <2>5. Halved(p, 2 * p, j)
      BY <2>3, <2>4, Halves
    <2>6. SizeOf(j) \in Nat /\ AtOf(p) \in Nat
      BY <2>3, SizeType
    <2>7. EndOf(p) = EndOf(j) /\ SizeOf(p) >= SizeOf(j)
      <3> DEFINE l == 2 * p
      <3> HIDE DEF l
      <3>1. Halved(p, l, j)
        BY <2>5 DEF l
      <3> QED BY <2>6, <3>1 DEF Halved, EndOf
    <2>8. ParentIs(p, "SPLIT")
      <3> SUFFICES ASSUME p > 1 PROVE state[p \div 2] = "SPLIT"
        BY DEF ParentIs
      <3>1. Agrees(p \div 2)
        BY <2>3, ParentOf DEF Child, AllAgree
      <3> QED BY <2>2, <2>3, <3>1, ParentSplit
    <2>9. SizeOf(p) >= s
      BY <1>0, <2>3, <2>6, <2>7, SizeType
    <2>10. Same(p)
      BY <2>7, <2>8, <2>9
    <2> QED BY <2>3, <2>10 DEF p
  <1>2. X \in SUBSET Indices /\ Climbs(X) /\ i \in X
    BY <1>1 DEF Climbs
  <1>3. PICK u \in X : (u = 1 \/ u % 2 = 0) /\ Bu!NextIndex(i) = IF u = 1 THEN Bu!Null ELSE u + 1
    BY <1>2, ClimbStays
  <1>4. u \in Indices /\ Same(u)
    OBVIOUS
  <1>5. CASE u = 1
    <2>1. EndOf(1) = Bu!pool_size
      BY RootIsPool, PoolSizes DEF EndOf
    <2> QED BY <1>3, <1>4, <1>5, <2>1
  <1>6. CASE u # 1
    <2> DEFINE p == u \div 2
    <2>1. u \in Nat /\ u > 1 /\ u % 2 = 0
      BY <1>3, <1>4, <1>6, PoolSizes
    <2>2. Child(u, p)
      BY <1>4, <2>1, ParentOf
    <2>3. u = 2 * p /\ (u + 1) \div 2 = p
      BY <2>1
    <2>4. Halved(p, u, u + 1)
      BY <2>2, <2>3, Halves DEF Child
    <2>5. state[p] = "SPLIT"
      BY <1>4, <2>1 DEF ParentIs
    <2>6. ParentIs(u + 1, "SPLIT")
      BY <2>3, <2>5 DEF ParentIs
    <2> HIDE DEF p
    <2>7. u + 1 \in Indices /\ SizeOf(u + 1) = SizeOf(u) /\ AtOf(u + 1) = EndOf(u)
      BY <2>4 DEF Halved, EndOf
    <2> QED BY <1>3, <1>4, <1>6, <2>6, <2>7
  <1> QED BY <1>5, <1>6

(* The search goes on, or ends without a block.                            *)
LEMMA AllocOn ==
  ASSUME Marked, Searching, NEW i, i = bcall.index, NEW s, s = bcall.size,
         ~(SizeOf(i) > s /\ state[i] \in {"UNUSED", "SPLIT"}), ~(state[i] = "UNUSED" /\ SizeOf(i) = s),
         UNCHANGED <<state, held>>,
         IF Bu!NextIndex(i) = Bu!Null THEN Bu!Answered(Bu!Null)
                                      ELSE bcall' = [bcall EXCEPT !.index = Bu!NextIndex(i)]
  PROVE  BuInv' /\ (bcall'.op # "alloc" => Passed(Bu!pool_size, s))
  <1>1. /\ bcall \in [op : {"alloc"}, index : Indices, size : Powers, old : Olds, mem : Olds]
        /\ i \in Indices /\ s \in Powers /\ bcall.old \in Olds
        /\ SizeOf(i) >= s /\ ParentIs(i, "SPLIT") /\ Holds(bcall.old)
        /\ AllAgree \/ state[i] = "UNUSED"
        /\ Passed(AtOf(i), s)
    BY DEF Searching
  <1>2. s \in Nat /\ SizeOf(i) \in Nat /\ state[i] \in {"UNUSED", "USED", "SPLIT", "FULL"}
    BY <1>1, PowerIsNat, SizeType DEF Marked
  <1>3. state[i] # "UNUSED"
    BY <1>1, <1>2
  <1>4. state[i] \in Bu!Full \/ (state[i] # "UNUSED" /\ SizeOf(i) = s)
    BY <1>1, <1>2, <1>3 DEF Bu!Full
  <1>5. AllAgree
    BY <1>1, <1>3
  <1>6. Passed(EndOf(i), s)
    BY <1>1, <1>4, <1>5, PassedOn
  <1>7. CASE Bu!NextIndex(i) = Bu!Null
    <2>1. EndOf(i) = Bu!pool_size
      BY <1>1, <1>5, <1>7, NextServes, PoolSizes, NoLocation
    <2>2. Bu!Answered(Bu!Null)
      BY <1>7
    <2>3. BuInv'
      BY <1>1, <1>5, <2>2, AnswerInv
    <2> QED BY <1>6, <2>1, <2>3
  <1>8. CASE Bu!NextIndex(i) # Bu!Null
    <2>1. PICK n \in Indices : Bu!NextIndex(i) = n /\ AtOf(n) = EndOf(i) /\ ParentIs(n, "SPLIT") /\ SizeOf(n) >= s
      BY <1>1, <1>5, <1>8, NextServes
    <2>2. bcall' = [bcall EXCEPT !.index = n]
      BY <1>8, <2>1
    <2>3. /\ bcall' \in [op : {"alloc"}, index : Indices, size : Powers, old : Olds, mem : Olds]
          /\ bcall'.index = n /\ bcall'.size = s /\ bcall'.old = bcall.old /\ bcall'.op = "alloc"
      BY <1>1, <2>2
    <2>4. Marked' /\ AllAgree' /\ Taken' = Taken /\ UsedBlocks' = UsedBlocks
      BY <1>5 DEF Marked, AllAgree, Agrees, Taken, UsedBlocks
    <2>5. AgreeBut(n \div 2)' /\ ParentIs(n, "SPLIT")'
      BY <2>1, <2>4 DEF AgreeBut, AllAgree, ParentIs
    <2>6. Holds(bcall.old)'
      BY <1>1, <2>3, <2>4 DEF Holds, Lent
    <2>7. Passed(AtOf(n), s)'
      BY <1>6, <2>1, <2>4 DEF Passed, Overlapped
    <2>8. Searching'
      BY <2>1, <2>3, <2>4, <2>5, <2>6, <2>7 DEF Searching
    <2> QED BY <2>3, <2>4, <2>8 DEF BuInv
  <1> QED BY <1>7, <1>8

LEMMA BuAllocTurn ==
  ASSUME BuInv, Bu!AllocTurn
  PROVE  BuInv' /\ (bcall'.op \in {"idle", "find"} => Passed(Bu!pool_size, bcall.size))
  <1> DEFINE i == bcall.index
             s == bcall.size
             descend == SizeOf(i) > s /\ state[i] \in {"UNUSED", "SPLIT"}
  <1>1. Marked /\ Searching
    BY Phase DEF Bu!AllocTurn
  <1>2. bcall \in [op : {"alloc"}, index : Indices, size : Powers, old : Olds, mem : Olds]
    BY <1>1 DEF Searching
  <1>3. \/ /\ state[i] = "UNUSED" /\ SizeOf(i) = s
           /\ state' = [state EXCEPT ![i] = "USED"]
           /\ held' = held \cup {Bu!Block(i)}
           /\ bcall' = [bcall EXCEPT !.op = "full", !.mem = AtOf(i)]
        \/ /\ descend
           /\ state' = [state EXCEPT ![i] = "SPLIT"]
           /\ bcall' = [bcall EXCEPT !.index = 2 * i]
           /\ UNCHANGED held
        \/ /\ ~descend /\ ~(state[i] = "UNUSED" /\ SizeOf(i) = s)
           /\ IF Bu!NextIndex(i) = Bu!Null
                THEN Bu!Answered(Bu!Null)
                ELSE bcall' = [bcall EXCEPT !.index = Bu!NextIndex(i)]
           /\ UNCHANGED <<state, held>>
    BY DEF Bu!AllocTurn, SizeOf, AtOf
  <1> HIDE DEF i, s
  <1>4. i = bcall.index /\ s = bcall.size
    BY DEF i, s
  <1>5. CASE /\ state[i] = "UNUSED" /\ SizeOf(i) = s
             /\ state' = [state EXCEPT ![i] = "USED"]
             /\ held' = held \cup {Bu!Block(i)}
             /\ bcall' = [bcall EXCEPT !.op = "full", !.mem = AtOf(i)]
    <2>1. MarkedAs(i, "USED")
      BY <1>5 DEF MarkedAs
    <2>2. BuInv'
      BY <1>1, <1>4, <1>5, <2>1, AllocFound
    <2>3. bcall'.op = "full"
      BY <1>2, <1>5
    <2> QED BY <2>2, <2>3
  <1>6. CASE /\ descend
             /\ state' = [state EXCEPT ![i] = "SPLIT"]
             /\ bcall' = [bcall EXCEPT !.index = 2 * i]
             /\ UNCHANGED held
    <2>1. MarkedAs(i, "SPLIT")
      BY <1>6 DEF MarkedAs
    <2>2. BuInv'
      BY <1>1, <1>4, <1>6, <2>1, AllocDown
    <2>3. bcall'.op = "alloc"
      BY <1>2, <1>6
    <2> QED BY <2>2, <2>3
  <1>7. CASE /\ ~descend /\ ~(state[i] = "UNUSED" /\ SizeOf(i) = s)
             /\ IF Bu!NextIndex(i) = Bu!Null
                  THEN Bu!Answered(Bu!Null)
                  ELSE bcall' = [bcall EXCEPT !.index = Bu!NextIndex(i)]
             /\ UNCHANGED <<state, held>>
    <2>1. BuInv' /\ (bcall'.op # "alloc" => Passed(Bu!pool_size, s))
      BY <1>1, <1>4, <1>7, AllocOn
    <2> QED BY <1>4, <2>1
  <1> QED BY <1>3, <1>5, <1>6, <1>7

(* An index above the root with its parent p.                              *)
Kin(i, p) ==
  /\ p \in Indices /\ 2 * p < Bu!tree_size /\ p < i /\ p # i /\ p # Brother(i)
  /\ Brother(i) \in Indices /\ Brother(i) # i /\ Bu!Pair(i) = {i, Brother(i)}

LEMMA KinOf ==
  ASSUME NEW i \in Indices, i > 1, NEW p, p = i \div 2
  PROVE  /\ Kin(i, p)
         /\ Agrees(p) <=> Fits(state[p], state[i], state[Brother(i)])
         /\ Agrees(p)' <=> Fits(state'[p], state'[i], state'[Brother(i)])
  <1>1. /\ Child(i, p) /\ Brother(i) \in Indices /\ Brother(i) # i /\ Bu!Pair(i) = {i, Brother(i)}
    BY Family
  <1>2. p \in Indices /\ p \in Nat /\ p >= 1 /\ i \in Nat /\ p < i /\ 2 * p < Bu!tree_size
    BY <1>1, PoolSizes DEF Child
  <1>3. Brother(i) \in {2 * p, 2 * p + 1}
    BY <1>1 DEF Bu!Pair
  <1>4. p # Brother(i)
    BY <1>2, <1>3
  <1>5. Kin(i, p)
    BY <1>1, <1>2, <1>4 DEF Kin
  <1> QED BY <1>5, ParentAgrees

(* Once a parent marked anew agrees with its children, only its own parent *)
(* may not agree with it.                                                  *)
LEMMA AgreeAbove ==
  ASSUME Marked, NEW p \in Indices, 2 * p < Bu!tree_size, AgreeBut(p),
         NEW v \in {"UNUSED", "USED", "SPLIT", "FULL"}, MarkedAs(p, v), Agrees(p)'
  PROVE  AgreeBut(p \div 2)'
  <1>1. \A j \in Indices : 2 * j < Bu!tree_size /\ j # p /\ j # p \div 2 => Agrees(j)' = Agrees(j)
    BY Remarked
  <1> SUFFICES ASSUME NEW j \in Indices, j # p \div 2, 2 * j < Bu!tree_size PROVE Agrees(j)'
    BY DEF AgreeBut
  <1>2. CASE j = p
    BY <1>2
  <1>3. CASE j # p
    <2>1. Agrees(j)
      BY <1>3 DEF AgreeBut
    <2> QED BY <1>1, <1>3, <2>1
  <1> QED BY <1>2, <1>3

(* A pair that is taken makes its parent full.                             *)
LEMMA FullUp ==
  ASSUME Marked, Filling, NEW i, i = bcall.index, i > 1, NEW p, p = i \div 2,
         \A j \in Bu!Pair(i) : state[j] \in Bu!Full,
         MarkedAs(p, "FULL"), bcall' = [bcall EXCEPT !.index = p], UNCHANGED held
  PROVE  BuInv'
  <1>1. /\ bcall \in [op : {"full"}, index : Indices, size : Powers, old : Olds, mem : Olds]
        /\ i \in Indices /\ state[i] \in Bu!Full
        /\ state[p] = "SPLIT" /\ AgreeBut(p) /\ Holds(bcall.old)
    BY DEF Filling, ParentIs
  <1>2. /\ Kin(i, p)
        /\ Agrees(p)' <=> Fits(state'[p], state'[i], state'[Brother(i)])
    BY <1>1, KinOf
  <1>3. p \in Indices /\ 2 * p < Bu!tree_size
    BY <1>2 DEF Kin
  <1>4. /\ Marked' /\ state'[p] = "FULL" /\ \A j \in Indices \ {p} : state'[j] = state[j]
    BY <1>3, Remarked
  <1>5. Taken' = Taken /\ UsedBlocks' = UsedBlocks
    BY <1>1, <1>3, BlocksKept
  <1>6. Agrees(p)'
    <2>1. state'[i] \in Bu!Full /\ state'[Brother(i)] \in Bu!Full
      BY <1>1, <1>2, <1>4 DEF Kin
    <2>2. Fits("FULL", state'[i], state'[Brother(i)])
      BY <2>1 DEF Fits
    <2> QED BY <1>2, <1>4, <2>2
  <1>7. AgreeBut(p \div 2)'
    BY <1>1, <1>3, <1>6, AgreeAbove
  <1>8. ParentIs(p, "SPLIT")'
    <2> SUFFICES ASSUME p > 1 PROVE state'[p \div 2] = "SPLIT"
      BY DEF ParentIs
    <2>1. Kin(p, p \div 2)
      BY <1>3, KinOf
    <2>2. p \div 2 \in Indices /\ p \div 2 # p /\ 2 * (p \div 2) < Bu!tree_size
      BY <2>1 DEF Kin
    <2>3. Agrees(p \div 2)
      BY <1>1, <2>2 DEF AgreeBut
    <2>4. state[p \div 2] = "SPLIT"
      BY <1>1, <1>3, <2>3, ParentSplit
    <2> QED BY <1>4, <2>2, <2>4
  <1>9. /\ bcall' \in [op : {"full"}, index : Indices, size : Powers, old : Olds, mem : Olds]
        /\ bcall'.index = p /\ bcall'.old = bcall.old
    BY <1>1, <1>3
  <1>10. Holds(bcall.old)'
    BY <1>1, <1>5, <1>9 DEF Holds, Lent
  <1>11. state'[p] \in Bu!Full
    BY <1>4 DEF Bu!Full
  <1>12. Filling'
    BY <1>7, <1>8, <1>9, <1>10, <1>11 DEF Filling
  <1> QED BY <1>4, <1>12 DEF BuInv

LEMMA FullStops ==
  ASSUME Marked, Filling, NEW i, i = bcall.index,
         ~(i > 1 /\ \A j \in Bu!Pair(i) : state[j] \in Bu!Full)
  PROVE  AllAgree
  <1>1. i \in Indices /\ state[i] \in Bu!Full /\ ParentIs(i, "SPLIT") /\ AgreeBut(i \div 2)
    BY DEF Filling
  <1>2. CASE i > 1
    <2>1. PICK p : p = i \div 2
      OBVIOUS
    <2>2. Kin(i, p) /\ (Agrees(p) <=> Fits(state[p], state[i], state[Brother(i)]))
      BY <1>1, <1>2, <2>1, KinOf
    <2>3. state[p] = "SPLIT"
      BY <1>1, <1>2, <2>1 DEF ParentIs
    <2>4. state[Brother(i)] \notin Bu!Full
      BY <1>1, <1>2, <2>2 DEF Kin
    <2>5. state[i] # "UNUSED"
      BY <1>1 DEF Bu!Full
    <2>6. Fits("SPLIT", state[i], state[Brother(i)])
      BY <2>4, <2>5 DEF Fits
    <2>7. Agrees(p)
      BY <2>2, <2>3, <2>6
    <2> QED BY <1>1, <2>1, <2>7 DEF AllAgree, AgreeBut
  <1>3. CASE ~(i > 1)
    BY <1>1, <1>3, RootAgrees DEF AllAgree, AgreeBut
  <1> QED BY <1>2, <1>3

LEMMA BuFullTurn == ASSUME BuInv, Bu!FullTurn PROVE BuInv'
  <1>1. Marked /\ Filling
    BY Phase DEF Bu!FullTurn
  <1>2. PICK i : i = bcall.index
    OBVIOUS
  <1>3. /\ UNCHANGED held
        /\ IF i > 1 /\ \A j \in Bu!Pair(i) : state[j] \in Bu!Full
             THEN MarkedAs(i \div 2, "FULL") /\ bcall' = [bcall EXCEPT !.index = i \div 2]
             ELSE Bu!Answered(bcall.mem) /\ UNCHANGED state
    BY <1>2 DEF Bu!FullTurn, MarkedAs
  <1>4. CASE i > 1 /\ \A j \in Bu!Pair(i) : state[j] \in Bu!Full
    BY <1>1, <1>2, <1>3, <1>4, FullUp
  <1>5. CASE ~(i > 1 /\ \A j \in Bu!Pair(i) : state[j] \in Bu!Full)
    <2>1. Bu!Answered(bcall.mem) /\ UNCHANGED <<state, held>>
      BY <1>3, <1>5
    <2>2. AllAgree /\ Holds(bcall.old)
      BY <1>1, <1>2, <1>5, FullStops DEF Filling
    <2>3. PICK mem : mem = bcall.mem
      OBVIOUS
    <2> QED BY <1>1, <2>1, <2>2, <2>3, AnswerInv
  <1> QED BY <1>4, <1>5

(* What the parent of a taken block says is up to the block's brother.     *)
LEMMA BrotherTells ==
  ASSUME Marked, NEW i \in Indices, i > 1, NEW p, p = i \div 2, Agrees(p), state[i] \in Bu!Full
  PROVE  state[p] = IF state[Brother(i)] \in Bu!Full THEN "FULL" ELSE "SPLIT"
  <1>1. Kin(i, p) /\ Fits(state[p], state[i], state[Brother(i)])
    BY KinOf
  <1>2. state[p] \in {"UNUSED", "USED", "SPLIT", "FULL"}
    BY <1>1 DEF Kin, Marked
  <1>3. state[i] # "UNUSED"
    BY DEF Bu!Full
  <1> QED BY <1>1, <1>2, <1>3 DEF Fits

(* The block is found, and it is the one to free.                          *)
LEMMA FindHit ==
  ASSUME Marked, Finding, NEW i, i = bcall.index, state[i] = "USED",
         MarkedAs(i, "UNUSED"), bcall' = [op |-> "merge", index |-> i, loop |-> i], UNCHANGED held
  PROVE  BuInv'
  <1>1. i \in Indices /\ AllAgree
    BY DEF Finding
  <1>2. held = UsedBlocks \ {Bu!Block(i)}
    <2>1. PICK t \in Indices : Lent(t) /\ Below(i, t)
      BY DEF Finding
    <2>2. state[t] = "USED"
      BY <2>1 DEF Lent, Taken
    <2>3. t = i
      BY <1>1, <2>1, <2>2, NothingBelow
    <2> QED BY <2>1, <2>3 DEF Lent
  <1>3. /\ Marked' /\ state'[i] = "UNUSED" /\ \A j \in Indices \ {i} : state'[j] = state[j]
        /\ \A j \in Indices : 2 * j < Bu!tree_size /\ j # i /\ j # i \div 2 => Agrees(j)' = Agrees(j)
    BY <1>1, Remarked
  <1>4. held' = UsedBlocks'
    BY <1>1, <1>2, BlocksLess
  <1>5. AgreeBut(i \div 2)'
    <2> SUFFICES ASSUME NEW j \in Indices, j # i \div 2, 2 * j < Bu!tree_size PROVE Agrees(j)'
      BY DEF AgreeBut
    <2>1. Agrees(j)
      BY <1>1 DEF AllAgree
    <2>2. CASE j # i
      BY <1>3, <2>1, <2>2
    <2>3. CASE j = i
      <3>1. 2 * i \in Indices /\ 2 * i + 1 \in Indices /\ 2 * i # i /\ 2 * i + 1 # i
        BY <1>1, <2>3, Halves, PoolSizes DEF Halved
      <3>2. state[2 * i] = "UNUSED" /\ state[2 * i + 1] = "UNUSED"
        BY <2>1, <2>3 DEF Agrees, Fits
      <3>3. state'[2 * i] = "UNUSED" /\ state'[2 * i + 1] = "UNUSED"
        BY <1>3, <3>1, <3>2
      <3> QED BY <1>3, <2>3, <3>3 DEF Agrees, Fits, Bu!Full
    <2> QED BY <2>2, <2>3
  <1>6. ParentIs(i, IF state[Brother(i)] \in Bu!Full THEN "FULL" ELSE "SPLIT")'
    <2> SUFFICES ASSUME i > 1
                 PROVE  state'[i \div 2] = IF state'[Brother(i)] \in Bu!Full THEN "FULL" ELSE "SPLIT"
      BY DEF ParentIs
    <2>1. PICK p : p = i \div 2
      OBVIOUS
    <2>2. Kin(i, p)
      BY <1>1, <2>1, KinOf
    <2>3. Agrees(p)
      BY <1>1, <2>2 DEF Kin, AllAgree
    <2>4. state[i] \in Bu!Full
      BY DEF Bu!Full
    <2>5. state[p] = IF state[Brother(i)] \in Bu!Full THEN "FULL" ELSE "SPLIT"
      BY <1>1, <2>1, <2>3, <2>4, BrotherTells
    <2>6. state'[p] = state[p] /\ state'[Brother(i)] = state[Brother(i)]
      BY <1>3, <2>2 DEF Kin
    <2> QED BY <2>1, <2>5, <2>6
  <1>7. Freed(i)'
    BY <1>5, <1>6 DEF Freed
  <1>8. bcall' \in [op : {"merge"}, index : Indices, loop : Indices] /\ bcall'.loop = i /\ bcall'.index = i
    BY <1>1
  <1>9. Merging'
    BY <1>3, <1>4, <1>7, <1>8 DEF Merging
  <1> QED BY <1>3, <1>9 DEF BuInv

(* The block is in one of the halves, and its offset says in which.        *)
LEMMA FindDown ==
  ASSUME Marked, Finding, NEW i, i = bcall.index, state[i] # "USED",
         NEW half, half = bcall.step \div 2, NEW right, right <=> bcall.offset >= bcall.current + half,
         bcall' = [bcall EXCEPT !.index = 2 * i + (IF right THEN 1 ELSE 0), !.step = half,
                                !.current = @ + (IF right THEN half ELSE 0)],
         UNCHANGED <<state, held>>
  PROVE  BuInv'
  <1>1. /\ bcall \in [op : {"find"}, index : Indices, offset : Nat, current : Nat, step : Nat]
        /\ i \in Indices /\ AllAgree /\ bcall.current = AtOf(i) /\ bcall.step = SizeOf(i)
    BY DEF Finding
  <1>2. PICK t \in Indices : Lent(t) /\ AtOf(t) = bcall.offset /\ Below(i, t)
    BY DEF Finding
  <1>3. t # i
    BY <1>2 DEF Lent, Taken
  <1>4. 2 * i < Bu!tree_size /\ (Below(2 * i, t) \/ Below(2 * i + 1, t))
    BY <1>1, <1>2, <1>3, BelowChild
  <1>5. PICK l, r : l = 2 * i /\ r = 2 * i + 1
    OBVIOUS
  <1>6. Halved(i, l, r)
    BY <1>1, <1>4, <1>5, Halves
  <1>7. l \in Indices /\ r \in Indices /\ SizeOf(l) \in Nat /\ AtOf(i) \in Nat /\ AtOf(t) \in Nat
        /\ SizeOf(t) \in Nat \ {0}
    BY <1>6, SizeType DEF Halved
  <1>8. half = SizeOf(l) /\ half = SizeOf(r)
    BY <1>1, <1>6, <1>7 DEF Halved
  <1>9. /\ Marked' /\ AllAgree' /\ Lent(t)'
    BY <1>1, <1>2 DEF Marked, AllAgree, Agrees, Lent, Taken, UsedBlocks
  <1>12. PICK in, cu : in = 2 * i + (IF right THEN 1 ELSE 0) /\ cu = AtOf(i) + (IF right THEN half ELSE 0)
    OBVIOUS
  <1>13. bcall' = [bcall EXCEPT !.index = in, !.step = half, !.current = cu]
    BY <1>1, <1>12
  <1>14. /\ in \in Indices /\ half \in Nat /\ cu \in Nat =>
              bcall' \in [op : {"find"}, index : Indices, offset : Nat, current : Nat, step : Nat]
         /\ bcall'.index = in /\ bcall'.step = half /\ bcall'.current = cu /\ bcall'.offset = bcall.offset
    <2>1. PICK c : c = bcall
      OBVIOUS
    <2>2. c \in [op : {"find"}, index : Indices, offset : Nat, current : Nat, step : Nat]
      BY <1>1, <2>1
    <2>3. bcall' = [c EXCEPT !.index = in, !.step = half, !.current = cu]
      BY <1>13, <2>1
    <2>4. /\ bcall'.index = in /\ bcall'.step = half /\ bcall'.current = cu /\ bcall'.offset = c.offset
      BY <2>2, <2>3
    <2>5. ASSUME in \in Indices, half \in Nat, cu \in Nat
          PROVE  bcall' \in [op : {"find"}, index : Indices, offset : Nat, current : Nat, step : Nat]
      BY <2>2, <2>3, <2>5
    <2> QED BY <2>1, <2>4, <2>5
  <1>10. CASE right
    <2>1. AtOf(t) >= AtOf(i) + half
      BY <1>1, <1>2, <1>10
    <2>2. ~Below(l, t)
      <3> SUFFICES ASSUME Below(l, t) PROVE FALSE
        OBVIOUS
      <3>1. Within(t, l)
        BY <1>7, BelowWithin
      <3> QED BY <1>6, <1>7, <1>8, <2>1, <3>1 DEF Within, EndOf, Halved
    <2>3. Below(r, t)
      BY <1>4, <1>5, <2>2
    <2>4. in = r /\ cu = AtOf(i) + half
      <3>1. in = 2 * i + 1 /\ cu = AtOf(i) + half
        BY <1>10, <1>12, Zenon
      <3> QED BY <1>5, <3>1, Zenon
    <2>5. AtOf(r) = AtOf(i) + half /\ AtOf(r) \in Nat
      BY <1>6, <1>8, SizeType DEF Halved
    <2>6. /\ bcall' \in [op : {"find"}, index : Indices, offset : Nat, current : Nat, step : Nat]
          /\ bcall'.index = r /\ bcall'.step = SizeOf(r) /\ bcall'.current = AtOf(r)
          /\ bcall'.offset = AtOf(t)
      BY <1>2, <1>7, <1>8, <1>14, <2>4, <2>5
    <2>7. Finding'
      BY <1>9, <2>3, <2>6 DEF Finding
    <2> QED BY <1>9, <2>7 DEF BuInv
  <1>11. CASE ~right
    <2>1. AtOf(t) < AtOf(i) + half
      <3>1. ~(AtOf(t) >= AtOf(i) + half)
        BY <1>1, <1>2, <1>11
      <3> QED BY <1>7, <1>8, <3>1
    <2>2. ~Below(r, t)
      <3> SUFFICES ASSUME Below(r, t) PROVE FALSE
        OBVIOUS
      <3>1. Within(t, r)
        BY <1>7, BelowWithin
      <3> QED BY <1>6, <1>7, <1>8, <2>1, <3>1 DEF Within, EndOf, Halved
    <2>3. Below(l, t)
      BY <1>4, <1>5, <2>2
    <2>4. in = l /\ cu = AtOf(i)
      <3>1. in = 2 * i + 0 /\ cu = AtOf(i) + 0
        BY <1>11, <1>12, Zenon
      <3>2. i \in Nat
        BY <1>1, PoolSizes
      <3> QED BY <1>5, <1>7, <3>1, <3>2
    <2>5. AtOf(l) = AtOf(i)
      BY <1>6 DEF Halved
    <2>6. /\ bcall' \in [op : {"find"}, index : Indices, offset : Nat, current : Nat, step : Nat]
          /\ bcall'.index = l /\ bcall'.step = SizeOf(l) /\ bcall'.current = AtOf(l)
          /\ bcall'.offset = AtOf(t)
      BY <1>2, <1>7, <1>8, <1>14, <2>4, <2>5
    <2>7. Finding'
      BY <1>9, <2>3, <2>6 DEF Finding
    <2> QED BY <1>9, <2>7 DEF BuInv
  <1> QED BY <1>10, <1>11

LEMMA BuFindTurn == ASSUME BuInv, Bu!FindTurn PROVE BuInv'
  <1>1. Marked /\ Finding
    BY Phase DEF Bu!FindTurn
  <1>2. PICK i : i = bcall.index
    OBVIOUS
  <1>3. PICK half : half = bcall.step \div 2
    OBVIOUS
  <1>4. PICK right : right = (bcall.offset >= bcall.current + half)
    OBVIOUS
  <1>5. /\ UNCHANGED held
        /\ IF state[i] = "USED"
             THEN MarkedAs(i, "UNUSED") /\ bcall' = [op |-> "merge", index |-> i, loop |-> i]
             ELSE /\ bcall' = [bcall EXCEPT !.index = 2 * i + (IF right THEN 1 ELSE 0), !.step = half,
                                            !.current = @ + (IF right THEN half ELSE 0)]
                  /\ UNCHANGED state
    BY <1>2, <1>3, <1>4 DEF Bu!FindTurn, MarkedAs
  <1>6. CASE state[i] = "USED"
    BY <1>1, <1>2, <1>5, <1>6, FindHit
  <1>7. CASE state[i] # "USED"
    BY <1>1, <1>2, <1>3, <1>4, <1>5, <1>7, FindDown
  <1> QED BY <1>6, <1>7

(* Two unused brothers are merged.                                         *)
LEMMA MergeUp ==
  ASSUME Marked, Merging, NEW l, l = bcall.loop, l > 1, NEW p, p = l \div 2,
         \A j \in Bu!Pair(l) : state[j] = "UNUSED",
         MarkedAs(p, "UNUSED"), bcall' = [bcall EXCEPT !.loop = p], UNCHANGED held
  PROVE  BuInv'
  <1>0. PICK i : i = bcall.index
    OBVIOUS
  <1>1. /\ bcall \in [op : {"merge"}, index : Indices, loop : Indices]
        /\ l \in Indices /\ i \in Indices /\ state[l] = "UNUSED" /\ held = UsedBlocks
    BY <1>0 DEF Merging
  <1>2. Kin(l, p) /\ (Agrees(p)' <=> Fits(state'[p], state'[l], state'[Brother(l)]))
    BY <1>1, KinOf
  <1>3. p \in Indices /\ 2 * p < Bu!tree_size /\ state[Brother(l)] = "UNUSED" /\ p # l /\ p # Brother(l)
        /\ Brother(l) \in Indices
    BY <1>2 DEF Kin
  <1>4. state[p] = "SPLIT" /\ AgreeBut(p) /\ (l = i \/ ParentIs(i, "UNUSED"))
    <2>1. CASE l = i /\ Freed(l)
      <3>1. state[Brother(l)] \notin Bu!Full
        BY <1>3 DEF Bu!Full
      <3> QED BY <2>1, <3>1 DEF Freed, ParentIs
    <2>2. CASE AgreeBut(l \div 2) /\ ParentIs(l, "SPLIT") /\ ParentIs(i, "UNUSED")
      BY <2>2 DEF ParentIs
    <2> QED BY <1>0, <2>1, <2>2 DEF Merging
  <1>5. /\ Marked' /\ state'[p] = "UNUSED" /\ \A j \in Indices \ {p} : state'[j] = state[j]
    BY <1>3, Remarked
  <1>6. UsedBlocks' = UsedBlocks
    BY <1>3, <1>4, BlocksKept
  <1>7. Agrees(p)'
    <2>1. state'[l] = "UNUSED" /\ state'[Brother(l)] = "UNUSED"
      BY <1>1, <1>3, <1>5
    <2> QED BY <1>2, <1>5, <2>1 DEF Fits, Bu!Full
  <1>8. AgreeBut(p \div 2)'
    BY <1>3, <1>4, <1>7, AgreeAbove
  <1>9. ParentIs(p, "SPLIT")'
    <2> SUFFICES ASSUME p > 1 PROVE state'[p \div 2] = "SPLIT"
      BY DEF ParentIs
    <2>1. Kin(p, p \div 2)
      BY <1>3, KinOf
    <2>2. p \div 2 \in Indices /\ p \div 2 # p /\ 2 * (p \div 2) < Bu!tree_size
      BY <2>1 DEF Kin
    <2>3. Agrees(p \div 2)
      BY <1>4, <2>2 DEF AgreeBut
    <2>4. state[p \div 2] = "SPLIT"
      BY <1>3, <1>4, <2>3, ParentSplit
    <2> QED BY <1>5, <2>2, <2>4
  <1>10. ParentIs(i, "UNUSED")'
    <2> SUFFICES ASSUME i > 1 PROVE state'[i \div 2] = "UNUSED"
      BY DEF ParentIs
    <2>1. CASE i \div 2 = p
      BY <1>5, <2>1
    <2>2. CASE i \div 2 # p
      <3>1. state[i \div 2] = "UNUSED"
        BY <1>4, <2>2 DEF ParentIs
      <3>2. i \div 2 \in Indices
        BY <1>1, ParentOf DEF Child
      <3> QED BY <1>5, <2>2, <3>1, <3>2
    <2> QED BY <2>1, <2>2
  <1>11. bcall' \in [op : {"merge"}, index : Indices, loop : Indices] /\ bcall'.loop = p /\ bcall'.index = i
    BY <1>0, <1>1, <1>3
  <1>12. held' = UsedBlocks'
    BY <1>1, <1>6
  <1>13. Merging'
    BY <1>5, <1>8, <1>9, <1>10, <1>11, <1>12 DEF Merging
  <1> QED BY <1>5, <1>13 DEF BuInv

LEMMA MergeStops ==
  ASSUME Marked, Merging, NEW l, l = bcall.loop,
         ~(l > 1 /\ \A j \in Bu!Pair(l) : state[j] = "UNUSED"),
         NEW i, i = bcall.index, bcall' = [bcall EXCEPT !.op = "unfull", !.loop = i],
         UNCHANGED <<state, held>>
  PROVE  BuInv'
  <1>1. /\ bcall \in [op : {"merge"}, index : Indices, loop : Indices]
        /\ l \in Indices /\ i \in Indices /\ state[l] = "UNUSED" /\ held = UsedBlocks
    BY DEF Merging
  <1>2. bcall' \in [op : {"unfull"}, index : Indices, loop : Indices] /\ bcall'.loop = i
    BY <1>1
  <1>3. Marked' /\ held' = UsedBlocks' /\ (AllAgree => AllAgree') /\ (Freed(i) => Freed(i)')
    BY <1>1 DEF Marked, AllAgree, Agrees, UsedBlocks, Taken, Freed, AgreeBut, ParentIs
  <1>4. l > 1 => Bu!Pair(l) = {l, Brother(l)} /\ state[Brother(l)] # "UNUSED"
    <2> SUFFICES ASSUME l > 1 PROVE Bu!Pair(l) = {l, Brother(l)} /\ state[Brother(l)] # "UNUSED"
      OBVIOUS
    <2>1. Bu!Pair(l) = {l, Brother(l)}
      BY <1>1, Family
    <2> QED BY <1>1, <2>1
  <1>5. state[l] \notin Bu!Full
    BY <1>1 DEF Bu!Full
  <1>6. CASE l = i /\ Freed(l)
    <2>1. CASE l > 1
      <3>1. Freed(i)' /\ state'[i] \notin Bu!Full /\ ~(state'[i] = "UNUSED" /\ state'[Brother(i)] = "UNUSED")
        BY <1>3, <1>4, <1>5, <1>6, <2>1
      <3>2. Opening'
        BY <1>2, <1>3, <1>6, <2>1, <3>1 DEF Opening
      <3> QED BY <1>3, <3>2 DEF BuInv
    <2>2. CASE ~(l > 1)
      <3>1. AllAgree'
        BY <1>1, <1>3, <1>6, <2>2, RootAgrees DEF Freed, AgreeBut, AllAgree
      <3>2. ~(i > 1)
        BY <1>6, <2>2
      <3>3. Opening'
        BY <1>2, <1>3, <3>1, <3>2 DEF Opening
      <3> QED BY <1>3, <3>3 DEF BuInv
    <2> QED BY <2>1, <2>2
  <1>7. CASE AgreeBut(l \div 2) /\ ParentIs(l, "SPLIT") /\ ParentIs(i, "UNUSED")
    <2>1. AllAgree
      <3>1. CASE l > 1
        <4>1. PICK p : p = l \div 2
          OBVIOUS
        <4>2. Agrees(p) <=> Fits(state[p], state[l], state[Brother(l)])
          BY <1>1, <3>1, <4>1, KinOf
        <4>3. state[p] = "SPLIT"
          BY <1>7, <3>1, <4>1 DEF ParentIs
        <4>4. Agrees(p)
          BY <1>4, <1>5, <3>1, <4>2, <4>3 DEF Fits
        <4> QED BY <1>7, <4>1, <4>4 DEF AllAgree, AgreeBut
      <3>2. CASE ~(l > 1)
        BY <1>1, <1>7, <3>2, RootAgrees DEF AllAgree, AgreeBut
      <3> QED BY <3>1, <3>2
    <2>2. i > 1 => state'[i \div 2] # "FULL"
      BY <1>7 DEF ParentIs
    <2>3. Opening'
      BY <1>2, <1>3, <2>1, <2>2 DEF Opening
    <2> QED BY <1>3, <2>3 DEF BuInv
  <1> QED BY <1>6, <1>7 DEF Merging

LEMMA BuMergeTurn == ASSUME BuInv, Bu!MergeTurn PROVE BuInv'
  <1>1. Marked /\ Merging
    BY Phase DEF Bu!MergeTurn
  <1>2. PICK l : l = bcall.loop
    OBVIOUS
  <1>3. PICK i : i = bcall.index
    OBVIOUS
  <1>4. /\ UNCHANGED held
        /\ IF l > 1 /\ \A j \in Bu!Pair(l) : state[j] = "UNUSED"
             THEN MarkedAs(l \div 2, "UNUSED") /\ bcall' = [bcall EXCEPT !.loop = l \div 2]
             ELSE bcall' = [bcall EXCEPT !.op = "unfull", !.loop = i] /\ UNCHANGED state
    BY <1>2, <1>3 DEF Bu!MergeTurn, MarkedAs
  <1>5. CASE l > 1 /\ \A j \in Bu!Pair(l) : state[j] = "UNUSED"
    BY <1>1, <1>2, <1>4, <1>5, MergeUp
  <1>6. CASE ~(l > 1 /\ \A j \in Bu!Pair(l) : state[j] = "UNUSED")
    BY <1>1, <1>2, <1>3, <1>4, <1>6, MergeStops
  <1> QED BY <1>5, <1>6

(* A full parent of what is no longer taken is split again.                *)
LEMMA OpenUp ==
  ASSUME Marked, Opening, NEW l, l = bcall.loop, l > 1, NEW p, p = l \div 2, state[p] = "FULL",
         MarkedAs(p, "SPLIT"), bcall' = [bcall EXCEPT !.loop = p], UNCHANGED held
  PROVE  BuInv'
  <1>1. /\ bcall \in [op : {"unfull"}, index : Indices, loop : Indices]
        /\ l \in Indices /\ held = UsedBlocks
    BY DEF Opening
  <1>2. /\ AgreeBut(p) /\ state[l] \notin Bu!Full
        /\ state[p] = IF state[Brother(l)] \in Bu!Full THEN "FULL" ELSE "SPLIT"
    BY DEF Opening, Freed, ParentIs
  <1>3. state[Brother(l)] \in Bu!Full /\ state[Brother(l)] # "UNUSED"
    BY <1>2 DEF Bu!Full
  <1>4. Kin(l, p) /\ (Agrees(p)' <=> Fits(state'[p], state'[l], state'[Brother(l)]))
    BY <1>1, KinOf
  <1>5. p \in Indices /\ 2 * p < Bu!tree_size /\ p # l /\ p # Brother(l) /\ Brother(l) \in Indices
    BY <1>4 DEF Kin
  <1>6. /\ Marked' /\ state'[p] = "SPLIT" /\ \A j \in Indices \ {p} : state'[j] = state[j]
    BY <1>5, Remarked
  <1>7. UsedBlocks' = UsedBlocks
    BY <1>5, BlocksKept
  <1>8. Agrees(p)'
    <2>1. state'[l] = state[l] /\ state'[Brother(l)] = state[Brother(l)]
      BY <1>1, <1>5, <1>6
    <2>2. Fits("SPLIT", state[l], state[Brother(l)])
      BY <1>2, <1>3 DEF Fits
    <2> QED BY <1>4, <1>6, <2>1, <2>2
  <1>9. AgreeBut(p \div 2)'
    BY <1>2, <1>5, <1>8, AgreeAbove
  <1>10. bcall' \in [op : {"unfull"}, index : Indices, loop : Indices] /\ bcall'.loop = p
    BY <1>1, <1>5
  <1>11. CASE p > 1
    <2>1. PICK q : q = p \div 2
      OBVIOUS
    <2>2. Kin(p, q)
      BY <1>5, <1>11, <2>1, KinOf
    <2>3. Agrees(q)
      BY <1>2, <2>2 DEF Kin, AgreeBut
    <2>4. state[p] \in Bu!Full
      BY DEF Bu!Full
    <2>5. state[q] = IF state[Brother(p)] \in Bu!Full THEN "FULL" ELSE "SPLIT"
      BY <1>5, <1>11, <2>1, <2>3, <2>4, BrotherTells
    <2>6. state'[q] = state[q] /\ state'[Brother(p)] = state[Brother(p)]
      BY <1>6, <2>2 DEF Kin
    <2>7. ParentIs(p, IF state[Brother(p)] \in Bu!Full THEN "FULL" ELSE "SPLIT")'
      BY <2>1, <2>5, <2>6 DEF ParentIs
    <2>8. Freed(p)'
      BY <1>9, <2>7 DEF Freed
    <2>9. state'[p] \notin Bu!Full /\ state'[p] # "UNUSED"
      BY <1>6 DEF Bu!Full
    <2>10. Opening'
      BY <1>1, <1>7, <1>10, <1>11, <2>8, <2>9 DEF Opening
    <2> QED BY <1>6, <2>10 DEF BuInv
  <1>12. CASE ~(p > 1)
    <2>1. AllAgree'
      BY <1>5, <1>9, <1>12, RootAgrees DEF AgreeBut, AllAgree
    <2>2. Opening'
      BY <1>1, <1>7, <1>10, <1>12, <2>1 DEF Opening
    <2> QED BY <1>6, <2>2 DEF BuInv
  <1> QED BY <1>11, <1>12

LEMMA OpenStops ==
  ASSUME Marked, Opening, NEW l, l = bcall.loop, ~(l > 1 /\ state[l \div 2] = "FULL"),
         bcall' = Bu!Idle, UNCHANGED <<state, held>>
  PROVE  BuInv'
  <1>1. l \in Indices /\ held = UsedBlocks
    BY DEF Opening
  <1>2. AllAgree
    <2>1. CASE l > 1 /\ Freed(l) /\ state[l] \notin Bu!Full /\ ~(state[l] = "UNUSED" /\ state[Brother(l)] = "UNUSED")
      <3>1. PICK p : p = l \div 2
        OBVIOUS
      <3>2. Agrees(p) <=> Fits(state[p], state[l], state[Brother(l)])
        BY <1>1, <2>1, <3>1, KinOf
      <3>3. state[p] = "SPLIT"
        BY <2>1, <3>1 DEF Freed, ParentIs
      <3>4. Agrees(p)
        BY <2>1, <3>2, <3>3 DEF Fits
      <3> QED BY <2>1, <3>1, <3>4 DEF Freed, AgreeBut, AllAgree
    <2>2. CASE AllAgree
      BY <2>2
    <2> QED BY <2>1, <2>2 DEF Opening
  <1>3. Marked' /\ AllAgree' /\ held' = UsedBlocks'
    BY <1>1, <1>2 DEF Marked, AllAgree, Agrees, UsedBlocks, Taken
  <1>4. Waiting'
    BY <1>3 DEF Waiting
  <1> QED BY <1>3, <1>4 DEF BuInv

LEMMA BuUnfullTurn == ASSUME BuInv, Bu!UnfullTurn PROVE BuInv'
  <1>1. Marked /\ Opening
    BY Phase DEF Bu!UnfullTurn
  <1>2. PICK l : l = bcall.loop
    OBVIOUS
  <1>3. /\ UNCHANGED held
        /\ IF l > 1 /\ state[l \div 2] = "FULL"
             THEN MarkedAs(l \div 2, "SPLIT") /\ bcall' = [bcall EXCEPT !.loop = l \div 2]
             ELSE bcall' = Bu!Idle /\ UNCHANGED state
    BY <1>2 DEF Bu!UnfullTurn, MarkedAs
  <1>4. CASE l > 1 /\ state[l \div 2] = "FULL"
    BY <1>1, <1>2, <1>3, <1>4, OpenUp
  <1>5. CASE ~(l > 1 /\ state[l \div 2] = "FULL")
    BY <1>1, <1>2, <1>3, <1>5, OpenStops
  <1> QED BY <1>4, <1>5

LEMMA BuNext == ASSUME BuInv, [Bu!Next]_(Bu!vars) PROVE BuInv'
  <1>1. CASE \E n \in 1..Bu!pool_size : Bu!buddy_alloc(n)
    BY <1>1, BuAlloc
  <1>2. CASE \E b \in held : Bu!buddy_free(b)
    BY <1>2, BuFree
  <1>3. CASE \E b \in held : \E n \in 0..Bu!pool_size + 1 : Bu!buddy_realloc(b, n)
    BY <1>3, BuRealloc
  <1>4. CASE Bu!AllocTurn
    BY <1>4, BuAllocTurn
  <1>5. CASE Bu!FullTurn
    BY <1>5, BuFullTurn
  <1>6. CASE Bu!FindTurn
    BY <1>6, BuFindTurn
  <1>7. CASE Bu!MergeTurn
    BY <1>7, BuMergeTurn
  <1>8. CASE Bu!UnfullTurn
    BY <1>8, BuUnfullTurn
  <1>9. CASE UNCHANGED Bu!vars
    <2>1. state' = state /\ bcall' = bcall /\ held' = held
      BY <1>9 DEF Bu!vars
    <2>2. /\ Marked' = Marked /\ AllAgree' = AllAgree /\ Taken' = Taken /\ UsedBlocks' = UsedBlocks
      BY <2>1 DEF Marked, AllAgree, Agrees, Taken, UsedBlocks
    <2>3. \A p : AgreeBut(p)' = AgreeBut(p)
      BY <2>1 DEF AgreeBut, Agrees
    <2>4. Waiting' = Waiting
      BY <2>1, <2>2 DEF Waiting
    <2>5. Searching' = Searching
      BY <2>1, <2>2 DEF Searching, AgreeBut, Agrees, ParentIs, Holds, Lent, Passed, Overlapped
    <2>6. Filling' = Filling
      BY <2>1, <2>2 DEF Filling, AgreeBut, Agrees, ParentIs, Holds, Lent
    <2>7. Finding' = Finding
      BY <2>1, <2>2 DEF Finding, Lent
    <2>8. Merging' = Merging
      BY <2>1, <2>2 DEF Merging, Freed, AgreeBut, Agrees, ParentIs
    <2>9. Opening' = Opening
      BY <2>1, <2>2 DEF Opening, Freed, AgreeBut, Agrees, ParentIs
    <2> QED BY <2>2, <2>4, <2>5, <2>6, <2>7, <2>8, <2>9 DEF BuInv
  <1> QED BY <1>1, <1>2, <1>3, <1>4, <1>5, <1>6, <1>7, <1>8, <1>9 DEF Bu!Next

LEMMA BuImplies == BuInv => Bu!Indexed
  <1> SUFFICES ASSUME BuInv, bcall = Bu!Idle
               PROVE  /\ held = {Bu!Block(i) : i \in {i \in DOMAIN state : state[i] = "USED"}}
                      /\ \A i \in DOMAIN state : 2 * i < Bu!tree_size =>
                           LET below == {state[2 * i], state[2 * i + 1]}
                           IN IF below = {"UNUSED"}
                                THEN state[i] \in {"UNUSED", "USED"}
                                ELSE state[i] = IF below \subseteq Bu!Full THEN "FULL" ELSE "SPLIT"
    BY DEF Bu!Indexed
  <1>1. Marked /\ AllAgree /\ held = UsedBlocks /\ DOMAIN state = Indices
    BY Phase DEF Waiting, Marked
  <1>2. held = {Bu!Block(i) : i \in {i \in DOMAIN state : state[i] = "USED"}}
    BY <1>1 DEF UsedBlocks, Taken
  <1>3. ASSUME NEW i \in DOMAIN state, 2 * i < Bu!tree_size
        PROVE  LET below == {state[2 * i], state[2 * i + 1]}
               IN IF below = {"UNUSED"}
                    THEN state[i] \in {"UNUSED", "USED"}
                    ELSE state[i] = IF below \subseteq Bu!Full THEN "FULL" ELSE "SPLIT"
    <2>1. i \in Indices /\ Agrees(i) /\ state[i] \in {"UNUSED", "USED", "SPLIT", "FULL"}
      BY <1>1, <1>3 DEF AllAgree, Marked
    <2>2. PICK a, b : a = state[2 * i] /\ b = state[2 * i + 1]
      OBVIOUS
    <2>3. Fits(state[i], a, b)
      BY <2>1, <2>2 DEF Agrees
    <2>4. IF {a, b} = {"UNUSED"}
            THEN state[i] \in {"UNUSED", "USED"}
            ELSE state[i] = IF {a, b} \subseteq Bu!Full THEN "FULL" ELSE "SPLIT"
      BY <2>1, <2>3 DEF Fits, Bu!Full
    <2> QED BY <2>2, <2>4
  <1> QED BY <1>2, <1>3

(* The blocks of a size in the pool all begin before its end.              *)
LEMMA BlockInPool ==
  ASSUME NEW s \in Powers, NEW k \in 0..Bu!pool_size \div s - 1
  PROVE  k \in Nat /\ k * s < Bu!pool_size
  <1>1. PICK m \in 0..Order : s = Bu!Pow2[m]
    BY DEF Powers
  <1>2. m \in Nat /\ Order - m \in Nat /\ m + (Order - m) = Order /\ s \in Nat \ {0}
    BY <1>1, PoolSizes, PowerIsNat
  <1>3. PICK q : q = Bu!Pow2[Order - m]
    OBVIOUS
  <1>4. q \in Nat
    BY <1>2, <1>3, Doubles
  <1>5. Bu!pool_size = s * q
    BY <1>1, <1>2, <1>3, PowerProduct, PoolSizes
  <1>6. Bu!pool_size \div s = q
    BY <1>2, <1>4, <1>5, Quotient
  <1>7. k \in Nat /\ k < q
    BY <1>4, <1>6
  <1>8. ASSUME NEW a \in Nat \ {0}, NEW b \in Nat, NEW d \in Nat, d < b PROVE d * a < a * b
    <2>1. a * b = d * a + a * (b - d)
      BY SMT
    <2>2. a * (b - d) > 0
      BY <1>8, SMT
    <2>3. a * b \in Int /\ d * a \in Int /\ a * (b - d) \in Int
      BY SMT
    <2> QED BY <2>1, <2>2, <2>3
  <1>9. k * s < s * q
    BY <1>2, <1>4, <1>7, <1>8
  <1> QED BY <1>5, <1>7, <1>9

LEMMA BuGivesUp ==
  ASSUME BuInv, [Bu!Next]_(Bu!vars), bcall.op = "alloc", bcall'.op \in {"idle", "find"},
         NEW k \in 0..Bu!pool_size \div bcall.size - 1
  PROVE  \E i \in DOMAIN state :
           /\ state[i] = "USED"
           /\ Bu!ShiftFromIndex(i) < (k + 1) * bcall.size
           /\ k * bcall.size < Bu!ShiftFromIndex(i) + Bu!SizeFromIndex(i)
  <1>1. bcall # Bu!Idle
    BY DEF Bu!Idle
  <1>2. Bu!AllocTurn
    <2>1. bcall' # bcall
      OBVIOUS
    <2> QED BY <1>1, <2>1 DEF Bu!Next, Bu!vars, Bu!buddy_alloc, Bu!buddy_free, Bu!buddy_realloc,
                              Bu!FullTurn, Bu!FindTurn, Bu!MergeTurn, Bu!UnfullTurn
  <1>3. Passed(Bu!pool_size, bcall.size)
    BY <1>2, BuAllocTurn
  <1>4. Marked /\ bcall.size \in Powers
    BY Phase DEF Searching
  <1>5. PICK s : s = bcall.size
    OBVIOUS
  <1>6. k \in Nat /\ k * s < Bu!pool_size
    BY <1>4, <1>5, BlockInPool
  <1>7. Overlapped(k, s)
    BY <1>3, <1>5, <1>6 DEF Passed
  <1>8. PICK u \in Taken : AtOf(u) < (k + 1) * s /\ k * s < EndOf(u)
    BY <1>7 DEF Overlapped
  <1>9. u \in DOMAIN state /\ state[u] = "USED"
    BY <1>4 DEF Taken, Marked
  <1> QED BY <1>5, <1>8, <1>9 DEF AtOf, EndOf, SizeOf

LEMMA BuRefines ==
  /\ MCInit => Bu!Init
  /\ [MCNext]_allVars => [Bu!Next]_(Bu!vars)
  BY DEF MCInit, MCNext, allVars, buVars, Bu!vars

LEMMA BuAlways == MCSpec => []BuInv
  <1>1. MCInit => BuInv
    BY BuRefines, BuInit
  <1>2. BuInv /\ [MCNext]_allVars => BuInv'
    BY BuRefines, BuNext
  <1> QED BY <1>1, <1>2, PTL DEF MCSpec

(* mm/buddy.c: whatever was allocated, moved and freed before, in a pool   *)
(* of any order, the tree between calls says exactly what is in use.       *)
THEOREM TreeIsExact == MCSpec => []Indexed
  <1>1. BuInv => Indexed
    BY BuImplies DEF Indexed
  <1> QED BY <1>1, BuAlways, PTL

(* mm/buddy.c: buddy_alloc returns NULL only when no block of the rounded  *)
(* size is free, in a pool of any order.                                   *)
THEOREM NullOnlyWhenFull == MCSpec => NullMeansFull
  <1>1. BuInv /\ [MCNext]_allVars =>
          [bcall.op = "alloc" /\ bcall'.op \in {"idle", "find"} =>
             \A k \in 0..Bu!pool_size \div bcall.size - 1 :
               \E i \in DOMAIN state :
                 /\ state[i] = "USED"
                 /\ Bu!ShiftFromIndex(i) < (k + 1) * bcall.size
                 /\ k * bcall.size < Bu!ShiftFromIndex(i) + Bu!SizeFromIndex(i)]_(Bu!vars)
    <2>1. [MCNext]_allVars => [Bu!Next]_(Bu!vars)
      BY BuRefines
    <2> QED BY <2>1, BuGivesUp
  <1>2. MCSpec => [][MCNext]_allVars
    BY DEF MCSpec
  <1> QED BY <1>1, <1>2, BuAlways, PTL DEF NullMeansFull, Bu!NullMeansFull
=============================================================================
