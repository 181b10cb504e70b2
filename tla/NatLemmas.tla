----------------------------- MODULE NatLemmas -----------------------------
(***************************************************************************)
(* What the proofs need of numbers and of sequences: the least-number      *)
(* principle, for minima and in place of induction, walks along links,     *)
(* sequences joined piece by piece, recursive definitions of sequences and *)
(* of truth values, and division with remainder.                           *)
(***************************************************************************)
EXTENDS Integers, Sequences, WellFoundedInduction, SequenceTheorems, TLAPS

(* A set of naturals that is not empty has a least element.                *)
LEMMA LeastNat ==
  ASSUME NEW T \in SUBSET Nat, T # {}
  PROVE  \E m \in T : \A k \in T : m <= k
  <1> DEFINE R == OpToRel(<, Nat)
  <1>1. IsWellFoundedOn(R, Nat)
    BY NatLessThanWellFounded
  <1>2. \A x, y \in Nat : <<y, x>> \in R <=> y < x
    BY DEF OpToRel
  <1> HIDE DEF R
  <1>3. PICK m \in T : \A k \in T : ~(<<k, m>> \in R)
    BY <1>1, WFMin
  <1>4. ASSUME NEW k \in T
        PROVE  m <= k
    <2>1. ~(k < m)
      BY <1>2, <1>3
    <2>2. k \in Nat /\ m \in Nat
      OBVIOUS
    <2> QED BY <2>1, <2>2
  <1> QED BY <1>4

(* What holds of 0 and passes from n to n + 1 holds of every natural: P is *)
(* a set, so that the provers can be given it.                             *)
LEMMA NatInductionSet ==
  ASSUME NEW P, 0 \in P, \A n \in Nat : n \in P => n + 1 \in P
  PROVE  Nat \subseteq P
  <1> SUFFICES ASSUME Nat \ P # {} PROVE FALSE
    OBVIOUS
  <1>1. PICK m \in Nat \ P : \A k \in Nat \ P : m <= k
    BY LeastNat
  <1>2. m # 0 /\ m - 1 \in Nat /\ ~(m <= m - 1)
    BY <1>1
  <1>3. m - 1 \in P
    BY <1>1, <1>2
  <1>4. (m - 1) + 1 = m
    BY <1>1
  <1> QED BY <1>2, <1>3, <1>4

----------------------------------------------------------------------------
(* Walks: x, link[x], link[link[x]] and so on, which the models write as a *)
(* recursive function.                                                     *)
Walked(f, n, link, x) == f[0] = x /\ \A i \in 1..n : f[i] = link[f[i - 1]]

LEMMA WalkPrefix ==
  ASSUME NEW link, NEW x
  PROVE  \A n \in Nat : \E f : Walked(f, n, link, x)
  <1> DEFINE P == {n \in Nat : \E f : Walked(f, n, link, x)}
  <1>1. 0 \in P
    <2> DEFINE f == [i \in {0} |-> x]
    <2>1. f[0] = x /\ 1..0 = {}
      OBVIOUS
    <2> QED BY <2>1 DEF Walked
  <1>2. ASSUME NEW n \in Nat, n \in P PROVE n + 1 \in P
    <2>1. PICK f : Walked(f, n, link, x)
      BY <1>2
    <2> DEFINE h == [i \in 0..n + 1 |-> IF i = n + 1 THEN link[f[n]] ELSE f[i]]
    <2>2. \A i \in 0..n + 1 : h[i] = IF i = n + 1 THEN link[f[n]] ELSE f[i]
      OBVIOUS
    <2> HIDE DEF h
    <2>3. h[0] = x
      <3>1. 0 \in 0..n + 1 /\ 0 # n + 1
        OBVIOUS
      <3> QED BY <2>1, <2>2, <3>1 DEF Walked
    <2>4. ASSUME NEW i \in 1..n + 1 PROVE h[i] = link[h[i - 1]]
      <3>1. i \in 0..n + 1 /\ i - 1 \in 0..n + 1 /\ i - 1 # n + 1
        OBVIOUS
      <3>2. h[i - 1] = f[i - 1]
        BY <2>2, <3>1
      <3>3. CASE i = n + 1
        <4>1. i - 1 = n
          BY <3>3
        <4>2. h[i] = link[f[n]]
          BY <2>2, <3>1, <3>3
        <4> QED BY <3>2, <4>1, <4>2
      <3>4. CASE i # n + 1
        <4>1. i \in 1..n
          BY <3>4
        <4>2. h[i] = f[i] /\ f[i] = link[f[i - 1]]
          BY <2>1, <2>2, <3>1, <3>4, <4>1 DEF Walked
        <4> QED BY <3>2, <4>2
      <3> QED BY <3>3, <3>4
    <2>5. Walked(h, n + 1, link, x)
      BY <2>3, <2>4 DEF Walked
    <2> QED BY <2>5
  <1> HIDE DEF P
  <1>3. Nat \subseteq P
    BY <1>1, <1>2, NatInductionSet
  <1> QED BY <1>3 DEF P

LEMMA WalkUnique ==
  ASSUME NEW link, NEW x, NEW m \in Nat, NEW n \in Nat, NEW f, NEW h,
         Walked(f, m, link, x), Walked(h, n, link, x)
  PROVE  \A k \in Nat : k <= m /\ k <= n => f[k] = h[k]
  <1> DEFINE P == {k \in Nat : k <= m /\ k <= n => f[k] = h[k]}
  <1>1. 0 \in P
    BY DEF Walked
  <1>2. ASSUME NEW k \in Nat, k \in P PROVE k + 1 \in P
    <2> SUFFICES ASSUME k + 1 <= m, k + 1 <= n PROVE f[k + 1] = h[k + 1]
      OBVIOUS
    <2>1. k + 1 \in 1..m /\ k + 1 \in 1..n /\ (k + 1) - 1 = k /\ k <= m /\ k <= n
      OBVIOUS
    <2>2. f[k] = h[k]
      BY <1>2, <2>1
    <2>3. f[k + 1] = link[f[k]] /\ h[k + 1] = link[h[k]]
      BY <2>1 DEF Walked
    <2> QED BY <2>2, <2>3
  <1> HIDE DEF P
  <1>3. Nat \subseteq P
    BY <1>1, <1>2, NatInductionSet
  <1> QED BY <1>3 DEF P

(* The recursive definition has a solution ...                             *)
LEMMA WalkExists ==
  ASSUME NEW link, NEW x
  PROVE  \E f : f = [i \in Nat |-> IF i = 0 THEN x ELSE link[f[i - 1]]]
  <1> DEFINE Pre(n) == CHOOSE f : Walked(f, n, link, x)
             w == [i \in Nat |-> Pre(i)[i]]
  <1>1. ASSUME NEW n \in Nat PROVE Walked(Pre(n), n, link, x)
    BY WalkPrefix
  <1> HIDE DEF Pre
  <1>2. w[0] = x
    BY <1>1 DEF Walked
  <1>3. ASSUME NEW i \in Nat, i # 0 PROVE w[i] = link[w[i - 1]]
    <2>1. i - 1 \in Nat /\ i - 1 <= i /\ i - 1 \in 0..i /\ i \in 1..i
      BY <1>3
    <2>2. Pre(i - 1)[i - 1] = Pre(i)[i - 1]
      BY <1>1, <2>1, WalkUnique
    <2>3. Pre(i)[i] = link[Pre(i)[i - 1]]
      BY <1>1, <2>1 DEF Walked
    <2> QED BY <2>1, <2>2, <2>3
  <1> HIDE DEF w
  <1>4. \A i \in Nat : w[i] = IF i = 0 THEN x ELSE link[w[i - 1]]
    BY <1>2, <1>3
  <1>5. w = [i \in Nat |-> w[i]]
    BY DEF w
  <1>6. w = [i \in Nat |-> IF i = 0 THEN x ELSE link[w[i - 1]]]
    BY <1>4, <1>5
  <1> QED BY <1>6

LEMMA WalkValues ==
  ASSUME NEW x, NEW link, NEW w, w = [i \in Nat |-> IF i = 0 THEN x ELSE link[w[i - 1]]]
  PROVE  w[0] = x /\ \A n \in Nat : w[n + 1] = link[w[n]]
  <1> DEFINE e == [i \in Nat |-> IF i = 0 THEN x ELSE link[w[i - 1]]]
  <1>1. \A i \in Nat : e[i] = IF i = 0 THEN x ELSE link[w[i - 1]]
    OBVIOUS
  <1>2. w = e
    OBVIOUS
  <1> HIDE DEF e
  <1>3. \A n \in Nat : n + 1 \in Nat /\ n + 1 # 0 /\ (n + 1) - 1 = n
    OBVIOUS
  <1> QED BY <1>1, <1>2, <1>3

(* ... and no walk leaves a set that the link maps into itself.            *)
LEMMA WalkStays ==
  ASSUME NEW S, NEW x \in S, NEW link, \A y \in S : link[y] \in S,
         NEW w, w = [i \in Nat |-> IF i = 0 THEN x ELSE link[w[i - 1]]]
  PROVE  \A n \in Nat : w[n] \in S
  <1> DEFINE P == {n \in Nat : w[n] \in S}
  <1>1. 0 \in P
    BY WalkValues
  <1>2. ASSUME NEW n \in Nat, n \in P PROVE n + 1 \in P
    BY <1>2, WalkValues
  <1> HIDE DEF P
  <1>3. Nat \subseteq P
    BY <1>1, <1>2, NatInductionSet
  <1> QED BY <1>3 DEF P

----------------------------------------------------------------------------
(* Pieces joined one after the other, as loops collect what they visit and *)
(* a stream is made of frames: again a recursive function.                 *)

(* The first n of the pieces, joined.                                      *)
Joined(f, n, piece) == f[0] = <<>> /\ \A i \in 1..n : f[i] = f[i - 1] \o piece[i - 1]

LEMMA JoinPrefix ==
  ASSUME NEW piece
  PROVE  \A n \in Nat : \E f : Joined(f, n, piece)
  <1> DEFINE P == {n \in Nat : \E f : Joined(f, n, piece)}
  <1>1. 0 \in P
    <2> DEFINE f == [i \in {0} |-> <<>>]
    <2>1. f[0] = <<>> /\ 1..0 = {}
      OBVIOUS
    <2> QED BY <2>1 DEF Joined
  <1>2. ASSUME NEW n \in Nat, n \in P PROVE n + 1 \in P
    <2>1. PICK f : Joined(f, n, piece)
      BY <1>2
    <2> DEFINE h == [i \in 0..n + 1 |-> IF i = n + 1 THEN f[n] \o piece[n] ELSE f[i]]
    <2>2. \A i \in 0..n + 1 : h[i] = IF i = n + 1 THEN f[n] \o piece[n] ELSE f[i]
      OBVIOUS
    <2> HIDE DEF h
    <2>3. h[0] = <<>>
      <3>1. 0 \in 0..n + 1 /\ 0 # n + 1
        OBVIOUS
      <3> QED BY <2>1, <2>2, <3>1 DEF Joined
    <2>4. ASSUME NEW i \in 1..n + 1 PROVE h[i] = h[i - 1] \o piece[i - 1]
      <3>1. i \in 0..n + 1 /\ i - 1 \in 0..n + 1 /\ i - 1 # n + 1
        OBVIOUS
      <3>2. h[i - 1] = f[i - 1]
        BY <2>2, <3>1
      <3>3. CASE i = n + 1
        <4>1. i - 1 = n
          BY <3>3
        <4> QED BY <2>2, <3>1, <3>2, <3>3, <4>1
      <3>4. CASE i # n + 1
        <4>1. i \in 1..n
          BY <3>4
        <4> QED BY <2>1, <2>2, <3>1, <3>2, <3>4, <4>1 DEF Joined
      <3> QED BY <3>3, <3>4
    <2>5. Joined(h, n + 1, piece)
      BY <2>3, <2>4 DEF Joined
    <2> QED BY <2>5
  <1> HIDE DEF P
  <1>3. Nat \subseteq P
    BY <1>1, <1>2, NatInductionSet
  <1> QED BY <1>3 DEF P

LEMMA JoinUnique ==
  ASSUME NEW piece, NEW m \in Nat, NEW n \in Nat, NEW f, NEW h,
         Joined(f, m, piece), Joined(h, n, piece)
  PROVE  \A k \in Nat : k <= m /\ k <= n => f[k] = h[k]
  <1> DEFINE P == {k \in Nat : k <= m /\ k <= n => f[k] = h[k]}
  <1>1. 0 \in P
    BY DEF Joined
  <1>2. ASSUME NEW k \in Nat, k \in P PROVE k + 1 \in P
    <2> SUFFICES ASSUME k + 1 <= m, k + 1 <= n PROVE f[k + 1] = h[k + 1]
      OBVIOUS
    <2>1. k + 1 \in 1..m /\ k + 1 \in 1..n /\ (k + 1) - 1 = k /\ k <= m /\ k <= n
      OBVIOUS
    <2>2. f[k] = h[k]
      BY <1>2, <2>1
    <2>3. f[k + 1] = f[k] \o piece[k] /\ h[k + 1] = h[k] \o piece[k]
      BY <2>1 DEF Joined
    <2> QED BY <2>2, <2>3
  <1> HIDE DEF P
  <1>3. Nat \subseteq P
    BY <1>1, <1>2, NatInductionSet
  <1> QED BY <1>3 DEF P

LEMMA JoinExists ==
  ASSUME NEW piece
  PROVE  \E f : f = [i \in Nat |-> IF i = 0 THEN <<>> ELSE f[i - 1] \o piece[i - 1]]
  <1> DEFINE Pre(n) == CHOOSE f : Joined(f, n, piece)
             w == [i \in Nat |-> Pre(i)[i]]
  <1>1. ASSUME NEW n \in Nat PROVE Joined(Pre(n), n, piece)
    BY JoinPrefix
  <1> HIDE DEF Pre
  <1>2. w[0] = <<>>
    BY <1>1 DEF Joined
  <1>3. ASSUME NEW i \in Nat, i # 0 PROVE w[i] = w[i - 1] \o piece[i - 1]
    <2>1. i - 1 \in Nat /\ i - 1 <= i /\ i - 1 \in 0..i /\ i \in 1..i
      BY <1>3
    <2>2. Pre(i - 1)[i - 1] = Pre(i)[i - 1]
      BY <1>1, <2>1, JoinUnique
    <2>3. Pre(i)[i] = Pre(i)[i - 1] \o piece[i - 1]
      BY <1>1, <2>1 DEF Joined
    <2> QED BY <2>1, <2>2, <2>3
  <1>4. w = [i \in Nat |-> w[i]]
    OBVIOUS
  <1> HIDE DEF w
  <1>5. w = [i \in Nat |-> IF i = 0 THEN <<>> ELSE w[i - 1] \o piece[i - 1]]
    BY <1>2, <1>3, <1>4
  <1> QED BY <1>5

Joins(f, piece) == f = [i \in Nat |-> IF i = 0 THEN <<>> ELSE f[i - 1] \o piece[i - 1]]

LEMMA JoinSteps ==
  ASSUME NEW f, NEW piece, Joins(f, piece)
  PROVE  f[0] = <<>> /\ \A i \in Nat : f[i + 1] = f[i] \o piece[i]
  <1> DEFINE e == [i \in Nat |-> IF i = 0 THEN <<>> ELSE f[i - 1] \o piece[i - 1]]
  <1>1. \A i \in Nat : e[i] = IF i = 0 THEN <<>> ELSE f[i - 1] \o piece[i - 1]
    OBVIOUS
  <1>2. f = e
    BY DEF Joins
  <1> HIDE DEF e
  <1>3. \A i \in Nat : i + 1 \in Nat /\ i + 1 # 0 /\ (i + 1) - 1 = i
    OBVIOUS
  <1> QED BY <1>1, <1>2, <1>3

(* That joining sequences is associative, in a form whose instances the    *)
(* provers find.                                                           *)
Groups(a, b, c) == (a \o b) \o c = a \o (b \o c)

LEMMA Regroup == \A S : \A a, b, c \in Seq(S) : Groups(a, b, c)
  BY ConcatAssociative DEF Groups

(* Fewer pieces are a beginning of more.                                   *)
Grows(f, m, S) ==
  \A n \in 0..m : f[n] \in Seq(S) /\ \A k \in 0..n : \E rest \in Seq(S) : f[n] = f[k] \o rest

LEMMA JoinGrows ==
  ASSUME NEW S, NEW m \in Nat, NEW f, NEW piece, Joins(f, piece),
         \A i \in 0..m - 1 : piece[i] \in Seq(S)
  PROVE  Grows(f, m, S)
  <1> DEFINE Begins(n, k) == \E rest \in Seq(S) : f[n] = f[k] \o rest
             P == {n \in Nat : n <= m => f[n] \in Seq(S) /\ \A k \in 0..n : f[k] \in Seq(S) /\ Begins(n, k)}
  <1>1. f[0] = <<>> /\ \A i \in Nat : f[i + 1] = f[i] \o piece[i]
    BY JoinSteps
  <1>2. ASSUME NEW s \in Seq(S) PROVE s = s \o <<>> /\ <<>> \in Seq(S)
    BY ConcatEmptySeq, EmptySeq
  <1>3. 0 \in P
    <2>1. f[0] \in Seq(S) /\ Begins(0, 0)
      BY <1>1, <1>2, EmptySeq
    <2>2. 0..0 = {0}
      OBVIOUS
    <2> HIDE DEF Begins
    <2> QED BY <2>1, <2>2
  <1>4. ASSUME NEW n \in Nat, n \in P PROVE n + 1 \in P
    <2> HIDE DEF Begins
    <2> SUFFICES ASSUME n + 1 <= m
               PROVE  f[n + 1] \in Seq(S) /\ \A k \in 0..n + 1 : f[k] \in Seq(S) /\ Begins(n + 1, k)
      OBVIOUS
    <2>1. n <= m /\ n \in 0..m - 1
      OBVIOUS
    <2> DEFINE s == f[n]
               t == piece[n]
    <2>2. s \in Seq(S) /\ t \in Seq(S) /\ f[n + 1] = s \o t
          /\ \A k \in 0..n : f[k] \in Seq(S) /\ Begins(n, k)
      BY <1>1, <1>4, <2>1
    <2> HIDE DEF s, t
    <2>3. f[n + 1] \in Seq(S)
      BY <2>2, ConcatProperties
    <2>4. ASSUME NEW k \in 0..n PROVE Begins(n + 1, k)
      <3> DEFINE r == f[k]
      <3>1. r \in Seq(S) /\ \E rest \in Seq(S) : s = r \o rest
        BY <2>2 DEF s, Begins
      <3> HIDE DEF r
      <3>2. PICK rest \in Seq(S) : s = r \o rest
        BY <3>1
      <3>3. rest \o t \in Seq(S) /\ (r \o rest) \o t = r \o (rest \o t)
        <4>1. rest \o t \in Seq(S)
          BY <2>2, ConcatProperties
        <4>2. (r \o rest) \o t = r \o (rest \o t)
          <5>1. Groups(r, rest, t)
            BY <2>2, <3>1, Regroup
          <5> QED BY <5>1 DEF Groups
        <4> QED BY <4>1, <4>2
      <3>4. f[n + 1] = r \o (rest \o t)
        BY <2>2, <3>2, <3>3
      <3> QED BY <3>3, <3>4 DEF r, Begins
    <2>5. Begins(n + 1, n + 1)
      BY <1>2, <2>3 DEF Begins
    <2>6. \A k \in 0..n + 1 : k \in 0..n \/ k = n + 1
      OBVIOUS
    <2> QED BY <2>2, <2>3, <2>4, <2>5, <2>6
  <1> HIDE DEF P
  <1>5. Nat \subseteq P
    BY <1>3, <1>4, NatInductionSet
  <1>6. \A n \in 0..m : n \in Nat /\ n <= m
    OBVIOUS
  <1> HIDE DEF Begins
  <1>7. \A n \in 0..m : f[n] \in Seq(S) /\ \A k \in 0..n : Begins(n, k)
    BY <1>5, <1>6 DEF P
  <1> QED BY <1>7 DEF Begins, Grows

----------------------------------------------------------------------------
(* Scans: what a reader decodes of a stretch of U bytes, item by item.     *)

Scans(f, U, item, next) ==
  f = [k \in Nat |-> IF k >= U THEN <<>> ELSE <<item[k]>> \o f[next[k]]]
Onward(next) == next \in [Nat -> Nat] /\ \A k \in Nat : next[k] > k

(* at[1], at[2], ... are the places of the items of s, from the first on.  *)
Placed(s, at, U, item, next) ==
  /\ at[Len(s) + 1] = U
  /\ \A i \in 1..Len(s) : /\ at[i] \in Nat /\ at[i] < U
                          /\ s[i] = item[at[i]] /\ at[i + 1] = next[at[i]]

(* The recursive definition of a scan that always moves on has a solution. *)
LEMMA ScanExists ==
  ASSUME NEW U \in Nat, NEW item, NEW next, Onward(next)
  PROVE  \E f : Scans(f, U, item, next)
  <1> USE DEF Onward
  <1> DEFINE Fit(f, n) == \A k \in Nat : k + n >= U =>
                            f[k] = IF k >= U THEN <<>> ELSE <<item[k]>> \o f[next[k]]
             P == {n \in Nat : \E f : Fit(f, n)}
  <1>1. 0 \in P
    <2> DEFINE f == [k \in Nat |-> <<>>]
    <2>1. Fit(f, 0)
      OBVIOUS
    <2> QED BY <2>1
  <1>2. ASSUME NEW n \in Nat, n \in P PROVE n + 1 \in P
    <2>1. PICK f : Fit(f, n)
      BY <1>2
    <2> DEFINE h == [k \in Nat |-> IF k + n >= U THEN f[k] ELSE <<item[k]>> \o f[next[k]]]
    <2>2. \A k \in Nat : h[k] = IF k + n >= U THEN f[k] ELSE <<item[k]>> \o f[next[k]]
      OBVIOUS
    <2> HIDE DEF h
    <2>3. ASSUME NEW k \in Nat, k + (n + 1) >= U
          PROVE  h[k] = IF k >= U THEN <<>> ELSE <<item[k]>> \o h[next[k]]
      <3>1. next[k] \in Nat /\ next[k] + n >= U
        BY <2>3
      <3>2. h[next[k]] = f[next[k]]
        BY <2>2, <3>1
      <3>3. CASE k + n >= U
        BY <2>1, <2>2, <3>2, <3>3
      <3>4. CASE ~(k + n >= U)
        <4>1. ~(k >= U)
          BY <3>4
        <4> QED BY <2>2, <3>2, <3>4, <4>1
      <3> QED BY <3>3, <3>4
    <2>4. Fit(h, n + 1)
      BY <2>3
    <2> QED BY <2>4
  <1> HIDE DEF P
  <1>3. Nat \subseteq P
    BY <1>1, <1>2, NatInductionSet
  <1>4. PICK f : Fit(f, U)
    BY <1>3 DEF P
  <1> DEFINE g == [k \in Nat |-> f[k]]
  <1>5. \A k \in Nat : g[k] = f[k]
    OBVIOUS
  <1>6. g = [k \in Nat |-> g[k]]
    BY <1>5
  <1> HIDE DEF g
  <1>7. ASSUME NEW k \in Nat
        PROVE  g[k] = IF k >= U THEN <<>> ELSE <<item[k]>> \o g[next[k]]
    <2>1. k + U >= U /\ next[k] \in Nat
      OBVIOUS
    <2> QED BY <1>4, <1>5, <2>1
  <1>8. g = [k \in Nat |-> IF k >= U THEN <<>> ELSE <<item[k]>> \o g[next[k]]]
    BY <1>6, <1>7
  <1> QED BY <1>8 DEF Scans

(* A function on 1..m is a sequence.                                       *)
LEMMA FunctionIsSeq ==
  ASSUME NEW S, NEW m \in Nat, NEW r \in [1..m -> S]
  PROVE  r \in Seq(S) /\ Len(r) = m
  OBVIOUS

(* A scan yields what is placed from where it starts to its end.           *)
LEMMA ScanYields ==
  ASSUME NEW U \in Nat, NEW item, NEW next, NEW f, Scans(f, U, item, next),
         NEW S, NEW s \in Seq(S), NEW at, Placed(s, at, U, item, next)
  PROVE  f[at[1]] = s
  <1> DEFINE n == Len(s)
             Rest(i) == [j \in 1..n - i + 1 |-> s[i + j - 1]]
             P == {d \in Nat : d <= n => f[at[n + 1 - d]] = Rest(n + 1 - d)}
  <1>0. n \in Nat
    OBVIOUS
  <1> HIDE DEF n
  <1>6. \A k \in Nat : f[k] = IF k >= U THEN <<>> ELSE <<item[k]>> \o f[next[k]]
    BY DEF Scans
  <1>7. /\ at[n + 1] = U
        /\ \A i \in 1..n : /\ at[i] \in Nat /\ at[i] < U
                           /\ s[i] = item[at[i]] /\ at[i + 1] = next[at[i]]
    BY DEF Placed, n
  <1>1. 0 \in P
    <2>1. Rest(n + 1) = <<>>
      BY <1>0
    <2>2. f[at[n + 1]] = <<>>
      <3>0. U >= U
        OBVIOUS
      <3>1. f[U] = <<>>
        BY <1>6, <3>0, Zenon
      <3> QED BY <1>7, <3>1
    <2>3. n + 1 - 0 = n + 1
      BY <1>0
    <2> HIDE DEF Rest
    <2> QED BY <2>1, <2>2, <2>3
  <1>2. ASSUME NEW d \in Nat, d \in P PROVE d + 1 \in P
    <2> SUFFICES ASSUME d + 1 <= n PROVE f[at[n + 1 - (d + 1)]] = Rest(n + 1 - (d + 1))
      OBVIOUS
    <2> DEFINE i == n - d
    <2>1. i \in 1..n /\ n + 1 - (d + 1) = i /\ n + 1 - d = i + 1 /\ d <= n
      BY <1>0
    <2>2. f[at[i + 1]] = Rest(i + 1)
      BY <1>2, <2>1
    <2> HIDE DEF i
    <2>3. f[at[i]] = <<s[i]>> \o Rest(i + 1)
      <3>1. at[i] \in Nat /\ at[i] < U /\ s[i] = item[at[i]] /\ at[i + 1] = next[at[i]]
        BY <1>7, <2>1
      <3>0. ~(at[i] >= U)
        BY <3>1
      <3>2. f[at[i]] = <<item[at[i]]>> \o f[next[at[i]]]
        BY <1>6, <3>0, <3>1, Zenon
      <3> HIDE DEF Rest
      <3> QED BY <2>2, <3>1, <3>2
    <2>4. <<s[i]>> \o Rest(i + 1) = Rest(i)
      <3>1. Len(Rest(i + 1)) = n - i /\ Rest(i + 1) \in Seq(S)
        <4>1. n - (i + 1) + 1 = n - i /\ n - i \in Nat
          BY <1>0, <2>1
        <4>2. \A j \in 1..n - i : (i + 1) + j - 1 \in 1..n
          BY <1>0, <2>1
        <4>3. \A j \in 1..n : s[j] \in S
          BY DEF n
        <4>4. \A j \in 1..n - i : s[(i + 1) + j - 1] \in S
          BY <4>2, <4>3
        <4>5. Rest(i + 1) = [j \in 1..n - i |-> s[(i + 1) + j - 1]]
          BY <4>1
        <4>6. PICK m \in Nat : m = n - i
          BY <4>1
        <4> HIDE DEF Rest
        <4>7. Rest(i + 1) = [j \in 1..m |-> s[(i + 1) + j - 1]]
              /\ \A j \in 1..m : s[(i + 1) + j - 1] \in S
          BY <4>4, <4>5, <4>6
        <4>8. Rest(i + 1) \in [1..m -> S]
          BY <4>7
        <4>9. Rest(i + 1) \in Seq(S) /\ Len(Rest(i + 1)) = m
          BY <4>6, <4>8, FunctionIsSeq
        <4> QED BY <4>6, <4>9
      <3> QED BY <1>0, <2>1, <3>1
    <2> QED BY <2>1, <2>3, <2>4
  <1> HIDE DEF P
  <1>3. n \in P
    BY <1>0, <1>1, <1>2, NatInductionSet
  <1>4. f[at[1]] = Rest(1)
    <2>1. n <= n /\ n + 1 - n = 1
      BY <1>0
    <2> HIDE DEF Rest
    <2> QED BY <1>0, <1>3, <2>1 DEF P
  <1>5. Rest(1) = s
    <2>1. n - 1 + 1 = n /\ \A j \in 1..n : 1 + j - 1 = j
      BY <1>0
    <2> QED BY <2>1 DEF n
  <1> QED BY <1>4, <1>5

(* A recursive definition of truth values has a solution: one that holds   *)
(* of 0, and of what is behind no hit that it holds of.                    *)
LEMMA FlagsExist ==
  ASSUME NEW hit \in [Nat -> BOOLEAN]
  PROVE  \E f \in [Nat -> BOOLEAN] : f = [j \in Nat |-> j = 0 \/ ~(f[j - 1] /\ hit[j - 1])]
  <1> DEFINE Pairs == Nat \X {0, 1}
             Then(n, c) == IF c = 1 /\ hit[n] THEN 0 ELSE 1
             link == [p \in Pairs |-> <<p[1] + 1, Then(p[1], p[2])>>]
             x == <<0, 1>>
  <1>1. ASSUME NEW n \in Nat, NEW c \in {0, 1} PROVE link[<<n, c>>] = <<n + 1, Then(n, c)>>
    <2>1. PICK p : p = <<n, c>>
      OBVIOUS
    <2>2. p \in Pairs /\ p[1] = n /\ p[2] = c
      BY <2>1
    <2> HIDE DEF Pairs, Then
    <2>3. link[p] = <<p[1] + 1, Then(p[1], p[2])>>
      BY <2>2
    <2> QED BY <2>1, <2>2, <2>3
  <1> HIDE DEF link
  <1>2. PICK go, o : go = link /\ o = x
    OBVIOUS
  <1> DEFINE w == CHOOSE v : v = [i \in Nat |-> IF i = 0 THEN o ELSE go[v[i - 1]]]
  <1>3. w = [i \in Nat |-> IF i = 0 THEN o ELSE go[w[i - 1]]]
    BY WalkExists
  <1> HIDE DEF w
  <1>4. w[0] = x /\ \A n \in Nat : w[n + 1] = link[w[n]]
    <2>1. w[0] = o /\ \A n \in Nat : w[n + 1] = go[w[n]]
      BY <1>3, WalkValues
    <2> QED BY <1>2, <2>1
  <1> DEFINE P == {n \in Nat : \E c \in {0, 1} : w[n] = <<n, c>>}
  <1>5. 0 \in P
    BY <1>4
  <1>6. ASSUME NEW n \in Nat, n \in P PROVE n + 1 \in P
    <2>1. PICK c \in {0, 1} : w[n] = <<n, c>>
      BY <1>6
    <2>2. w[n + 1] = <<n + 1, Then(n, c)>>
      BY <1>1, <1>4, <2>1
    <2>3. Then(n, c) \in {0, 1} /\ n + 1 \in Nat
      OBVIOUS
    <2> HIDE DEF Then
    <2> QED BY <2>2, <2>3
  <1>7. \A n \in Nat : \E c \in {0, 1} : w[n] = <<n, c>>
    <2> HIDE DEF P
    <2>1. Nat \subseteq P
      BY <1>5, <1>6, NatInductionSet
    <2> QED BY <2>1 DEF P
  <1> DEFINE f == [j \in Nat |-> w[j][2] = 1]
             e == [j \in Nat |-> j = 0 \/ ~(f[j - 1] /\ hit[j - 1])]
  <1>8. f \in [Nat -> BOOLEAN]
    <2>1. \A j \in Nat : (w[j][2] = 1) \in BOOLEAN
      BY Zenon
    <2> QED BY <2>1, Zenon
  <1>9. f[0]
    <2>1. w[0][2] = 1 /\ 0 \in Nat
      BY <1>4
    <2> QED BY <2>1, Zenon
  <1>10. ASSUME NEW j \in Nat, j # 0 PROVE f[j] <=> ~(f[j - 1] /\ hit[j - 1])
    <2>1. j - 1 \in Nat /\ (j - 1) + 1 = j
      BY <1>10
    <2>2. PICK c \in {0, 1} : w[j - 1] = <<j - 1, c>>
      BY <1>7, <2>1
    <2>3. w[j] = <<j, Then(j - 1, c)>>
      BY <1>1, <1>4, <2>1, <2>2
    <2>4. w[j - 1][2] = c /\ w[j][2] = Then(j - 1, c)
      <3> HIDE DEF Then
      <3> QED BY <2>2, <2>3
    <2>5. (f[j - 1] <=> c = 1) /\ (f[j] <=> Then(j - 1, c) = 1)
      <3> HIDE DEF Then
      <3> QED BY <2>1, <2>4
    <2> HIDE DEF f
    <2> QED BY <2>2, <2>5
  <1>11. \A j \in Nat : f[j] = (j = 0 \/ ~(f[j - 1] /\ hit[j - 1]))
    <2> TAKE j \in Nat
    <2>1. f[j] <=> (j = 0 \/ ~(f[j - 1] /\ hit[j - 1]))
      <3> HIDE DEF f
      <3> QED BY <1>9, <1>10
    <2>2. f[j] \in BOOLEAN
      BY <1>8
    <2> HIDE DEF f
    <2> QED BY <2>1, <2>2
  <1>12. f = e
    <2>1. f = [j \in Nat |-> f[j]]
      OBVIOUS
    <2> HIDE DEF f
    <2>2. [j \in Nat |-> f[j]] = e
      BY <1>11
    <2> QED BY <2>1, <2>2
  <1> HIDE DEF f
  <1> QED BY <1>8, <1>12

----------------------------------------------------------------------------
(* Remainders.                                                             *)

(* Division with remainder has one solution.                               *)
LEMMA ModUnique ==
  ASSUME NEW x \in Int, NEW n \in Nat, n > 0, NEW q \in Int, NEW r \in 0 .. n - 1,
         x = n * q + r
  PROVE  x % n = r
  BY SMTT(30)

(* A remainder is a remainder.                                             *)
LEMMA ModRange ==
  ASSUME NEW x \in Int, NEW n \in Nat, n > 0
  PROVE  x % n \in 0 .. n - 1
  BY SMTT(30)

(* Division with remainder, as an equation the solver can use.             *)
LEMMA ModDecompose ==
  ASSUME NEW x \in Int, NEW n \in Nat, n > 0
  PROVE  \E q \in Int : x = n * q + (x % n)
  <1>1. x \div n \in Int /\ x = n * (x \div n) + (x % n)
    BY SMTT(30)
  <1> QED BY <1>1

(* Two numbers a multiple of n apart have the same remainder.              *)
LEMMA ModShift ==
  ASSUME NEW x \in Int, NEW n \in Nat, n > 0, NEW k \in Int
  PROVE  (x + n * k) % n = x % n
  <1>1. PICK q \in Int : x = n * q + (x % n)
    BY ModDecompose
  <1>2. x % n \in 0 .. n - 1
    BY ModRange
  <1>3. q + k \in Int /\ x + n * k \in Int
    OBVIOUS
  <1>4. x + n * k = n * (q + k) + (x % n)
    BY <1>1, <1>2, SMTT(30)
  <1> QED BY <1>2, <1>3, <1>4, ModUnique

(* Two numbers less than n apart have different remainders.                *)
LEMMA ModDistinct ==
  ASSUME NEW x \in Int, NEW y \in Int, NEW n \in Nat, n > 0, x < y, y < x + n
  PROVE  x % n # y % n
  <1> SUFFICES ASSUME x % n = y % n PROVE FALSE
    OBVIOUS
  <1>1. PICK q \in Int : x = n * q + (x % n)
    BY ModDecompose
  <1>2. PICK s \in Int : y = n * s + (y % n)
    BY ModDecompose
  <1>3. x % n \in Int
    BY ModRange
  <1>4. y - x = n * (s - q)
    BY <1>1, <1>2, <1>3, SMTT(30)
  <1>5. CASE s - q <= 0
    <2>1. n * (s - q) <= 0
      BY <1>5, SMTT(30)
    <2> QED BY <2>1, <1>4
  <1>6. CASE s - q >= 1
    <2>1. n * (s - q) >= n
      BY <1>6, SMTT(30)
    <2> QED BY <2>1, <1>4
  <1> QED BY <1>5, <1>6

(* The remainder of a sum of two remainders, without division.             *)
LEMMA ModOnce ==
  ASSUME NEW n \in Nat, n > 0, NEW x \in Int, -n <= x, x < n + n
  PROVE  x % n = IF x < 0 THEN x + n ELSE IF x < n THEN x ELSE x - n
  BY SMTT(30)
=============================================================================
