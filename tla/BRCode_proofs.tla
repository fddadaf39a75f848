--------------------------- MODULE BRCode_proofs ---------------------------
(***************************************************************************)
(* What TLAPS proves of BRCode, for any payloads: what Encode writes, Parse*)
(* reads back (RoundTrip); and a code with one byte replaced does not check*)
(* out, wherever Parse finds the tag and the CRC in their place.           *)
(***************************************************************************)
EXTENDS BRCode, SequenceTheorems, WellFoundedInduction, TLAPS

-----------------------------------------------------------------------------
(* Induction, and functions defined by recursion on 0..N.                  *)

Below == {e \in Nat \X Nat : e[1] < e[2]}

LEMMA LeastExists ==
  ASSUME NEW S, S \subseteq Nat, S # {}
  PROVE  \E x \in S : \A y \in S : x <= y
<1>1. OpToRel(<, Nat) = Below
  BY DEF OpToRel, Below
<1>2. IsWellFoundedOn(Below, Nat)
  BY <1>1, NatLessThanWellFounded
<1>3. PICK x \in S : \A y \in S : ~(<<y, x>> \in Below)
  BY <1>2, WFMin
<1>4. \A y \in S : ~(y < x)
  BY <1>3 DEF Below
<1> QED BY <1>4

LEMMA UpTo ==
  ASSUME NEW N \in Nat, NEW T, 0 \in T, \A n \in 1..N : n - 1 \in T => n \in T
  PROVE  \A n \in 0..N : n \in T
<1> DEFINE Bad == {n \in Nat : n <= N /\ n \notin T}
<1>1. SUFFICES ASSUME Bad # {} PROVE FALSE
  OBVIOUS
<1>2. PICK m \in Bad : \A n \in Bad : m <= n
  <2> HIDE DEF Bad
  <2>1. Bad \subseteq Nat
    BY DEF Bad
  <2> QED BY <2>1, <1>1, LeastExists
<1>3. m \in 1..N /\ m - 1 \in Nat /\ m - 1 <= N /\ ~(m <= m - 1)
  BY <1>2
<1>4. m - 1 \in T
  BY <1>2, <1>3
<1> QED BY <1>2, <1>3, <1>4

\* The function f on 0..N with f[0] = x0 and f[n] = G[n][f[n - 1]].
Recursive(f, N, x0, G) == f = [n \in 0..N |-> IF n = 0 THEN x0 ELSE G[n][f[n - 1]]]

LEMMA RecursionDefines ==
  ASSUME NEW N \in Nat, NEW S, NEW x0 \in S, NEW G \in [1..N -> [S -> S]]
  PROVE  \E f \in [0..N -> S] : Recursive(f, N, x0, G)
<1> DEFINE Below_(m, f) == f \in [0..m -> S] /\ Recursive(f, m, x0, G)
           T == {m \in 0..N : \E f : Below_(m, f)}
<1>1. 0 \in T
  <2> DEFINE f == [n \in 0..0 |-> x0]
  <2>1. Below_(0, f)
    BY DEF Recursive
  <2> QED BY <2>1
<1>2. ASSUME NEW n \in 1..N, n - 1 \in T PROVE n \in T
  <2>1. PICK f : Below_(n - 1, f)
    BY <1>2
  <2> DEFINE h == [k \in 0..n |-> IF k = n THEN G[n][f[n - 1]] ELSE f[k]]
  <2>2. G[n] \in [S -> S] /\ f[n - 1] \in S
    BY <2>1
  <2>3. h \in [0..n -> S]
    <3>1. ASSUME NEW k \in 0..n, k # n PROVE f[k] \in S
      BY <2>1, <3>1
    <3> QED BY <2>2, <3>1
  <2>4. ASSUME NEW k \in 0..n PROVE h[k] = IF k = 0 THEN x0 ELSE G[k][h[k - 1]]
    <3>1. CASE k = n
      <4>1. h[n] = G[n][f[n - 1]] /\ h[n - 1] = f[n - 1] /\ n # 0
        OBVIOUS
      <4> QED BY <4>1, <3>1
    <3>2. CASE k # n /\ k # 0
      <4>1. k \in 0..(n - 1) /\ k - 1 \in 0..n /\ k - 1 # n
        BY <3>2
      <4>2. h[k] = f[k] /\ h[k - 1] = f[k - 1]
        BY <3>2, <4>1
      <4>3. f[k] = G[k][f[k - 1]]
        BY <2>1, <4>1, <3>2 DEF Recursive
      <4> QED BY <4>2, <4>3, <3>2
    <3>3. CASE k = 0
      <4>1. 0 \in 0..(n - 1) /\ h[0] = f[0]
        OBVIOUS
      <4>2. f[0] = x0
        BY <2>1, <4>1 DEF Recursive
      <4> QED BY <4>1, <4>2, <3>3
    <3> QED BY <3>1, <3>2, <3>3
  <2>5. Recursive(h, n, x0, G)
    <3> HIDE DEF h
    <3>1. DOMAIN h = 0..n /\ h = [k \in 0..n |-> h[k]]
      BY <2>3
    <3> QED BY <2>4, <3>1 DEF Recursive
  <2>6. Below_(n, h)
    BY <2>3, <2>5
  <2> QED BY <2>6
<1>3. N \in T
  <2> HIDE DEF T
  <2>1. \A n \in 0..N : n \in T
    BY <1>1, <1>2, UpTo
  <2> QED BY <2>1
<1> QED BY <1>3

-----------------------------------------------------------------------------
(* Sequences of bytes.                                                     *)

LEMMA SeqEmpty == \A S : <<>> \in Seq(S) /\ Len(<<>>) = 0
  BY EmptySeq

LEMMA LenNat == \A S : \A s \in Seq(S) : Len(s) \in Nat
  BY LenProperties

LEMMA BytesOf ==
  ASSUME NEW s \in Seq(Byte)
  PROVE  Len(s) \in Nat /\ \A i \in 1..Len(s) : s[i] \in Byte
  BY LenProperties, ElementOfSeq

LEMMA Joined ==
  ASSUME NEW s \in Seq(Byte), NEW t \in Seq(Byte)
  PROVE  /\ s \o t \in Seq(Byte) /\ Len(s \o t) = Len(s) + Len(t)
         /\ \A i \in 1..Len(s) : (s \o t)[i] = s[i]
         /\ \A i \in 1..Len(t) : (s \o t)[Len(s) + i] = t[i]
<1>1. Len(s) \in Nat /\ Len(t) \in Nat
  BY LenNat
<1>2. /\ s \o t \in Seq(Byte) /\ Len(s \o t) = Len(s) + Len(t)
      /\ \A i \in 1..Len(s) + Len(t) : (s \o t)[i] = IF i <= Len(s) THEN s[i] ELSE t[i - Len(s)]
  BY ConcatProperties
<1>3. ASSUME NEW i \in 1..Len(s) PROVE (s \o t)[i] = s[i]
  BY <1>1, <1>2
<1>4. ASSUME NEW i \in 1..Len(t) PROVE (s \o t)[Len(s) + i] = t[i]
  <2>1. Len(s) + i \in 1..Len(s) + Len(t) /\ ~(Len(s) + i <= Len(s)) /\ Len(s) + i - Len(s) = i
    BY <1>1
  <2> QED BY <1>2, <2>1
<1> QED BY <1>2, <1>3, <1>4

LEMMA DigitsType ==
  ASSUME NEW n \in 0..99
  PROVE  /\ TwoDigits(n) \in Seq(Byte) /\ Len(TwoDigits(n)) = 2
         /\ TwoDigits(n)[1] = 48 + (n \div 10) /\ TwoDigits(n)[2] = 48 + (n % 10)
         /\ n \div 10 \in 0..9 /\ n % 10 \in 0..9 /\ n = 10 * (n \div 10) + (n % 10)
<1>1. n \div 10 \in 0..9 /\ n % 10 \in 0..9 /\ n = 10 * (n \div 10) + (n % 10)
  OBVIOUS
<1>2. Digit(n \div 10) \in Byte /\ Digit(n % 10) \in Byte
  BY <1>1 DEF Digit, Byte
<1> QED BY <1>1, <1>2 DEF TwoDigits, Digit

\* The fields that encodeTLVs can write.
Short == {f \in Tlv : Len(f.id) = 2 /\ Len(f.val) <= 99}

LEMMA ShortType ==
  ASSUME NEW f \in Short
  PROVE  f.id \in Seq(Byte) /\ f.val \in Seq(Byte) /\ Len(f.id) = 2 /\ Len(f.val) \in 0..99
<1>1. f.id \in Seq(Byte) /\ f.val \in Seq(Byte) /\ Len(f.id) = 2 /\ Len(f.val) <= 99
  BY DEF Short, Tlv
<1>2. ASSUME NEW v \in Seq(Byte) PROVE Len(v) \in Nat
  BY LenNat
<1>3. Len(f.val) \in Nat
  BY <1>1, <1>2
<1>4. ASSUME NEW n \in Nat, n <= 99 PROVE n \in 0..99
  BY <1>4
<1>5. Len(f.val) \in 0..99
  BY <1>1, <1>3, <1>4, Zenon
<1> QED BY <1>1, <1>5, Zenon

\* An id of two bytes, a length of two digits and a value in one text.
LEMMA BlockBytes ==
  ASSUME NEW i \in Seq(Byte), Len(i) = 2, NEW d \in Seq(Byte), Len(d) = 2, NEW v \in Seq(Byte)
  PROVE  LET b == i \o d \o v
         IN  /\ b \in Seq(Byte) /\ Len(b) = 4 + Len(v)
             /\ b[1] = i[1] /\ b[2] = i[2] /\ b[3] = d[1] /\ b[4] = d[2]
             /\ \A j \in 1..Len(v) : b[4 + j] = v[j]
<1> DEFINE h == i \o d
<1>1. /\ h \in Seq(Byte) /\ Len(h) = 4
      /\ \A j \in 1..2 : h[j] = i[j]
      /\ \A j \in 1..2 : h[2 + j] = d[j]
  <2>1. /\ h \in Seq(Byte) /\ Len(h) = Len(i) + Len(d)
        /\ \A j \in 1..Len(i) : h[j] = i[j]
        /\ \A j \in 1..Len(d) : h[Len(i) + j] = d[j]
    BY Joined
  <2> QED BY <2>1
<1>2. h[1] = i[1] /\ h[2] = i[2] /\ h[3] = d[1] /\ h[4] = d[2]
  <2> HIDE DEF h
  <2>1. h[2 + 1] = d[1] /\ h[2 + 2] = d[2]
    BY <1>1
  <2> QED BY <1>1, <2>1
<1> HIDE DEF h
<1> DEFINE b == h \o v
<1>3. /\ b \in Seq(Byte) /\ Len(b) = Len(h) + Len(v)
      /\ \A j \in 1..Len(h) : b[j] = h[j]
      /\ \A j \in 1..Len(v) : b[Len(h) + j] = v[j]
  BY <1>1, Joined
<1>4. /\ b \in Seq(Byte) /\ Len(b) = 4 + Len(v)
      /\ \A j \in 1..4 : b[j] = h[j]
      /\ \A j \in 1..Len(v) : b[4 + j] = v[j]
  <2> HIDE DEF b
  <2> QED BY <1>1, <1>3
<1>5. b[1] = h[1] /\ b[2] = h[2] /\ b[3] = h[3] /\ b[4] = h[4]
  <2> HIDE DEF b
  <2> QED BY <1>4
<1>6. b = i \o d \o v
  BY DEF h
<1> HIDE DEF b
<1> QED BY <1>2, <1>4, <1>5, <1>6

\* The bytes of a field in a text.
IsBlock(b, f) ==
  /\ b \in Seq(Byte) /\ Len(b) = 4 + Len(f.val)
  /\ b[1] = f.id[1] /\ b[2] = f.id[2]
  /\ b[3] = 48 + (Len(f.val) \div 10) /\ b[4] = 48 + (Len(f.val) % 10)
  /\ \A j \in 1..Len(f.val) : b[4 + j] = f.val[j]

LEMMA BlockIs ==
  ASSUME NEW f \in Short
  PROVE  IsBlock(Block(f), f)
<1>1. f.id \in Seq(Byte) /\ f.val \in Seq(Byte) /\ Len(f.id) = 2 /\ Len(f.val) \in 0..99
  BY ShortType
<1>2. PICK d : d = TwoDigits(Len(f.val))
  OBVIOUS
<1>3. d \in Seq(Byte) /\ Len(d) = 2
      /\ d[1] = 48 + (Len(f.val) \div 10) /\ d[2] = 48 + (Len(f.val) % 10)
  BY <1>1, <1>2, DigitsType
<1>4. Block(f) = f.id \o d \o f.val
  BY <1>2 DEF Block
<1>5. LET b == f.id \o d \o f.val
      IN  /\ b \in Seq(Byte) /\ Len(b) = 4 + Len(f.val)
          /\ b[1] = f.id[1] /\ b[2] = f.id[2] /\ b[3] = d[1] /\ b[4] = d[2]
          /\ \A j \in 1..Len(f.val) : b[4 + j] = f.val[j]
  BY <1>1, <1>3, BlockBytes
<1> QED BY <1>3, <1>4, <1>5 DEF IsBlock

\* The text s followed by the field f, kept folded.
Followed(s, f) == s \o Block(f)

LEMMA FollowedBytes ==
  ASSUME NEW s \in Seq(Byte), NEW f \in Short
  PROVE  /\ Followed(s, f) \in Seq(Byte)
         /\ Len(s) \in Nat /\ Len(f.val) \in 0..99
         /\ Len(Followed(s, f)) = Len(s) + 4 + Len(f.val)
         /\ \A i \in 1..Len(s) : Followed(s, f)[i] = s[i]
         /\ \A i \in 1..(4 + Len(f.val)) : Followed(s, f)[Len(s) + i] = Block(f)[i]
<1>1. PICK b, m, n : b = Block(f) /\ m = Len(f.val) /\ n = Len(s)
  OBVIOUS
<1>2. b \in Seq(Byte) /\ Len(b) = 4 + m
  BY <1>1, BlockIs DEF IsBlock
<1>3. n \in Nat /\ m \in 0..99
  BY <1>1, LenNat, ShortType
<1>4. PICK c : c = s \o b
  OBVIOUS
<1>5. /\ c \in Seq(Byte) /\ Len(c) = Len(s) + Len(b)
      /\ \A i \in 1..Len(s) : c[i] = s[i]
      /\ \A i \in 1..Len(b) : c[Len(s) + i] = b[i]
  BY <1>2, <1>4, Joined, Zenon
<1>6. /\ Len(c) = n + (4 + m)
      /\ \A i \in 1..n : c[i] = s[i]
      /\ \A i \in 1..(4 + m) : c[n + i] = b[i]
  BY <1>1, <1>2, <1>5, Zenon
<1>7. Len(c) = n + 4 + m
  BY ONLY <1>3, <1>6
<1>8. Followed(s, f) = c
  BY <1>1, <1>4 DEF Followed
<1> QED BY <1>1, <1>3, <1>5, <1>6, <1>7, <1>8, Zenon

\* The texts after each field: t[n] holds the first n fields of F.
Renders(t, F) ==
  /\ t \in [0..Len(F) -> Seq(Byte)]
  /\ t[0] = <<>>
  /\ \A n \in 1..Len(F) : t[n] = Followed(t[n - 1], F[n])

LEMMA RenderedBy ==
  ASSUME NEW F \in Seq(Short)
  PROVE  \E t : Renders(t, F) /\ Rendered(F) = t[Len(F)]
<1>0. Len(F) \in Nat
  BY LenNat
<1> DEFINE G == [n \in 1..Len(F) |-> [x \in Seq(Byte) |-> Followed(x, F[n])]]
           Eq(t) == t = [n \in 0..Len(F) |-> IF n = 0 THEN <<>> ELSE Followed(t[n - 1], F[n])]
<1>1. \A n \in 1..Len(F) : F[n] \in Short /\ \A s \in Seq(Byte) : Followed(s, F[n]) \in Seq(Byte)
  BY ElementOfSeq, FollowedBytes
<1>2. G \in [1..Len(F) -> [Seq(Byte) -> Seq(Byte)]]
  BY <1>1
<1>3. PICK t \in [0..Len(F) -> Seq(Byte)] : Recursive(t, Len(F), <<>>, G)
  <2> HIDE DEF G
  <2> QED BY <1>0, <1>2, SeqEmpty, RecursionDefines
<1>4. Eq(t)
  <2>1. ASSUME NEW n \in 1..Len(F) PROVE G[n][t[n - 1]] = Followed(t[n - 1], F[n])
    <3>1. n - 1 \in 0..Len(F)
      BY <1>0
    <3>2. t[n - 1] \in Seq(Byte)
      BY <1>3, <3>1
    <3> QED BY <3>2
  <2>2. t = [n \in 0..Len(F) |-> IF n = 0 THEN <<>> ELSE G[n][t[n - 1]]]
    BY <1>3 DEF Recursive
  <2>3. \A n \in 0..Len(F) : n # 0 => n \in 1..Len(F)
    BY <1>0
  <2> HIDE DEF G
  <2> QED BY <2>1, <2>2, <2>3, Zenon
<1>5. Eq(CHOOSE x : Eq(x))
  <2> HIDE DEF Eq
  <2> QED BY <1>4
<1>6. PICK r : r = CHOOSE x : Eq(x)
  OBVIOUS
<1>7. Eq(r)
  BY <1>5, <1>6
<1>8. Rendered(F) = r[Len(F)]
  BY <1>6 DEF Rendered, Followed
<1>9. r[0] = <<>> /\ \A n \in 1..Len(F) : r[n] = Followed(r[n - 1], F[n])
  BY <1>0, <1>7
<1>10. DOMAIN r = 0..Len(F) /\ r = [n \in 0..Len(F) |-> r[n]]
  BY <1>7
<1>11. \A n \in 0..Len(F) : r[n] \in Seq(Byte)
  <2> DEFINE T == {n \in 0..Len(F) : r[n] \in Seq(Byte)}
  <2>1. 0 \in T
    <3>1. 0 \in 0..Len(F)
      BY <1>0
    <3>2. r[0] \in Seq(Byte)
      BY <1>9, SeqEmpty, Zenon
    <3> QED BY <3>1, <3>2, Zenon
  <2>2. ASSUME NEW n \in 1..Len(F), n - 1 \in T PROVE n \in T
    BY <1>0, <1>1, <1>9, <2>2
  <2> HIDE DEF T
  <2>3. \A n \in 0..Len(F) : n \in T
    BY <1>0, <2>1, <2>2, UpTo
  <2> QED BY <2>3 DEF T
<1>12. r \in [0..Len(F) -> Seq(Byte)]
  BY <1>10, <1>11
<1> QED BY <1>8, <1>9, <1>12 DEF Renders

\* The field f lies in s after its first a bytes.
FieldAt(s, a, f) ==
  /\ a + 4 + Len(f.val) <= Len(s)
  /\ s[a + 1] = f.id[1] /\ s[a + 2] = f.id[2]
  /\ s[a + 3] = 48 + (Len(f.val) \div 10) /\ s[a + 4] = 48 + (Len(f.val) % 10)
  /\ \A j \in 1..Len(f.val) : s[a + 4 + j] = f.val[j]

\* Each text is where the next ones begin.
Starts(t, s) == Len(t) <= Len(s) /\ \A i \in 1..Len(t) : s[i] = t[i]

LEMMA TextsStart ==
  ASSUME NEW F \in Seq(Short), NEW t, Renders(t, F), NEW n \in 0..Len(F)
  PROVE  Starts(t[n], t[Len(F)])
<1>0. Len(F) \in Nat
  BY LenNat
<1>1. \A k \in 0..Len(F) : t[k] \in Seq(Byte) /\ Len(t[k]) \in Nat
  BY LenNat DEF Renders
<1>2. ASSUME NEW m \in 1..Len(F) PROVE Starts(t[m - 1], t[m])
  <2>1. t[m - 1] \in Seq(Byte) /\ t[m] = Followed(t[m - 1], F[m]) /\ F[m] \in Short
    BY <1>0, <1>1, ElementOfSeq DEF Renders
  <2>2. PICK c : c = Followed(t[m - 1], F[m])
    OBVIOUS
  <2>3. /\ Len(c) = Len(t[m - 1]) + 4 + Len(F[m].val)
        /\ \A i \in 1..Len(t[m - 1]) : c[i] = t[m - 1][i]
        /\ Len(t[m - 1]) \in Nat /\ Len(F[m].val) \in 0..99
    BY <2>1, <2>2, FollowedBytes, Zenon
  <2>4. \A x \in Nat, y \in 0..99 : x <= x + 4 + y
    OBVIOUS
  <2>5. Len(t[m - 1]) <= Len(c)
    BY <2>3, <2>4, Zenon
  <2> QED BY <2>1, <2>2, <2>3, <2>5, Zenon DEF Starts
<1> DEFINE T == {m \in 0..Len(F) : n <= m => Starts(t[n], t[m])}
<1>3. 0 \in T
  BY <1>0, <1>1 DEF Starts
<1>4. ASSUME NEW m \in 1..Len(F), m - 1 \in T PROVE m \in T
  <2>1. CASE n = m
    BY <1>1, <2>1 DEF Starts
  <2>2. CASE n <= m - 1
    <3>1. Starts(t[n], t[m - 1]) /\ Starts(t[m - 1], t[m])
      BY <1>2, <1>4, <2>2
    <3>2. Len(t[n]) \in Nat /\ Len(t[m - 1]) \in Nat /\ Len(t[m]) \in Nat
      BY <1>0, <1>1
    <3> QED BY <3>1, <3>2 DEF Starts
  <2>3. CASE ~(n <= m)
    BY <2>3
  <2> QED BY <2>1, <2>2, <2>3
<1> HIDE DEF T
<1>5. \A m \in 0..Len(F) : m \in T
  BY <1>0, <1>3, <1>4, UpTo
<1> QED BY <1>0, <1>5 DEF T

LEMMA FieldsAt ==
  ASSUME NEW F \in Seq(Short), NEW t, Renders(t, F), NEW n \in 1..Len(F)
  PROVE  /\ FieldAt(t[Len(F)], Len(t[n - 1]), F[n])
         /\ Len(t[n]) = Len(t[n - 1]) + 4 + Len(F[n].val)
<1>1. /\ Len(F) \in Nat /\ n - 1 \in 0..Len(F) /\ n \in 0..Len(F) /\ Len(F) \in 0..Len(F)
      /\ F[n] \in Short
  BY LenNat, ElementOfSeq
<1>2. /\ t[n - 1] \in Seq(Byte) /\ t[n] \in Seq(Byte) /\ t[Len(F)] \in Seq(Byte)
      /\ t[n] = Followed(t[n - 1], F[n])
  BY <1>1 DEF Renders
<1>3. PICK s, a, b, f, L, u : /\ s = t[Len(F)] /\ a = Len(t[n - 1]) /\ b = Block(F[n])
                              /\ f = F[n] /\ L = Len(F[n].val) /\ u = t[n]
  OBVIOUS
<1>4. /\ Len(u) = a + 4 + L /\ a \in Nat /\ L \in 0..99
      /\ \A j \in 1..(4 + L) : u[a + j] = b[j]
  <2>1. PICK x : x = t[n - 1] /\ x \in Seq(Byte) /\ u = Followed(x, f) /\ f \in Short
    BY <1>1, <1>2, <1>3, Zenon
  <2>2. /\ Len(Followed(x, f)) = Len(x) + 4 + Len(f.val)
        /\ Len(x) \in Nat /\ Len(f.val) \in 0..99
        /\ \A j \in 1..(4 + Len(f.val)) : Followed(x, f)[Len(x) + j] = Block(f)[j]
    BY <2>1, FollowedBytes, Zenon
  <2>3. a = Len(x) /\ L = Len(f.val) /\ b = Block(f)
    BY <1>3, <2>1, Zenon
  <2> QED BY <2>1, <2>2, <2>3, Zenon
<1>5. Starts(u, s)
  BY <1>1, <1>3, TextsStart, Zenon
<1>6. Len(u) <= Len(s) /\ \A i \in 1..Len(u) : s[i] = u[i]
  BY <1>5 DEF Starts
<1>7. a + 4 + L <= Len(s) /\ \A j \in 1..(4 + L) : s[a + j] = b[j]
  <2>1. ASSUME NEW j \in 1..(4 + L) PROVE a + j \in 1..(a + 4 + L)
    BY ONLY <1>4
  <2>2. ASSUME NEW j \in 1..(4 + L) PROVE s[a + j] = b[j]
    BY <1>4, <1>6, <2>1, Zenon
  <2> QED BY <1>4, <1>6, <2>2, Zenon
<1>8. /\ s[a + 1] = b[1] /\ s[a + 2] = b[2] /\ s[a + 3] = b[3] /\ s[a + 4] = b[4]
      /\ \A j \in 1..L : s[a + 4 + j] = b[4 + j]
  <2>1. ASSUME NEW j \in 1..L PROVE 4 + j \in 1..(4 + L) /\ a + 4 + j = a + (4 + j)
    BY ONLY <1>4
  <2>2. 1 \in 1..(4 + L) /\ 2 \in 1..(4 + L) /\ 3 \in 1..(4 + L) /\ 4 \in 1..(4 + L)
    BY ONLY <1>4
  <2> QED BY <2>1, <2>2, <1>7, Zenon
<1>9. IsBlock(b, f)
  BY <1>1, <1>3, BlockIs, Zenon
<1>10. FieldAt(s, a, f)
  BY <1>3, <1>7, <1>8, <1>9, Zenon DEF FieldAt, IsBlock
<1> QED BY <1>3, <1>4, <1>10, Zenon

\* The n bytes of s after its first a.
IsSub(d, s, a, n) ==
  d \in Seq(Byte) /\ Len(d) = n /\ \A i \in 1..n : d[i] = s[a + i]

LEMMA SubSeqIsSub ==
  ASSUME NEW s \in Seq(Byte), NEW a \in Nat, NEW n \in Nat, a + n <= Len(s),
         NEW m, NEW k, m = a + 1, k = a + n
  PROVE  IsSub(SubSeq(s, m, k), s, a, n)
<1>1. Len(s) \in Nat
  BY LenNat
<1>2. \A i \in m..k : i \in 1..Len(s)
  BY <1>1
<1>3. \A i \in m..k : s[i] \in Byte
  BY <1>2, BytesOf
<1>4. m \in Int /\ k \in Int
  OBVIOUS
<1>5. /\ SubSeq(s, m, k) \in Seq(Byte)
      /\ Len(SubSeq(s, m, k)) = IF m <= k THEN k - m + 1 ELSE 0
      /\ \A i \in 1..(k - m + 1) : SubSeq(s, m, k)[i] = s[m + i - 1]
  BY <1>3, <1>4, SubSeqProperties
<1>6. PICK d : d = SubSeq(s, m, k)
  OBVIOUS
<1>7. k - m + 1 = n /\ (IF m <= k THEN k - m + 1 ELSE 0) = n
  OBVIOUS
<1>8. d \in Seq(Byte) /\ Len(d) = n /\ \A i \in 1..n : d[i] = s[m + i - 1]
  BY <1>5, <1>6, <1>7, Zenon
<1>9. \A i \in 1..n : m + i - 1 = a + i
  OBVIOUS
<1> QED BY <1>6, <1>8, <1>9, Zenon DEF IsSub

LEMMA FieldHeader ==
  ASSUME NEW s \in Seq(Byte), NEW a \in Nat, NEW f \in Short, FieldAt(s, a, f)
  PROVE  HasHeader(s, a + 1) /\ FieldEnd(s, a + 1) = a + 5 + Len(f.val)
<1>1. PICK L, n : L = Len(f.val) /\ n = Len(s)
  OBVIOUS
<1>2. L \in 0..99 /\ n \in Nat
  BY <1>1, ShortType, LenNat
<1>3. PICK p, q : p = L \div 10 /\ q = L % 10 /\ p \in 0..9 /\ q \in 0..9 /\ L = 10 * p + q
  <2>1. L \div 10 \in 0..9 /\ L % 10 \in 0..9 /\ L = 10 * (L \div 10) + (L % 10)
    BY <1>2, DigitsType
  <2> QED BY <2>1, Zenon
<1>4. a + 4 + L <= n /\ s[a + 3] = 48 + p /\ s[a + 4] = 48 + q
  BY <1>1, <1>3, Zenon DEF FieldAt
<1>5. FieldEnd(s, a + 1) = a + 5 + L
  <2>1. a + 1 + 2 = a + 3 /\ a + 1 + 3 = a + 4
    OBVIOUS
  <2>2. FieldEnd(s, a + 1) = a + 1 + 4 + ((48 + p) - 48) * 10 + ((48 + q) - 48)
    BY <1>4, <2>1, Zenon DEF FieldEnd
  <2>3. a + 1 + 4 + ((48 + p) - 48) * 10 + ((48 + q) - 48) = a + 5 + L
    BY ONLY <1>3, a \in Nat
  <2> QED BY <2>2, <2>3, Zenon
<1>6. a + 1 + 3 <= n /\ a + 1 + 2 = a + 3 /\ a + 1 + 3 = a + 4
  BY ONLY <1>2, <1>4, a \in Nat
<1>7. PICK d : d = SubSeq(s, a + 3, a + 4)
  OBVIOUS
<1>8. d \in Seq(Byte) /\ Len(d) = 2 /\ d[1] = 48 + p /\ d[2] = 48 + q
  <2>1. PICK b \in Nat : b = a + 2
    OBVIOUS
  <2>2. b + 1 = a + 3 /\ b + 2 = a + 4 /\ b + 2 <= n /\ 1 \in 1..2 /\ 2 \in 1..2
    BY ONLY <1>6, <2>1, a \in Nat, <1>2
  <2>3. IsSub(d, s, b, 2)
    BY <1>1, <1>7, <2>2, SubSeqIsSub
  <2> QED BY <1>4, <2>2, <2>3, Zenon DEF IsSub
<1>9. d # <<>>
  <2>1. Len(<<>>) # 2
    BY SeqEmpty
  <2> QED BY <1>8, <2>1, Zenon
<1>10. \A i \in 1..2 : d[i] \in 48..57
  BY <1>3, <1>8
<1>11. allDigits(d)
  BY <1>8, <1>9, <1>10, Zenon DEF allDigits
<1>12. HasHeader(s, a + 1)
  BY <1>1, <1>6, <1>7, <1>11, Zenon DEF HasHeader
<1> QED BY <1>1, <1>5, <1>12

LEMMA FieldValue ==
  ASSUME NEW s \in Seq(Byte), NEW a \in Nat, NEW f \in Short, FieldAt(s, a, f)
  PROVE  FieldOf(s, a + 1) = f
<1>1. PICK L, n, v, d, e : /\ L = Len(f.val) /\ n = Len(s) /\ v = f.val
                           /\ d = SubSeq(s, a + 1, a + 2) /\ e = SubSeq(s, a + 5, a + 4 + L)
  OBVIOUS
<1>2. L \in 0..99 /\ n \in Nat
  BY <1>1, ShortType, LenNat
<1>3. f.id \in Seq(Byte) /\ Len(f.id) = 2 /\ v \in Seq(Byte)
  BY <1>1, ShortType
<1>4. /\ a + 4 + L <= n /\ s[a + 1] = f.id[1] /\ s[a + 2] = f.id[2]
      /\ \A j \in 1..L : s[a + 4 + j] = v[j]
  BY <1>1, Zenon DEF FieldAt
<1>5. a + 4 + L <= n
  BY <1>4
<1>6. d = f.id
  <2>1. a + 2 <= n /\ 1 \in 1..2 /\ 2 \in 1..2
    BY ONLY <1>2, <1>5, a \in Nat
  <2>2. IsSub(d, s, a, 2)
    BY <1>1, <2>1, SubSeqIsSub
  <2>3. d \in Seq(Byte) /\ Len(d) = 2 /\ d[1] = f.id[1] /\ d[2] = f.id[2]
    BY <1>4, <2>1, <2>2, Zenon DEF IsSub
  <2>4. \A i \in 1..2 : d[i] = f.id[i]
    BY <2>3
  <2> QED BY <1>3, <2>3, <2>4, SeqEqual
<1>7. e = v
  <2>1. PICK b \in Nat : b = a + 4
    OBVIOUS
  <2>2. b + 1 = a + 5 /\ b + L = a + 4 + L /\ b + L <= n /\ L \in Nat
    BY ONLY <1>2, <1>5, <2>1, a \in Nat
  <2>3. IsSub(e, s, b, L)
    BY <1>1, <2>2, SubSeqIsSub
  <2>4. e \in Seq(Byte) /\ Len(e) = L /\ \A i \in 1..L : e[i] = s[b + i]
    BY <2>3, Zenon DEF IsSub
  <2>5. \A i \in 1..L : e[i] = v[i]
    BY <1>4, <2>1, <2>4, Zenon
  <2> QED BY <1>1, <1>3, <2>4, <2>5, SeqEqual
<1>8. FieldEnd(s, a + 1) - 1 = a + 4 + L /\ a + 1 + 1 = a + 2 /\ a + 1 + 4 = a + 5
  <2>1. (a + 5 + L) - 1 = a + 4 + L /\ a + 1 + 1 = a + 2 /\ a + 1 + 4 = a + 5
    BY ONLY <1>2, a \in Nat
  <2>2. FieldEnd(s, a + 1) = a + 5 + L
    BY <1>1, FieldHeader
  <2> QED BY <2>1, <2>2, Zenon
<1>9. FieldOf(s, a + 1) = [id |-> f.id, val |-> f.val]
  BY <1>1, <1>6, <1>7, <1>8, Zenon DEF FieldOf
<1> QED BY <1>9 DEF Short, Tlv

\* A turn of the loop of parseTLVs at the start of a field reads it.
LEMMA ReadsField ==
  ASSUME NEW s \in Seq(Byte), NEW a \in Nat, NEW f \in Short, FieldAt(s, a, f),
         NEW fields \in Seq(Tlv)
  PROVE  ReadField(s, [at |-> a + 1, fields |-> fields])
           = [at |-> a + 5 + Len(f.val), fields |-> Append(fields, f)]
<1>1. PICK r : r = [at |-> a + 1, fields |-> fields]
  OBVIOUS
<1>2. r.at = a + 1 /\ r.fields = fields /\ r # Failed
  <2>1. r \in [at: Nat, fields: Seq(Tlv)]
    BY <1>1
  <2> QED BY <1>1, <2>1, FailedAssumption
<1>3. HasHeader(s, r.at) /\ FieldEnd(s, r.at) = a + 5 + Len(f.val) /\ FieldOf(s, r.at) = f
  BY <1>2, FieldHeader, FieldValue, Zenon
<1>4. ~(r.at > Len(s)) /\ ~(FieldEnd(s, r.at) > Len(s) + 1)
  <2>1. a + 4 + Len(f.val) <= Len(s)
    BY Zenon DEF FieldAt
  <2>2. PICK L, n : L = Len(f.val) /\ n = Len(s) /\ L \in 0..99 /\ n \in Nat
    BY ShortType, LenNat
  <2>3. a + 4 + L <= n
    BY <2>1, <2>2, Zenon
  <2>4. \A x \in 0..99, y \in Nat : a + 4 + x <= y => ~(a + 1 > y) /\ ~(a + 5 + x > y + 1)
    OBVIOUS
  <2>5. ~(a + 1 > n) /\ ~(a + 5 + L > n + 1)
    BY <2>2, <2>3, <2>4, Zenon
  <2> QED BY <1>2, <1>3, <2>2, <2>5, Zenon
<1>5. ReadField(s, r) = [at |-> FieldEnd(s, r.at), fields |-> Append(r.fields, FieldOf(s, r.at))]
  BY <1>2, <1>3, <1>4, Zenon DEF ReadField
<1> QED BY <1>1, <1>2, <1>3, <1>5, Zenon

\* What parseTLVs has read after each turn, of a text of the fields of F.
ReadAfter(t, F, k) ==
  IF k <= Len(F) THEN [at |-> Len(t[k]) + 1, fields |-> SubSeq(F, 1, k)]
  ELSE [at |-> Len(t[Len(F)]) + 1, fields |-> F]

LEMMA ReadsNext ==
  ASSUME NEW F \in Seq(Short), NEW t, Renders(t, F), NEW k \in Nat \ {0}
  PROVE  ReadField(t[Len(F)], ReadAfter(t, F, k - 1)) = ReadAfter(t, F, k)
<1>1. PICK s, n : s = t[Len(F)] /\ n = Len(F)
  OBVIOUS
<1>2. n \in Nat /\ s \in Seq(Byte) /\ Len(s) \in Nat /\ F \in Seq(Tlv)
  <2>1. Len(F) \in Nat /\ Len(F) \in 0..Len(F)
    BY LenNat
  <2>2. s \in Seq(Byte)
    BY <1>1, <2>1 DEF Renders
  <2>3. Short \subseteq Tlv
    BY DEF Short
  <2> QED BY <1>1, <2>1, <2>2, <2>3, LenNat, SeqMonotonic
<1>3. CASE k <= n
  <2>1. k \in 1..Len(F) /\ k - 1 <= Len(F) /\ k <= Len(F) /\ k - 1 \in 0..Len(F)
    BY <1>1, <1>2, <1>3
  <2>2. PICK a, f, g : a = Len(t[k - 1]) /\ f = F[k] /\ g = SubSeq(F, 1, k - 1)
    OBVIOUS
  <2>3. a \in Nat /\ f \in Short
    BY <2>1, <2>2, LenNat, ElementOfSeq DEF Renders
  <2>4. FieldAt(s, a, f) /\ Len(t[k]) = a + 4 + Len(f.val)
    BY <1>1, <2>1, <2>2, FieldsAt, Zenon
  <2>5. g \in Seq(Tlv)
    BY <1>2, <2>1, <2>2
  <2>6. Append(g, f) = SubSeq(F, 1, k)
    BY <1>2, <2>1, <2>2
  <2>7. ReadField(s, [at |-> a + 1, fields |-> g])
          = [at |-> a + 5 + Len(f.val), fields |-> Append(g, f)]
    BY <1>2, <2>3, <2>4, <2>5, ReadsField, Zenon
  <2>8. a + 4 + Len(f.val) + 1 = a + 5 + Len(f.val)
    <3>1. \A x \in Nat : a + 4 + x + 1 = a + 5 + x
      BY <2>3
    <3>2. Len(f.val) \in Nat
      BY <2>3, ShortType
    <3> QED BY <3>1, <3>2, Zenon
  <2> QED BY <1>1, <2>1, <2>2, <2>4, <2>6, <2>7, <2>8, Zenon DEF ReadAfter
<1>4. CASE ~(k <= n)
  <2>1. PICK r : r = [at |-> Len(s) + 1, fields |-> F]
    OBVIOUS
  <2>2. r.at = Len(s) + 1 /\ r # Failed
    <3>1. r \in [at: Nat, fields: Seq(Tlv)]
      BY <1>2, <2>1
    <3> QED BY <2>1, <3>1, FailedAssumption
  <2>3. r.at > Len(s)
    BY <1>2, <2>2
  <2>4. ReadField(s, r) = r
    BY <2>2, <2>3, Zenon DEF ReadField
  <2>5. ReadAfter(t, F, k) = r
    BY <1>1, <1>4, <2>1, Zenon DEF ReadAfter
  <2>6. ReadAfter(t, F, k - 1) = r
    <3>1. CASE k - 1 <= n
      <4>1. k - 1 = n /\ k - 1 <= Len(F)
        BY <1>1, <1>2, <1>4, <3>1
      <4>2. SubSeq(F, 1, n) = F
        BY <1>1, SubSeqFull
      <4> QED BY <1>1, <2>1, <4>1, <4>2, Zenon DEF ReadAfter
    <3>2. CASE ~(k - 1 <= n)
      BY <1>1, <2>1, <3>2, Zenon DEF ReadAfter
    <3> QED BY <3>1, <3>2
  <2> QED BY <1>1, <2>4, <2>5, <2>6, Zenon
<1> QED BY <1>3, <1>4

\* A field takes at least four bytes.
LEMMA RoomForFields ==
  ASSUME NEW F \in Seq(Short), NEW t, Renders(t, F)
  PROVE  4 * Len(F) <= Len(t[Len(F)])
<1>1. PICK n : n = Len(F) /\ n \in Nat
  BY LenNat
<1> DEFINE T == {k \in 0..n : 4 * k <= Len(t[k])}
<1>2. 0 \in T
  <2>1. t[0] = <<>> /\ Len(<<>>) = 0
    BY SeqEmpty DEF Renders
  <2> QED BY <1>1, <2>1
<1>3. ASSUME NEW k \in 1..n, k - 1 \in T PROVE k \in T
  <2>1. PICK x, y, z : x = Len(t[k]) /\ y = Len(t[k - 1]) /\ z = Len(F[k].val)
    OBVIOUS
  <2>2. k - 1 \in 0..Len(F) /\ F[k] \in Short
    BY <1>1, ElementOfSeq
  <2>3. y \in Nat /\ z \in 0..99
    <3>1. t[k - 1] \in Seq(Byte)
      BY <2>2 DEF Renders
    <3> QED BY <2>1, <2>2, <3>1, LenNat, ShortType
  <2>4. x = y + 4 + z
    BY <1>1, <2>1, FieldsAt, Zenon
  <2>5. 4 * (k - 1) <= y
    BY <1>3, <2>1
  <2>6. 4 * k <= x
    <3>1. \A i \in Nat, v \in Nat, w \in Nat : 4 * (i - 1) <= v => 4 * i <= v + 4 + w
      OBVIOUS
    <3>2. k \in Nat /\ z \in Nat
      BY <1>1, <2>3
    <3> QED BY <2>3, <2>4, <2>5, <3>1, <3>2, Zenon
  <2> QED BY <2>1, <2>6
<1> HIDE DEF T
<1>4. \A k \in 0..n : k \in T
  BY <1>1, <1>2, <1>3, UpTo
<1> QED BY <1>1, <1>4 DEF T

\* What encodeTLVs writes, parseTLVs reads back.
LEMMA ParsesRendered ==
  ASSUME NEW F \in Seq(Short)
  PROVE  parseTLVs(Rendered(F)) = F /\ Rendered(F) \in Seq(Byte)
<1>1. PICK t : Renders(t, F) /\ Rendered(F) = t[Len(F)]
  BY RenderedBy
<1>2. PICK s, n : s = Rendered(F) /\ n = Len(F)
  OBVIOUS
<1>3. n \in Nat /\ s \in Seq(Byte) /\ Len(s) \in Nat /\ 4 * n <= Len(s)
  <2>1. n \in Nat /\ n \in 0..Len(F)
    BY <1>2, LenNat
  <2>2. s \in Seq(Byte)
    BY <1>1, <1>2, <2>1 DEF Renders
  <2> QED BY <1>1, <1>2, <2>1, <2>2, LenNat, RoomForFields
<1> DEFINE turns == Len(s) \div 4 + 1
<1>4. turns \in Nat /\ turns > n
  <2>1. \A l \in Nat, m \in Nat : 4 * m <= l => l \div 4 + 1 \in Nat /\ l \div 4 + 1 > m
    OBVIOUS
  <2> QED BY <1>3, <2>1
<1> DEFINE Eq(r) == r = [k \in 0..turns |->
                          IF k = 0 THEN [at |-> 1, fields |-> <<>>] ELSE ReadField(s, r[k - 1])]
           e == [k \in 0..turns |-> ReadAfter(t, F, k)]
<1>5. e[0] = [at |-> 1, fields |-> <<>>]
  <2>1. SubSeq(F, 1, 0) = <<>> /\ t[0] = <<>> /\ Len(<<>>) + 1 = 1
    BY <1>1, SubSeqEmpty, SeqEmpty DEF Renders
  <2>2. 0 <= Len(F) /\ 0 \in 0..turns
    BY <1>2, <1>3, <1>4
  <2> QED BY <2>1, <2>2 DEF ReadAfter
<1>6. ASSUME NEW k \in 0..turns, k # 0 PROVE e[k] = ReadField(s, e[k - 1])
  <2>1. k \in Nat \ {0} /\ k - 1 \in 0..turns
    BY <1>4, <1>6
  <2> QED BY <1>1, <1>2, <2>1, ReadsNext
<1>7. Eq(e)
  <2>1. e = [k \in 0..turns |-> e[k]]
    OBVIOUS
  <2> HIDE DEF e
  <2> QED BY <1>5, <1>6, <2>1
<1>8. PICK r : r = CHOOSE x : Eq(x)
  OBVIOUS
<1>9. Eq(r)
  <2> HIDE DEF Eq, e
  <2> QED BY <1>7, <1>8
<1>10. \A k \in 0..turns : r[k] = e[k]
  <2> DEFINE T == {k \in 0..turns : r[k] = e[k]}
  <2>1. 0 \in T
    <3>1. 0 \in 0..turns
      BY <1>4
    <3>2. r[0] = [at |-> 1, fields |-> <<>>]
      BY <1>9, <3>1
    <3> HIDE DEF e
    <3> QED BY <1>5, <3>1, <3>2
  <2>2. ASSUME NEW k \in 1..turns, k - 1 \in T PROVE k \in T
    <3>1. k \in 0..turns /\ k # 0
      BY <1>4
    <3>2. r[k] = ReadField(s, r[k - 1])
      BY <1>9, <3>1
    <3> HIDE DEF e
    <3> QED BY <1>6, <2>2, <3>1, <3>2
  <2> HIDE DEF T, e
  <2>3. \A k \in 0..turns : k \in T
    BY <1>4, <2>1, <2>2, UpTo
  <2> QED BY <2>3 DEF T
<1>11. r[turns] = [at |-> Len(s) + 1, fields |-> F]
  <2>1. turns \in 0..turns /\ ~(turns <= Len(F))
    BY <1>2, <1>3, <1>4
  <2> QED BY <1>1, <1>2, <1>10, <2>1 DEF ReadAfter
<1>12. r[turns] # Failed /\ r[turns].fields = F
  <2>1. F \in Seq(Tlv) /\ Len(s) + 1 \in Nat
    <3>1. Short \subseteq Tlv
      BY DEF Short
    <3> QED BY <1>3, <3>1, SeqMonotonic
  <2>2. r[turns] \in [at: Nat, fields: Seq(Tlv)]
    BY <1>11, <2>1
  <2> QED BY <1>11, <2>2, FailedAssumption
<1>13. parseTLVs(s) = IF r[turns] = Failed THEN Failed ELSE r[turns].fields
  BY <1>8 DEF parseTLVs
<1> QED BY <1>2, <1>3, <1>12, <1>13, Zenon

-----------------------------------------------------------------------------
(* The fields in a sequence, and what find returns.                        *)

Elems(s) == {s[i] : i \in 1..Len(s)}
Given(condition, f) == IF condition THEN {f} ELSE {}

LEMMA ElemsJoined ==
  ASSUME NEW S, NEW s \in Seq(S), NEW t \in Seq(S)
  PROVE  s \o t \in Seq(S) /\ Elems(s \o t) = Elems(s) \cup Elems(t)
<1>1. PICK m, n, c : m = Len(s) /\ n = Len(t) /\ c = s \o t
  OBVIOUS
<1>2. m \in Nat /\ n \in Nat
  BY <1>1, LenNat
<1>3. /\ c \in Seq(S) /\ Len(c) = m + n
      /\ \A i \in 1..m + n : c[i] = IF i <= m THEN s[i] ELSE t[i - m]
  BY <1>1, ConcatProperties
<1>4. ASSUME NEW i \in 1..m PROVE i \in 1..m + n /\ c[i] = s[i]
  BY <1>2, <1>3
<1>5. ASSUME NEW i \in 1..n PROVE m + i \in 1..m + n /\ c[m + i] = t[i]
  <2>1. m + i \in 1..m + n /\ ~(m + i <= m) /\ (m + i) - m = i
    BY <1>2
  <2> QED BY <1>3, <2>1
<1>6. ASSUME NEW i \in 1..m + n PROVE i \in 1..m \/ \E j \in 1..n : i = m + j
  <2>1. CASE ~(i <= m)
    <3>1. i - m \in 1..n /\ i = m + (i - m)
      BY <1>2, <2>1
    <3> QED BY <3>1
  <2> QED BY <1>2, <2>1
<1>7. \A x : x \in Elems(c) <=> x \in Elems(s) \/ x \in Elems(t)
  <2>1. /\ Elems(c) = {c[i] : i \in 1..m + n}
        /\ Elems(s) = {s[i] : i \in 1..m} /\ Elems(t) = {t[i] : i \in 1..n}
    BY <1>1, <1>3, Zenon DEF Elems
  <2>2. ASSUME NEW x \in Elems(c) PROVE x \in Elems(s) \/ x \in Elems(t)
    <3>1. PICK i \in 1..m + n : x = c[i]
      BY <2>1, <2>2
    <3>2. CASE i \in 1..m
      BY <1>4, <2>1, <3>1, <3>2
    <3>3. ASSUME NEW j \in 1..n, i = m + j PROVE x \in Elems(t)
      <4>1. x = t[j]
        BY <1>5, <3>1, <3>3, Zenon
      <4> QED BY <2>1, <4>1
    <3> QED BY <1>6, <3>2, <3>3
  <2>3. ASSUME NEW x \in Elems(s) PROVE x \in Elems(c)
    <3>1. PICK i \in 1..m : x = s[i]
      BY <2>1, <2>3
    <3> QED BY <1>4, <2>1, <3>1
  <2>4. ASSUME NEW x \in Elems(t) PROVE x \in Elems(c)
    <3>1. PICK i \in 1..n : x = t[i]
      BY <2>1, <2>4
    <3> QED BY <1>5, <2>1, <3>1
  <2> QED BY <2>2, <2>3, <2>4
<1> QED BY <1>1, <1>3, <1>7

LEMMA FirstJoined ==
  ASSUME NEW S, NEW s \in Seq(S), NEW t \in Seq(S), Len(s) >= 1
  PROVE  s \o t \in Seq(S) /\ Len(s \o t) >= 1 /\ (s \o t)[1] = s[1]
<1>1. PICK m, n, c : m = Len(s) /\ n = Len(t) /\ c = s \o t
  OBVIOUS
<1>2. m \in Nat /\ n \in Nat /\ m >= 1
  BY <1>1, LenNat
<1>3. /\ c \in Seq(S) /\ Len(c) = m + n
      /\ \A i \in 1..m + n : c[i] = IF i <= m THEN s[i] ELSE t[i - m]
  BY <1>1, ConcatProperties
<1>4. Len(c) >= 1 /\ c[1] = s[1]
  BY <1>2, <1>3
<1> QED BY <1>1, <1>3, <1>4

LEMMA ElemsOfFour ==
  ASSUME NEW S, NEW a \in Seq(S), NEW b \in Seq(S), NEW c \in Seq(S), NEW d \in Seq(S)
  PROVE  /\ a \o b \o c \o d \in Seq(S)
         /\ Elems(a \o b \o c \o d) = Elems(a) \cup Elems(b) \cup Elems(c) \cup Elems(d)
<1>1. PICK h : h = a \o b
  OBVIOUS
<1>2. h \in Seq(S) /\ Elems(h) = Elems(a) \cup Elems(b)
  BY <1>1, ElemsJoined
<1>3. PICK k : k = h \o c
  OBVIOUS
<1>4. k \in Seq(S) /\ Elems(k) = Elems(h) \cup Elems(c)
  BY <1>2, <1>3, ElemsJoined
<1>5. k \o d \in Seq(S) /\ Elems(k \o d) = Elems(k) \cup Elems(d)
  BY <1>4, ElemsJoined
<1> QED BY <1>1, <1>2, <1>3, <1>4, <1>5, Zenon

LEMMA ElemsOne ==
  ASSUME NEW S, NEW x \in S
  PROVE  <<x>> \in Seq(S) /\ Elems(<<x>>) = {x}
  BY DEF Elems

LEMMA ElemsIf ==
  ASSUME NEW S, NEW x \in S, NEW c \in BOOLEAN
  PROVE  If(c, <<x>>) \in Seq(S) /\ Elems(If(c, <<x>>)) = Given(c, x)
<1>1. Elems(<<>>) = {}
  BY DEF Elems
<1> QED BY <1>1, ElemsOne, SeqEmpty DEF If, Given

\* Fields of one id all have one value: find returns it.
LEMMA Finds ==
  ASSUME NEW fields \in Seq(Tlv), NEW n, NEW v, NEW f \in Elems(fields), f.id = id(n),
         \A g \in Elems(fields) : g.id = id(n) => g.val = v
  PROVE  find(fields, n) = v
<1> DEFINE at == {i \in 1..Len(fields) : fields[i].id = id(n)}
<1>1. at # {} /\ at \subseteq Nat
  BY DEF Elems
<1>2. PICK i : i = CHOOSE x \in at : \A j \in at : x <= j
  OBVIOUS
<1>3. i \in at
  <2> HIDE DEF at
  <2>1. \E x \in at : \A j \in at : x <= j
    BY <1>1, LeastExists
  <2> QED BY <1>2, <2>1
<1>4. find(fields, n) = fields[i].val
  <2>1. at # {}
    BY <1>1
  <2> QED BY <1>2, <2>1, Zenon DEF find
<1>5. fields[i] \in Elems(fields) /\ fields[i].id = id(n)
  BY <1>3, Zenon DEF Elems
<1> QED BY <1>4, <1>5

LEMMA FindsTLV ==
  ASSUME NEW fields \in Seq(Tlv), NEW n, NEW v, TLV(n, v) \in Elems(fields),
         \A g \in Elems(fields) : g.id = id(n) => g.val = v
  PROVE  find(fields, n) = v
<1>1. TLV(n, v).id = id(n)
  BY DEF TLV
<1> QED BY <1>1, Finds

LEMMA FindsNone ==
  ASSUME NEW fields \in Seq(Tlv), NEW n, \A g \in Elems(fields) : g.id # id(n)
  PROVE  find(fields, n) = <<>>
<1>1. {i \in 1..Len(fields) : fields[i].id = id(n)} = {}
  BY DEF Elems
<1> QED BY <1>1, Zenon DEF find

-----------------------------------------------------------------------------
(* The fields that Encode writes.                                          *)

LEMMA IdsDiffer ==
  ASSUME NEW m \in 0..99, NEW n \in 0..99, id(m) = id(n)
  PROVE  m = n
<1>1. TwoDigits(m)[1] = TwoDigits(n)[1] /\ TwoDigits(m)[2] = TwoDigits(n)[2]
  BY DEF id
<1>2. PICK a, b, c, d : a = m \div 10 /\ b = m % 10 /\ c = n \div 10 /\ d = n % 10
  OBVIOUS
<1>3. /\ TwoDigits(m)[1] = 48 + a /\ TwoDigits(m)[2] = 48 + b
      /\ a \in 0..9 /\ b \in 0..9 /\ m = 10 * a + b
  BY <1>2, DigitsType, Zenon
<1>4. /\ TwoDigits(n)[1] = 48 + c /\ TwoDigits(n)[2] = 48 + d
      /\ c \in 0..9 /\ d \in 0..9 /\ n = 10 * c + d
  BY <1>2, DigitsType, Zenon
<1>5. 48 + a = 48 + c /\ 48 + b = 48 + d
  BY <1>1, <1>3, <1>4, Zenon
<1> QED BY ONLY <1>3, <1>4, <1>5

Named == {f \in Tlv : Len(f.id) = 2 /\ f.id[1] \in 48..57}

LEMMA TLVType ==
  ASSUME NEW n \in 0..99, NEW v \in Seq(Byte)
  PROVE  TLV(n, v) \in Named /\ TLV(n, v).id = id(n) /\ TLV(n, v).val = v
<1>1. id(n) \in Seq(Byte) /\ Len(id(n)) = 2 /\ id(n)[1] \in 48..57
  <2>1. PICK d, q : d = id(n) /\ q = n \div 10
    OBVIOUS
  <2>2. d \in Seq(Byte) /\ Len(d) = 2 /\ d[1] = 48 + q /\ q \in 0..9
    BY <2>1, DigitsType, Zenon DEF id
  <2>3. d[1] \in 48..57
    BY <2>2
  <2> QED BY <2>1, <2>2, <2>3, Zenon
<1> QED BY <1>1 DEF TLV, Named, Tlv

LEMMA EncodesShort ==
  ASSUME NEW F \in Seq(Named), encodeTLVs(F) # Failed
  PROVE  F \in Seq(Short) /\ encodeTLVs(F) = Rendered(F)
<1>1. ~ \E i \in 1..Len(F) : Len(F[i].val) > 99
  BY Zenon DEF encodeTLVs
<1>2. encodeTLVs(F) = Rendered(F)
  BY <1>1, Zenon DEF encodeTLVs
<1>3. ASSUME NEW i \in 1..Len(F) PROVE F[i] \in Short
  <2>1. F[i] \in Named
    BY ElementOfSeq
  <2>2. F[i].val \in Seq(Byte)
    BY <2>1 DEF Named, Tlv
  <2>3. PICK L : L = Len(F[i].val) /\ L \in Nat
    BY <2>2, LenNat
  <2>4. ~(L > 99)
    BY <1>1, <2>3
  <2>5. L <= 99
    BY <2>3, <2>4
  <2> QED BY <2>1, <2>3, <2>5, Zenon DEF Short, Named
<1>4. F \in [1..Len(F) -> Named] /\ Len(F) \in Nat
  BY LenProperties
<1>5. F \in [1..Len(F) -> Short]
  BY <1>3, <1>4
<1>6. F \in Seq(Short)
  <2>1. Seq(Short) = UNION {[1..n -> Short] : n \in Nat}
    BY SeqDef
  <2> QED BY <1>4, <1>5, <2>1
<1> QED BY <1>2, <1>6

\* The type of a payload, from PayloadsAssumption.
LEMMA PayloadType ==
  ASSUME NEW p \in Payloads
  PROVE  /\ p.key \in Seq(Byte) /\ p.url \in Seq(Byte) /\ p.description \in Seq(Byte)
         /\ p.name \in Seq(Byte) /\ p.city \in Seq(Byte) /\ p.amount \in Seq(Byte)
         /\ p.txid \in Seq(Byte) /\ p.dynamic \in BOOLEAN /\ p.omit \in BOOLEAN
<1>1. p \in [key: Seq(Byte), url: Seq(Byte), description: Seq(Byte), name: Seq(Byte),
             city: Seq(Byte), amount: Seq(Byte), txid: Seq(Byte),
             dynamic: BOOLEAN, omit: BOOLEAN]
  BY PayloadsAssumption
<1> QED BY <1>1

LEMMA BytesType ==
  /\ pixGUI \in Seq(Byte) /\ NoTxID \in Seq(Byte) /\ id(1) \in Seq(Byte)
  /\ id(11) \in Seq(Byte) /\ id(12) \in Seq(Byte) /\ id(0) \o id(0) \in Seq(Byte)
  /\ <<57, 56, 54>> \in Seq(Byte) /\ <<66, 82>> \in Seq(Byte)
<1>1. pixGUI \in Seq(Byte) /\ NoTxID \in Seq(Byte)
      /\ <<57, 56, 54>> \in Seq(Byte) /\ <<66, 82>> \in Seq(Byte)
  BY DEF pixGUI, NoTxID, Byte
<1>2. \A n \in 0..99 : id(n) \in Seq(Byte)
  BY DigitsType DEF id
<1>3. id(1) \in Seq(Byte) /\ id(11) \in Seq(Byte) /\ id(12) \in Seq(Byte) /\ id(0) \in Seq(Byte)
  BY <1>2
<1>4. id(0) \o id(0) \in Seq(Byte)
  BY <1>3, Joined, Zenon
<1> QED BY <1>1, <1>3, <1>4, Zenon

LEMMA MerchantElems ==
  ASSUME NEW p \in Payloads
  PROVE  /\ MerchantFields(p) \in Seq(Named)
         /\ Elems(MerchantFields(p))
              = {TLV(0, pixGUI)} \cup Given(p.url # <<>>, TLV(25, p.url))
                \cup Given(p.url = <<>>, TLV(1, p.key))
                \cup Given(p.url = <<>> /\ p.description # <<>>, TLV(2, p.description))
<1>1. /\ TLV(0, pixGUI) \in Named /\ TLV(25, p.url) \in Named /\ TLV(1, p.key) \in Named
      /\ TLV(2, p.description) \in Named
  <2>1. 0 \in 0..99 /\ 25 \in 0..99 /\ 1 \in 0..99 /\ 2 \in 0..99
    OBVIOUS
  <2> QED BY <2>1, TLVType, PayloadType, BytesType, Zenon
<1>2. PICK a, b, c, d : /\ a = <<TLV(0, pixGUI)>>
                        /\ b = If(p.url # <<>>, <<TLV(25, p.url)>>)
                        /\ c = If(p.url = <<>>, <<TLV(1, p.key)>>)
                        /\ d = If(p.url = <<>> /\ p.description # <<>>, <<TLV(2, p.description)>>)
  OBVIOUS
<1>3. MerchantFields(p) = a \o b \o c \o d
  BY <1>2, Zenon DEF MerchantFields
<1>4. /\ a \in Seq(Named) /\ Elems(a) = {TLV(0, pixGUI)}
      /\ b \in Seq(Named) /\ Elems(b) = Given(p.url # <<>>, TLV(25, p.url))
      /\ c \in Seq(Named) /\ Elems(c) = Given(p.url = <<>>, TLV(1, p.key))
      /\ d \in Seq(Named)
      /\ Elems(d) = Given(p.url = <<>> /\ p.description # <<>>, TLV(2, p.description))
  <2>1. /\ (p.url # <<>>) \in BOOLEAN /\ (p.url = <<>>) \in BOOLEAN
        /\ (p.url = <<>> /\ p.description # <<>>) \in BOOLEAN
    OBVIOUS
  <2> QED BY <1>1, <1>2, <2>1, ElemsOne, ElemsIf, Zenon
<1>5. a \in Seq(Named) /\ b \in Seq(Named) /\ c \in Seq(Named) /\ d \in Seq(Named)
  BY <1>4, Zenon
<1>6. /\ a \o b \o c \o d \in Seq(Named)
      /\ Elems(a \o b \o c \o d) = Elems(a) \cup Elems(b) \cup Elems(c) \cup Elems(d)
  BY <1>5, ElemsOfFour
<1> QED BY <1>3, <1>4, <1>6, Zenon

LEMMA BodyElems ==
  ASSUME NEW p \in Payloads, NEW m \in Seq(Byte), NEW e \in Seq(Byte),
         m = MerchantAccount(p), e = AdditionalData(p)
  PROVE  /\ BodyFields(p) \in Seq(Named)
         /\ Len(BodyFields(p)) >= 1 /\ BodyFields(p)[1] = TLV(0, id(1))
         /\ Elems(BodyFields(p))
              = {TLV(0, id(1))}
                \cup Given(Dynamic(p) \/ ~p.omit, TLV(1, IF Dynamic(p) THEN id(12) ELSE id(11)))
                \cup {TLV(26, m), TLV(52, id(0) \o id(0)), TLV(53, <<57, 56, 54>>)}
                \cup Given(p.amount # <<>>, TLV(54, p.amount))
                \cup {TLV(58, <<66, 82>>), TLV(59, p.name), TLV(60, p.city), TLV(62, e)}
<1>1. PICK point, zeros : /\ point = IF Dynamic(p) THEN id(12) ELSE id(11)
                          /\ zeros = id(0) \o id(0)
  OBVIOUS
<1>2. /\ TLV(0, id(1)) \in Named /\ TLV(1, point) \in Named /\ TLV(26, m) \in Named
      /\ TLV(52, zeros) \in Named /\ TLV(53, <<57, 56, 54>>) \in Named
      /\ TLV(54, p.amount) \in Named /\ TLV(58, <<66, 82>>) \in Named
      /\ TLV(59, p.name) \in Named /\ TLV(60, p.city) \in Named /\ TLV(62, e) \in Named
  <2>1. /\ 0 \in 0..99 /\ 1 \in 0..99 /\ 26 \in 0..99 /\ 52 \in 0..99 /\ 53 \in 0..99
        /\ 54 \in 0..99 /\ 58 \in 0..99 /\ 59 \in 0..99 /\ 60 \in 0..99 /\ 62 \in 0..99
    OBVIOUS
  <2>2. point \in Seq(Byte) /\ zeros \in Seq(Byte)
    BY <1>1, BytesType, Zenon
  <2> QED BY <2>1, <2>2, TLVType, PayloadType, BytesType, Zenon
<1>3. PICK a, b, c, d, g :
         /\ a = <<TLV(0, id(1))>>
         /\ b = If(Dynamic(p) \/ ~p.omit, <<TLV(1, point)>>)
         /\ c = <<TLV(26, m), TLV(52, zeros), TLV(53, <<57, 56, 54>>)>>
         /\ d = If(p.amount # <<>>, <<TLV(54, p.amount)>>)
         /\ g = <<TLV(58, <<66, 82>>), TLV(59, p.name), TLV(60, p.city), TLV(62, e)>>
  BY Zenon
<1>4. BodyFields(p) = a \o b \o c \o d \o g
  BY <1>1, <1>3, Zenon DEF BodyFields
<1>5. /\ a \in Seq(Named) /\ Elems(a) = {TLV(0, id(1))}
      /\ b \in Seq(Named) /\ Elems(b) = Given(Dynamic(p) \/ ~p.omit, TLV(1, point))
      /\ d \in Seq(Named) /\ Elems(d) = Given(p.amount # <<>>, TLV(54, p.amount))
  <2>1. (p.amount # <<>>) \in BOOLEAN /\ (Dynamic(p) \/ ~p.omit) \in BOOLEAN
    OBVIOUS
  <2> QED BY <1>2, <1>3, <2>1, ElemsOne, ElemsIf, Zenon
<1>6. /\ c \in Seq(Named)
      /\ Elems(c) = {TLV(26, m), TLV(52, zeros), TLV(53, <<57, 56, 54>>)}
  <2>1. ASSUME NEW x \in Named, NEW y \in Named, NEW z \in Named
        PROVE  <<x, y, z>> \in Seq(Named) /\ Elems(<<x, y, z>>) = {x, y, z}
    BY DEF Elems
  <2>2. TLV(26, m) \in Named /\ TLV(52, zeros) \in Named /\ TLV(53, <<57, 56, 54>>) \in Named
    BY <1>2, Zenon
  <2>3. c = <<TLV(26, m), TLV(52, zeros), TLV(53, <<57, 56, 54>>)>>
    BY <1>3, Zenon
  <2> QED BY <2>1, <2>2, <2>3
<1>7. /\ g \in Seq(Named)
      /\ Elems(g) = {TLV(58, <<66, 82>>), TLV(59, p.name), TLV(60, p.city), TLV(62, e)}
  <2>1. ASSUME NEW x \in Named, NEW y \in Named, NEW z \in Named, NEW w \in Named
        PROVE  <<x, y, z, w>> \in Seq(Named) /\ Elems(<<x, y, z, w>>) = {x, y, z, w}
    BY DEF Elems
  <2>2. /\ TLV(58, <<66, 82>>) \in Named /\ TLV(59, p.name) \in Named
        /\ TLV(60, p.city) \in Named /\ TLV(62, e) \in Named
    BY <1>2, Zenon
  <2>3. g = <<TLV(58, <<66, 82>>), TLV(59, p.name), TLV(60, p.city), TLV(62, e)>>
    BY <1>3, Zenon
  <2> QED BY <2>1, <2>2, <2>3
<1>8. /\ a \in Seq(Named) /\ b \in Seq(Named) /\ c \in Seq(Named)
      /\ d \in Seq(Named) /\ g \in Seq(Named)
  BY <1>5, <1>6, <1>7, Zenon
<1>9. PICK h : h = a \o b \o c \o d
  OBVIOUS
<1>10. h \in Seq(Named) /\ Elems(h) = Elems(a) \cup Elems(b) \cup Elems(c) \cup Elems(d)
  BY <1>8, <1>9, ElemsOfFour
<1>11. h \o g \in Seq(Named) /\ Elems(h \o g) = Elems(h) \cup Elems(g)
  BY <1>8, <1>10, ElemsJoined
<1>12. /\ BodyFields(p) \in Seq(Named)
       /\ Elems(BodyFields(p)) = Elems(a) \cup Elems(b) \cup Elems(c) \cup Elems(d) \cup Elems(g)
  BY <1>4, <1>9, <1>10, <1>11, Zenon
<1>13. Elems(BodyFields(p))
         = {TLV(0, id(1))} \cup Given(Dynamic(p) \/ ~p.omit, TLV(1, point))
           \cup {TLV(26, m), TLV(52, zeros), TLV(53, <<57, 56, 54>>)}
           \cup Given(p.amount # <<>>, TLV(54, p.amount))
           \cup {TLV(58, <<66, 82>>), TLV(59, p.name), TLV(60, p.city), TLV(62, e)}
  BY <1>5, <1>6, <1>7, <1>12, Zenon
<1>14. Len(BodyFields(p)) >= 1 /\ BodyFields(p)[1] = TLV(0, id(1))
  <2>1. Len(a) >= 1 /\ a[1] = TLV(0, id(1))
    BY <1>3
  <2>2. PICK u, v : u = a \o b /\ v = u \o c
    OBVIOUS
  <2>3. u \in Seq(Named) /\ Len(u) >= 1 /\ u[1] = a[1]
    BY <1>8, <2>1, <2>2, FirstJoined
  <2>4. v \in Seq(Named) /\ Len(v) >= 1 /\ v[1] = u[1]
    BY <1>8, <2>2, <2>3, FirstJoined
  <2>5. Len(h) >= 1 /\ h[1] = v[1]
    BY <1>8, <1>9, <2>2, <2>4, FirstJoined
  <2>6. Len(h \o g) >= 1 /\ (h \o g)[1] = h[1]
    BY <1>8, <1>10, <2>5, FirstJoined
  <2> QED BY <1>4, <1>9, <2>1, <2>3, <2>4, <2>5, <2>6, Zenon
<1> QED BY <1>1, <1>12, <1>13, <1>14, Zenon

-----------------------------------------------------------------------------
(* The CRC.                                                                *)

LEMMA ByteIs == \A x : x \in Byte <=> x \in Nat /\ x < 256
  BY SMT DEF Byte

LEMMA MaxIs == MaxWord = 65535
  BY DEF MaxWord

LEMMA WordIs == \A w : w \in Word16 <=> w \in Nat /\ w < 65536
<1>1. MaxWord \in Nat
  BY MaxIs
<1>2. \A w : w \in Word16 <=> w \in Nat /\ w <= MaxWord
  BY <1>1, SMT DEF Word16
<1>3. \A w \in Nat : w <= MaxWord <=> w < 65536
  BY MaxIs, SMT
<1> QED BY <1>2, <1>3, SMT

LEMMA FlipType ==
  ASSUME NEW n \in Word16, n % 2 = 0
  PROVE  /\ Flip(n, 4096) \in Word16 /\ Flip(n, 4096) % 2 = 0
         /\ Flip(n, 32) \in Word16 /\ Flip(n, 32) % 2 = 0
<1>1. Flip(n, 4096) \in Word16 /\ Flip(n, 4096) % 2 = 0
  <2>1. CASE (n \div 4096) % 2 = 1
    BY <2>1, WordIs, SMT DEF Flip
  <2>2. CASE (n \div 4096) % 2 # 1
    BY <2>2, WordIs, SMT DEF Flip
  <2> QED BY <2>1, <2>2
<1>2. Flip(n, 32) \in Word16 /\ Flip(n, 32) % 2 = 0
  <2>1. CASE (n \div 32) % 2 = 1
    BY <2>1, WordIs, SMT DEF Flip
  <2>2. CASE (n \div 32) % 2 # 1
    BY <2>2, WordIs, SMT DEF Flip
  <2> QED BY <2>1, <2>2
<1> QED BY <1>1, <1>2

LEMMA RoundType ==
  ASSUME NEW w \in Word16
  PROVE  Round(w) \in Word16
<1>1. CASE w < 32768
  BY <1>1, WordIs, SMT DEF Round
<1>2. CASE ~(w < 32768)
  <2>1. PICK n : n = 2 * w - 65536
    OBVIOUS
  <2>2. n \in Word16 /\ n % 2 = 0
    BY <1>2, <2>1, WordIs, SMT
  <2>3. PICK m : m = Flip(n, 4096)
    OBVIOUS
  <2>4. PICK k : k = Flip(m, 32)
    OBVIOUS
  <2>5. k \in Word16 /\ k % 2 = 0
    BY <2>2, <2>3, <2>4, FlipType
  <2>6. Round(w) = k + 1
    BY <1>2, <2>1, <2>3, <2>4, SMT DEF Round
  <2>7. k + 1 \in Word16
    BY <2>5, WordIs, SMT
  <2> QED BY <2>6, <2>7
<1> QED BY <1>1, <1>2

LEMMA EightRoundsType ==
  ASSUME NEW w \in Word16
  PROVE  EightRounds(w) \in Word16
  BY RoundType, Zenon DEF EightRounds

LEMMA XorType ==
  ASSUME NEW a \in Byte, NEW b \in Byte
  PROVE  Xor(a, b) \in Byte
<1> DEFINE bit(w) == ((a \div w) + (b \div w)) % 2
<1>1. \A w \in {1, 2, 4, 8, 16, 32, 64, 128} : bit(w) \in 0..1
  BY DEF Byte
<1>2. Xor(a, b) = bit(1) + 2 * bit(2) + 4 * bit(4) + 8 * bit(8)
                  + 16 * bit(16) + 32 * bit(32) + 64 * bit(64) + 128 * bit(128)
  BY DEF Xor
<1>3. /\ bit(1) \in 0..1 /\ bit(2) \in 0..1 /\ bit(4) \in 0..1 /\ bit(8) \in 0..1
      /\ bit(16) \in 0..1 /\ bit(32) \in 0..1 /\ bit(64) \in 0..1 /\ bit(128) \in 0..1
  BY <1>1
<1> HIDE DEF bit
<1> QED BY <1>2, <1>3 DEF Byte

LEMMA StepType ==
  ASSUME NEW b \in Byte
  PROVE  Step(b) \in [Word16 -> Word16]
<1>1. ASSUME NEW c \in Word16
      PROVE  EightRounds(256 * Xor(c \div 256, b) + (c % 256)) \in Word16
  <2>1. c \div 256 \in Byte /\ c % 256 \in Byte
    BY WordIs, ByteIs, SMT
  <2>2. Xor(c \div 256, b) \in Byte
    BY <2>1, XorType
  <2>3. \A x \in Byte, y \in Byte : 256 * x + y \in Word16
    BY WordIs, ByteIs, SMT
  <2> QED BY <2>1, <2>2, <2>3, EightRoundsType, Zenon
<1> QED BY <1>1, Zenon DEF Step

\* The CRC after each byte of s.
Sums(c, s) ==
  /\ c \in [0..Len(s) -> Word16]
  /\ c[0] = MaxWord
  /\ \A n \in 1..Len(s) : c[n] = Step(s[n])[c[n - 1]]

LEMMA CRCBy ==
  ASSUME NEW s \in Seq(Byte)
  PROVE  \E c : Sums(c, s) /\ CRC16(s) = c[Len(s)]
<1>0. Len(s) \in Nat
  BY LenNat
<1> DEFINE G == [n \in 1..Len(s) |-> Step(s[n])]
           Eq(c) == c = [n \in 0..Len(s) |-> IF n = 0 THEN MaxWord ELSE Step(s[n])[c[n - 1]]]
<1>1. G \in [1..Len(s) -> [Word16 -> Word16]]
  <2>1. \A n \in 1..Len(s) : Step(s[n]) \in [Word16 -> Word16]
    BY BytesOf, StepType
  <2> QED BY <2>1
<1>2. PICK t \in [0..Len(s) -> Word16] : Recursive(t, Len(s), MaxWord, G)
  <2>1. MaxWord \in Word16
    BY MaxIs, WordIs, SMT
  <2> HIDE DEF G
  <2> QED BY <1>0, <1>1, <2>1, RecursionDefines
<1>3. Eq(t)
  <2>1. ASSUME NEW n \in 1..Len(s) PROVE G[n][t[n - 1]] = Step(s[n])[t[n - 1]]
    OBVIOUS
  <2>2. t = [n \in 0..Len(s) |-> IF n = 0 THEN MaxWord ELSE G[n][t[n - 1]]]
    BY <1>2 DEF Recursive
  <2>3. \A n \in 0..Len(s) : n # 0 => n \in 1..Len(s)
    BY <1>0
  <2> HIDE DEF G
  <2> QED BY <2>1, <2>2, <2>3, Zenon
<1>4. PICK r : r = CHOOSE x : Eq(x)
  OBVIOUS
<1>5. Eq(r)
  <2> HIDE DEF Eq
  <2> QED BY <1>3, <1>4
<1>6. CRC16(s) = r[Len(s)]
  BY <1>4 DEF CRC16
<1>7. r[0] = MaxWord /\ \A n \in 1..Len(s) : r[n] = Step(s[n])[r[n - 1]]
  BY <1>0, <1>5
<1>8. DOMAIN r = 0..Len(s) /\ r = [n \in 0..Len(s) |-> r[n]]
  BY <1>5
<1>9. \A n \in 0..Len(s) : r[n] \in Word16
  <2> DEFINE T == {n \in 0..Len(s) : r[n] \in Word16}
  <2>1. 0 \in T
    BY <1>0, <1>7, MaxIs, WordIs
  <2>2. ASSUME NEW n \in 1..Len(s), n - 1 \in T PROVE n \in T
    <3>1. Step(s[n]) \in [Word16 -> Word16] /\ r[n - 1] \in Word16 /\ n \in 0..Len(s)
      BY <1>0, <2>2, BytesOf, StepType
    <3>2. Step(s[n])[r[n - 1]] \in Word16
      BY <3>1
    <3> QED BY <1>7, <3>1, <3>2
  <2> HIDE DEF T
  <2>3. \A n \in 0..Len(s) : n \in T
    BY <1>0, <2>1, <2>2, UpTo
  <2> QED BY <2>3 DEF T
<1>10. r \in [0..Len(s) -> Word16]
  BY <1>8, <1>9
<1> QED BY <1>6, <1>7, <1>10 DEF Sums

LEMMA CRCType ==
  ASSUME NEW s \in Seq(Byte)
  PROVE  CRC16(s) \in Word16
<1>1. PICK c : Sums(c, s) /\ CRC16(s) = c[Len(s)]
  BY CRCBy
<1>2. Len(s) \in 0..Len(s)
  BY LenNat
<1> QED BY <1>1, <1>2 DEF Sums

\* The four characters of a CRC are printable capitals and digits.
HexDigit == 48..57 \cup 65..70

LEMMA FourHexType ==
  ASSUME NEW w \in Word16
  PROVE  /\ FourHex(w) \in Seq(HexDigit) /\ FourHex(w) \in Seq(Byte) /\ Len(FourHex(w)) = 4
         /\ ToUpper(FourHex(w)) = FourHex(w)
<1>1. \A n \in 0..15 : Hex(n) \in HexDigit
  BY DEF Hex, HexDigit
<1>2. /\ w \div 4096 \in 0..15 /\ (w \div 256) % 16 \in 0..15
      /\ (w \div 16) % 16 \in 0..15 /\ w % 16 \in 0..15
  BY WordIs, SMT
<1>3. PICK a \in HexDigit, b \in HexDigit, c \in HexDigit, d \in HexDigit :
         FourHex(w) = <<a, b, c, d>>
  BY <1>1, <1>2, SMT DEF FourHex
<1>4. PICK h : h = FourHex(w)
  OBVIOUS
<1>5. h \in Seq(HexDigit) /\ Len(h) = 4
  BY <1>3, <1>4
<1>6. HexDigit \subseteq Byte /\ \A x \in HexDigit : x \notin 97..122
  BY DEF HexDigit, Byte
<1>7. h \in Seq(Byte)
  BY <1>5, <1>6, SeqMonotonic
<1>8. ToUpper(h) = h
  <2>1. \A i \in 1..Len(h) : h[i] \in HexDigit
    BY <1>5, ElementOfSeq
  <2>2. h = [i \in 1..Len(h) |-> h[i]]
    BY <1>5
  <2>3. ToUpper(h) = [i \in 1..Len(h) |-> h[i]]
    BY <1>6, <2>1, Zenon DEF ToUpper
  <2> QED BY <2>2, <2>3, Zenon
<1> QED BY <1>4, <1>5, <1>7, <1>8, Zenon

-----------------------------------------------------------------------------
(* The text that Encode returns.                                           *)

LEMMA RenderedAppend ==
  ASSUME NEW F \in Seq(Short), NEW f \in Short
  PROVE  /\ Append(F, f) \in Seq(Short)
         /\ Rendered(Append(F, f)) = Followed(Rendered(F), f)
<1>1. PICK H, n : H = Append(F, f) /\ n = Len(F) /\ n \in Nat
  BY LenNat
<1>2. /\ H \in Seq(Short) /\ Len(H) = n + 1 /\ H[n + 1] = f
      /\ \A i \in 1..n : H[i] = F[i]
  BY <1>1, AppendProperties
<1>3. PICK t : Renders(t, F) /\ Rendered(F) = t[n]
  BY <1>1, RenderedBy
<1>4. PICK u : Renders(u, H) /\ Rendered(H) = u[n + 1]
  BY <1>2, RenderedBy
<1> DEFINE T == {k \in 0..n : u[k] = t[k]}
<1>5. 0 \in T
  BY <1>1, <1>3, <1>4 DEF Renders
<1>6. ASSUME NEW k \in 1..n, k - 1 \in T PROVE k \in T
  <2>1. k \in 1..Len(H) /\ k \in 1..Len(F) /\ k \in 0..n
    BY <1>1, <1>2
  <2>2. u[k] = Followed(u[k - 1], H[k]) /\ t[k] = Followed(t[k - 1], F[k])
    BY <1>3, <1>4, <2>1 DEF Renders
  <2> QED BY <1>2, <1>6, <2>1, <2>2
<1>7. u[n] = t[n]
  <2> HIDE DEF T
  <2>1. \A k \in 0..n : k \in T
    BY <1>1, <1>5, <1>6, UpTo
  <2>2. n \in T
    BY <1>1, <2>1
  <2> QED BY <2>2 DEF T
<1>8. u[n + 1] = Followed(u[n], f)
  <2>1. n + 1 \in 1..Len(H) /\ (n + 1) - 1 = n
    BY <1>1, <1>2
  <2>2. u[n + 1] = Followed(u[(n + 1) - 1], H[n + 1])
    BY <1>4, <2>1, Zenon DEF Renders
  <2> QED BY <1>2, <2>1, <2>2, Zenon
<1> QED BY <1>1, <1>2, <1>3, <1>4, <1>7, <1>8

Tagged(p) == Body(p) \o CRCTag
OwnCRC(p) == FourHex(CRC16(Tagged(p)))
CodeFields(p) == Append(BodyFields(p), TLV(63, OwnCRC(p)))

LEMMA TagIs ==
  /\ CRCTag \in Seq(Byte) /\ Len(CRCTag) = 4
  /\ CRCTag[1] = 54 /\ CRCTag[2] = 51 /\ CRCTag[3] = 48 /\ CRCTag[4] = 52
  /\ CRCTag = <<54, 51, 48, 52>>
<1>1. TwoDigits(63) = <<54, 51>> /\ TwoDigits(4) = <<48, 52>>
  BY DEF TwoDigits, Digit
<1>2. CRCTag = <<54, 51>> \o <<48, 52>>
  BY <1>1 DEF CRCTag, id
<1>3. CRCTag = <<54, 51, 48, 52>>
  <2>1. PICK a, b, c : a = <<54, 51>> /\ b = <<48, 52>> /\ c = <<54, 51, 48, 52>>
    OBVIOUS
  <2>2. /\ a \in Seq(Byte) /\ b \in Seq(Byte) /\ c \in Seq(Byte)
        /\ Len(a) = 2 /\ Len(b) = 2 /\ Len(c) = 4
        /\ c[1] = a[1] /\ c[2] = a[2] /\ c[3] = b[1] /\ c[4] = b[2]
    BY <2>1 DEF Byte
  <2> DEFINE d == a \o b
  <2>3. /\ d \in Seq(Byte) /\ Len(d) = Len(a) + Len(b)
        /\ \A i \in 1..Len(a) : d[i] = a[i]
        /\ \A i \in 1..Len(b) : d[Len(a) + i] = b[i]
    <3>1. a \in Seq(Byte) /\ b \in Seq(Byte)
      BY <2>2
    <3> QED BY <3>1, Joined
  <2> HIDE DEF d
  <2>4. Len(d) = 4 /\ d[1] = a[1] /\ d[2] = a[2] /\ d[2 + 1] = b[1] /\ d[2 + 2] = b[2]
    BY <2>2, <2>3
  <2>5. \A i \in 1..4 : d[i] = c[i]
    BY <2>2, <2>4
  <2>6. d = c
    BY <2>2, <2>3, <2>4, <2>5, SeqEqual
  <2> QED BY <1>2, <2>1, <2>6, Zenon DEF d
<1> QED BY <1>3 DEF Byte

\* When Encode does not fail, none of its parts does.
LEMMA EncodesParts ==
  ASSUME NEW p \in Payloads, Encode(p) # Failed
  PROVE  /\ Validate(p)
         /\ MerchantFields(p) \in Seq(Short) /\ MerchantAccount(p) = Rendered(MerchantFields(p))
         /\ AdditionalFields(p) \in Seq(Short)
         /\ AdditionalData(p) = Rendered(AdditionalFields(p))
         /\ BodyFields(p) \in Seq(Short) /\ Body(p) = Rendered(BodyFields(p))
         /\ Encode(p) = Tagged(p) \o OwnCRC(p)
         /\ MerchantAccount(p) \in Seq(Byte) /\ AdditionalData(p) \in Seq(Byte)
         /\ Body(p) \in Seq(Byte) /\ Tagged(p) \in Seq(Byte)
<1>1. /\ Validate(p) /\ MerchantAccount(p) # Failed /\ AdditionalData(p) # Failed
      /\ Body(p) # Failed
      /\ Encode(p) = Tagged(p) \o OwnCRC(p)
  BY Zenon DEF Encode, Tagged, OwnCRC
<1>2. MerchantFields(p) \in Seq(Short) /\ MerchantAccount(p) = Rendered(MerchantFields(p))
  BY <1>1, MerchantElems, EncodesShort, Zenon DEF MerchantAccount
<1>3. AdditionalFields(p) \in Seq(Short) /\ AdditionalData(p) = Rendered(AdditionalFields(p))
  <2>1. PICK v : v = (IF p.txid = <<>> THEN NoTxID ELSE p.txid) /\ v \in Seq(Byte)
    BY PayloadType, BytesType, Zenon
  <2>2. TLV(5, v) \in Named
    <3>1. 5 \in 0..99
      OBVIOUS
    <3> QED BY <2>1, <3>1, TLVType, Zenon
  <2>3. AdditionalFields(p) \in Seq(Named)
    BY <2>1, <2>2, ElemsOne, Zenon DEF AdditionalFields
  <2> QED BY <1>1, <2>3, EncodesShort, Zenon DEF AdditionalData
<1>4. MerchantAccount(p) \in Seq(Byte) /\ AdditionalData(p) \in Seq(Byte)
  BY <1>2, <1>3, ParsesRendered
<1>5. BodyFields(p) \in Seq(Short) /\ Body(p) = Rendered(BodyFields(p))
  <2>1. BodyFields(p) \in Seq(Named)
    BY <1>4, BodyElems, Zenon
  <2> QED BY <1>1, <2>1, EncodesShort, Zenon DEF Body
<1>6. Body(p) \in Seq(Byte)
  BY <1>5, ParsesRendered
<1>7. Tagged(p) \in Seq(Byte)
  BY <1>6, TagIs, Joined, Zenon DEF Tagged
<1> QED BY <1>1, <1>2, <1>3, <1>4, <1>5, <1>6, <1>7, Zenon

\* The code is the text of the body's fields and the CRC's.
LEMMA EncodesFields ==
  ASSUME NEW p \in Payloads, Encode(p) # Failed
  PROVE  /\ CodeFields(p) \in Seq(Short) /\ Encode(p) = Rendered(CodeFields(p))
         /\ Encode(p) \in Seq(Byte)
         /\ OwnCRC(p) \in Seq(HexDigit) /\ OwnCRC(p) \in Seq(Byte) /\ Len(OwnCRC(p)) = 4
         /\ ToUpper(OwnCRC(p)) = OwnCRC(p)
         /\ TLV(63, OwnCRC(p)) \in Named
<1>1. /\ Body(p) \in Seq(Byte) /\ BodyFields(p) \in Seq(Short) /\ Tagged(p) \in Seq(Byte)
      /\ Body(p) = Rendered(BodyFields(p)) /\ Encode(p) = Tagged(p) \o OwnCRC(p)
  BY EncodesParts
<1>2. PICK h : h = OwnCRC(p)
  OBVIOUS
<1>3. h \in Seq(HexDigit) /\ h \in Seq(Byte) /\ Len(h) = 4 /\ ToUpper(h) = h
  BY <1>1, <1>2, CRCType, FourHexType DEF OwnCRC
<1>4. PICK f : f = TLV(63, h)
  OBVIOUS
<1>5. f \in Short /\ f \in Named /\ f.id = id(63) /\ f.val = h
  <2>1. f \in Named /\ f.id = id(63) /\ f.val = h
    <3>1. 63 \in 0..99
      OBVIOUS
    <3> QED BY <1>3, <1>4, <3>1, TLVType, Zenon
  <2>2. Len(h) <= 99
    BY <1>3
  <2> QED BY <2>1, <2>2, Zenon DEF Named, Short
<1>6. CodeFields(p) \in Seq(Short) /\ Rendered(CodeFields(p)) = Followed(Body(p), f)
  BY <1>1, <1>2, <1>4, <1>5, RenderedAppend, Zenon DEF CodeFields
<1>7. Followed(Body(p), f) = Encode(p)
  <2>1. Block(f) = CRCTag \o h
    BY <1>3, <1>5 DEF Block, CRCTag
  <2>2. Body(p) \o (CRCTag \o h) = (Body(p) \o CRCTag) \o h
    <3>1. CRCTag \in Seq(Byte)
      BY TagIs
    <3>2. Body(p) \in Seq(Byte)
      BY <1>1
    <3>3. ASSUME NEW x \in Seq(Byte), NEW y \in Seq(Byte), NEW z \in Seq(Byte)
          PROVE  (x \o y) \o z = x \o (y \o z)
      BY ConcatAssociative
    <3> QED BY <1>3, <3>1, <3>2, <3>3, Zenon
  <2> QED BY <1>1, <1>2, <2>1, <2>2, Zenon DEF Followed, Tagged
<1>8. Encode(p) \in Seq(Byte)
  BY <1>1, <1>2, <1>3, Joined
<1> QED BY <1>2, <1>3, <1>4, <1>5, <1>6, <1>7, <1>8, Zenon

\* The last eight of the L bytes of c are the tag and the CRC of p; it begins and
\* ends in no blank.
Shaped(p, c, L) ==
  /\ c \in Seq(Byte) /\ L \in Nat /\ L >= 8
  /\ Tagged(p) = SubSeq(c, 1, L - 4) /\ OwnCRC(p) = SubSeq(c, L - 3, L)
  /\ c[L - 7] = 54 /\ c[L - 6] = 51 /\ c[L - 5] = 48 /\ c[L - 4] = 52
  /\ c[1] = 48 /\ c[2] = 48 /\ c[L - 1] \in HexDigit /\ c[L] \in HexDigit

LEMMA EncodedShape ==
  ASSUME NEW p \in Payloads, Encode(p) # Failed
  PROVE  Shaped(p, Encode(p), Len(Encode(p)))
<1>0. PICK c, L : c = Encode(p) /\ L = Len(c)
  OBVIOUS
<1>1. PICK s, b, h, m, n : /\ s = Tagged(p) /\ b = Body(p) /\ h = OwnCRC(p)
                           /\ m = Len(b) /\ n = Len(s)
  OBVIOUS
<1>2. s \in Seq(Byte) /\ b \in Seq(Byte) /\ c = s \o h /\ s = b \o CRCTag /\ m \in Nat
  BY <1>0, <1>1, EncodesParts, LenNat DEF Tagged
<1>3. h \in Seq(HexDigit) /\ h \in Seq(Byte) /\ Len(h) = 4
  BY <1>1, EncodesFields
<1>4. n = m + 4 /\ s[m + 1] = 54 /\ s[m + 2] = 51 /\ s[m + 3] = 48 /\ s[m + 4] = 52
  <2>1. PICK g : g = CRCTag
    OBVIOUS
  <2>2. g \in Seq(Byte) /\ Len(g) = 4 /\ g[1] = 54 /\ g[2] = 51 /\ g[3] = 48 /\ g[4] = 52
    BY <2>1, TagIs
  <2>3. Len(s) = Len(b) + Len(g) /\ \A i \in 1..Len(g) : s[Len(b) + i] = g[i]
    <3>1. b \in Seq(Byte) /\ g \in Seq(Byte)
      BY <1>2, <2>2
    <3>2. /\ Len(b \o g) = Len(b) + Len(g)
          /\ \A i \in 1..Len(g) : (b \o g)[Len(b) + i] = g[i]
      BY <3>1, Joined
    <3> QED BY <1>2, <2>1, <3>2, Zenon
  <2>4. n = m + 4 /\ \A i \in 1..4 : s[m + i] = g[i]
    BY <1>1, <2>2, <2>3, Zenon
  <2> QED BY <2>2, <2>4
<1>5. /\ c \in Seq(Byte) /\ L = n + 4
      /\ \A i \in 1..n : c[i] = s[i]
      /\ \A i \in 1..4 : c[n + i] = h[i]
  <2>1. /\ c \in Seq(Byte) /\ Len(c) = Len(s) + Len(h)
        /\ \A i \in 1..Len(s) : c[i] = s[i]
        /\ \A i \in 1..Len(h) : c[Len(s) + i] = h[i]
    <3>1. s \in Seq(Byte) /\ h \in Seq(Byte)
      BY <1>2, <1>3
    <3>2. /\ s \o h \in Seq(Byte) /\ Len(s \o h) = Len(s) + Len(h)
          /\ \A i \in 1..Len(s) : (s \o h)[i] = s[i]
          /\ \A i \in 1..Len(h) : (s \o h)[Len(s) + i] = h[i]
      BY <3>1, Joined
    <3> QED BY <1>2, <3>2, Zenon
  <2> QED BY <1>0, <1>1, <1>3, <2>1, Zenon
<1>6. L \in Nat /\ L >= 8 /\ n \in Nat /\ L - 4 = n /\ L - 3 = n + 1
  BY ONLY <1>2, <1>4, <1>5
<1>7. c[L - 7] = 54 /\ c[L - 6] = 51 /\ c[L - 5] = 48 /\ c[L - 4] = 52
  <2>1. /\ L - 7 = m + 1 /\ L - 6 = m + 2 /\ L - 5 = m + 3 /\ L - 4 = m + 4
        /\ m + 1 \in 1..n /\ m + 2 \in 1..n /\ m + 3 \in 1..n /\ m + 4 \in 1..n
    BY ONLY <1>2, <1>4, <1>5
  <2>2. c[m + 1] = s[m + 1] /\ c[m + 2] = s[m + 2] /\ c[m + 3] = s[m + 3] /\ c[m + 4] = s[m + 4]
    BY <1>5, <2>1, Zenon
  <2> QED BY <1>4, <2>1, <2>2, Zenon
<1>8. c[L] \in HexDigit
  <2>1. h[4] \in HexDigit
    <3>1. 4 \in 1..Len(h)
      BY <1>3
    <3> QED BY <1>3, <3>1, ElementOfSeq, Zenon
  <2>2. c[n + 4] = h[4]
    BY <1>5
  <2> QED BY <1>5, <2>1, <2>2, Zenon
<1>9. s = SubSeq(c, 1, L - 4)
  <2>1. IsSub(SubSeq(c, 1, n), c, 0, n)
    <3>1. 1 = 0 + 1 /\ n = 0 + n /\ 0 \in Nat /\ 0 + n <= Len(c)
      BY <1>0, <1>5, <1>6
    <3> QED BY <1>5, <1>6, <3>1, SubSeqIsSub
  <2>2. PICK d : d = SubSeq(c, 1, n)
    OBVIOUS
  <2>3. d \in Seq(Byte) /\ Len(d) = n /\ \A i \in 1..n : d[i] = c[0 + i]
    BY <2>1, <2>2, Zenon DEF IsSub
  <2>4. \A i \in 1..n : d[i] = s[i]
    BY <1>5, <2>3
  <2>5. d = s
    BY <1>1, <1>2, <2>3, <2>4, SeqEqual
  <2> QED BY <1>6, <2>2, <2>5, Zenon
<1>10. h = SubSeq(c, L - 3, L)
  <2>1. IsSub(SubSeq(c, n + 1, n + 4), c, n, 4)
    <3>1. n + 4 <= Len(c) /\ 4 \in Nat
      BY <1>0, <1>5, <1>6
    <3> QED BY <1>5, <1>6, <3>1, SubSeqIsSub
  <2>2. PICK d : d = SubSeq(c, n + 1, n + 4)
    OBVIOUS
  <2>3. d \in Seq(Byte) /\ Len(d) = 4 /\ \A i \in 1..4 : d[i] = c[n + i]
    BY <2>1, <2>2, Zenon DEF IsSub
  <2>4. \A i \in 1..4 : d[i] = h[i]
    BY <1>5, <2>3, Zenon
  <2>5. d = h
    BY <1>3, <2>3, <2>4, SeqEqual
  <2> QED BY <1>5, <1>6, <2>2, <2>5, Zenon
<1>11. c[1] = 48 /\ c[2] = 48
  <2>1. PICK F, e, B : /\ F = CodeFields(p) /\ F \in Seq(Short) /\ c = Rendered(F)
                       /\ B = BodyFields(p) /\ F = Append(B, e) /\ e \in Named
    BY <1>0, EncodesFields, Zenon DEF CodeFields
  <2>2. B \in Seq(Named) /\ Len(B) >= 1 /\ B[1] = TLV(0, id(1))
    BY <2>1, EncodesParts, BodyElems, Zenon
  <2>3. Len(F) = Len(B) + 1 /\ Len(B) \in Nat /\ \A k \in 1..Len(B) : F[k] = B[k]
    BY <2>1, <2>2, AppendProperties, LenNat
  <2>4. 1 \in 1..Len(F) /\ 1 \in 1..Len(B) /\ 1 - 1 = 0
    BY <2>2, <2>3
  <2>5. F[1].id = id(0)
    BY <2>2, <2>3, <2>4 DEF TLV
  <2>6. PICK t : Renders(t, F) /\ c = t[Len(F)]
    BY <2>1, RenderedBy, Zenon
  <2>7. Len(t[0]) = 0
    BY <2>6, SeqEmpty DEF Renders
  <2>8. FieldAt(c, 0, F[1])
    <3>1. FieldAt(t[Len(F)], Len(t[1 - 1]), F[1])
      BY <2>1, <2>4, <2>6, FieldsAt
    <3> QED BY <2>4, <2>6, <2>7, <3>1, Zenon
  <2>9. c[0 + 1] = F[1].id[1] /\ c[0 + 2] = F[1].id[2] /\ 0 + 1 = 1 /\ 0 + 2 = 2
    BY <2>8 DEF FieldAt
  <2>10. id(0)[1] = 48 /\ id(0)[2] = 48
    BY DEF id, TwoDigits, Digit
  <2> QED BY <2>5, <2>9, <2>10, Zenon
<1>12. c[L - 1] \in HexDigit
  <2>1. h[3] \in HexDigit
    <3>1. 3 \in 1..Len(h)
      BY <1>3
    <3> QED BY <1>3, <3>1, ElementOfSeq, Zenon
  <2>2. c[n + 3] = h[3] /\ n + 3 = L - 1
    BY <1>5, <1>6
  <2> QED BY <2>1, <2>2, Zenon
<1> QED BY <1>0, <1>1, <1>5, <1>6, <1>7, <1>8, <1>9, <1>10, <1>11, <1>12, Zenon DEF Shaped

-----------------------------------------------------------------------------
(* What Parse reads of it.                                                 *)

\* A text whose ends are not blank has nothing to trim.
LEMMA TrimSpaceKeeps ==
  ASSUME NEW s \in Seq(Byte), NEW L, L = Len(s), L \in Nat, L >= 1,
         s[1] \notin Blank, s[L] \notin Blank
  PROVE  TrimSpace(s) = s
<1> DEFINE kept == {i \in 1..Len(s) : s[i] \notin Blank}
<1>1. 1 \in kept /\ L \in kept /\ \A i \in kept : 1 <= i /\ i <= L /\ i \in Nat
  <2>1. 1 \in 1..L /\ L \in 1..L /\ \A i \in 1..L : 1 <= i /\ i <= L /\ i \in Nat
    OBVIOUS
  <2> QED BY <2>1, Zenon
<1>2. PICK m, n : /\ m = (CHOOSE i \in kept : \A j \in kept : i <= j)
                  /\ n = (CHOOSE i \in kept : \A j \in kept : j <= i)
  OBVIOUS
<1>3. TrimSpace(s) = SubSeq(s, m, n)
  <2>1. kept # {}
    BY <1>1, Zenon
  <2> QED BY <1>2, <2>1, Zenon DEF TrimSpace
<1> HIDE DEF kept
<1>4. m \in kept /\ \A j \in kept : m <= j
  BY <1>1, <1>2, Zenon
<1>5. n \in kept /\ \A j \in kept : j <= n
  BY <1>1, <1>2, Zenon
<1>6. m = 1 /\ n = L
  BY <1>1, <1>4, <1>5
<1> QED BY <1>3, <1>6, SubSeqFull, Zenon

\* The last tag of a code is the CRC's, unless the CRC reads like a tag.
LEMMA LastTagIs ==
  ASSUME NEW s \in Seq(Byte), NEW L, L = Len(s), L \in Nat, L >= 8,
         s[L - 7] = 54, s[L - 6] = 51, s[L - 5] = 48, s[L - 4] = 52,
         SubSeq(s, L - 3, L) # CRCTag
  PROVE  LastTag(s) = L - 7
<1> DEFINE at == {i \in 1..Len(s) - 3 : SubSeq(s, i, i + 3) = CRCTag}
<1>1. ASSUME NEW i \in 1..L - 3
      PROVE  IsSub(SubSeq(s, i, i + 3), s, i - 1, 4)
  <2>1. i - 1 \in Nat /\ (i - 1) + 4 <= Len(s) /\ i = (i - 1) + 1 /\ i + 3 = (i - 1) + 4
    BY <1>1
  <2> QED BY <2>1, SubSeqIsSub
<1>2. L - 7 \in at
  <2>1. L - 7 \in 1..L - 3 /\ (L - 7) - 1 = L - 8 /\ (L - 7) + 3 = L - 4
        /\ (L - 8) + 1 = L - 7 /\ (L - 8) + 2 = L - 6 /\ (L - 8) + 3 = L - 5 /\ (L - 8) + 4 = L - 4
    OBVIOUS
  <2>2. PICK d : d = SubSeq(s, L - 7, L - 4)
    OBVIOUS
  <2>3. d \in Seq(Byte) /\ Len(d) = 4 /\ \A i \in 1..4 : d[i] = s[(L - 8) + i]
    <3>1. IsSub(d, s, L - 8, 4)
      BY <1>1, <2>1, <2>2, Zenon
    <3> QED BY <3>1, Zenon DEF IsSub
  <2>4. d[1] = 54 /\ d[2] = 51 /\ d[3] = 48 /\ d[4] = 52
    <3>1. d[1] = s[(L - 8) + 1] /\ d[2] = s[(L - 8) + 2] /\ d[3] = s[(L - 8) + 3] /\ d[4] = s[(L - 8) + 4]
      BY <2>3
    <3>2. d[1] = s[L - 7] /\ d[2] = s[L - 6] /\ d[3] = s[L - 5] /\ d[4] = s[L - 4]
      BY <2>1, <3>1, Zenon
    <3> QED BY <3>2
  <2>5. PICK g : g = CRCTag
    OBVIOUS
  <2>6. g \in Seq(Byte) /\ Len(g) = 4 /\ g[1] = 54 /\ g[2] = 51 /\ g[3] = 48 /\ g[4] = 52
    BY <2>5, TagIs, Zenon
  <2>7. \A i \in 1..4 : d[i] = g[i]
    <3>1. d[1] = g[1] /\ d[2] = g[2] /\ d[3] = g[3] /\ d[4] = g[4]
      BY <2>4, <2>6
    <3> QED BY <3>1
  <2>8. d = g
    BY <2>3, <2>6, <2>7, SeqEqual
  <2>9. SubSeq(s, L - 7, (L - 7) + 3) = CRCTag
    BY <2>1, <2>2, <2>5, <2>8, Zenon
  <2> QED BY <2>1, <2>9
<1>3. ASSUME NEW j \in at PROVE j <= L - 7 /\ j \in Int
  <2>1. j \in 1..L - 3 /\ SubSeq(s, j, j + 3) = CRCTag
    OBVIOUS
  <2>2. s[j] = 54
    <3>1. PICK d : d = SubSeq(s, j, j + 3)
      OBVIOUS
    <3>2. IsSub(d, s, j - 1, 4)
      BY <1>1, <2>1, <3>1
    <3>3. \A i \in 1..4 : d[i] = s[(j - 1) + i]
      BY <3>2, Zenon DEF IsSub
    <3>4. d[1] = s[(j - 1) + 1] /\ (j - 1) + 1 = j
      BY <2>1, <3>3
    <3>5. d[1] = 54
      BY <2>1, <3>1, TagIs
    <3> QED BY <3>4, <3>5, Zenon
  <2>3. j # L - 6 /\ j # L - 5 /\ j # L - 4
    <3>1. PICK x, y, z : x = s[L - 6] /\ y = s[L - 5] /\ z = s[L - 4]
      OBVIOUS
    <3>2. x # 54 /\ y # 54 /\ z # 54
      BY <3>1
    <3> QED BY <2>2, <3>1, <3>2, Zenon
  <2>4. j # L - 3
    <3>1. (L - 3) + 3 = L
      OBVIOUS
    <3> QED BY <2>1, <3>1, Zenon
  <2> QED BY <2>1, <2>3, <2>4
<1>4. LastTag(s) = CHOOSE i \in at : \A j \in at : j <= i
  <2>1. at # {}
    BY <1>2, Zenon
  <2> QED BY <2>1, Zenon DEF LastTag
<1> HIDE DEF at
<1>5. \E i \in at : \A j \in at : j <= i
  BY <1>2, <1>3
<1>6. PICK n : n = CHOOSE i \in at : \A j \in at : j <= i
  OBVIOUS
<1>7. n \in at /\ \A j \in at : j <= n
  BY <1>5, <1>6, Zenon
<1>8. n = L - 7
  BY <1>2, <1>3, <1>7
<1> QED BY <1>4, <1>6, <1>8, Zenon

\* What find returns of the fields of a code.
LEMMA FindsInCode ==
  ASSUME NEW p \in Payloads, Encode(p) # Failed
  PROVE  LET F == CodeFields(p)
         IN  /\ F \in Seq(Tlv)
             /\ find(F, 26) = MerchantAccount(p) /\ find(F, 62) = AdditionalData(p)
             /\ find(F, 63) = OwnCRC(p)
             /\ find(F, 59) = p.name /\ find(F, 60) = p.city /\ find(F, 54) = p.amount
             /\ (find(F, 1) = id(12)) = Dynamic(p)
<1>1. PICK F, m, e, h, b :
         /\ F = CodeFields(p) /\ m = MerchantAccount(p) /\ e = AdditionalData(p)
         /\ h = OwnCRC(p) /\ b = BodyFields(p)
  OBVIOUS
<1>2. PICK point, zeros, brl, br :
         /\ point = (IF Dynamic(p) THEN id(12) ELSE id(11))
         /\ zeros = id(0) \o id(0) /\ brl = <<57, 56, 54>> /\ br = <<66, 82>>
  OBVIOUS
<1>3. m \in Seq(Byte) /\ e \in Seq(Byte) /\ TLV(63, h) \in Named
  BY <1>1, EncodesParts, EncodesFields, Zenon
<1>4. /\ b \in Seq(Named)
      /\ Elems(b) = {TLV(0, id(1))} \cup Given(Dynamic(p) \/ ~p.omit, TLV(1, point))
                    \cup {TLV(26, m), TLV(52, zeros), TLV(53, brl)}
                    \cup Given(p.amount # <<>>, TLV(54, p.amount))
                    \cup {TLV(58, br), TLV(59, p.name), TLV(60, p.city), TLV(62, e)}
  <2>1. /\ BodyFields(p) \in Seq(Named)
        /\ Elems(BodyFields(p))
             = {TLV(0, id(1))}
               \cup Given(Dynamic(p) \/ ~p.omit, TLV(1, IF Dynamic(p) THEN id(12) ELSE id(11)))
               \cup {TLV(26, m), TLV(52, id(0) \o id(0)), TLV(53, <<57, 56, 54>>)}
               \cup Given(p.amount # <<>>, TLV(54, p.amount))
               \cup {TLV(58, <<66, 82>>), TLV(59, p.name), TLV(60, p.city), TLV(62, e)}
    BY <1>1, <1>3, BodyElems
  <2> QED BY <1>1, <1>2, <2>1, Zenon
<1>5. F \in Seq(Named) /\ Elems(F) = Elems(b) \cup {TLV(63, h)}
  <2>1. PICK f : f = TLV(63, h)
    OBVIOUS
  <2>2. F = b \o <<f>>
    BY <1>1, <1>3, <1>4, <2>1, AppendIsConcat DEF CodeFields
  <2>3. <<f>> \in Seq(Named) /\ Elems(<<f>>) = {f}
    BY <1>3, <2>1, ElemsOne
  <2>4. b \o <<f>> \in Seq(Named) /\ Elems(b \o <<f>>) = Elems(b) \cup Elems(<<f>>)
    <3>1. b \in Seq(Named)
      BY <1>4
    <3> QED BY <2>3, <3>1, ElemsJoined
  <2> QED BY <2>1, <2>2, <2>3, <2>4, Zenon
<1>6. F \in Seq(Tlv)
  <2>1. Named \subseteq Tlv
    BY DEF Named
  <2> QED BY <1>5, <2>1, SeqMonotonic
<1>7. \A f \in Elems(F) : \/ f.id = id(0)
                          \/ f.id = id(1) /\ f.val = point /\ (Dynamic(p) \/ ~p.omit)
                          \/ f.id = id(26) /\ f.val = m
                          \/ f.id = id(52)
                          \/ f.id = id(53)
                          \/ f.id = id(54) /\ f.val = p.amount /\ p.amount # <<>>
                          \/ f.id = id(58)
                          \/ f.id = id(59) /\ f.val = p.name
                          \/ f.id = id(60) /\ f.val = p.city
                          \/ f.id = id(62) /\ f.val = e
                          \/ f.id = id(63) /\ f.val = h
  <2>1. ASSUME NEW n, NEW v PROVE TLV(n, v).id = id(n) /\ TLV(n, v).val = v
    BY DEF TLV
  <2>2. ASSUME NEW f \in Elems(F)
        PROVE  \/ f = TLV(0, id(1))
               \/ f = TLV(1, point) /\ (Dynamic(p) \/ ~p.omit)
               \/ f = TLV(26, m) \/ f = TLV(52, zeros) \/ f = TLV(53, brl)
               \/ f = TLV(54, p.amount) /\ p.amount # <<>>
               \/ f = TLV(58, br) \/ f = TLV(59, p.name) \/ f = TLV(60, p.city)
               \/ f = TLV(62, e) \/ f = TLV(63, h)
    BY <1>4, <1>5, <2>2 DEF Given
  <2> QED BY <2>1, <2>2
<1>8. \A f : /\ f \in {TLV(26, m), TLV(59, p.name), TLV(60, p.city), TLV(62, e), TLV(63, h)} => f \in Elems(F)
             /\ (Dynamic(p) \/ ~p.omit) /\ f = TLV(1, point) => f \in Elems(F)
             /\ p.amount # <<>> /\ f = TLV(54, p.amount) => f \in Elems(F)
  BY <1>4, <1>5 DEF Given
<1>9. ASSUME NEW i \in {0, 1, 26, 52, 53, 54, 58, 59, 60, 62, 63},
             NEW j \in {0, 1, 26, 52, 53, 54, 58, 59, 60, 62, 63}, i # j
      PROVE  id(i) # id(j)
  BY <1>9, IdsDiffer
<1>10. ASSUME NEW n, NEW v PROVE TLV(n, v).id = id(n)
  BY DEF TLV
<1>11. find(F, 26) = m
  <2>1. TLV(26, m) \in Elems(F)
    BY <1>8
  <2>2. \A g \in Elems(F) : g.id = id(26) => g.val = m
    BY <1>7, <1>9
  <2> QED BY <1>6, <2>1, <2>2, FindsTLV
<1>12. find(F, 62) = e
  <2>1. TLV(62, e) \in Elems(F)
    BY <1>8
  <2>2. \A g \in Elems(F) : g.id = id(62) => g.val = e
    BY <1>7, <1>9
  <2> QED BY <1>6, <2>1, <2>2, FindsTLV
<1>13. find(F, 63) = h
  <2>1. TLV(63, h) \in Elems(F)
    BY <1>8
  <2>2. \A g \in Elems(F) : g.id = id(63) => g.val = h
    BY <1>7, <1>9
  <2> QED BY <1>6, <2>1, <2>2, FindsTLV
<1>14. find(F, 59) = p.name
  <2>1. TLV(59, p.name) \in Elems(F)
    BY <1>8
  <2>2. \A g \in Elems(F) : g.id = id(59) => g.val = p.name
    BY <1>7, <1>9
  <2> QED BY <1>6, <2>1, <2>2, FindsTLV
<1>15. find(F, 60) = p.city
  <2>1. TLV(60, p.city) \in Elems(F)
    BY <1>8
  <2>2. \A g \in Elems(F) : g.id = id(60) => g.val = p.city
    BY <1>7, <1>9
  <2> QED BY <1>6, <2>1, <2>2, FindsTLV
<1>16. find(F, 54) = p.amount
  <2>1. \A g \in Elems(F) : g.id = id(54) => g.val = p.amount /\ p.amount # <<>>
    BY <1>7, <1>9
  <2>2. CASE p.amount = <<>>
    BY <1>6, <2>1, <2>2, FindsNone
  <2>3. CASE p.amount # <<>>
    <3>1. TLV(54, p.amount) \in Elems(F)
      BY <1>8, <2>3
    <3> QED BY <1>6, <2>1, <3>1, FindsTLV
  <2> QED BY <2>2, <2>3
<1>17. (find(F, 1) = id(12)) = Dynamic(p)
  <2>1. \A g \in Elems(F) : g.id = id(1) => g.val = point /\ (Dynamic(p) \/ ~p.omit)
    BY <1>7, <1>9
  <2>2. id(12) # id(11) /\ id(12) # <<>>
    <3>1. id(12) # id(11)
      BY IdsDiffer
    <3>2. Len(id(12)) = 2 /\ Len(<<>>) = 0
      BY DigitsType, SeqEmpty DEF id
    <3> QED BY <3>1, <3>2
  <2>3. CASE Dynamic(p) \/ ~p.omit
    <3>1. TLV(1, point) \in Elems(F)
      BY <1>8, <2>3
    <3>2. find(F, 1) = point
      BY <1>6, <2>1, <3>1, FindsTLV
    <3> QED BY <1>2, <2>2, <3>2, PayloadType DEF Dynamic
  <2>4. CASE ~(Dynamic(p) \/ ~p.omit)
    <3>1. find(F, 1) = <<>>
      BY <1>6, <2>1, <2>4, FindsNone
    <3> QED BY <2>2, <2>4, <3>1 DEF Dynamic
  <2> QED BY <2>3, <2>4
<1> QED BY <1>1, <1>6, <1>11, <1>12, <1>13, <1>14, <1>15, <1>16, <1>17, Zenon

LEMMA FindsInTemplates ==
  ASSUME NEW p \in Payloads
  PROVE  LET M == MerchantFields(p)
             A == AdditionalFields(p)
         IN  /\ p.key = <<>> \/ p.url = <<>> => find(M, 1) = p.key
             /\ find(M, 25) = p.url
             /\ find(M, 2) = (IF p.url = <<>> THEN p.description ELSE <<>>)
             /\ find(A, 5) = (IF p.txid = <<>> THEN NoTxID ELSE p.txid)
<1>1. PICK M : M = MerchantFields(p)
  OBVIOUS
<1>2. /\ M \in Seq(Named)
      /\ Elems(M) = {TLV(0, pixGUI)} \cup Given(p.url # <<>>, TLV(25, p.url))
                    \cup Given(p.url = <<>>, TLV(1, p.key))
                    \cup Given(p.url = <<>> /\ p.description # <<>>, TLV(2, p.description))
  BY <1>1, MerchantElems, Zenon
<1>3. Named \subseteq Tlv
  BY DEF Named
<1>4. M \in Seq(Tlv)
  BY <1>2, <1>3, SeqMonotonic
<1>5. ASSUME NEW n, NEW v PROVE TLV(n, v).id = id(n) /\ TLV(n, v).val = v
  BY DEF TLV
<1>6. ASSUME NEW i \in {0, 1, 2, 25}, NEW j \in {0, 1, 2, 25}, i # j PROVE id(i) # id(j)
  BY <1>6, IdsDiffer
<1>7. \A f \in Elems(M) : \/ f.id = id(0)
                          \/ f.id = id(25) /\ f.val = p.url /\ p.url # <<>>
                          \/ f.id = id(1) /\ f.val = p.key /\ p.url = <<>>
                          \/ f.id = id(2) /\ f.val = p.description /\ p.url = <<>> /\ p.description # <<>>
  <2>1. ASSUME NEW f \in Elems(M)
        PROVE  \/ f = TLV(0, pixGUI)
               \/ f = TLV(25, p.url) /\ p.url # <<>>
               \/ f = TLV(1, p.key) /\ p.url = <<>>
               \/ f = TLV(2, p.description) /\ p.url = <<>> /\ p.description # <<>>
    BY <1>2, <2>1 DEF Given
  <2> QED BY <1>5, <2>1
<1>8. /\ p.url # <<>> => TLV(25, p.url) \in Elems(M)
      /\ p.url = <<>> => TLV(1, p.key) \in Elems(M)
      /\ p.url = <<>> /\ p.description # <<>> => TLV(2, p.description) \in Elems(M)
  BY <1>2 DEF Given
<1>9. find(M, 25) = p.url
  <2>1. \A g \in Elems(M) : g.id = id(25) => g.val = p.url /\ p.url # <<>>
    BY <1>6, <1>7
  <2>2. CASE p.url = <<>>
    BY <1>4, <2>1, <2>2, FindsNone
  <2>3. CASE p.url # <<>>
    BY <1>4, <1>5, <1>8, <2>1, <2>3, FindsTLV
  <2> QED BY <2>2, <2>3
<1>10. p.key = <<>> \/ p.url = <<>> => find(M, 1) = p.key
  <2>1. \A g \in Elems(M) : g.id = id(1) => g.val = p.key /\ p.url = <<>>
    BY <1>6, <1>7
  <2>2. CASE p.url # <<>>
    BY <1>4, <2>1, <2>2, FindsNone
  <2>3. CASE p.url = <<>>
    BY <1>4, <1>5, <1>8, <2>1, <2>3, FindsTLV
  <2> QED BY <2>2, <2>3
<1>11. find(M, 2) = (IF p.url = <<>> THEN p.description ELSE <<>>)
  <2>1. \A g \in Elems(M) : g.id = id(2) => g.val = p.description /\ p.url = <<>> /\ p.description # <<>>
    BY <1>6, <1>7
  <2>2. CASE ~(p.url = <<>> /\ p.description # <<>>)
    BY <1>4, <2>1, <2>2, FindsNone
  <2>3. CASE p.url = <<>> /\ p.description # <<>>
    BY <1>4, <1>5, <1>8, <2>1, <2>3, FindsTLV
  <2> QED BY <2>2, <2>3
<1>12. find(AdditionalFields(p), 5) = (IF p.txid = <<>> THEN NoTxID ELSE p.txid)
  <2>1. PICK v, f : v = (IF p.txid = <<>> THEN NoTxID ELSE p.txid) /\ f = TLV(5, v)
    OBVIOUS
  <2>2. v \in Seq(Byte)
    BY <2>1, PayloadType, BytesType, Zenon
  <2>3. f \in Named /\ f.id = id(5) /\ f.val = v
    <3>1. 5 \in 0..99
      OBVIOUS
    <3> QED BY <2>1, <2>2, <3>1, TLVType, Zenon
  <2>4. <<f>> \in Seq(Tlv) /\ Elems(<<f>>) = {f}
    BY <1>3, <2>3, ElemsOne
  <2>5. find(<<f>>, 5) = v
    <3>1. TLV(5, v) \in Elems(<<f>>) /\ \A g \in Elems(<<f>>) : g.id = id(5) => g.val = v
      BY <2>1, <2>3, <2>4, Zenon
    <3>2. PICK s : s = <<f>>
      OBVIOUS
    <3>3. /\ s \in Seq(Tlv) /\ TLV(5, v) \in Elems(s)
          /\ \A g \in Elems(s) : g.id = id(5) => g.val = v
      BY <2>4, <3>1, <3>2, Zenon
    <3>4. find(s, 5) = v
      BY <3>3, FindsTLV
    <3> QED BY <3>2, <3>4
  <2> QED BY <2>1, <2>5, Zenon DEF AdditionalFields
<1> QED BY <1>1, <1>9, <1>10, <1>11, <1>12, Zenon

\* Parse of a code that Encode writes.
LEMMA ParsesEncoded ==
  ASSUME NEW p \in Payloads, Encode(p) # Failed, NEW c, c = Encode(p)
  PROVE  LET read == Parsing(c)
         IN  /\ read.ok
             /\ <<read.name, read.city, read.amount, read.key, read.url>> =
                  <<p.name, p.city, p.amount, p.key, p.url>>
             /\ read.dynamic = Dynamic(p)
             /\ read.description = (IF p.url = <<>> THEN p.description ELSE <<>>)
             /\ read.txid = (IF p.txid = <<>> THEN NoTxID ELSE p.txid)
             /\ read.crcValid \/ SubSeq(c, Len(c) - 3, Len(c)) = CRCTag
<1>1. PICK L : L = Len(c)
  OBVIOUS
<1>2. /\ c \in Seq(Byte) /\ L \in Nat /\ L >= 8
      /\ Tagged(p) = SubSeq(c, 1, L - 4) /\ OwnCRC(p) = SubSeq(c, L - 3, L)
      /\ c[L - 7] = 54 /\ c[L - 6] = 51 /\ c[L - 5] = 48 /\ c[L - 4] = 52
      /\ c[1] = 48 /\ c[L] \in HexDigit
  BY <1>1, EncodedShape, Zenon DEF Shaped
<1>3. TrimSpace(c) = c
  <2>1. c[1] \notin Blank /\ c[L] \notin Blank
    <3>1. 48 \notin Blank /\ \A x \in HexDigit : x \notin Blank
      BY DEF Blank, HexDigit
    <3> QED BY <1>2, <3>1, Zenon
  <2>2. L >= 1
    BY <1>2
  <2> QED BY <1>1, <1>2, <2>1, <2>2, TrimSpaceKeeps
<1>4. PICK F, M, A, h : /\ F = CodeFields(p) /\ M = MerchantFields(p)
                        /\ A = AdditionalFields(p) /\ h = OwnCRC(p)
  OBVIOUS
<1>5. parseTLVs(c) = F
  BY <1>4, EncodesFields, ParsesRendered
<1>6. /\ F \in Seq(Tlv)
      /\ find(F, 26) = MerchantAccount(p) /\ find(F, 62) = AdditionalData(p)
      /\ find(F, 63) = h
      /\ find(F, 59) = p.name /\ find(F, 60) = p.city /\ find(F, 54) = p.amount
      /\ (find(F, 1) = id(12)) = Dynamic(p)
  BY <1>4, FindsInCode
<1>7. parseTLVs(find(F, 26)) = M /\ parseTLVs(find(F, 62)) = A
  BY <1>4, <1>6, EncodesParts, ParsesRendered
<1>8. F # Failed /\ M # Failed /\ A # Failed
  <2>1. Short \subseteq Tlv
    BY DEF Short
  <2>2. M \in Seq(Short) /\ A \in Seq(Short)
    BY <1>4, EncodesParts
  <2>3. M \in Seq(Tlv) /\ A \in Seq(Tlv)
    BY <2>1, <2>2, SeqMonotonic
  <2> QED BY <1>6, <2>3, FailedAssumption
<1>9. ToUpper(find(F, 63)) = h
  BY <1>4, <1>6, EncodesFields
<1>10. PICK read : read = Parsing(c)
  OBVIOUS
<1>11. read = [ok |-> TRUE, dynamic |-> find(F, 1) = id(12),
               name |-> find(F, 59), city |-> find(F, 60),
               amount |-> find(F, 54), key |-> find(M, 1),
               url |-> find(M, 25), description |-> find(M, 2),
               txid |-> find(A, 5), crcValid |-> CRCValid(c, h)]
  BY <1>3, <1>5, <1>7, <1>8, <1>9, <1>10, Zenon DEF Parsing
<1>12. p.key = <<>> \/ p.url = <<>>
  BY EncodesParts DEF Validate
<1>13. /\ find(M, 1) = p.key /\ find(M, 25) = p.url
       /\ find(M, 2) = (IF p.url = <<>> THEN p.description ELSE <<>>)
       /\ find(A, 5) = (IF p.txid = <<>> THEN NoTxID ELSE p.txid)
  BY <1>4, <1>12, FindsInTemplates
<1>14. CRCValid(c, h) \/ SubSeq(c, L - 3, L) = CRCTag
  <2>1. SUFFICES ASSUME SubSeq(c, L - 3, L) # CRCTag PROVE CRCValid(c, h)
    OBVIOUS
  <2>2. LastTag(c) = L - 7
    BY <1>1, <1>2, <2>1, LastTagIs
  <2>3. L - 7 > 0 /\ (L - 7) + 3 = L - 4
    BY <1>2
  <2>4. h = FourHex(CRC16(SubSeq(c, 1, L - 4)))
    BY <1>2, <1>4, Zenon DEF OwnCRC
  <2> QED BY <2>2, <2>3, <2>4, Zenon DEF CRCValid
<1>15. /\ read.ok /\ read.dynamic = (find(F, 1) = id(12))
       /\ read.name = find(F, 59) /\ read.city = find(F, 60) /\ read.amount = find(F, 54)
       /\ read.key = find(M, 1) /\ read.url = find(M, 25) /\ read.description = find(M, 2)
       /\ read.txid = find(A, 5) /\ read.crcValid = CRCValid(c, h)
  BY <1>11
<1> QED BY <1>1, <1>6, <1>10, <1>13, <1>14, <1>15, Zenon

\* Before a byte is replaced, the code is what Encode returned for the payload.
CodeIsEncoded ==
  \/ payload = {} /\ code = <<>> /\ corrupted = FALSE
  \/ \E p \in Payloads : /\ payload = {p} /\ corrupted \in BOOLEAN
                         /\ ~corrupted => code = Encode(p)

LEMMA CodeInvariant == BRSpec => []CodeIsEncoded
<1>1. BRInit => CodeIsEncoded
  BY DEF BRInit, CodeIsEncoded
<1>2. CodeIsEncoded /\ [BRNext]_brVars => CodeIsEncoded'
  <2>1. SUFFICES ASSUME CodeIsEncoded, [BRNext]_brVars PROVE CodeIsEncoded'
    OBVIOUS
  <2>2. ASSUME NEW p \in Payloads, Write(p) PROVE CodeIsEncoded'
    BY <2>1, <2>2 DEF CodeIsEncoded, Write
  <2>3. ASSUME NEW i, NEW b, Corrupt(i, b) PROVE CodeIsEncoded'
    BY <2>1, <2>3 DEF CodeIsEncoded, Corrupt
  <2>4. CASE UNCHANGED brVars
    BY <2>1, <2>4 DEF CodeIsEncoded, brVars
  <2> QED BY <2>1, <2>2, <2>3, <2>4 DEF BRNext
<1> QED BY <1>1, <1>2, PTL DEF BRSpec

\* What Encode writes, Parse reads back, whatever the payloads are (Encode,
\* Parse): a value at the limit of its length, or one that looks like fields,
\* does not disturb the others.
THEOREM CodesAreReadBack == BRSpec => []RoundTrip
<1>1. CodeIsEncoded => RoundTrip
  <2>1. SUFFICES ASSUME CodeIsEncoded, Written PROVE RoundTrip
    BY DEF RoundTrip
  <2>2. PICK p \in Payloads : payload = {p} /\ code = Encode(p) /\ code # Failed
    BY <2>1 DEF CodeIsEncoded, Written
  <2>3. (CHOOSE q \in payload : TRUE) = p
    BY <2>2
  <2>4. LET read == Parsing(code)
        IN  /\ read.ok
            /\ <<read.name, read.city, read.amount, read.key, read.url>> =
                 <<p.name, p.city, p.amount, p.key, p.url>>
            /\ read.dynamic = Dynamic(p)
            /\ read.description = (IF p.url = <<>> THEN p.description ELSE <<>>)
            /\ read.txid = (IF p.txid = <<>> THEN NoTxID ELSE p.txid)
            /\ read.crcValid \/ SubSeq(code, Len(code) - 3, Len(code)) = CRCTag
    BY <2>2, ParsesEncoded
  <2> QED BY <2>3, <2>4, Zenon DEF RoundTrip
<1> QED BY <1>1, CodeInvariant, PTL

-----------------------------------------------------------------------------
(* One byte replaced changes the CRC.                                      *)

LEMMA FlipsBack ==
  ASSUME NEW n \in Nat
  PROVE  Flip(Flip(n, 4096), 4096) = n /\ Flip(Flip(n, 32), 32) = n
<1>1. Flip(Flip(n, 4096), 4096) = n
  <2>1. CASE (n \div 4096) % 2 = 1
    <3>1. ((n - 4096) \div 4096) % 2 # 1
      BY <2>1, SMT
    <3> QED BY <2>1, <3>1, SMT DEF Flip
  <2>2. CASE (n \div 4096) % 2 # 1
    <3>1. ((n + 4096) \div 4096) % 2 = 1
      BY <2>2, SMT
    <3> QED BY <2>2, <3>1, SMT DEF Flip
  <2> QED BY <2>1, <2>2
<1>2. Flip(Flip(n, 32), 32) = n
  <2>1. CASE (n \div 32) % 2 = 1
    <3>1. ((n - 32) \div 32) % 2 # 1
      BY <2>1, SMT
    <3> QED BY <2>1, <3>1, SMT DEF Flip
  <2>2. CASE (n \div 32) % 2 # 1
    <3>1. ((n + 32) \div 32) % 2 = 1
      BY <2>2, SMT
    <3> QED BY <2>2, <3>1, SMT DEF Flip
  <2> QED BY <2>1, <2>2
<1> QED BY <1>1, <1>2

\* A round that drops the highest bit ends in an odd word, the other in an even
\* one; each can be undone.
LEMMA HighRound ==
  ASSUME NEW w \in Word16, ~(w < 32768)
  PROVE  \E m \in Word16 : /\ m % 2 = 0 /\ Flip(m, 32) \in Word16 /\ Flip(m, 32) % 2 = 0
                           /\ m = Flip(2 * w - 65536, 4096)
                           /\ Round(w) = Flip(m, 32) + 1
<1>1. PICK n : n = 2 * w - 65536
  OBVIOUS
<1>2. n \in Word16 /\ n % 2 = 0
  BY <1>1, WordIs, SMT
<1>3. PICK m : m = Flip(n, 4096)
  OBVIOUS
<1>4. m \in Word16 /\ m % 2 = 0
  BY <1>2, <1>3, FlipType
<1>5. Flip(m, 32) \in Word16 /\ Flip(m, 32) % 2 = 0
  BY <1>4, FlipType
<1>6. Round(w) = Flip(m, 32) + 1
  BY <1>1, <1>3, SMT DEF Round
<1> QED BY <1>1, <1>3, <1>4, <1>5, <1>6, SMT

LEMMA RoundInjective ==
  ASSUME NEW v \in Word16, NEW w \in Word16, Round(v) = Round(w)
  PROVE  v = w
<1>1. CASE v < 32768 /\ w < 32768
  <2>1. Round(v) = 2 * v /\ Round(w) = 2 * w
    BY <1>1, SMT DEF Round
  <2>2. v \in Nat /\ w \in Nat
    BY WordIs, SMT
  <2>3. 2 * v = 2 * w
    BY <2>1, Zenon
  <2> QED BY <2>2, <2>3, SMT
<1>2. ASSUME NEW x \in Word16, NEW y \in Word16, x < 32768, ~(y < 32768) PROVE Round(x) # Round(y)
  <2>1. Round(x) = 2 * x /\ x \in Nat
    BY <1>2, WordIs, SMT DEF Round
  <2>2. PICK k : k \in Word16 /\ k % 2 = 0 /\ Round(y) = k + 1
    BY <1>2, HighRound, SMT
  <2>3. k \in Nat
    BY <2>2, WordIs, SMT
  <2> QED BY <2>1, <2>2, <2>3, SMT
<1>3. CASE ~(v < 32768) /\ ~(w < 32768)
  <2>1. PICK m \in Word16 : /\ Flip(m, 32) \in Word16 /\ m = Flip(2 * v - 65536, 4096)
                            /\ Round(v) = Flip(m, 32) + 1
    BY <1>3, HighRound, SMT
  <2>2. PICK n \in Word16 : /\ Flip(n, 32) \in Word16 /\ n = Flip(2 * w - 65536, 4096)
                            /\ Round(w) = Flip(n, 32) + 1
    BY <1>3, HighRound, SMT
  <2>3. Flip(m, 32) = Flip(n, 32)
    <3>1. PICK x, y : x = Flip(m, 32) /\ y = Flip(n, 32)
      OBVIOUS
    <3>2. x \in Nat /\ y \in Nat
      BY <2>1, <2>2, <3>1, WordIs, SMT
    <3>3. Round(v) = Flip(m, 32) + 1
      BY <2>1
    <3>4. Round(w) = Flip(n, 32) + 1
      BY <2>2
    <3>5. x + 1 = y + 1
      BY <3>1, <3>3, <3>4, Zenon
    <3> QED BY <3>1, <3>2, <3>5
  <2>4. m \in Nat /\ n \in Nat
    BY WordIs, SMT
  <2>5. m = n
    BY <2>3, <2>4, FlipsBack, SMT
  <2>6. PICK x, y : x = 2 * v - 65536 /\ y = 2 * w - 65536
    OBVIOUS
  <2>7. x \in Nat /\ y \in Nat /\ v \in Nat /\ w \in Nat
    BY <1>3, <2>6, WordIs, SMT
  <2>8. Flip(x, 4096) = Flip(y, 4096)
    BY <2>1, <2>2, <2>5, <2>6, SMT
  <2>9. x = y
    BY <2>7, <2>8, FlipsBack, SMT
  <2> QED BY <2>6, <2>7, <2>9, SMT
<1> QED BY <1>1, <1>2, <1>3, SMT

LEMMA EightRoundsInjective ==
  ASSUME NEW v \in Word16, NEW w \in Word16, EightRounds(v) = EightRounds(w)
  PROVE  v = w
<1>1. \A x \in Word16 : Round(x) \in Word16
  BY RoundType
<1>2. \A x \in Word16, y \in Word16 : Round(x) = Round(y) => x = y
  BY RoundInjective
<1>3. /\ Round(v) \in Word16 /\ Round(Round(v)) \in Word16 /\ Round(Round(Round(v))) \in Word16
      /\ Round(Round(Round(Round(v)))) \in Word16
      /\ Round(Round(Round(Round(Round(v))))) \in Word16
      /\ Round(Round(Round(Round(Round(Round(v)))))) \in Word16
      /\ Round(Round(Round(Round(Round(Round(Round(v))))))) \in Word16
  BY <1>1, Zenon
<1>4. /\ Round(w) \in Word16 /\ Round(Round(w)) \in Word16 /\ Round(Round(Round(w))) \in Word16
      /\ Round(Round(Round(Round(w)))) \in Word16
      /\ Round(Round(Round(Round(Round(w))))) \in Word16
      /\ Round(Round(Round(Round(Round(Round(w)))))) \in Word16
      /\ Round(Round(Round(Round(Round(Round(Round(w))))))) \in Word16
  BY <1>1, Zenon
<1>5. Round(Round(Round(Round(v)))) = Round(Round(Round(Round(w))))
  BY <1>2, <1>3, <1>4, Zenon DEF EightRounds
<1> QED BY <1>2, <1>3, <1>4, <1>5, Zenon

LEMMA BinaryDigits ==
  ASSUME NEW n \in Byte
  PROVE  n = (n % 2) + 2 * ((n \div 2) % 2) + 4 * ((n \div 4) % 2) + 8 * ((n \div 8) % 2)
             + 16 * ((n \div 16) % 2) + 32 * ((n \div 32) % 2) + 64 * ((n \div 64) % 2)
             + 128 * ((n \div 128) % 2)
<1>1. n \in Nat /\ n < 256
  BY ByteIs
<1>2. /\ n \div 2 = 2 * (n \div 4) + ((n \div 2) % 2) /\ n = 2 * (n \div 2) + (n % 2)
      /\ n \div 4 = 2 * (n \div 8) + ((n \div 4) % 2)
      /\ n \div 8 = 2 * (n \div 16) + ((n \div 8) % 2)
      /\ n \div 16 = 2 * (n \div 32) + ((n \div 16) % 2)
      /\ n \div 32 = 2 * (n \div 64) + ((n \div 32) % 2)
      /\ n \div 64 = 2 * (n \div 128) + ((n \div 64) % 2)
      /\ n \div 128 = (n \div 128) % 2
  BY <1>1, SMT
<1>3. /\ n \div 2 \in Nat /\ n \div 4 \in Nat /\ n \div 8 \in Nat /\ n \div 16 \in Nat
      /\ n \div 32 \in Nat /\ n \div 64 \in Nat /\ n \div 128 \in Nat
  BY <1>1, SMT
<1> QED BY <1>1, <1>2, <1>3, SMT

LEMMA XorInjective ==
  ASSUME NEW a \in Byte, NEW b \in Byte, NEW c \in Byte, Xor(a, b) = Xor(a, c)
  PROVE  b = c
<1>1. a \in Nat /\ b \in Nat /\ c \in Nat
  BY ByteIs
<1> DEFINE x(w) == ((a \div w) + (b \div w)) % 2
           y(w) == ((a \div w) + (c \div w)) % 2
<1>2. \A w \in {1, 2, 4, 8, 16, 32, 64, 128} : x(w) \in 0..1 /\ y(w) \in 0..1
  BY <1>1
<1>3. x(1) + 2 * x(2) + 4 * x(4) + 8 * x(8) + 16 * x(16) + 32 * x(32) + 64 * x(64) + 128 * x(128)
      = y(1) + 2 * y(2) + 4 * y(4) + 8 * y(8) + 16 * y(16) + 32 * y(32) + 64 * y(64) + 128 * y(128)
  BY DEF Xor
<1>4. /\ x(1) = y(1) /\ x(2) = y(2) /\ x(4) = y(4) /\ x(8) = y(8)
      /\ x(16) = y(16) /\ x(32) = y(32) /\ x(64) = y(64) /\ x(128) = y(128)
  <2> HIDE DEF x, y
  <2>1. /\ x(1) \in 0..1 /\ x(2) \in 0..1 /\ x(4) \in 0..1 /\ x(8) \in 0..1
        /\ x(16) \in 0..1 /\ x(32) \in 0..1 /\ x(64) \in 0..1 /\ x(128) \in 0..1
        /\ y(1) \in 0..1 /\ y(2) \in 0..1 /\ y(4) \in 0..1 /\ y(8) \in 0..1
        /\ y(16) \in 0..1 /\ y(32) \in 0..1 /\ y(64) \in 0..1 /\ y(128) \in 0..1
    BY <1>2
  <2> QED BY <1>3, <2>1, SMTT(60)
<1>5. /\ b % 2 = c % 2 /\ (b \div 2) % 2 = (c \div 2) % 2 /\ (b \div 4) % 2 = (c \div 4) % 2
      /\ (b \div 8) % 2 = (c \div 8) % 2 /\ (b \div 16) % 2 = (c \div 16) % 2
      /\ (b \div 32) % 2 = (c \div 32) % 2 /\ (b \div 64) % 2 = (c \div 64) % 2
      /\ (b \div 128) % 2 = (c \div 128) % 2
  <2>1. \A k \in Nat, m \in Nat, n \in Nat : (k + m) % 2 = (k + n) % 2 => m % 2 = n % 2
    BY SMT
  <2>2. ASSUME NEW w \in {1, 2, 4, 8, 16, 32, 64, 128}, x(w) = y(w)
        PROVE  (b \div w) % 2 = (c \div w) % 2
    <3>1. a \div w \in Nat /\ b \div w \in Nat /\ c \div w \in Nat
      BY <1>1, SMT
    <3> QED BY <2>1, <2>2, <3>1, Zenon
  <2>3. b \div 1 = b /\ c \div 1 = c
    BY <1>1
  <2> HIDE DEF x, y
  <2> QED BY <1>4, <2>2, <2>3
<1>6. PICK k, l, m, n, o, q, r, s :
         /\ k = b % 2 /\ l = (b \div 2) % 2 /\ m = (b \div 4) % 2 /\ n = (b \div 8) % 2
         /\ o = (b \div 16) % 2 /\ q = (b \div 32) % 2 /\ r = (b \div 64) % 2
         /\ s = (b \div 128) % 2
  BY Zenon
<1>7. b = k + 2 * l + 4 * m + 8 * n + 16 * o + 32 * q + 64 * r + 128 * s
  BY <1>6, BinaryDigits
<1>8. c = k + 2 * l + 4 * m + 8 * n + 16 * o + 32 * q + 64 * r + 128 * s
  BY <1>5, <1>6, BinaryDigits
<1> QED BY <1>7, <1>8

LEMMA XorSwaps ==
  ASSUME NEW a \in Byte, NEW b \in Byte
  PROVE  Xor(a, b) = Xor(b, a)
<1>1. a \in Nat /\ b \in Nat
  BY ByteIs
<1>2. \A w \in {1, 2, 4, 8, 16, 32, 64, 128} : (a \div w) + (b \div w) = (b \div w) + (a \div w)
  BY <1>1
<1> QED BY <1>2 DEF Xor

LEMMA StepInjective ==
  ASSUME NEW a \in Byte, NEW b \in Byte, NEW v \in Word16, NEW w \in Word16,
         Step(a)[v] = Step(b)[w], a = b \/ v = w
  PROVE  a = b /\ v = w
<1>1. PICK i, j, m, n : i = v \div 256 /\ j = v % 256 /\ m = w \div 256 /\ n = w % 256
  OBVIOUS
<1>2. i \in Byte /\ j \in Byte /\ m \in Byte /\ n \in Byte /\ v = 256 * i + j /\ w = 256 * m + n
  BY <1>1, WordIs, ByteIs, SMT
<1>3. PICK x, y : x = Xor(i, a) /\ y = Xor(m, b)
  OBVIOUS
<1>4. x \in Byte /\ y \in Byte
  BY <1>2, <1>3, XorType
<1>5. 256 * x + j \in Word16 /\ 256 * y + n \in Word16
  BY <1>2, <1>4, WordIs, ByteIs, SMT
<1>6. EightRounds(256 * x + j) = EightRounds(256 * y + n)
  BY <1>1, <1>3, SMT DEF Step
<1>7. 256 * x + j = 256 * y + n
  BY <1>5, <1>6, EightRoundsInjective, SMT
<1>8. x = y /\ j = n
  BY <1>2, <1>4, <1>7, ByteIs, SMT
<1>9. CASE a = b
  <2>1. Xor(a, i) = Xor(a, m)
    BY <1>2, <1>3, <1>8, <1>9, XorSwaps
  <2>2. i = m
    BY <1>2, <2>1, XorInjective
  <2> QED BY <1>2, <1>8, <1>9, <2>2, SMT
<1>10. CASE v = w
  <2>1. i = m
    BY <1>1, <1>10
  <2>2. a = b
    BY <1>2, <1>3, <1>8, <2>1, XorInjective
  <2> QED BY <1>10, <2>2
<1> QED BY <1>9, <1>10

\* Words of one length that differ in one byte have different CRCs.
LEMMA CRCTellsOneByte ==
  ASSUME NEW s \in Seq(Byte), NEW t \in Seq(Byte), Len(s) = Len(t), NEW i \in 1..Len(s),
         s[i] # t[i], \A j \in 1..Len(s) : j # i => s[j] = t[j]
  PROVE  CRC16(s) # CRC16(t)
<1>1. PICK n : n = Len(s) /\ n = Len(t) /\ n \in Nat
  BY LenNat
<1>2. PICK c : Sums(c, s) /\ CRC16(s) = c[n]
  BY <1>1, CRCBy
<1>3. PICK d : Sums(d, t) /\ CRC16(t) = d[n]
  BY <1>1, CRCBy
<1> DEFINE T == {k \in 0..n : c[k] = d[k] <=> k < i}
<1>4. 0 \in T
  <2>1. c[0] = d[0]
    BY <1>2, <1>3 DEF Sums
  <2>2. 0 < i /\ 0 \in 0..n
    BY <1>1
  <2> QED BY <2>1, <2>2
<1>5. ASSUME NEW k \in 1..n, k - 1 \in T PROVE k \in T
  <2>1. PICK a, b, v, w : a = s[k] /\ b = t[k] /\ v = c[k - 1] /\ w = d[k - 1]
    OBVIOUS
  <2>2. k - 1 \in 0..n /\ k \in 0..n
    BY <1>1
  <2>3. a \in Byte /\ b \in Byte /\ v \in Word16 /\ w \in Word16
    <3>1. a \in Byte /\ b \in Byte
      BY <1>1, <2>1, BytesOf
    <3>2. v \in Word16 /\ w \in Word16
      BY <1>1, <1>2, <1>3, <2>1, <2>2 DEF Sums
    <3> QED BY <3>1, <3>2
  <2>4. c[k] = Step(a)[v] /\ d[k] = Step(b)[w]
    BY <1>1, <1>2, <1>3, <2>1, Zenon DEF Sums
  <2>5. v = w <=> k - 1 < i
    BY <1>5, <2>1
  <2>6. a = b <=> k # i
    BY <1>1, <2>1
  <2>7. CASE k < i
    <3>1. a = b /\ v = w
      BY <2>5, <2>6, <2>7
    <3> QED BY <2>2, <2>4, <2>7, <3>1, Zenon
  <2>8. CASE k = i
    <3>1. a # b /\ v = w /\ ~(k < i)
      BY <2>5, <2>6, <2>8
    <3>2. Step(a)[v] # Step(b)[w]
      BY <2>3, <3>1, StepInjective
    <3> QED BY <2>2, <2>4, <3>1, <3>2, Zenon
  <2>9. CASE k > i
    <3>1. a = b /\ v # w /\ ~(k < i)
      BY <2>5, <2>6, <2>9
    <3>2. Step(a)[v] # Step(b)[w]
      BY <2>3, <3>1, StepInjective
    <3> QED BY <2>2, <2>4, <3>1, <3>2, Zenon
  <2> QED BY <2>7, <2>8, <2>9
<1>6. n \in T
  <2> HIDE DEF T
  <2>1. \A k \in 0..n : k \in T
    BY <1>1, <1>4, <1>5, UpTo
  <2> QED BY <1>1, <2>1
<1>7. ~(n < i)
  BY <1>1
<1> QED BY <1>2, <1>3, <1>6, <1>7, Zenon

LEMMA LowRounds == \A w \in Nat : w < 32768 => Round(w) = 2 * w
  BY SMT DEF Round

LEMMA HighRounds ==
  \A w \in Nat : ~(w < 32768) =>
    LET n == 2 * w - 65536
        m == IF (n \div 4096) % 2 = 1 THEN n - 4096 ELSE n + 4096
    IN  Round(w) = (IF (m \div 32) % 2 = 1 THEN m - 32 ELSE m + 32) + 1
<1> TAKE w \in Nat
<1> HAVE ~(w < 32768)
<1>1. PICK n : n = 2 * w - 65536
  OBVIOUS
<1>2. PICK m : m = IF (n \div 4096) % 2 = 1 THEN n - 4096 ELSE n + 4096
  OBVIOUS
<1>3. Flip(n, 4096) = m
  BY <1>2, SMT DEF Flip
<1>4. Flip(m, 32) = (IF (m \div 32) % 2 = 1 THEN m - 32 ELSE m + 32)
  BY SMT DEF Flip
<1>5. Round(w) = (IF (m \div 32) % 2 = 1 THEN m - 32 ELSE m + 32) + 1
  BY <1>1, <1>3, <1>4, SMT DEF Round
<1> QED BY <1>1, <1>2, <1>5, SMT

\* The CRC of a text that begins with 0 is not that of the text without it.
LEMMA ZeroSteps == Step(48)[MaxWord] \in Word16 /\ Step(48)[MaxWord] # MaxWord
<1>1. MaxWord \in Word16 /\ 48 \in Byte
  BY MaxIs, WordIs, ByteIs, SMT
<1>2. Step(48)[MaxWord] \in Word16
  BY <1>1, StepType
<1>3. MaxWord \div 256 = 255 /\ MaxWord % 256 = 255
  BY MaxIs, SMT
<1>4. Xor(255, 48) = 207
  BY SMT DEF Xor
<1>5. 256 * 207 + 255 = 53247
  BY SMT
<1>6. Step(48)[MaxWord] = EightRounds(53247)
  BY <1>1, <1>3, <1>4, <1>5, SMT DEF Step
<1>7. PICK a, b, c, d, e, f, g, h, k :
         /\ a = 53247 /\ b = 36831 /\ c = 3999 /\ d = 7998 /\ e = 15996 /\ f = 31992
         /\ g = 63984 /\ h = 58305 /\ k = 55203
  BY SMT
<1>8. Round(c) = d /\ Round(d) = e /\ Round(e) = f /\ Round(f) = g
  BY <1>7, LowRounds, SMT
<1>9. Round(a) = b
  BY <1>7, HighRounds, SMT
<1>10. Round(b) = c
  BY <1>7, HighRounds, SMT
<1>11. Round(g) = h
  BY <1>7, HighRounds, SMT
<1>12. Round(h) = k
  BY <1>7, HighRounds, SMT
<1>13. EightRounds(a) = k
  BY <1>8, <1>9, <1>10, <1>11, <1>12, Zenon DEF EightRounds
<1>14. k # MaxWord
  BY <1>7, MaxIs, SMT
<1>15. Step(48)[MaxWord] = EightRounds(a)
  BY <1>6, <1>7, SMT
<1> QED BY <1>2, <1>13, <1>14, <1>15, Zenon

LEMMA CRCTellsFirstByte ==
  ASSUME NEW s \in Seq(Byte), NEW t \in Seq(Byte), Len(s) = Len(t) + 1, s[1] = 48,
         \A j \in 1..Len(t) : t[j] = s[j + 1]
  PROVE  CRC16(s) # CRC16(t)
<1>1. PICK n : n = Len(t) /\ n + 1 = Len(s) /\ n \in Nat
  BY LenNat
<1>2. PICK c : Sums(c, s) /\ CRC16(s) = c[n + 1]
  BY <1>1, CRCBy
<1>3. PICK d : Sums(d, t) /\ CRC16(t) = d[n]
  BY <1>1, CRCBy
<1> DEFINE T == {k \in 0..n : c[k + 1] # d[k]}
<1>4. 0 \in T
  <2>1. c[0] = MaxWord /\ d[0] = MaxWord /\ c[0 + 1] = Step(s[0 + 1])[c[0]] /\ 0 + 1 = 1 /\ 0 \in 0..n
    <3>1. 1 \in 1..Len(s) /\ 1 - 1 = 0 /\ 0 + 1 = 1 /\ 0 \in 0..n
      BY <1>1
    <3> QED BY <1>2, <1>3, <3>1, Zenon DEF Sums
  <2>2. c[1] # MaxWord
    BY <2>1, ZeroSteps, Zenon
  <2> QED BY <2>1, <2>2, Zenon
<1>5. ASSUME NEW k \in 1..n, k - 1 \in T PROVE k \in T
  <2>1. PICK a, v, w : a = t[k] /\ v = c[k] /\ w = d[k - 1]
    OBVIOUS
  <2>2. k - 1 \in 0..n /\ k \in 0..n /\ (k - 1) + 1 = k /\ (k + 1) - 1 = k /\ k + 1 \in 1..Len(s)
        /\ k \in 0..Len(s)
    BY <1>1
  <2>3. a \in Byte /\ v \in Word16 /\ w \in Word16
    <3>1. a \in Byte
      BY <1>1, <2>1, BytesOf
    <3>2. v \in Word16 /\ w \in Word16
      BY <1>1, <1>2, <1>3, <2>1, <2>2 DEF Sums
    <3> QED BY <3>1, <3>2
  <2>4. c[k + 1] = Step(a)[v] /\ d[k] = Step(a)[w]
    <3>1. s[k + 1] = a
      BY <1>1, <2>1
    <3>2. c[k + 1] = Step(s[k + 1])[c[(k + 1) - 1]]
      BY <1>2, <2>2, Zenon DEF Sums
    <3>3. d[k] = Step(t[k])[d[k - 1]]
      BY <1>1, <1>3, Zenon DEF Sums
    <3> QED BY <2>1, <2>2, <3>1, <3>2, <3>3, Zenon
  <2>5. v # w
    BY <1>5, <2>1, <2>2, Zenon
  <2>6. Step(a)[v] # Step(a)[w]
    BY <2>3, <2>5, StepInjective
  <2> QED BY <2>2, <2>4, <2>6, Zenon
<1>6. n \in T
  <2> HIDE DEF T
  <2>1. \A k \in 0..n : k \in T
    BY <1>1, <1>4, <1>5, UpTo
  <2> QED BY <1>1, <2>1
<1> QED BY <1>2, <1>3, <1>6, Zenon

LEMMA FourHexInjective ==
  ASSUME NEW v \in Word16, NEW w \in Word16, FourHex(v) = FourHex(w)
  PROVE  v = w
<1>1. \A m \in 0..15, n \in 0..15 : Hex(m) = Hex(n) => m = n
  BY SMT DEF Hex
<1>2. PICK a, b, c, d : a = v \div 4096 /\ b = (v \div 256) % 16 /\ c = (v \div 16) % 16 /\ d = v % 16
  OBVIOUS
<1>3. PICK e, f, g, h : e = w \div 4096 /\ f = (w \div 256) % 16 /\ g = (w \div 16) % 16 /\ h = w % 16
  OBVIOUS
<1>4. /\ a \in 0..15 /\ b \in 0..15 /\ c \in 0..15 /\ d \in 0..15
      /\ v = 16 * (16 * (16 * a + b) + c) + d
  BY <1>2, WordIs, SMT
<1>5. /\ e \in 0..15 /\ f \in 0..15 /\ g \in 0..15 /\ h \in 0..15
      /\ w = 16 * (16 * (16 * e + f) + g) + h
  BY <1>3, WordIs, SMT
<1>6. Hex(a) = Hex(e) /\ Hex(b) = Hex(f) /\ Hex(c) = Hex(g) /\ Hex(d) = Hex(h)
  BY <1>2, <1>3, SMT DEF FourHex
<1>7. a = e /\ b = f /\ c = g /\ d = h
  BY <1>1, <1>4, <1>5, <1>6
<1> QED BY <1>4, <1>5, <1>7

-----------------------------------------------------------------------------
(* A code with one byte replaced.                                          *)

LEMMA GreatestExists ==
  ASSUME NEW N \in Nat, NEW S, S \subseteq 0..N, S # {}
  PROVE  \E x \in S : \A y \in S : y <= x
<1> DEFINE D == {d \in 0..N : N - d \in S}
<1>1. D # {} /\ D \subseteq Nat
  <2>1. PICK x \in S : TRUE
    OBVIOUS
  <2>2. PICK y \in 0..N : N - y = x
    <3>1. N - x \in 0..N /\ N - (N - x) = x
      BY <2>1
    <3> QED BY <3>1
  <2>3. y \in D /\ D \subseteq Nat
    BY <2>1, <2>2
  <2> HIDE DEF D
  <2> QED BY <2>3
<1>2. PICK d \in D : \A e \in D : d <= e
  <2> HIDE DEF D
  <2> QED BY <1>1, LeastExists
<1>3. N - d \in S /\ d \in 0..N
  OBVIOUS
<1>4. ASSUME NEW y \in S PROVE y <= N - d
  <2>1. N - y \in D /\ y \in 0..N
    <3>1. N - y \in 0..N /\ N - (N - y) = y
      OBVIOUS
    <3> QED BY <3>1
  <2>2. d <= N - y
    BY <1>2, <2>1
  <2> QED BY <1>3, <2>1, <2>2
<1> QED BY <1>3, <1>4

LEMMA TagFound ==
  ASSUME NEW s \in Seq(Byte), LastTag(s) > 0
  PROVE  LastTag(s) \in 1..Len(s) - 3 /\ SubSeq(s, LastTag(s), LastTag(s) + 3) = CRCTag
<1> DEFINE at == {i \in 1..Len(s) - 3 : SubSeq(s, i, i + 3) = CRCTag}
<1>1. LastTag(s) = IF at = {} THEN 0 ELSE CHOOSE i \in at : \A j \in at : j <= i
  BY DEF LastTag
<1>2. at # {}
  <2> HIDE DEF at
  <2> QED BY <1>1
<1>3. PICK n : n = CHOOSE i \in at : \A j \in at : j <= i
  OBVIOUS
<1>4. n \in at
  <2>1. Len(s) \in Nat
    BY LenNat
  <2>2. at \subseteq 0..Len(s)
    BY <2>1
  <2> HIDE DEF at
  <2>3. \E i \in at : \A j \in at : j <= i
    BY <1>2, <2>1, <2>2, GreatestExists
  <2> QED BY <1>3, <2>3, Zenon
<1>5. LastTag(s) = n
  <2> HIDE DEF at
  <2> QED BY <1>1, <1>2, <1>3, Zenon
<1> QED BY <1>4, <1>5, Zenon

LEMMA TrimSpaceIs ==
  ASSUME NEW s \in Seq(Byte), NEW m \in 1..Len(s), NEW n \in 1..Len(s),
         s[m] \notin Blank, s[n] \notin Blank,
         \A j \in 1..Len(s) : j < m \/ n < j => s[j] \in Blank
  PROVE  TrimSpace(s) = SubSeq(s, m, n)
<1> DEFINE kept == {i \in 1..Len(s) : s[i] \notin Blank}
<1>0. Len(s) \in Nat
  BY LenNat
<1>1. m \in kept /\ n \in kept /\ \A i \in kept : m <= i /\ i <= n /\ i \in Nat
  <2>1. ASSUME NEW i \in kept PROVE ~(i < m) /\ ~(n < i) /\ i \in 1..Len(s)
    OBVIOUS
  <2>2. \A i \in 1..Len(s) : ~(i < m) /\ ~(n < i) => m <= i /\ i <= n /\ i \in Nat
    BY <1>0
  <2> QED BY <2>1, <2>2
<1>2. PICK k, l : /\ k = (CHOOSE i \in kept : \A j \in kept : i <= j)
                  /\ l = (CHOOSE i \in kept : \A j \in kept : j <= i)
  OBVIOUS
<1>3. TrimSpace(s) = SubSeq(s, k, l)
  <2>1. kept # {}
    BY <1>1, Zenon
  <2> QED BY <1>2, <2>1, Zenon DEF TrimSpace
<1> HIDE DEF kept
<1>4. k \in kept /\ \A j \in kept : k <= j
  BY <1>1, <1>2, Zenon
<1>5. l \in kept /\ \A j \in kept : j <= l
  BY <1>1, <1>2, Zenon
<1>6. k = m /\ l = n
  BY <1>1, <1>4, <1>5
<1> QED BY <1>3, <1>6, Zenon

Upper(x) == IF x \in 97..122 THEN x - 32 ELSE x

LEMMA UpperOf ==
  /\ \A s : \A j \in 1..Len(s) : ToUpper(s)[j] = Upper(s[j])
  /\ \A b, d : ToUpper(<<b>>) # ToUpper(<<d>>) => Upper(b) # Upper(d) /\ b # d
<1>1. \A s : ToUpper(s) = [j \in 1..Len(s) |-> Upper(s[j])]
  BY Zenon DEF ToUpper, Upper
<1>2. ASSUME NEW b PROVE ToUpper(<<b>>) = [j \in 1..1 |-> Upper(b)]
  <2>1. PICK s : s = <<b>>
    OBVIOUS
  <2>2. Len(s) = 1 /\ \A j \in 1..1 : s[j] = b
    BY <2>1
  <2>3. [j \in 1..Len(s) |-> Upper(s[j])] = [j \in 1..1 |-> Upper(b)]
    BY <2>2, Zenon
  <2> QED BY <1>1, <2>1, <2>3, Zenon
<1> QED BY <1>1, <1>2

\* c with its byte i replaced by b.
Replaced(x, c, i, b) ==
  /\ x \in Seq(Byte) /\ Len(x) = Len(c) /\ x[i] = b
  /\ \A j \in 1..Len(c) : j # i => x[j] = c[j]

LEMMA ExceptReplaces ==
  ASSUME NEW c \in Seq(Byte), NEW i \in 1..Len(c), NEW b \in Byte
  PROVE  Replaced([c EXCEPT ![i] = b], c, i, b)
<1>1. Len(c) \in Nat /\ c \in [1..Len(c) -> Byte]
  BY LenProperties
<1>2. PICK x : x = [c EXCEPT ![i] = b]
  OBVIOUS
<1>3. x \in [1..Len(c) -> Byte] /\ x[i] = b /\ \A j \in 1..Len(c) : j # i => x[j] = c[j]
  BY <1>1, <1>2
<1>4. x \in Seq(Byte)
  BY <1>1, <1>3, SeqDef
<1>5. Len(x) = Len(c)
  BY <1>1, <1>3, <1>4, LenProperties
<1> QED BY <1>2, <1>3, <1>4, <1>5 DEF Replaced

\* Two texts that are the same bytes of one text.
LEMMA SameSub ==
  ASSUME NEW d, NEW e, NEW s, NEW t, NEW a \in Nat, NEW k \in Nat, NEW n \in Nat,
         IsSub(d, s, a, n), IsSub(e, t, k, n), \A i \in 1..n : s[a + i] = t[k + i]
  PROVE  d = e
<1>1. d \in Seq(Byte) /\ e \in Seq(Byte) /\ Len(d) = n /\ Len(e) = n
      /\ \A i \in 1..n : d[i] = e[i]
  BY Zenon DEF IsSub
<1> QED BY <1>1, SeqEqual

\* Parse takes no four bytes of s for the CRC but its last, and none after the CRC's
\* for a tag.
InPlace(s) ==
  LET crc == ToUpper(find(parseTLVs(s), 63))
  IN  /\ LastTag(s) \in {0, Len(s) - 7}
      /\ parseTLVs(s) # Failed =>
           Len(crc) # 4 \/ crc = ToUpper(SubSeq(s, Len(s) - 3, Len(s)))

LEMMA ValidInPlace ==
  ASSUME NEW x, NEW s, s = TrimSpace(x), s \in Seq(Byte), NEW n, n = Len(s), InPlace(s),
         ValidateCode(x)
  PROVE  /\ n \in Nat /\ n - 7 > 0 /\ LastTag(s) = n - 7
         /\ ToUpper(SubSeq(s, n - 3, n)) = FourHex(CRC16(SubSeq(s, 1, n - 4)))
<1>1. parseTLVs(s) # Failed
  BY DEF ValidateCode, Parsing
<1>2. PICK crc : crc = ToUpper(find(parseTLVs(s), 63))
  OBVIOUS
<1>3. CRCValid(s, crc)
  BY <1>2 DEF ValidateCode, Parsing
<1>4. LastTag(s) > 0 /\ crc = FourHex(CRC16(SubSeq(s, 1, LastTag(s) + 3)))
  BY <1>3, Zenon DEF CRCValid
<1>5. LastTag(s) = n - 7
  BY <1>4 DEF InPlace
<1>6. n \in Nat /\ n - 7 > 0 /\ (n - 7) + 3 = n - 4
  <2>1. n \in Nat
    BY LenNat
  <2> QED BY <1>4, <1>5, <2>1
<1>7. Len(crc) = 4
  <2>1. PICK u : u = SubSeq(s, 1, n - 4)
    OBVIOUS
  <2>2. IsSub(u, s, 0, n - 4)
    <3>1. 0 \in Nat /\ n - 4 \in Nat /\ 0 + (n - 4) <= n /\ 1 = 0 + 1 /\ n - 4 = 0 + (n - 4)
      BY <1>6
    <3> QED BY <2>1, <3>1, SubSeqIsSub
  <2>3. u \in Seq(Byte)
    BY <2>2 DEF IsSub
  <2>4. crc = FourHex(CRC16(u))
    BY <1>4, <1>5, <1>6, <2>1, Zenon
  <2> QED BY <2>3, <2>4, CRCType, FourHexType
<1>8. crc = ToUpper(SubSeq(s, n - 3, n))
  BY <1>1, <1>2, <1>7, Zenon DEF InPlace
<1> QED BY <1>4, <1>5, <1>6, <1>8, Zenon

LEMMA ReplacedIsRefused ==
  ASSUME NEW p \in Payloads, Encode(p) # Failed, NEW c, c = Encode(p), NEW L, L = Len(c),
         NEW i \in 1..L, NEW b \in Byte, ToUpper(<<b>>) # ToUpper(<<c[i]>>),
         NEW x, x = [c EXCEPT ![i] = b], InPlace(TrimSpace(x))
  PROVE  ~ValidateCode(x)
<1> SUFFICES ASSUME ValidateCode(x) PROVE FALSE
  OBVIOUS
<1>1. Shaped(p, c, L)
  BY EncodedShape, Zenon
<1>2. PICK v, h : v = Tagged(p) /\ h = OwnCRC(p)
  OBVIOUS
<1>3. /\ c \in Seq(Byte) /\ L \in Nat /\ L >= 8 /\ v = SubSeq(c, 1, L - 4)
      /\ h = SubSeq(c, L - 3, L) /\ c[L - 7] = 54 /\ c[1] = 48 /\ c[2] = 48
      /\ c[L - 1] \in HexDigit /\ c[L] \in HexDigit
  BY <1>1, <1>2, Zenon DEF Shaped
<1>4. ToUpper(h) = h /\ h = FourHex(CRC16(v)) /\ v \in Seq(Byte)
  BY <1>2, EncodesFields, EncodesParts, Zenon DEF OwnCRC
<1>5. Replaced(x, c, i, b)
  BY <1>3, ExceptReplaces, Zenon
<1>6. /\ x \in Seq(Byte) /\ Len(x) = L /\ x[i] = b
      /\ \A j \in 1..L : j # i => x[j] = c[j]
  BY <1>5, Zenon DEF Replaced
<1>7. Upper(b) # Upper(c[i]) /\ b # c[i]
  BY UpperOf, Zenon
<1>8. 48 \notin Blank /\ \A y \in HexDigit : y \notin Blank
  BY DEF Blank, HexDigit
<1>9. IsSub(v, c, 0, L - 4) /\ IsSub(h, c, L - 4, 4)
  <2>1. /\ 0 \in Nat /\ L - 4 \in Nat /\ 4 \in Nat /\ 0 + (L - 4) <= L /\ (L - 4) + 4 <= L
        /\ 1 = 0 + 1 /\ L - 4 = 0 + (L - 4) /\ L - 3 = (L - 4) + 1 /\ L = (L - 4) + 4
    BY <1>3
  <2>2. IsSub(SubSeq(c, 1, L - 4), c, 0, L - 4)
    BY <1>3, <2>1, SubSeqIsSub
  <2>3. IsSub(SubSeq(c, L - 3, L), c, L - 4, 4)
    BY <1>3, <2>1, SubSeqIsSub
  <2> QED BY <1>3, <2>2, <2>3, Zenon
<1>10. PICK s, n : s = TrimSpace(x) /\ n = Len(s)
  OBVIOUS
<1>11. ASSUME s \in Seq(Byte)
       PROVE  /\ n \in Nat /\ n - 7 > 0 /\ LastTag(s) = n - 7
              /\ ToUpper(SubSeq(s, n - 3, n)) = FourHex(CRC16(SubSeq(s, 1, n - 4)))
  BY <1>10, <1>11, ValidInPlace, Zenon
<1>12. CASE i = 1 /\ b \in Blank
  <2>1. s = SubSeq(x, 2, L)
    <3>1. x[2] = c[2] /\ x[L] = c[L]
      BY <1>3, <1>6, <1>12
    <3>2. \A j \in 1..L : j < 2 \/ L < j => j = 1
      BY <1>3
    <3>3. 2 \in 1..L /\ L \in 1..L
      BY <1>3
    <3>4. TrimSpace(x) = SubSeq(x, 2, L)
      <4>1. x[2] \notin Blank /\ x[L] \notin Blank
        BY <1>3, <1>8, <3>1, Zenon
      <4>2. \A j \in 1..Len(x) : j < 2 \/ L < j => x[j] \in Blank
        BY <1>6, <1>12, <3>2, Zenon
      <4>3. 2 \in 1..Len(x) /\ L \in 1..Len(x)
        BY <1>6, <3>3, Zenon
      <4> QED BY <1>6, <4>1, <4>2, <4>3, TrimSpaceIs, Zenon
    <3> QED BY <1>10, <3>4
  <2>2. IsSub(s, x, 1, L - 1)
    <3>1. 1 \in Nat /\ L - 1 \in Nat /\ 1 + (L - 1) <= L /\ 2 = 1 + 1 /\ L = 1 + (L - 1)
      BY <1>3
    <3> QED BY <1>6, <2>1, <3>1, SubSeqIsSub
  <2>3. s \in Seq(Byte) /\ n = L - 1 /\ \A j \in 1..L - 1 : s[j] = x[1 + j]
    BY <1>10, <2>2, Zenon DEF IsSub
  <2>4. \A j \in 1..L - 1 : s[j] = c[j + 1]
    <3>1. \A j \in 1..L - 1 : 1 + j \in 1..L /\ 1 + j # 1 /\ 1 + j = j + 1
      BY <1>3
    <3>2. ASSUME NEW j \in 1..L - 1 PROVE s[j] = c[j + 1]
      <4>1. s[j] = x[1 + j] /\ 1 + j \in 1..L /\ 1 + j # i /\ 1 + j = j + 1
        BY <1>12, <2>3, <3>1
      <4> QED BY <1>6, <4>1, Zenon
    <3> QED BY <3>2
  <2>5. PICK u, y : u = SubSeq(s, 1, n - 4) /\ y = SubSeq(s, n - 3, n)
    OBVIOUS
  <2>6. IsSub(u, s, 0, n - 4) /\ IsSub(y, s, n - 4, 4)
    <3>1. /\ 0 \in Nat /\ n - 4 \in Nat /\ 4 \in Nat /\ 0 + (n - 4) <= n /\ (n - 4) + 4 <= n
          /\ 1 = 0 + 1 /\ n - 4 = 0 + (n - 4) /\ n - 3 = (n - 4) + 1 /\ n = (n - 4) + 4
      BY <1>3, <2>3
    <3> QED BY <1>10, <2>3, <2>5, <3>1, SubSeqIsSub
  <2>7. y = h
    <3>1. \A j \in 1..4 : /\ (n - 4) + j \in 1..L - 1 /\ ((n - 4) + j) + 1 = (L - 4) + j
      BY <1>3, <2>3
    <3>2. \A j \in 1..4 : s[(n - 4) + j] = c[(L - 4) + j]
      BY <2>4, <3>1, Zenon
    <3>3. n - 4 \in Nat /\ L - 4 \in Nat /\ 4 \in Nat
      BY <1>3, <2>3
    <3> QED BY <1>9, <2>6, <3>2, <3>3, SameSub
  <2>8. CRC16(v) # CRC16(u)
    <3>1. v \in Seq(Byte) /\ Len(v) = L - 4 /\ \A j \in 1..L - 4 : v[j] = c[0 + j]
      BY <1>9, Zenon DEF IsSub
    <3>2. u \in Seq(Byte) /\ Len(u) = n - 4 /\ \A j \in 1..n - 4 : u[j] = s[0 + j]
      BY <2>6, Zenon DEF IsSub
    <3>3. /\ Len(v) = Len(u) + 1 /\ n - 4 = L - 5 /\ 1 \in 1..L - 4 /\ 0 + 1 = 1
          /\ \A j \in 1..n - 4 : /\ 0 + j = j /\ j \in 1..L - 1 /\ j + 1 \in 1..L - 4
                                 /\ 0 + (j + 1) = j + 1
      BY <1>3, <2>3, <3>1, <3>2
    <3>4. v[1] = 48
      BY <1>3, <3>1, <3>3, Zenon
    <3>5. \A j \in 1..n - 4 : u[j] = v[j + 1]
      <4> TAKE j \in 1..n - 4
      <4>2. 0 + j = j /\ j \in 1..L - 1 /\ j + 1 \in 1..L - 4 /\ 0 + (j + 1) = j + 1
        BY <3>3
      <4>3. u[j] = c[j + 1]
        BY <2>4, <3>2, <4>2, Zenon
      <4>4. v[j + 1] = c[j + 1]
        BY <3>1, <4>2, Zenon
      <4> QED BY <4>3, <4>4
    <3> QED BY <3>1, <3>2, <3>3, <3>4, <3>5, CRCTellsFirstByte
  <2>9. u \in Seq(Byte)
    BY <2>6 DEF IsSub
  <2>10. FourHex(CRC16(v)) = FourHex(CRC16(u))
    BY <1>4, <1>11, <2>3, <2>5, <2>7, Zenon
  <2> QED BY <1>4, <2>8, <2>9, <2>10, CRCType, FourHexInjective
<1>13. CASE i = L /\ b \in Blank
  <2>1. s = SubSeq(x, 1, L - 1)
    <3>1. x[1] = c[1] /\ x[L - 1] = c[L - 1]
      BY <1>3, <1>6, <1>13
    <3>2. \A j \in 1..L : j < 1 \/ L - 1 < j => j = L
      BY <1>3
    <3>3. 1 \in 1..L /\ L - 1 \in 1..L
      BY <1>3
    <3>4. TrimSpace(x) = SubSeq(x, 1, L - 1)
      <4>1. x[1] \notin Blank /\ x[L - 1] \notin Blank
        BY <1>3, <1>8, <3>1, Zenon
      <4>2. \A j \in 1..Len(x) : j < 1 \/ L - 1 < j => x[j] \in Blank
        BY <1>6, <1>13, <3>2, Zenon
      <4>3. 1 \in 1..Len(x) /\ L - 1 \in 1..Len(x)
        BY <1>6, <3>3, Zenon
      <4> QED BY <1>6, <4>1, <4>2, <4>3, TrimSpaceIs, Zenon
    <3> QED BY <1>10, <3>4
  <2>2. IsSub(s, x, 0, L - 1)
    <3>1. 0 \in Nat /\ L - 1 \in Nat /\ 0 + (L - 1) <= L /\ 1 = 0 + 1 /\ L - 1 = 0 + (L - 1)
      BY <1>3
    <3> QED BY <1>6, <2>1, <3>1, SubSeqIsSub
  <2>3. s \in Seq(Byte) /\ n = L - 1 /\ \A j \in 1..L - 1 : s[j] = x[0 + j]
    BY <1>10, <2>2, Zenon DEF IsSub
  <2>4. n - 7 > 0 /\ LastTag(s) = n - 7
    BY <1>11, <2>3
  <2>5. PICK d : d = SubSeq(s, n - 7, (n - 7) + 3) /\ d = CRCTag
    BY <2>3, <2>4, TagFound
  <2>6. IsSub(d, s, n - 8, 4)
    <3>1. /\ n - 8 \in Nat /\ 4 \in Nat /\ (n - 8) + 4 <= n /\ n - 7 = (n - 8) + 1
          /\ (n - 7) + 3 = (n - 8) + 4
      BY <1>3, <2>3, <2>4
    <3> QED BY <1>10, <2>3, <2>5, <3>1, SubSeqIsSub
  <2>7. d[2] = s[(n - 8) + 2] /\ d[2] = 51
    <3>1. 2 \in 1..4
      OBVIOUS
    <3>2. d[2] = s[(n - 8) + 2]
      BY <2>6, <3>1, Zenon DEF IsSub
    <3>3. d[2] = 51
      BY <2>5, TagIs
    <3> QED BY <3>2, <3>3
  <2>8. (n - 8) + 2 = L - 7 /\ L - 7 \in 1..L - 1 /\ L - 7 \in 1..L /\ 0 + (L - 7) = L - 7 /\ L - 7 # L
    BY <1>3, <2>3
  <2>9. s[L - 7] = c[L - 7]
    BY <1>6, <1>13, <2>3, <2>8, Zenon
  <2>10. c[L - 7] = 51
    BY <2>7, <2>8, <2>9, Zenon
  <2> QED BY <1>3, <2>10
<1>14. CASE ~(i = 1 /\ b \in Blank) /\ ~(i = L /\ b \in Blank)
  <2>1. s = x /\ n = L
    <3>1. x[1] \notin Blank
      <4>1. CASE i = 1
        BY <1>6, <1>14, <4>1
      <4>2. CASE i # 1
        BY <1>3, <1>6, <1>8, <4>2
      <4> QED BY <4>1, <4>2
    <3>2. x[L] \notin Blank
      <4>1. CASE i = L
        BY <1>6, <1>14, <4>1
      <4>2. CASE i # L
        <5>1. L \in 1..L
          BY <1>3
        <5> QED BY <1>3, <1>6, <1>8, <4>2, <5>1, Zenon
      <4> QED BY <4>1, <4>2
    <3>3. L >= 1
      BY <1>3
    <3>4. TrimSpace(x) = x
      BY <1>3, <1>6, <3>1, <3>2, <3>3, TrimSpaceKeeps
    <3> QED BY <1>6, <1>10, <3>4
  <2>2. ToUpper(SubSeq(x, L - 3, L)) = FourHex(CRC16(SubSeq(x, 1, L - 4)))
    BY <1>6, <1>11, <2>1
  <2>3. PICK u, y : u = SubSeq(x, 1, L - 4) /\ y = SubSeq(x, L - 3, L)
    OBVIOUS
  <2>4. IsSub(u, x, 0, L - 4) /\ IsSub(y, x, L - 4, 4)
    <3>1. /\ 0 \in Nat /\ L - 4 \in Nat /\ 4 \in Nat /\ 0 + (L - 4) <= L /\ (L - 4) + 4 <= L
          /\ 1 = 0 + 1 /\ L - 4 = 0 + (L - 4) /\ L - 3 = (L - 4) + 1 /\ L = (L - 4) + 4
      BY <1>3
    <3> QED BY <1>6, <2>3, <3>1, SubSeqIsSub
  <2>5. u \in Seq(Byte) /\ Len(u) = L - 4 /\ \A j \in 1..L - 4 : u[j] = x[0 + j]
    BY <2>4, Zenon DEF IsSub
  <2>6. v \in Seq(Byte) /\ Len(v) = L - 4 /\ \A j \in 1..L - 4 : v[j] = c[0 + j]
    BY <1>9, Zenon DEF IsSub
  <2>7. \A j \in 1..L - 4 : 0 + j = j /\ j \in 1..L
    BY <1>3
  <2>8. CASE i <= L - 4
    <3>1. i \in 1..L - 4
      BY <1>3, <2>8
    <3>2. u[i] # v[i]
      BY <1>6, <1>7, <2>5, <2>6, <2>7, <3>1, Zenon
    <3>3. \A j \in 1..L - 4 : j # i => u[j] = v[j]
      BY <1>6, <2>5, <2>6, <2>7, Zenon
    <3>4. CRC16(u) # CRC16(v)
      <4>1. Len(u) = Len(v) /\ i \in 1..Len(u)
        BY <2>5, <2>6, <3>1, Zenon
      <4>2. \A j \in 1..Len(u) : j # i => u[j] = v[j]
        BY <2>5, <3>3, Zenon
      <4> QED BY <2>5, <2>6, <3>2, <4>1, <4>2, CRCTellsOneByte, Zenon
    <3>5. y = h
      <4>1. \A j \in 1..4 : (L - 4) + j \in 1..L /\ (L - 4) + j # i
        BY <1>3, <2>8
      <4>2. \A j \in 1..4 : x[(L - 4) + j] = c[(L - 4) + j]
        BY <1>6, <4>1, Zenon
      <4>3. L - 4 \in Nat /\ 4 \in Nat
        BY <1>3
      <4> QED BY <1>9, <2>4, <4>2, <4>3, SameSub
    <3>6. FourHex(CRC16(u)) = FourHex(CRC16(v))
      BY <1>4, <2>2, <2>3, <3>5, Zenon
    <3> QED BY <2>5, <2>6, <3>4, <3>6, CRCType, FourHexInjective
  <2>9. CASE ~(i <= L - 4)
    <3>1. u = v
      <4>1. \A j \in 1..L - 4 : 0 + j \in 1..L /\ 0 + j # i
        BY <1>3, <2>9
      <4>2. \A j \in 1..L - 4 : x[0 + j] = c[0 + j]
        BY <1>6, <4>1, Zenon
      <4>3. \A j \in 1..L - 4 : u[j] = v[j]
        BY <2>5, <2>6, <4>2, Zenon
      <4> QED BY <2>5, <2>6, <4>3, SeqEqual, Zenon
    <3>2. ToUpper(y) = ToUpper(h)
      BY <1>4, <2>2, <2>3, <3>1, Zenon
    <3>3. PICK q : q = i - (L - 4) /\ q \in 1..4 /\ (L - 4) + q = i
      <4>1. L \in Nat /\ i \in 1..L
        BY <1>3
      <4>2. i - (L - 4) \in 1..4 /\ (L - 4) + (i - (L - 4)) = i
        BY <2>9, <4>1
      <4> QED BY <4>2, Zenon
    <3>4. y[q] = b /\ h[q] = c[i] /\ Len(y) = 4 /\ Len(h) = 4
      BY <1>6, <1>9, <2>4, <3>3, Zenon DEF IsSub
    <3>5. ToUpper(y)[q] = Upper(y[q]) /\ ToUpper(h)[q] = Upper(h[q])
      BY <3>3, <3>4, UpperOf, Zenon
    <3> QED BY <1>7, <3>2, <3>4, <3>5, Zenon
  <2> QED BY <2>8, <2>9
<1> QED BY <1>12, <1>13, <1>14, Zenon

\* The code a corrupted one was made of, and the byte that was replaced.
OneByteReplaced ==
  corrupted =>
    \E p \in Payloads :
      /\ payload = {p} /\ Encode(p) # Failed
      /\ \E i \in 1..Len(Encode(p)), b \in Corruptions :
           /\ ToUpper(<<b>>) # ToUpper(<<Encode(p)[i]>>)
           /\ code = [Encode(p) EXCEPT ![i] = b]

LEMMA CorruptedInvariant == BRSpec => []OneByteReplaced
<1>1. BRInit => OneByteReplaced
  BY DEF BRInit, OneByteReplaced
<1>2. CodeIsEncoded /\ OneByteReplaced /\ [BRNext]_brVars => OneByteReplaced'
  <2>1. SUFFICES ASSUME CodeIsEncoded, OneByteReplaced, [BRNext]_brVars PROVE OneByteReplaced'
    OBVIOUS
  <2>2. ASSUME NEW p \in Payloads, Write(p) PROVE OneByteReplaced'
    <3>1. corrupted = FALSE
      BY <2>1, <2>2 DEF CodeIsEncoded, Write
    <3> QED BY <2>2, <3>1 DEF OneByteReplaced, Write
  <2>3. ASSUME NEW i, NEW b \in Corruptions, Corrupt(i, b) PROVE OneByteReplaced'
    <3>1. PICK p \in Payloads : payload = {p} /\ code = Encode(p)
      BY <2>1, <2>3 DEF CodeIsEncoded, Corrupt
    <3> QED BY <2>3, <3>1 DEF OneByteReplaced, Corrupt
  <2>4. CASE UNCHANGED brVars
    BY <2>1, <2>4 DEF OneByteReplaced, brVars
  <2> QED BY <2>1, <2>2, <2>3, <2>4 DEF BRNext
<1> QED BY <1>1, <1>2, CodeInvariant, PTL DEF BRSpec

\* Parse reads no other four characters for the CRC, nor the CRC for a tag.
CRCInPlace == InPlace(TrimSpace(code))

\* Whatever the payloads and the byte, a code with one byte replaced does not
\* check out unless Parse takes other characters for the CRC, or the CRC for a
\* tag: no byte leaves the CRC as it was, and the comparison sees the change
\* (ValidateCode).
THEOREM OneByteIsDetected == BRSpec => [](CRCInPlace => CorruptedIsRefused)
<1>1. OneByteReplaced => (CRCInPlace => CorruptedIsRefused)
  <2>1. SUFFICES ASSUME OneByteReplaced, CRCInPlace, corrupted PROVE ~ValidateCode(code)
    BY DEF CorruptedIsRefused
  <2>2. PICK p \in Payloads : /\ Encode(p) # Failed
                              /\ \E i \in 1..Len(Encode(p)), b \in Corruptions :
                                   /\ ToUpper(<<b>>) # ToUpper(<<Encode(p)[i]>>)
                                   /\ code = [Encode(p) EXCEPT ![i] = b]
    BY <2>1 DEF OneByteReplaced
  <2>3. PICK c, L : c = Encode(p) /\ L = Len(c)
    OBVIOUS
  <2>4. PICK i \in 1..L, b \in Corruptions :
           ToUpper(<<b>>) # ToUpper(<<c[i]>>) /\ code = [c EXCEPT ![i] = b]
    BY <2>2, <2>3
  <2>5. b \in Byte
    BY CorruptionsAssumption
  <2>6. InPlace(TrimSpace(code))
    BY <2>1 DEF CRCInPlace
  <2> QED BY <2>2, <2>3, <2>4, <2>5, <2>6, ReplacedIsRefused, Zenon
<1> QED BY <1>1, CorruptedInvariant, PTL
=============================================================================
