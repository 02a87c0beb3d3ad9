---------------------------- MODULE JournalProofs ----------------------------
(***************************************************************************)
(* Proofs about Journal, for every set of records in any encoding that     *)
(* ends each with its only stop bit, every size and number of files, and   *)
(* writers that die between any two steps.                                 *)
(***************************************************************************)
EXTENDS Journal, FiniteSetTheorems, SequenceTheorems, WellFoundedInduction, TLAPS

-----------------------------------------------------------------------------
(* A set of natural numbers has a least one.                               *)
LEMMA LeastNumber ==
  ASSUME NEW T \in SUBSET Nat, T # {}
  PROVE  \E m \in T : \A k \in T : m <= k
<1> DEFINE R == {p \in Nat \X Nat : p[1] < p[2]}
<1>1. IsWellFoundedOn(R, Nat)
  BY NatLessThanWellFounded DEF OpToRel
<1>2. PICK m \in T : \A k \in T : ~ (<<k, m>> \in R)
  BY <1>1, WFMin
<1>3. ASSUME NEW k \in T PROVE m <= k
  <2>1. ~ (<<k, m>> \in R) /\ k \in Nat /\ m \in Nat
    BY <1>2
  <2> QED  BY <2>1
<1> QED  BY <1>2, <1>3

-----------------------------------------------------------------------------
(* Sequences.                                                              *)
LEMMA Concat ==
  ASSUME NEW S, NEW s \in Seq(S), NEW r \in Seq(S)
  PROVE  /\ s \o r \in Seq(S) /\ Len(s \o r) = Len(s) + Len(r)
         /\ Len(s) \in Nat /\ Len(r) \in Nat
         /\ \A j \in 1 .. Len(s) : (s \o r)[j] = s[j]
         /\ \A j \in 1 .. Len(r) : (s \o r)[Len(s) + j] = r[j]
<1>1. PICK k \in Nat, h \in Nat : k = Len(s) /\ h = Len(r)
  OBVIOUS
<1>2. /\ s \o r \in Seq(S) /\ Len(s \o r) = k + h
      /\ \A j \in 1 .. k + h : (s \o r)[j] = IF j <= k THEN s[j] ELSE r[j - k]
  BY <1>1, ConcatProperties
<1>3. \A j \in 1 .. k : (s \o r)[j] = s[j]
  BY <1>2
<1>4. \A j \in 1 .. h : (s \o r)[k + j] = r[j]
  <2> SUFFICES ASSUME NEW j \in 1 .. h PROVE (s \o r)[k + j] = r[j]
    OBVIOUS
  <2>1. k + j \in 1 .. k + h /\ ~(k + j <= k) /\ (k + j) - k = j
    BY <1>1
  <2> QED  BY <1>2, <2>1
<1> QED  BY <1>1, <1>2, <1>3, <1>4

LEMMA Cut ==
  ASSUME NEW S, NEW s \in Seq(S), NEW a \in Nat, NEW e \in Nat, a <= e, e <= Len(s)
  PROVE  /\ SubSeq(s, a + 1, e) \in Seq(S) /\ Len(SubSeq(s, a + 1, e)) = e - a
         /\ \A j \in 1 .. e - a : SubSeq(s, a + 1, e)[j] = s[a + j]
<1>1. PICK l \in Nat, h \in Nat : l = Len(s) /\ e = a + h /\ e - a = h
  <2>1. Len(s) \in Nat /\ e - a \in Nat /\ e = a + (e - a)
    OBVIOUS
  <2> QED  BY <2>1
<1>2. \A j \in a + 1 .. e : s[j] \in S
  BY <1>1
<1>3. a + 1 \in 1 .. l + 1 /\ e \in a .. l /\ (a + 1) + h - 1 = e
  BY <1>1
<1> QED  BY <1>1, <1>2, <1>3, SMTT(20)

LEMMA SameBytes ==
  ASSUME NEW s \in Seq(Byte), NEW t \in Seq(Byte), NEW h \in Nat,
         Len(s) = h, Len(t) = h, \A j \in 1 .. h : s[j] = t[j]
  PROVE  s = t
BY SeqEqual

-----------------------------------------------------------------------------
(* Sequences one after the other.                                          *)
IsRow(f, F, N) == f = [n \in 0 .. N |-> IF n = 0 THEN <<>> ELSE f[n - 1] \o F[n]]

LEMMA RowExists ==
  ASSUME NEW F, NEW N \in Nat
  PROVE  \E f : IsRow(f, F, N)
<1> DEFINE Bad == {k \in Nat : ~ \E f : IsRow(f, F, k)}
<1>1. SUFFICES ASSUME Bad # {} PROVE FALSE
  OBVIOUS
<1>2. PICK k \in Bad : \A j \in Bad : k <= j
  BY <1>1, LeastNumber
<1>3. CASE k = 0
  <2>1. IsRow([n \in 0 .. 0 |-> <<>>], F, 0)
    BY DEF IsRow
  <2> QED  BY <1>2, <1>3, <2>1
<1>4. CASE k # 0
  <2>1. k - 1 \in Nat /\ k - 1 \notin Bad /\ k \in Nat
    BY <1>2, <1>4
  <2>2. PICK g : IsRow(g, F, k - 1)
    BY <2>1
  <2> DEFINE f == [n \in 0 .. k |-> IF n = k THEN g[k - 1] \o F[k] ELSE g[n]]
  <2>3. ASSUME NEW n \in 0 .. k
        PROVE  f[n] = IF n = 0 THEN <<>> ELSE f[n - 1] \o F[n]
    <3>1. CASE n = k
      <4>1. k - 1 \in 0 .. k /\ k - 1 # k /\ n # 0
        BY <1>4, <2>1, <3>1
      <4> QED  BY <3>1, <4>1
    <3>2. CASE n # k
      <4>1. n \in 0 .. k - 1 /\ f[n] = g[n]
        BY <2>1, <3>2
      <4>2. g[n] = IF n = 0 THEN <<>> ELSE g[n - 1] \o F[n]
        BY <2>2, <4>1 DEF IsRow
      <4>3. n # 0 => n - 1 \in 0 .. k /\ n - 1 # k
        BY <2>1, <4>1
      <4> QED  BY <4>1, <4>2, <4>3
    <3> QED  BY <3>1, <3>2
  <2>4. IsRow(f, F, k)
    BY <2>3 DEF IsRow
  <2> QED  BY <1>2, <2>4
<1> QED  BY <1>3, <1>4

LEMMA RowAgree ==
  ASSUME NEW F, NEW G, NEW N \in Nat, NEW M \in Nat, N <= M,
         \A n \in 1 .. N : F[n] = G[n],
         NEW f, NEW g, IsRow(f, F, N), IsRow(g, G, M)
  PROVE  f[N] = g[N]
<1> DEFINE Bad == {k \in 0 .. N : f[k] # g[k]}
<1>1. SUFFICES ASSUME Bad # {} PROVE FALSE
  OBVIOUS
<1>2. PICK k \in Bad : \A j \in Bad : k <= j
  <2>1. Bad \in SUBSET Nat
    OBVIOUS
  <2> QED  BY <1>1, <2>1, LeastNumber
<1>3. /\ f[k] = IF k = 0 THEN <<>> ELSE f[k - 1] \o F[k]
      /\ g[k] = IF k = 0 THEN <<>> ELSE g[k - 1] \o G[k]
  <2>1. k \in 0 .. N /\ k \in 0 .. M
    OBVIOUS
  <2> QED  BY <2>1 DEF IsRow
<1>4. CASE k = 0
  BY <1>3, <1>4
<1>5. CASE k # 0
  <2>1. k \in 1 .. N /\ k - 1 \in 0 .. N /\ k - 1 \notin Bad
    BY <1>2, <1>5
  <2>2. f[k - 1] = g[k - 1] /\ F[k] = G[k]
    BY <2>1
  <2> QED  BY <1>3, <1>5, <2>2
<1> QED  BY <1>4, <1>5

LEMMA RowFunction ==
  ASSUME NEW F, NEW N \in Nat
  PROVE  \E f : IsRow(f, F, N) /\ InARow(F, N) = f[N]
<1> DEFINE f == CHOOSE f : IsRow(f, F, N)
<1>1. IsRow(f, F, N)
  BY RowExists
<1>2. InARow(F, N) = f[N]
  BY DEF InARow, IsRow
<1> QED  BY <1>1, <1>2

(* A row depends on what is in it.                                         *)
LEMMA RowSame ==
  ASSUME NEW F, NEW G, NEW N \in Nat, \A n \in 1 .. N : F[n] = G[n]
  PROVE  InARow(F, N) = InARow(G, N)
<1>1. PICK f : IsRow(f, F, N) /\ InARow(F, N) = f[N]
  BY RowFunction
<1>2. PICK g : IsRow(g, G, N) /\ InARow(G, N) = g[N]
  BY RowFunction
<1>3. f[N] = g[N]
  BY <1>1, <1>2, RowAgree
<1> QED  BY <1>1, <1>2, <1>3

LEMMA RowNext ==
  ASSUME NEW F, NEW N \in Nat
  PROVE  InARow(F, 0) = <<>> /\ InARow(F, N + 1) = InARow(F, N) \o F[N + 1]
<1>1. PICK f : IsRow(f, F, N) /\ InARow(F, N) = f[N]
  BY RowFunction
<1>2. PICK g : IsRow(g, F, N + 1) /\ InARow(F, N + 1) = g[N + 1]
  <2>1. N + 1 \in Nat
    OBVIOUS
  <2> QED  BY <2>1, RowFunction
<1>3. f[N] = g[N]
  <2> DEFINE M == N + 1
  <2>1. PICK G : G = F
    OBVIOUS
  <2>2. M \in Nat /\ N <= M /\ IsRow(g, G, M) /\ \A n \in 1 .. N : F[n] = G[n]
    BY <1>2, <2>1
  <2> HIDE DEF M
  <2> QED  BY <1>1, <2>2, RowAgree
<1>4. g[N + 1] = g[N] \o F[N + 1]
  <2>1. N + 1 \in 0 .. N + 1 /\ N + 1 # 0 /\ (N + 1) - 1 = N
    OBVIOUS
  <2> QED  BY <1>2, <2>1 DEF IsRow
<1>5. InARow(F, 0) = <<>>
  <2>1. PICK h : IsRow(h, F, 0) /\ InARow(F, 0) = h[0]
    BY RowFunction
  <2> QED  BY <2>1 DEF IsRow
<1> QED  BY <1>1, <1>2, <1>3, <1>4, <1>5

LEMMA RowType ==
  ASSUME NEW S, NEW F, NEW N \in Nat, \A n \in 1 .. N : F[n] \in Seq(S)
  PROVE  InARow(F, N) \in Seq(S)
<1> DEFINE Bad == {k \in 0 .. N : InARow(F, k) \notin Seq(S)}
<1>1. SUFFICES ASSUME Bad # {} PROVE FALSE
  OBVIOUS
<1>2. PICK k \in Bad : \A j \in Bad : k <= j
  <2>1. Bad \in SUBSET Nat
    OBVIOUS
  <2> QED  BY <1>1, <2>1, LeastNumber
<1>3. k # 0
  <2>1. InARow(F, 0) = <<>> /\ <<>> \in Seq(S)
    BY RowNext
  <2> QED  BY <2>1
<1>4. PICK j \in Nat : k = j + 1 /\ j \in 0 .. N /\ k \in 1 .. N
  <2>1. k - 1 \in Nat /\ k = (k - 1) + 1 /\ k - 1 \in 0 .. N /\ k \in 1 .. N
    BY <1>3
  <2> QED  BY <2>1
<1>5. InARow(F, j) \in Seq(S)
  BY <1>2, <1>4
<1>6. InARow(F, k) = InARow(F, j) \o F[k]
  BY <1>4, RowNext
<1>7. InARow(F, k) \in Seq(S)
  <2>1. F[k] \in Seq(S)
    BY <1>4
  <2> QED  BY <1>5, <1>6, <2>1, ConcatProperties
<1> QED  BY <1>7

(* Nothing is added by what is empty.                                      *)
LEMMA RowSkip ==
  ASSUME NEW S, NEW F, NEW N \in Nat, NEW M \in Nat, N <= M,
         InARow(F, N) \in Seq(S), \A n \in N + 1 .. M : F[n] = <<>>
  PROVE  InARow(F, M) = InARow(F, N)
<1> DEFINE Bad == {k \in N .. M : InARow(F, k) # InARow(F, N)}
<1>1. SUFFICES ASSUME Bad # {} PROVE FALSE
  OBVIOUS
<1>2. PICK k \in Bad : \A j \in Bad : k <= j
  <2>1. Bad \in SUBSET Nat
    OBVIOUS
  <2> QED  BY <1>1, <2>1, LeastNumber
<1>3. PICK j \in Nat : k = j + 1 /\ j \in N .. M /\ k \in N + 1 .. M
  <2>1. k # N
    OBVIOUS
  <2>2. k - 1 \in Nat /\ k = (k - 1) + 1 /\ k - 1 \in N .. M /\ k \in N + 1 .. M
    BY <2>1
  <2> QED  BY <2>2
<1>4. InARow(F, j) = InARow(F, N)
  BY <1>2, <1>3
<1>5. InARow(F, k) = InARow(F, j) \o F[k] /\ F[k] = <<>>
  BY <1>3, RowNext
<1>6. InARow(F, j) \o <<>> = InARow(F, j)
  BY <1>4
<1> QED  BY <1>4, <1>5, <1>6

Begins(S, x, y) == \E r \in Seq(S) : y = x \o r

(* What is at the beginning of a row.                                      *)
LEMMA RowPrefix ==
  ASSUME NEW S, NEW F, NEW N \in Nat, NEW M \in Nat, N <= M,
         \A n \in 1 .. M : F[n] \in Seq(S)
  PROVE  Begins(S, InARow(F, N), InARow(F, M))
<1> DEFINE Bad == {k \in N .. M : ~Begins(S, InARow(F, N), InARow(F, k))}
<1>1. SUFFICES ASSUME Bad # {} PROVE FALSE
  <2>1. M \in N .. M
    OBVIOUS
  <2> QED  BY <2>1
<1>2. PICK k \in Bad : \A j \in Bad : k <= j
  <2>1. Bad \in SUBSET Nat
    OBVIOUS
  <2> QED  BY <1>1, <2>1, LeastNumber
<1>3. InARow(F, N) \in Seq(S)
  <2>1. \A n \in 1 .. N : F[n] \in Seq(S)
    OBVIOUS
  <2> QED  BY <2>1, RowType
<1>4. k # N
  <2>1. InARow(F, N) = InARow(F, N) \o <<>> /\ <<>> \in Seq(S)
    BY <1>3, ConcatEmptySeq
  <2> QED  BY <2>1 DEF Begins
<1>5. PICK j \in Nat : k = j + 1 /\ j \in N .. M /\ k \in 1 .. M
  <2>1. k - 1 \in Nat /\ k = (k - 1) + 1 /\ k - 1 \in N .. M /\ k \in 1 .. M
    BY <1>4
  <2> QED  BY <2>1
<1>6. PICK r \in Seq(S) : InARow(F, j) = InARow(F, N) \o r
  <2>1. j \notin Bad
    BY <1>2, <1>5
  <2> QED  BY <1>5, <2>1 DEF Begins
<1>7. InARow(F, k) = (InARow(F, N) \o r) \o F[k] /\ F[k] \in Seq(S)
  BY <1>5, <1>6, RowNext
<1>8. (InARow(F, N) \o r) \o F[k] = InARow(F, N) \o (r \o F[k])
  <2>1. PICK a \in Seq(S), c \in Seq(S) : a = InARow(F, N) /\ c = F[k]
    BY <1>3, <1>7
  <2>2. (a \o r) \o c = a \o (r \o c)
    BY ConcatAssociative, SMTT(20)
  <2> QED  BY <2>1, <2>2
<1>9. r \o F[k] \in Seq(S)
  BY <1>7, ConcatProperties
<1> QED  BY <1>7, <1>8, <1>9 DEF Begins

-----------------------------------------------------------------------------
(* Records among bytes.  Upto(s, n) are those that end in the first n.     *)
Start(s, n) == n = 0 \/ s[n].stop
Among(s) == [n \in 1 .. Len(s) |-> RecordAt(s, n)]
Upto(s, n) == InARow(Among(s), n)

LEMMA LastStopIs ==
  ASSUME NEW s, NEW a \in Nat, NEW m \in Nat, a <= m, Start(s, a),
         \A k \in a + 1 .. m : ~s[k].stop
  PROVE  LastStop(s, m) = a
<1> DEFINE T == {0} \cup {k \in 1 .. m : s[k].stop}
<1>1. a \in T
  BY DEF Start
<1>2. \A k \in T : k \in Nat /\ a >= k
  <2> SUFFICES ASSUME NEW k \in T, ~(a >= k) PROVE FALSE
    OBVIOUS
  <2>1. k \in a + 1 .. m /\ s[k].stop
    OBVIOUS
  <2> QED  BY <2>1
<1> HIDE DEF T
<1>3. \A x \in T : (\A y \in T : x >= y) => x = a
  <2> SUFFICES ASSUME NEW x \in T, \A y \in T : x >= y PROVE x = a
    OBVIOUS
  <2>1. x >= a /\ a >= x /\ x \in Nat
    BY <1>1, <1>2
  <2> QED  BY <2>1
<1>4. Max(T) = a
  BY <1>1, <1>2, <1>3 DEF Max
<1> QED  BY <1>4 DEF LastStop, T

LEMMA LastStopRange ==
  ASSUME NEW s, NEW m \in Nat
  PROVE  LastStop(s, m) \in 0 .. m
<1> DEFINE T == {0} \cup {k \in 1 .. m : s[k].stop}
           Back == {m - k : k \in T}
<1>1. Back \in SUBSET Nat /\ Back # {}
  OBVIOUS
<1>2. PICK x \in Back : \A y \in Back : x <= y
  BY <1>1, LeastNumber
<1>3. PICK k \in T : x = m - k
  OBVIOUS
<1>4. \A y \in T : k >= y
  <2> SUFFICES ASSUME NEW y \in T PROVE k >= y
    OBVIOUS
  <2>1. k \in Nat /\ y \in Nat
    OBVIOUS
  <2>2. m - y \in Back
    OBVIOUS
  <2>3. m - k <= m - y
    BY ONLY <1>2, <1>3, <2>2
  <2> QED  BY <2>1, <2>3
<1>5. Max(T) \in T
  <2> HIDE DEF T
  <2> QED  BY <1>4 DEF Max
<1>6. T \in SUBSET (0 .. m)
  OBVIOUS
<1> QED  BY <1>5, <1>6 DEF LastStop

(* What ends at byte n depends on the bytes up to it.                      *)
LEMMA RecordSame ==
  ASSUME NEW s \in Seq(Byte), NEW t \in Seq(Byte), NEW n \in Nat \ {0},
         n <= Len(s), n <= Len(t), \A j \in 1 .. n : s[j] = t[j]
  PROVE  RecordAt(s, n) = RecordAt(t, n)
<1>1. {k \in 1 .. n - 1 : s[k].stop} = {k \in 1 .. n - 1 : t[k].stop}
  OBVIOUS
<1>2. PICK l \in 0 .. n - 1 : l = LastStop(s, n - 1) /\ l = LastStop(t, n - 1)
  <2>1. n - 1 \in Nat
    OBVIOUS
  <2>2. LastStop(s, n - 1) = LastStop(t, n - 1)
    BY <1>1 DEF LastStop
  <2> QED  BY <2>1, <2>2, LastStopRange
<1>3. SubSeq(s, l + 1, n) = SubSeq(t, l + 1, n)
  <2>1. \A j \in l + 1 .. n : s[j] = t[j]
    OBVIOUS
  <2> QED  BY <2>1, SMTT(20)
<1>4. s[n] = t[n]
  OBVIOUS
<1> QED  BY <1>2, <1>3, <1>4 DEF RecordAt

LEMMA UptoSame ==
  ASSUME NEW s \in Seq(Byte), NEW t \in Seq(Byte), NEW n \in Nat,
         n <= Len(s), n <= Len(t), \A j \in 1 .. n : s[j] = t[j]
  PROVE  Upto(s, n) = Upto(t, n)
<1>1. ASSUME NEW k \in 1 .. n PROVE Among(s)[k] = Among(t)[k]
  <2>1. k \in Nat \ {0} /\ k \in 1 .. Len(s) /\ k \in 1 .. Len(t) /\ k <= Len(s) /\ k <= Len(t)
    OBVIOUS
  <2>2. \A j \in 1 .. k : s[j] = t[j]
    OBVIOUS
  <2>3. RecordAt(s, k) = RecordAt(t, k)
    BY <2>1, <2>2, RecordSame
  <2> QED  BY <2>1, <2>3 DEF Among
<1> QED  BY <1>1, RowSame DEF Upto

(* The bytes of a record that begins at a and ends at b.                   *)
LEMMA UptoStep ==
  ASSUME NEW S, NEW s \in Seq(Byte), NEW a \in Nat, NEW b \in Nat, a < b, b <= Len(s),
         Start(s, a), s[b].stop, \A k \in a + 1 .. b - 1 : ~s[k].stop,
         Upto(s, a) \in Seq(S)
  PROVE  Upto(s, b) = Upto(s, a) \o <<Decode(Kind, SubSeq(s, a + 1, b))>>
<1>1. PICK c \in Nat : b = c + 1 /\ c = b - 1 /\ a <= c
  <2>1. b - 1 \in Nat /\ b = (b - 1) + 1 /\ a <= b - 1
    OBVIOUS
  <2> QED  BY <2>1
<1>2. ASSUME NEW n \in a + 1 .. c PROVE Among(s)[n] = <<>>
  <2>1. ~s[n].stop /\ n \in 1 .. Len(s)
    BY <1>1
  <2> QED  BY <2>1 DEF Among, RecordAt
<1>3. Upto(s, c) = Upto(s, a)
  BY <1>1, <1>2, RowSkip DEF Upto
<1>4. LastStop(s, c) = a
  BY <1>1, LastStopIs
<1>5. Among(s)[b] = <<Decode(Kind, SubSeq(s, a + 1, b))>>
  <2>1. b \in 1 .. Len(s) /\ b - 1 = c
    BY <1>1
  <2> QED  BY <1>4, <2>1 DEF Among, RecordAt
<1>6. Upto(s, b) = Upto(s, c) \o Among(s)[b]
  BY <1>1, RowNext DEF Upto
<1> QED  BY <1>3, <1>5, <1>6

(* Where the record after byte a ends, deserialize stops.                  *)
LEMMA DecodeRest ==
  ASSUME NEW s \in Seq(Byte), NEW a \in Nat, NEW b \in Nat, a < b, b <= Len(s),
         s[b].stop, \A k \in a + 1 .. b - 1 : ~s[k].stop
  PROVE  /\ HeadLength(SubSeq(s, a + 1, Len(s))) = b - a
         /\ Decode(Kind, SubSeq(s, a + 1, Len(s))) = Decode(Kind, SubSeq(s, a + 1, b))
<1>1. PICK l \in Nat, h \in Nat : l = Len(s) /\ h = b - a /\ h >= 1 /\ b <= l
  <2>1. Len(s) \in Nat /\ b - a \in Nat /\ b - a >= 1
    OBVIOUS
  <2> QED  BY <2>1
<1>2. ASSUME NEW e \in b .. l
      PROVE  /\ SubSeq(s, a + 1, e) \in Seq(Byte) /\ Len(SubSeq(s, a + 1, e)) = e - a
             /\ \A j \in 1 .. e - a : SubSeq(s, a + 1, e)[j] = s[a + j]
  <2>1. a + 1 \in 1 .. Len(s) /\ e \in a .. Len(s)
    BY <1>1
  <2>2. \A j \in a + 1 .. e : s[j] \in Byte
    BY <1>1
  <2> QED  BY <1>1, <2>1, <2>2, SMTT(20)
<1>3. ASSUME NEW e \in b .. l
      PROVE  HeadLength(SubSeq(s, a + 1, e)) = h
  <2> DEFINE r == SubSeq(s, a + 1, e)
  <2>1. h \in DOMAIN r /\ r[h].stop /\ \A k \in 1 .. h - 1 : ~r[k].stop
    <3>1. h \in 1 .. e - a /\ a + h = b
      BY <1>1
    <3>2. \A k \in 1 .. h - 1 : a + k \in a + 1 .. b - 1 /\ k \in 1 .. e - a
      BY <1>1
    <3>3. DOMAIN r = 1 .. e - a
      BY <1>2
    <3> QED  BY <1>2, <3>1, <3>2, <3>3
  <2>2. DOMAIN r \in SUBSET Nat
    BY <1>2
  <2> HIDE DEF r
  <2>3. ASSUME NEW n \in DOMAIN r, r[n].stop, \A k \in 1 .. n - 1 : ~r[k].stop
        PROVE  n = h
    <3>1. n \in Nat /\ h \in Nat
      BY <1>1, <2>2
    <3>2. n # 0
      BY <1>2 DEF r
    <3>3. ~(n < h) /\ ~(h < n)
      BY <1>1, <2>1, <2>3, <3>1, <3>2
    <3> QED  BY <3>1, <3>2, <3>3
  <2>4. HeadLength(r) = h
    BY <2>1, <2>3 DEF HeadLength
  <2> QED  BY <2>4 DEF r
<1>4. b \in b .. l /\ l \in b .. l
  BY <1>1
<1>5. SubSeq(SubSeq(s, a + 1, l), 1, h) = SubSeq(SubSeq(s, a + 1, b), 1, h)
  <2>1. PICK x \in Seq(Byte) : /\ x = SubSeq(s, a + 1, l) /\ h <= Len(x)
                               /\ \A j \in 1 .. h : x[j] = s[a + j]
    <3>1. l - a \in Nat /\ h <= l - a /\ \A j \in 1 .. h : j \in 1 .. l - a
      BY <1>1
    <3>2. /\ SubSeq(s, a + 1, l) \in Seq(Byte) /\ Len(SubSeq(s, a + 1, l)) = l - a
          /\ \A j \in 1 .. l - a : SubSeq(s, a + 1, l)[j] = s[a + j]
      BY <1>2, <1>4
    <3> QED  BY <3>1, <3>2
  <2>2. PICK y \in Seq(Byte) : /\ y = SubSeq(s, a + 1, b) /\ h <= Len(y)
                               /\ \A j \in 1 .. h : y[j] = s[a + j]
    <3>1. /\ SubSeq(s, a + 1, b) \in Seq(Byte) /\ Len(SubSeq(s, a + 1, b)) = b - a
          /\ \A j \in 1 .. b - a : SubSeq(s, a + 1, b)[j] = s[a + j]
      BY <1>2, <1>4
    <3>2. b - a = h /\ h <= h /\ h \in Nat
      BY <1>1
    <3> QED  BY ONLY <3>1, <3>2
  <2>3. \A j \in 1 .. h : x[j] = y[j]
    BY <2>1, <2>2
  <2>4. SubSeq(x, 1, h) = SubSeq(y, 1, h)
    BY ONLY <2>1, <2>2, <2>3, h \in Nat, SMTT(20)
  <2> QED  BY <2>1, <2>2, <2>4
<1> QED  BY <1>1, <1>3, <1>4, <1>5 DEF Decode

LEMMA NextStop ==
  ASSUME NEW s \in Seq(Byte), NEW a \in Nat, NEW e \in Nat, a < e, e <= Len(s), s[e].stop
  PROVE  \E b \in a + 1 .. e : s[b].stop /\ \A k \in a + 1 .. b - 1 : ~s[k].stop
<1> DEFINE Stops == {b \in a + 1 .. e : s[b].stop}
<1>1. Stops \in SUBSET Nat /\ Stops # {}
  OBVIOUS
<1>2. PICK b \in Stops : \A k \in Stops : b <= k
  BY <1>1, LeastNumber
<1>3. ASSUME NEW k \in a + 1 .. b - 1, s[k].stop PROVE FALSE
  <2>1. k \in Stops /\ k < b
    BY <1>3
  <2> QED  BY <1>2, <2>1
<1> QED  BY <1>3

\* What is read at any of the first n bytes is a record that was written.
Sound(s, n) == \A k \in 1 .. n : RecordAt(s, k) \in Seq(Value)

LEMMA UptoType ==
  ASSUME NEW s \in Seq(Byte), NEW n \in Nat, n <= Len(s), Sound(s, n)
  PROVE  Upto(s, n) \in Seq(Value)
<1>1. \A k \in 1 .. n : Among(s)[k] \in Seq(Value)
  BY DEF Among, Sound
<1> QED  BY <1>1, RowType DEF Upto

LEMMA UptoGrows ==
  ASSUME NEW s \in Seq(Byte), NEW a \in Nat, NEW n \in Nat, a <= n, n <= Len(s), Sound(s, n)
  PROVE  /\ Upto(s, a) \in Seq(Value) /\ Upto(s, n) \in Seq(Value)
         /\ Begins(Value, Upto(s, a), Upto(s, n))
<1>1. \A k \in 1 .. n : Among(s)[k] \in Seq(Value)
  BY DEF Among, Sound
<1>2. Begins(Value, Upto(s, a), Upto(s, n))
  BY <1>1, RowPrefix DEF Upto
<1>3. Sound(s, a) /\ a <= Len(s)
  BY DEF Sound
<1> QED  BY <1>2, <1>3, UptoType

LEMMA UptoLonger ==
  ASSUME NEW s \in Seq(Byte), NEW a \in Nat, NEW n \in Nat, a < n, n <= Len(s), Sound(s, n),
         s[n].stop
  PROVE  Len(Upto(s, a)) < Len(Upto(s, n))
<1>1. PICK m \in Nat : n = m + 1 /\ a <= m /\ m <= Len(s)
  <2>1. n - 1 \in Nat /\ n = (n - 1) + 1 /\ a <= n - 1 /\ n - 1 <= Len(s)
    OBVIOUS
  <2> QED  BY <2>1
<1>2. Sound(s, m)
  BY <1>1 DEF Sound
<1>3. PICK r \in Seq(Value) : Upto(s, m) = Upto(s, a) \o r
  <2>1. Begins(Value, Upto(s, a), Upto(s, m))
    BY <1>1, <1>2, UptoGrows
  <2> QED  BY <2>1 DEF Begins
<1>4. Upto(s, a) \in Seq(Value)
  BY <1>1, <1>2, UptoGrows
<1>5. Upto(s, n) = Upto(s, m) \o Among(s)[n]
  BY <1>1, RowNext DEF Upto
<1>6. Among(s)[n] \in Seq(Value) /\ Len(Among(s)[n]) = 1
  <2>1. n \in 1 .. n /\ n \in 1 .. Len(s)
    BY <1>1
  <2>2. Among(s)[n] = RecordAt(s, n)
    BY <2>1 DEF Among
  <2> QED  BY <2>1, <2>2 DEF Sound, RecordAt
<1>7. PICK x \in Seq(Value), y \in Seq(Value) : x = Upto(s, a) /\ y = Among(s)[n] /\ Len(y) = 1
  BY <1>4, <1>6
<1>8. Len((x \o r) \o y) = (Len(x) + Len(r)) + 1 /\ Len(x) \in Nat /\ Len(r) \in Nat
  <2>1. x \o r \in Seq(Value) /\ Len(x \o r) = Len(x) + Len(r) /\ Len(x) \in Nat /\ Len(r) \in Nat
    BY Concat
  <2>2. Len((x \o r) \o y) = Len(x \o r) + Len(y)
    BY <2>1, Concat
  <2> QED  BY <1>7, <2>1, <2>2
<1> QED  BY <1>3, <1>5, <1>7, <1>8

(* The record that is written after whole ones.                            *)
Lengths(s, w, t, k, h) == Len(s) = k /\ Len(w) = h /\ h >= 1 /\ Len(t) = k + h
Joins(s, w, t, k, h) == /\ \A j \in 1 .. k : t[j] = s[j]
                        /\ \A j \in 1 .. h : t[k + j] = w[j]
LEMMA OneMore ==
  ASSUME NEW s \in Seq(Byte), NEW w \in Seq(Byte), NEW t \in Seq(Byte), NEW v \in Value,
         NEW k \in Nat, NEW h \in Nat, Lengths(s, w, t, k, h), Joins(s, w, t, k, h),
         w[h].stop, \A n \in 1 .. h - 1 : ~w[n].stop, Decode(Kind, w) = v,
         Start(s, k), Sound(s, k)
  PROVE  /\ Start(t, k + h) /\ Sound(t, k + h)
         /\ Upto(t, k + h) = Upto(s, k) \o <<v>>
<1>0. /\ k <= Len(s) /\ h >= 1 /\ k + h <= Len(t) /\ k <= Len(t) /\ k + h \in Nat /\ k < k + h
      /\ (k + h) - k = h
  BY DEF Lengths
<1>1. t[k + h].stop /\ \A j \in k + 1 .. k + h - 1 : ~t[j].stop
  <2>1. h \in 1 .. h /\ t[k + h] = w[h]
    BY <1>0 DEF Joins
  <2>2. ASSUME NEW j \in k + 1 .. k + h - 1 PROVE ~t[j].stop
    <3>1. j - k \in 1 .. h /\ k + (j - k) = j /\ j - k \in 1 .. h - 1
      OBVIOUS
    <3>2. t[j] = w[j - k]
      BY <3>1 DEF Joins
    <3> QED  BY <3>1, <3>2
  <2> QED  BY <2>1, <2>2
<1>2. Start(t, k) /\ Upto(t, k) = Upto(s, k) /\ Upto(t, k) \in Seq(Value)
  <2>1. \A j \in 1 .. k : t[j] = s[j]
    BY DEF Joins
  <2>2. Upto(t, k) = Upto(s, k)
    BY <1>0, <2>1, UptoSame
  <2>3. Upto(s, k) \in Seq(Value)
    BY <1>0, UptoType
  <2>4. k # 0 => t[k] = s[k]
    BY <2>1
  <2> QED  BY <2>2, <2>3, <2>4 DEF Start
<1>3. SubSeq(t, k + 1, k + h) = w
  <2>1. /\ SubSeq(t, k + 1, k + h) \in Seq(Byte) /\ Len(SubSeq(t, k + 1, k + h)) = (k + h) - k
        /\ \A j \in 1 .. (k + h) - k : SubSeq(t, k + 1, k + h)[j] = t[k + j]
    BY <1>0, Cut
  <2>2. PICK x : x = SubSeq(t, k + 1, k + h)
    OBVIOUS
  <2>3. x \in Seq(Byte) /\ Len(x) = h /\ \A j \in 1 .. h : x[j] = t[k + j]
    BY <1>0, <2>1, <2>2
  <2>4. \A j \in 1 .. h : x[j] = w[j]
    BY <2>3 DEF Joins
  <2>5. x = w
    BY <2>3, <2>4, SameBytes DEF Lengths
  <2> QED  BY <2>2, <2>5
<1>4. Upto(t, k + h) = Upto(t, k) \o <<v>>
  <2>1. PICK b \in Nat : b = k + h /\ k < b /\ b <= Len(t)
    BY <1>0
  <2>2. k < b /\ b <= Len(t) /\ t[b].stop /\ \A j \in k + 1 .. b - 1 : ~t[j].stop
    BY <1>1, <2>1
  <2>3. Upto(t, b) = Upto(t, k) \o <<Decode(Kind, SubSeq(t, k + 1, b))>>
    BY <1>2, <2>2, UptoStep, Zenon
  <2> QED  BY <1>3, <2>1, <2>3
<1>5. Sound(t, k + h)
  <2> SUFFICES ASSUME NEW n \in 1 .. k + h PROVE RecordAt(t, n) \in Seq(Value)
    BY DEF Sound
  <2>1. CASE n <= k
    <3>1. /\ n \in Nat \ {0} /\ n <= Len(s) /\ n <= Len(t) /\ n \in 1 .. k
          /\ \A j \in 1 .. n : s[j] = t[j]
      BY <1>0, <2>1 DEF Joins
    <3>2. RecordAt(s, n) = RecordAt(t, n)
      BY <3>1, RecordSame
    <3>3. RecordAt(s, n) \in Seq(Value)
      BY <3>1 DEF Sound
    <3> QED  BY <3>2, <3>3
  <2>2. CASE n > k /\ n # k + h
    <3>1. ~t[n].stop
      BY <1>1, <2>2
    <3> QED  BY <3>1 DEF RecordAt
  <2>3. CASE n = k + h
    <3>1. PICK c \in Nat : c = n - 1 /\ k <= c /\ c = k + h - 1
      <4>1. n - 1 \in Nat /\ k <= n - 1 /\ n - 1 = k + h - 1
        BY <1>0, <2>3
      <4> QED  BY <4>1
    <3>2. \A j \in k + 1 .. c : ~t[j].stop
      BY <1>1, <3>1
    <3>3. LastStop(t, c) = k
      BY <1>2, <3>1, <3>2, LastStopIs
    <3>4. t[n].stop /\ SubSeq(t, LastStop(t, n - 1) + 1, n) = w
      BY <1>1, <1>3, <2>3, <3>1, <3>3
    <3>5. RecordAt(t, n) = <<v>>
      BY <3>4 DEF RecordAt
    <3> QED  BY <3>5
  <2> QED  BY <2>1, <2>2, <2>3
<1>6. Start(t, k + h)
  BY <1>1 DEF Start
<1> QED  BY <1>2, <1>4, <1>5, <1>6

LEMMA WriteOne ==
  ASSUME NEW s \in Seq(Byte), Start(s, Len(s)), Sound(s, Len(s)), NEW v \in Value
  PROVE  LET t == s \o Bytes[v]
         IN  /\ t \in Seq(Byte) /\ Len(t) = Len(s) + Len(Bytes[v])
             /\ Start(t, Len(t)) /\ Sound(t, Len(t))
             /\ Upto(t, Len(t)) = Upto(s, Len(s)) \o <<v>>
<1> DEFINE w == Bytes[v]
           t == s \o w
<1>1. /\ w \in Seq(Byte) /\ w # <<>> /\ Decode(Kind, w) = v
      /\ w[Len(w)].stop /\ \A n \in 1 .. Len(w) - 1 : ~w[n].stop
  BY RecordAssumption
<1> HIDE DEF w
<1>2. Len(w) \in Nat /\ Len(w) >= 1 /\ Len(s) \in Nat
  BY <1>1
<1>3. /\ t \in Seq(Byte) /\ Len(t) = Len(s) + Len(w)
      /\ \A j \in 1 .. Len(s) : t[j] = s[j]
      /\ \A j \in 1 .. Len(w) : t[Len(s) + j] = w[j]
  BY <1>1, Concat
<1> HIDE DEF t
<1>4. /\ Start(t, Len(s) + Len(w)) /\ Sound(t, Len(s) + Len(w))
      /\ Upto(t, Len(s) + Len(w)) = Upto(s, Len(s)) \o <<v>>
  <2>1. PICK k \in Nat, h \in Nat : k = Len(s) /\ h = Len(w) /\ h >= 1
    BY <1>2
  <2>2. Lengths(s, w, t, k, h) /\ Joins(s, w, t, k, h)
    BY <1>3, <2>1 DEF Lengths, Joins
  <2>3. w[h].stop /\ (\A n \in 1 .. h - 1 : ~w[n].stop) /\ Start(s, k) /\ Sound(s, k)
    BY <1>1, <2>1
  <2>4. /\ Start(t, k + h) /\ Sound(t, k + h)
        /\ Upto(t, k + h) = Upto(s, k) \o <<v>>
    BY <1>1, <1>3, <2>2, <2>3, OneMore
  <2> QED  BY <2>1, <2>4
<1> QED  BY <1>3, <1>4 DEF t, w

-----------------------------------------------------------------------------
(* Files.                                                                  *)
File == [size : Nat, data : Seq(Byte)]
Good(f) ==
  /\ f.size <= Len(f.data) /\ Start(f.data, f.size) /\ Sound(f.data, f.size)
  /\ HeaderSize + Len(f.data) <= MaxSize
Kept(f) == Upto(f.data, f.size)

Count(d) == Cardinality(DOMAIN d)
DiskOK(d) ==
  /\ Count(d) \in 0 .. FileMax /\ d \in [1 .. Count(d) -> File]
  /\ \A id \in 1 .. Count(d) : Good(d[id])
Decoded(d) == [id \in 1 .. Count(d) |-> Kept(d[id])]

LEMMA KeptType ==
  ASSUME NEW f \in File, Good(f)
  PROVE  Kept(f) \in Seq(Value)
<1>1. f.data \in Seq(Byte) /\ f.size \in Nat /\ f.size <= Len(f.data) /\ Sound(f.data, f.size)
  BY DEF File, Good
<1> QED  BY <1>1, UptoType DEF Kept

LEMMA PublishedRecords ==
  ASSUME NEW f \in File, Good(f)
  PROVE  Records(Published(f)) = Kept(f)
<1> DEFINE p == Published(f)
<1>1. f.data \in Seq(Byte) /\ f.size \in Nat /\ f.size <= Len(f.data)
  BY DEF File, Good
<1>2. /\ p \in Seq(Byte) /\ Len(p) = f.size
      /\ \A n \in 1 .. f.size : p[n] = f.data[n]
  <2>1. p = [n \in 1 .. f.size |-> f.data[n]]
    BY <1>1 DEF Published, ByteAt
  <2>2. \A n \in 1 .. f.size : f.data[n] \in Byte
    BY <1>1
  <2> QED  BY <1>1, <2>1, <2>2
<1> HIDE DEF p
<1>3. Upto(p, f.size) = Kept(f)
  BY <1>1, <1>2, UptoSame DEF Kept
<1>4. Whole(p)
  <2>1. f.size # 0 => p[f.size].stop
    BY <1>1, <1>2 DEF Good, Start
  <2>2. f.size = 0 => p = <<>>
    BY <1>2
  <2> QED  BY <1>2, <2>1, <2>2 DEF Whole
<1>5. Records(p) = Upto(p, f.size) \o <<>>
  BY <1>2, <1>4 DEF Records, Upto, Among
<1>6. Kept(f) \o <<>> = Kept(f)
  BY KeptType, ConcatEmptySeq
<1> QED  BY <1>3, <1>5, <1>6 DEF p

LEMMA LogIs ==
  ASSUME NEW d, DiskOK(d)
  PROVE  /\ LogOf(d) = InARow(Decoded(d), Count(d)) /\ LogOf(d) \in Seq(Value)
         /\ \A id \in 1 .. Count(d) : Decoded(d)[id] = Kept(d[id]) /\ Kept(d[id]) \in Seq(Value)
<1> DEFINE n == Count(d)
           F == [id \in 1 .. n |-> Records(Published(d[id]))]
<1>1. n \in Nat
  BY DEF DiskOK
<1>2. \A id \in 1 .. n : F[id] = Decoded(d)[id] /\ Decoded(d)[id] = Kept(d[id]) /\ Kept(d[id]) \in Seq(Value)
  <2> SUFFICES ASSUME NEW id \in 1 .. n
               PROVE  F[id] = Decoded(d)[id] /\ Decoded(d)[id] = Kept(d[id]) /\ Kept(d[id]) \in Seq(Value)
    OBVIOUS
  <2>1. d[id] \in File /\ Good(d[id])
    BY DEF DiskOK
  <2>2. Records(Published(d[id])) = Kept(d[id]) /\ Kept(d[id]) \in Seq(Value)
    BY <2>1, PublishedRecords, KeptType
  <2> QED  BY <2>2 DEF Decoded
<1>3. LogOf(d) = InARow(F, n)
  BY DEF LogOf, Count
<1> HIDE DEF F
<1>4. InARow(F, n) = InARow(Decoded(d), n)
  BY <1>1, <1>2, RowSame
<1>5. InARow(Decoded(d), n) \in Seq(Value)
  BY <1>1, <1>2, RowType
<1> QED  BY <1>2, <1>3, <1>4, <1>5

(* An empty file more changes nothing in what was written.                 *)
LEMMA OneFileMore ==
  ASSUME NEW d, DiskOK(d), Count(d) + 1 <= FileMax
  PROVE  LET e == [n \in DOMAIN d \cup {Count(d) + 1} |->
                     IF n \in DOMAIN d THEN d[n] ELSE Empty]
         IN  /\ DiskOK(e) /\ Count(e) = Count(d) + 1 /\ LogOf(e) = LogOf(d)
             /\ e[Count(d) + 1] = Empty
             /\ \A id \in 1 .. Count(d) : e[id] = d[id]
<1> DEFINE n == Count(d)
           e == [k \in DOMAIN d \cup {n + 1} |-> IF k \in DOMAIN d THEN d[k] ELSE Empty]
<1>1. n \in Nat /\ n + 1 \in Nat /\ n + 1 \in 0 .. FileMax
  BY JournalAssumption DEF DiskOK
<1>2. DOMAIN d = 1 .. n /\ DOMAIN e = 1 .. n + 1
  BY <1>1 DEF DiskOK
<1>3. Count(e) = n + 1
  <2>1. Cardinality(1 .. n + 1) = n + 1
    <3>1. Cardinality(1 .. n + 1) = IF 1 > n + 1 THEN 0 ELSE (n + 1) - 1 + 1
      BY <1>1, FS_Interval
    <3> QED  BY <1>1, <3>1
  <2> QED  BY <1>2, <2>1 DEF Count
<1>4. e[n + 1] = Empty /\ \A id \in 1 .. n : e[id] = d[id]
  BY <1>1, <1>2
<1>5. Empty \in File /\ Good(Empty) /\ Kept(Empty) = <<>>
  <2>1. Empty \in File /\ Empty.size = 0 /\ Empty.data = <<>>
    BY DEF Empty, File
  <2>2. Upto(<<>>, 0) = <<>>
    BY RowNext DEF Upto
  <2> QED  BY <2>1, <2>2, JournalAssumption DEF Good, Kept, Start, Sound, HeaderSize
<1> HIDE DEF e
<1>6. DiskOK(e)
  <2>1. ASSUME NEW id \in 1 .. n + 1 PROVE e[id] \in File /\ Good(e[id])
    <3>1. CASE id \in 1 .. n
      BY <1>4, <3>1 DEF DiskOK
    <3>2. CASE id = n + 1
      BY <1>4, <1>5, <3>2
    <3> QED  BY <1>1, <3>1, <3>2
  <2>2. e = [k \in 1 .. n + 1 |-> e[k]]
    BY <1>2 DEF e
  <2> QED  BY <1>1, <1>3, <2>1, <2>2 DEF DiskOK
<1>7. LogOf(e) = InARow(Decoded(e), n) \o <<>>
  <2>1. LogOf(e) = InARow(Decoded(e), n + 1) /\ Decoded(e)[n + 1] = Kept(e[n + 1])
    BY <1>1, <1>3, <1>6, LogIs
  <2>2. InARow(Decoded(e), n + 1) = InARow(Decoded(e), n) \o Decoded(e)[n + 1]
    BY <1>1, RowNext
  <2> QED  BY <1>4, <1>5, <2>1, <2>2
<1>8. InARow(Decoded(e), n) = InARow(Decoded(d), n)
  <2>1. \A id \in 1 .. n : Decoded(e)[id] = Decoded(d)[id]
    BY <1>1, <1>3, <1>4 DEF Decoded
  <2> QED  BY <1>1, <2>1, RowSame
<1>9. LogOf(d) = InARow(Decoded(d), n) /\ LogOf(d) \in Seq(Value)
  BY LogIs
<1>10. LogOf(e) = LogOf(d)
  BY <1>7, <1>8, <1>9, ConcatEmptySeq
<1> QED  BY <1>3, <1>4, <1>6, <1>10 DEF e

(* Bytes and a size that change in the last file.                          *)
LEMMA LastFileChanges ==
  ASSUME NEW d, DiskOK(d), Count(d) # 0, NEW f \in File, Good(f),
         NEW r \in Seq(Value), Kept(f) = Kept(d[Count(d)]) \o r
  PROVE  LET e == [d EXCEPT ![Count(d)] = f]
         IN  DiskOK(e) /\ Count(e) = Count(d) /\ LogOf(e) = LogOf(d) \o r
<1> DEFINE n == Count(d)
           e == [d EXCEPT ![n] = f]
<1>1. PICK m \in Nat : n = m + 1 /\ m + 1 \in Nat /\ n \in 1 .. n
  <2>1. n \in Nat /\ n - 1 \in Nat /\ n = (n - 1) + 1 /\ n \in 1 .. n
    BY DEF DiskOK
  <2> QED  BY <2>1
<1>2. DOMAIN e = DOMAIN d /\ e[n] = f /\ \A id \in 1 .. n : id # n => e[id] = d[id]
  BY <1>1 DEF DiskOK
<1>3. Count(e) = n
  BY <1>2 DEF Count
<1>4. DiskOK(e)
  <2>1. ASSUME NEW id \in 1 .. n PROVE e[id] \in File /\ Good(e[id])
    BY <1>2 DEF DiskOK
  <2>2. e \in [1 .. n -> File]
    BY DEF DiskOK
  <2> QED  BY <1>3, <2>1, <2>2 DEF DiskOK
<1> HIDE DEF e
<1>5. InARow(Decoded(e), m) = InARow(Decoded(d), m)
  <2>1. \A id \in 1 .. m : id \in 1 .. n /\ id # n
    BY <1>1
  <2>2. \A id \in 1 .. m : Decoded(e)[id] = Decoded(d)[id]
    BY <1>2, <1>3, <2>1 DEF Decoded
  <2> QED  BY <2>2, RowSame
<1>6. /\ LogOf(d) = InARow(Decoded(d), n) /\ Decoded(d)[n] = Kept(d[n])
      /\ Kept(d[n]) \in Seq(Value)
      /\ \A id \in 1 .. n : Decoded(d)[id] = Kept(d[id]) /\ Kept(d[id]) \in Seq(Value)
  BY <1>1, LogIs
<1>7. LogOf(e) = InARow(Decoded(e), n) /\ Decoded(e)[n] = Kept(f)
  BY <1>1, <1>2, <1>3, <1>4, LogIs
<1>8. PICK x \in Seq(Value) : x = InARow(Decoded(d), m)
  <2>1. \A id \in 1 .. m : Decoded(d)[id] \in Seq(Value)
    BY <1>1, <1>6
  <2> QED  BY <2>1, RowType
<1>9. /\ InARow(Decoded(d), n) = x \o Decoded(d)[n]
      /\ InARow(Decoded(e), n) = x \o Decoded(e)[n]
  <2>1. /\ InARow(Decoded(d), m + 1) = InARow(Decoded(d), m) \o Decoded(d)[m + 1]
        /\ InARow(Decoded(e), m + 1) = InARow(Decoded(e), m) \o Decoded(e)[m + 1]
    BY RowNext
  <2> QED  BY <1>1, <1>5, <1>8, <2>1
<1>10. LogOf(e) = x \o (Kept(d[n]) \o r) /\ LogOf(d) = x \o Kept(d[n])
  BY <1>6, <1>7, <1>9
<1>11. PICK y \in Seq(Value) : y = Kept(d[n])
  BY <1>6
<1>12. x \o (y \o r) = (x \o y) \o r
  BY ConcatAssociative, SMTT(20)
<1>13. LogOf(e) = LogOf(d) \o r
  BY <1>10, <1>11, <1>12
<1> QED  BY <1>3, <1>4, <1>13 DEF e

-----------------------------------------------------------------------------
(* Reading.  What comes before byte p of file f.                           *)
At(d, f, p) ==
  f \in 1 .. Count(d) /\ p \in 0 .. d[f].size /\ Start(d[f].data, p)
ReadTo(d, f, p) == InARow(Decoded(d), f - 1) \o Upto(d[f].data, p)

LEMMA FileRead ==
  ASSUME NEW d, DiskOK(d), NEW f \in 1 .. Count(d)
  PROVE  /\ ReadTo(d, f, d[f].size) = InARow(Decoded(d), f)
         /\ ReadTo(d, f, 0) = InARow(Decoded(d), f - 1)
         /\ InARow(Decoded(d), f - 1) \in Seq(Value)
         /\ At(d, f, d[f].size) /\ At(d, f, 0)
<1>1. PICK m \in Nat : f = m + 1 /\ f - 1 = m /\ m \in 0 .. Count(d)
  <2>1. f - 1 \in Nat /\ f = (f - 1) + 1 /\ f - 1 \in 0 .. Count(d)
    BY DEF DiskOK
  <2> QED  BY <2>1
<1>2. \A id \in 1 .. Count(d) : Decoded(d)[id] = Kept(d[id]) /\ Kept(d[id]) \in Seq(Value)
  BY LogIs
<1>3. InARow(Decoded(d), m) \in Seq(Value)
  <2>1. \A id \in 1 .. m : Decoded(d)[id] \in Seq(Value)
    BY <1>1, <1>2 DEF DiskOK
  <2> QED  BY <2>1, RowType
<1>4. InARow(Decoded(d), m + 1) = InARow(Decoded(d), m) \o Decoded(d)[m + 1]
  BY RowNext
<1>5. ReadTo(d, f, d[f].size) = InARow(Decoded(d), f)
  BY <1>1, <1>2, <1>4 DEF ReadTo, Kept
<1>6. ReadTo(d, f, 0) = InARow(Decoded(d), m) \o <<>>
  BY <1>1, RowNext DEF ReadTo, Upto
<1>7. InARow(Decoded(d), m) \o <<>> = InARow(Decoded(d), m)
  BY <1>3, ConcatEmptySeq
<1>8. d[f].size \in Nat /\ Start(d[f].data, d[f].size) /\ Start(d[f].data, 0)
  BY DEF DiskOK, Good, File, Start
<1> QED  BY <1>1, <1>3, <1>5, <1>6, <1>7, <1>8 DEF At

(* What was read so far begins what was written.                           *)
LEMMA ReadBegins ==
  ASSUME NEW d, DiskOK(d), NEW f, NEW p, At(d, f, p)
  PROVE  ReadTo(d, f, p) \in Seq(Value) /\ Begins(Value, ReadTo(d, f, p), LogOf(d))
<1>1. PICK m \in Nat : f = m + 1 /\ f - 1 = m /\ m \in 0 .. Count(d) /\ f \in 1 .. Count(d)
  <2>1. f - 1 \in Nat /\ f = (f - 1) + 1 /\ f - 1 \in 0 .. Count(d) /\ f \in 1 .. Count(d)
    BY DEF DiskOK, At
  <2> QED  BY <2>1
<1>2. /\ d[f].data \in Seq(Byte) /\ p \in Nat /\ d[f].size \in Nat /\ p <= d[f].size
      /\ d[f].size <= Len(d[f].data) /\ Sound(d[f].data, d[f].size)
  BY <1>1 DEF At, DiskOK, Good, File
<1>3. /\ Upto(d[f].data, p) \in Seq(Value)
      /\ Begins(Value, Upto(d[f].data, p), Kept(d[f]))
  BY <1>2, UptoGrows DEF Kept
<1>4. PICK x \in Seq(Value), y \in Seq(Value) : x = InARow(Decoded(d), m) /\ y = Upto(d[f].data, p)
  BY <1>1, <1>3, FileRead
<1>5. ReadTo(d, f, p) = x \o y
  BY <1>1, <1>4 DEF ReadTo
<1>6. PICK r \in Seq(Value) : Kept(d[f]) = y \o r
  BY <1>3, <1>4 DEF Begins
<1>7. ReadTo(d, f, d[f].size) = x \o (y \o r)
  BY <1>1, <1>4, <1>6 DEF ReadTo, Kept
<1>8. Begins(Value, InARow(Decoded(d), f), InARow(Decoded(d), Count(d)))
  <2>1. \A id \in 1 .. Count(d) : Decoded(d)[id] \in Seq(Value)
    BY LogIs
  <2>2. f \in Nat /\ Count(d) \in Nat /\ f <= Count(d)
    BY <1>1 DEF DiskOK
  <2> QED  BY <2>1, <2>2, RowPrefix
<1>9. PICK q \in Seq(Value) : LogOf(d) = InARow(Decoded(d), f) \o q
  BY <1>8, LogIs DEF Begins
<1>10. LogOf(d) = (x \o (y \o r)) \o q
  BY <1>1, <1>7, <1>9, FileRead
<1>11. (x \o (y \o r)) \o q = (x \o y) \o (r \o q) /\ x \o y \in Seq(Value) /\ r \o q \in Seq(Value)
  <2>1. x \o y \in Seq(Value) /\ r \o q \in Seq(Value)
    BY ConcatProperties
  <2>2. x \o (y \o r) = (x \o y) \o r
    BY ConcatAssociative, SMTT(20)
  <2>3. PICK z \in Seq(Value) : z = x \o y
    BY <2>1
  <2>4. (z \o r) \o q = z \o (r \o q)
    BY ConcatAssociative, SMTT(20)
  <2> QED  BY <2>1, <2>2, <2>3, <2>4
<1> QED  BY <1>5, <1>10, <1>11 DEF Begins

LEMMA BeginsShorter ==
  ASSUME NEW S, NEW x \in Seq(S), NEW y, Begins(S, x, y)
  PROVE  y \in Seq(S) /\ Len(x) \in Nat /\ Len(y) \in Nat /\ Len(x) <= Len(y)
<1>1. PICK r \in Seq(S) : y = x \o r
  BY DEF Begins
<1>2. /\ x \o r \in Seq(S) /\ Len(x \o r) = Len(x) + Len(r)
      /\ Len(x) \in Nat /\ Len(r) \in Nat
  BY Concat
<1> QED  BY <1>1, <1>2

LEMMA MoreInFile ==
  ASSUME NEW d, DiskOK(d), NEW f, NEW p, At(d, f, p), p < d[f].size
  PROVE  Len(ReadTo(d, f, p)) < Len(LogOf(d))
<1>1. f \in 1 .. Count(d)
  BY DEF At
<1>2. /\ d[f].data \in Seq(Byte) /\ p \in Nat /\ d[f].size \in Nat
      /\ d[f].size <= Len(d[f].data) /\ Sound(d[f].data, d[f].size)
      /\ d[f].data[d[f].size].stop
  BY <1>1 DEF At, DiskOK, Good, File, Start
<1>3. Len(Upto(d[f].data, p)) < Len(Upto(d[f].data, d[f].size))
  BY <1>2, UptoLonger
<1>4. Upto(d[f].data, p) \in Seq(Value) /\ Upto(d[f].data, d[f].size) \in Seq(Value)
  BY <1>2, UptoGrows
<1>5. PICK x \in Seq(Value), y \in Seq(Value), z \in Seq(Value) :
        x = InARow(Decoded(d), f - 1) /\ y = Upto(d[f].data, p) /\ z = Upto(d[f].data, d[f].size)
  BY <1>1, <1>4, FileRead
<1>6. Len(x \o y) < Len(x \o z) /\ Len(x \o y) \in Nat /\ Len(x \o z) \in Nat
  <2>1. /\ Len(x \o y) = Len(x) + Len(y) /\ Len(x \o z) = Len(x) + Len(z)
        /\ Len(x) \in Nat /\ Len(y) \in Nat /\ Len(z) \in Nat
    BY Concat
  <2>2. Len(y) < Len(z)
    BY <1>3, <1>5
  <2> QED  BY <2>1, <2>2
<1>7. ReadTo(d, f, p) = x \o y /\ ReadTo(d, f, d[f].size) = x \o z
  BY <1>5 DEF ReadTo
<1>8. Len(ReadTo(d, f, d[f].size)) <= Len(LogOf(d)) /\ Len(LogOf(d)) \in Nat
  <2>1. /\ ReadTo(d, f, d[f].size) \in Seq(Value)
        /\ Begins(Value, ReadTo(d, f, d[f].size), LogOf(d))
    BY <1>1, FileRead, ReadBegins
  <2> QED  BY <2>1, BeginsShorter
<1> QED  BY <1>6, <1>7, <1>8

LEMMA MoreInLast ==
  ASSUME NEW d, DiskOK(d), NEW f \in 1 .. Count(d), d[Count(d)].size # 0
  PROVE  Len(ReadTo(d, f, 0)) < Len(LogOf(d))
<1> DEFINE n == Count(d)
<1>1. n \in 1 .. n /\ f - 1 \in Nat /\ n - 1 \in Nat /\ f - 1 <= n - 1 /\ n - 1 <= n
  BY DEF DiskOK
<1>2. /\ ReadTo(d, n, 0) = InARow(Decoded(d), n - 1) /\ At(d, n, 0)
      /\ ReadTo(d, f, 0) = InARow(Decoded(d), f - 1)
      /\ InARow(Decoded(d), f - 1) \in Seq(Value)
  BY <1>1, FileRead
<1>3. 0 < d[n].size
  BY <1>1 DEF DiskOK, File
<1>4. Len(ReadTo(d, n, 0)) < Len(LogOf(d))
  BY <1>2, <1>3, MoreInFile
<1>5. Begins(Value, InARow(Decoded(d), f - 1), InARow(Decoded(d), n - 1))
  <2>1. \A id \in 1 .. n - 1 : Decoded(d)[id] \in Seq(Value)
    <3>1. \A id \in 1 .. n : Decoded(d)[id] \in Seq(Value)
      BY LogIs
    <3>2. \A id \in 1 .. n - 1 : id \in 1 .. n
      BY <1>1
    <3> QED  BY <3>1, <3>2
  <2>2. PICK a \in Nat, b \in Nat : a = f - 1 /\ b = n - 1 /\ a <= b
    BY <1>1
  <2>3. \A id \in 1 .. b : Decoded(d)[id] \in Seq(Value)
    BY <2>1, <2>2
  <2>4. Begins(Value, InARow(Decoded(d), a), InARow(Decoded(d), b))
    BY ONLY <2>2, <2>3, a \in Nat, b \in Nat, RowPrefix
  <2> QED  BY <2>2, <2>4
<1>6. /\ Len(InARow(Decoded(d), f - 1)) <= Len(InARow(Decoded(d), n - 1))
      /\ Len(InARow(Decoded(d), f - 1)) \in Nat /\ Len(InARow(Decoded(d), n - 1)) \in Nat
  BY <1>2, <1>5, BeginsShorter
<1>7. Len(LogOf(d)) \in Nat
  BY LogIs
<1> QED  BY <1>2, <1>4, <1>6, <1>7

(* One read() takes the next record.                                       *)
LEMMA ReadOne ==
  ASSUME NEW d, DiskOK(d), NEW f, NEW p, At(d, f, p), p # d[f].size
  PROVE  LET rest == SubSeq(d[f].data, p + 1, Len(d[f].data))
             q    == p + HeadLength(rest)
         IN  /\ At(d, f, q)
             /\ ReadTo(d, f, q) = Append(ReadTo(d, f, p), Decode(Kind, rest))
<1>1. PICK s \in Seq(Byte), n \in Nat :
        /\ s = d[f].data /\ n = d[f].size /\ n <= Len(s) /\ Sound(s, n) /\ Start(s, n)
        /\ p \in Nat /\ p < n /\ Start(s, p) /\ f \in 1 .. Count(d)
  <2>1. f \in 1 .. Count(d) /\ d[f] \in File /\ Good(d[f])
    BY DEF At, DiskOK
  <2> QED  BY <2>1 DEF At, Good, File
<1>2. PICK b \in p + 1 .. n : s[b].stop /\ \A k \in p + 1 .. b - 1 : ~s[k].stop
  <2>1. s[n].stop
    BY <1>1 DEF Start
  <2> QED  BY <1>1, <2>1, NextStop
<1>3. b \in Nat /\ p < b /\ b <= n /\ b <= Len(s) /\ p <= n /\ p + (b - p) = b /\ b \in 0 .. n
  <2>1. Len(s) \in Nat
    OBVIOUS
  <2> QED  BY <1>1, <2>1
<1>4. /\ HeadLength(SubSeq(s, p + 1, Len(s))) = b - p
      /\ Decode(Kind, SubSeq(s, p + 1, Len(s))) = Decode(Kind, SubSeq(s, p + 1, b))
  BY <1>1, <1>2, <1>3, DecodeRest
<1>5. Upto(s, p) \in Seq(Value) /\ Upto(s, b) \in Seq(Value)
  BY <1>1, <1>3, UptoGrows
<1>6. Upto(s, b) = Upto(s, p) \o <<Decode(Kind, SubSeq(s, p + 1, b))>>
  <2>1. /\ s \in Seq(Byte) /\ p \in Nat /\ b \in Nat /\ p < b /\ b <= Len(s) /\ Start(s, p)
        /\ s[b].stop /\ (\A k \in p + 1 .. b - 1 : ~s[k].stop) /\ Upto(s, p) \in Seq(Value)
    BY <1>1, <1>2, <1>3, <1>5
  <2> QED  BY ONLY <2>1, UptoStep
<1>7. At(d, f, b)
  BY <1>1, <1>2, <1>3 DEF At, Start
<1>8. ReadTo(d, f, b) = Append(ReadTo(d, f, p), Decode(Kind, SubSeq(s, p + 1, b)))
  <2> DEFINE v == Decode(Kind, SubSeq(s, p + 1, b))
  <2>1. PICK x \in Seq(Value), y \in Seq(Value) : x = InARow(Decoded(d), f - 1) /\ y = Upto(s, p)
    BY <1>1, <1>5, FileRead
  <2>2. ReadTo(d, f, p) = x \o y /\ ReadTo(d, f, b) = x \o (y \o <<v>>)
    BY <1>1, <1>6, <2>1 DEF ReadTo
  <2> HIDE DEF v
  <2> DEFINE S == Value \cup {v}
  <2>3. x \in Seq(S) /\ y \in Seq(S) /\ v \in S
    OBVIOUS
  <2> HIDE DEF S
  <2>4. x \o (y \o <<v>>) = (x \o y) \o <<v>> /\ x \o y \in Seq(S)
    <3>1. <<v>> \in Seq(S)
      BY <2>3
    <3>2. PICK w \in Seq(S) : w = <<v>>
      BY <3>1
    <3>3. x \o (y \o w) = (x \o y) \o w
      BY <2>3, ConcatAssociative, SMTT(20)
    <3> QED  BY <2>3, <3>2, <3>3, ConcatProperties
  <2>5. Append(x \o y, v) = (x \o y) \o <<v>>
    BY <2>3, <2>4, AppendIsConcat
  <2> QED  BY <2>2, <2>4, <2>5 DEF v
<1> QED  BY <1>1, <1>3, <1>4, <1>7, <1>8

-----------------------------------------------------------------------------
\* Behind the bytes of f that count is the record v.
Written(f, v) ==
  LET s == SubSeq(f.data, 1, f.size)
  IN  /\ f.size <= Len(f.data) /\ f.data = s \o Bytes[v]
      /\ HeaderSize + Len(f.data) <= MaxSize

(* The inductive invariant.  A writer is at the end of the last file, and  *)
(* what it is in the middle of is behind what counts; a reader has read    *)
(* what comes before its place, or that and one value more at an empty end.*)
WriterInv ==
  /\ wpc \in {"down", "idle", "roll", "bytes", "size", "overrun"}
  /\ wpc = "down" => wfile = 0 /\ wnext = 1
  /\ wpc # "down" => /\ wfile = Count(disk) /\ wfile # 0 /\ wnext = wfile + 1
                     /\ rpc = "none"
  /\ wpc \in {"down", "idle"} => record = Default
  /\ wpc \in {"roll", "bytes", "size", "overrun"} => record \in Value
  /\ wpc \in {"idle", "roll", "bytes"} => disk[wfile].size = Len(disk[wfile].data)
  /\ wpc = "roll" => wnext <= FileMax
  /\ wpc = "bytes" => \/ HeaderSize + Len(disk[wfile].data) + Room[record] <= MaxSize
                      \/ Len(disk[wfile].data) = 0
  /\ wpc = "overrun" => Underestimated(record) \/ TooLong(record)
  /\ wpc = "size" => Written(disk[wfile], record)

AllRead == got = ReadTo(disk, rfile, rpos)
OneMoreRead ==
  /\ rfile = Count(disk) /\ disk[rfile].size = 0 /\ rpos = 0
  /\ got = Append(Log, Default) /\ rpc \in {"ask", "askNext", "done"}
ReaderInv ==
  /\ rpc \in {"none", "ask", "askNext", "read", "readNext", "done"}
  /\ rpc = "none" => got = <<>>
  /\ rpc # "none" =>
       /\ At(disk, rfile, rpos) /\ rnext \in Nat
       /\ rnext = rfile + 1 \/ (rfile = Count(disk) /\ rnext > Count(disk))
       /\ (AllRead \/ OneMoreRead)
  /\ rpc \in {"askNext", "readNext", "done"} => Eof
  /\ rpc = "done" => rfile = Count(disk)
  /\ rpc \in {"read", "readNext"} =>
       Len(got) < Len(Log) \/ disk[Count(disk)].size = 0

IndInv == DiskOK(disk) /\ WriterInv /\ ReaderInv

LEMMA InitInv == Init => IndInv
<1> SUFFICES ASSUME Init PROVE IndInv
  OBVIOUS
<1>1. DOMAIN disk = {} /\ disk \in [1 .. 0 -> File] /\ 1 .. 0 = {}
  BY DEF Init
<1>2. Count(disk) = 0
  BY <1>1, FS_EmptySet DEF Count
<1>3. DiskOK(disk)
  BY <1>1, <1>2, JournalAssumption DEF DiskOK
<1>4. WriterInv
  BY DEF Init, WriterInv
<1>5. ReaderInv
  BY DEF Init, ReaderInv
<1> QED  BY <1>3, <1>4, <1>5 DEF IndInv

(* Without a reader there is nothing to say of one.                        *)
LEMMA NoReader ==
  ASSUME IndInv, wpc # "down", UNCHANGED rvars
  PROVE  ReaderInv'
<1>1. rpc = "none" /\ got = <<>>
  BY DEF IndInv, WriterInv, ReaderInv
<1> QED  BY <1>1 DEF rvars, ReaderInv

LEMMA FilesInARow ==
  ASSUME IndInv
  PROVE  /\ Count(disk) \in Nat /\ Count(disk) <= FileMax /\ FileMax \in Nat
         /\ DOMAIN disk = 1 .. Count(disk)
         /\ \A id \in Nat : Exists(id) <=> id \in 1 .. Count(disk)
         /\ wpc # "down" => /\ wfile \in 1 .. Count(disk)
                            /\ disk[wfile] \in File /\ Good(disk[wfile])
<1>1. DiskOK(disk)
  BY DEF IndInv
<1>2. Count(disk) \in Nat /\ Count(disk) <= FileMax /\ FileMax \in Nat
  BY <1>1, JournalAssumption DEF DiskOK
<1>3. DOMAIN disk = 1 .. Count(disk)
  BY <1>1 DEF DiskOK
<1>4. wpc # "down" => wfile \in 1 .. Count(disk)
  BY <1>2 DEF IndInv, WriterInv
<1> QED  BY <1>1, <1>2, <1>3, <1>4 DEF Exists, DiskOK

(* The number a new writer takes is the one behind the last file.          *)
LEMMA NextNumber ==
  ASSUME IndInv, FindLastFileId <= FileMax
  PROVE  FindLastFileId = Count(disk) + 1
<1> DEFINE n == Count(disk)
<1>1. n \in Nat /\ n <= FileMax /\ FileMax \in Nat /\ \A id \in Nat : Exists(id) <=> id \in 1 .. n
  BY FilesInARow
<1> HIDE DEF n
<1>2. CASE n = 0
  BY <1>1, <1>2 DEF FindLastFileId, n
<1>3. CASE n # 0
  <2> DEFINE Free(k) == ~Exists(k) /\ \A j \in 2 .. k - 1 : Exists(j)
  <2>1. Exists(1) /\ n + 1 \in 2 .. FileMax + 1
    BY <1>1, <1>3
  <2>2. Free(n + 1)
    BY <1>1, <1>3
  <2>3. ASSUME NEW k \in 2 .. FileMax + 1, Free(k) PROVE k = n + 1
    <3>1. k \in Nat /\ ~(k \in 1 .. n) /\ (k > n + 1 => Exists(n + 1))
      BY <1>1, <1>3, <2>1, <2>3
    <3> QED  BY <1>1, <2>2, <3>1
  <2> HIDE DEF Free
  <2>4. (CHOOSE k \in 2 .. FileMax + 1 : Free(k)) = n + 1
    BY <2>1, <2>2, <2>3
  <2> QED  BY <2>1, <2>4 DEF FindLastFileId, Free, n
<1> QED  BY <1>2, <1>3

LEMMA NewFile ==
  ASSUME NEW d, DiskOK(d), NEW id, id = Count(d) + 1, id <= FileMax
  PROVE  LET e == [n \in DOMAIN d \cup {id} |-> IF n \in DOMAIN d THEN d[n] ELSE Empty]
         IN  /\ DiskOK(e) /\ Count(e) = id /\ LogOf(e) = LogOf(d) /\ e[id] = Empty
BY OneFileMore

LEMMA OpenWriterKeeps ==
  ASSUME IndInv, OpenWriter
  PROVE  IndInv' /\ Log' = Log
<1>1. PICK id : id = FindLastFileId /\ id = Count(disk) + 1 /\ id <= FileMax /\ id # 0
  BY NextNumber, FilesInARow DEF OpenWriter
<1>2. disk' = [n \in DOMAIN disk \cup {id} |-> IF n \in DOMAIN disk THEN disk[n] ELSE Empty]
  BY <1>1 DEF OpenWriter, Opened, Exists
<1>3. DiskOK(disk') /\ Count(disk') = id /\ LogOf(disk') = LogOf(disk) /\ disk'[id] = Empty
  BY <1>1, <1>2, NewFile DEF IndInv
<1>4. WriterInv'
  <2>1. /\ wpc' = "idle" /\ wfile' = id /\ wnext' = id + 1 /\ record' = Default /\ rpc' = "none"
    BY <1>1 DEF OpenWriter, IndInv, WriterInv, rvars
  <2>2. disk'[wfile'].size = Len(disk'[wfile'].data)
    BY <1>3, <2>1 DEF Empty
  <2> QED  BY <1>1, <1>3, <2>1, <2>2 DEF WriterInv
<1>5. ReaderInv'
  BY DEF IndInv, ReaderInv, OpenWriter, rvars
<1> QED  BY <1>3, <1>4, <1>5 DEF IndInv, Log

LEMMA BeginWriteKeeps ==
  ASSUME IndInv, NEW v \in Value, BeginWrite(v)
  PROVE  IndInv' /\ Log' = Log
<1>1. /\ wpc = "idle" /\ record' = v /\ wpc' = (IF Fits(v) THEN "bytes" ELSE "roll")
      /\ disk' = disk /\ wfile' = wfile /\ wnext' = wnext /\ UNCHANGED rvars
      /\ Fits(v) \/ wnext <= FileMax
  BY DEF BeginWrite
<1>2. /\ wfile = Count(disk) /\ wfile # 0 /\ wnext = wfile + 1 /\ rpc = "none"
      /\ disk[wfile].size = Len(disk[wfile].data)
  BY <1>1 DEF IndInv, WriterInv
<1>3. Fits(v) => HeaderSize + Len(disk[wfile].data) + Room[v] <= MaxSize
  <2>1. disk[wfile] \in File
    BY <1>1, FilesInARow
  <2>2. PICK l \in Nat, r \in Nat : l = disk[wfile].size /\ l = Len(disk[wfile].data) /\ r = Room[v]
    BY <1>2, <2>1, JournalAssumption DEF File
  <2> QED  BY <2>2, JournalAssumption DEF Fits, HeaderSize
<1>4. WriterInv'
  BY <1>1, <1>2, <1>3 DEF WriterInv, rvars
<1>5. ReaderInv'
  BY <1>1, NoReader
<1> QED  BY <1>1, <1>4, <1>5 DEF IndInv, Log

LEMMA RollOpens ==
  ASSUME IndInv, wpc = "roll"
  PROVE  LET e == Opened(wnext)
         IN  DiskOK(e) /\ Count(e) = wnext /\ LogOf(e) = Log /\ e[wnext] = Empty
<1>1. wnext = Count(disk) + 1 /\ wnext <= FileMax
  BY DEF IndInv, WriterInv
<1>2. Opened(wnext) = [n \in DOMAIN disk \cup {wnext} |-> IF n \in DOMAIN disk THEN disk[n] ELSE Empty]
  BY DEF Opened, Exists
<1> QED  BY <1>1, <1>2, NewFile DEF IndInv, Log

LEMMA RollKeeps ==
  ASSUME IndInv, Roll
  PROVE  IndInv' /\ Log' = Log
<1>1. /\ wpc = "roll" /\ wpc' = "bytes" /\ record' = record /\ UNCHANGED rvars
      /\ disk' = Opened(wnext) /\ wfile' = wnext /\ wnext' = wnext + 1
  BY DEF Roll
<1>2. DiskOK(disk') /\ Count(disk') = wnext /\ LogOf(disk') = Log /\ disk'[wnext] = Empty
  BY <1>1, RollOpens
<1>3. record \in Value /\ wnext # 0 /\ rpc' = "none"
  BY <1>1, FilesInARow DEF IndInv, WriterInv, rvars
<1>4. disk'[wfile'].size = Len(disk'[wfile'].data) /\ Len(disk'[wfile'].data) = 0
  BY <1>1, <1>2 DEF Empty
<1>5. WriterInv'
  BY <1>1, <1>2, <1>3, <1>4 DEF WriterInv
<1>6. ReaderInv'
  BY <1>1, NoReader
<1> QED  BY <1>2, <1>5, <1>6 DEF IndInv, Log

(* A writer that ends, or dies, leaves files that decode as before.        *)
LEMMA DownKeeps ==
  ASSUME IndInv, wpc # "down", Down, UNCHANGED rvars,
         disk' = disk \/ (wpc = "roll" /\ disk' = Opened(wnext))
  PROVE  IndInv' /\ Log' = Log
<1>1. DiskOK(disk') /\ Log' = Log
  BY RollOpens DEF IndInv, Log
<1>2. WriterInv'
  BY DEF Down, WriterInv
<1>3. ReaderInv'
  BY NoReader
<1> QED  BY <1>1, <1>2, <1>3 DEF IndInv

(* Bytes behind those that count.                                          *)
LEMMA BytesBehind ==
  ASSUME NEW f \in File, Good(f), f.size = Len(f.data), NEW w \in Seq(Byte),
         HeaderSize + Len(f.data) + Len(w) <= MaxSize
  PROVE  LET g == [f EXCEPT !.data = @ \o w]
         IN  /\ g \in File /\ Good(g) /\ Kept(g) = Kept(f) \o <<>>
             /\ g.data = SubSeq(g.data, 1, g.size) \o w
<1> DEFINE g == [f EXCEPT !.data = @ \o w]
<1>1. PICK s \in Seq(Byte) :
        /\ s = f.data
        /\ Start(s, Len(s)) /\ Sound(s, Len(s)) /\ Kept(f) = Upto(s, Len(s))
        /\ HeaderSize + Len(s) + Len(w) <= MaxSize
  BY DEF File, Good, Kept
<1>2. PICK t \in Seq(Byte) : t = s \o w
  BY Concat
<1>3. /\ Len(t) = Len(s) + Len(w) /\ Len(s) \in Nat /\ Len(w) \in Nat
      /\ \A j \in 1 .. Len(s) : t[j] = s[j]
  BY <1>2, Concat
<1>4. g.data = t /\ g.size = Len(s) /\ g \in File
  BY <1>1, <1>2 DEF File
<1>5. PICK k \in Nat : k = Len(s)
  BY <1>3
<1>6. k <= Len(t) /\ k <= Len(s) /\ \A j \in 1 .. k : s[j] = t[j]
  BY <1>3, <1>5
<1>7. Upto(t, k) = Upto(s, k)
  BY <1>6, UptoSame
<1>8. Sound(t, k)
  <2>1. ASSUME NEW n \in 1 .. k PROVE RecordAt(t, n) \in Seq(Value)
    <3>1. n \in Nat \ {0} /\ n <= Len(s) /\ n <= Len(t) /\ \A j \in 1 .. n : s[j] = t[j]
      BY <1>3, <1>6
    <3>2. RecordAt(s, n) = RecordAt(t, n)
      BY <3>1, RecordSame
    <3> QED  BY <1>1, <1>5, <3>2 DEF Sound
  <2> QED  BY <2>1 DEF Sound
<1>9. Start(t, k)
  BY <1>1, <1>5, <1>6 DEF Start
<1>10. HeaderSize + Len(t) <= MaxSize
  <2>1. PICK l \in Nat, h \in Nat : l = Len(s) /\ h = Len(w)
    BY <1>3
  <2>2. HeaderSize + l + h <= MaxSize /\ Len(t) = l + h
    BY <1>1, <1>3, <2>1
  <2> QED  BY <2>1, <2>2, JournalAssumption DEF HeaderSize
<1>11. Kept(f) \o <<>> = Kept(f)
  BY KeptType, ConcatEmptySeq
<1>12. SubSeq(t, 1, k) = s
  <2>1. /\ SubSeq(t, 0 + 1, k) \in Seq(Byte) /\ Len(SubSeq(t, 0 + 1, k)) = k - 0
        /\ \A j \in 1 .. k - 0 : SubSeq(t, 0 + 1, k)[j] = t[0 + j]
    BY <1>6, Cut
  <2>2. PICK x : x = SubSeq(t, 1, k)
    OBVIOUS
  <2>3. x \in Seq(Byte) /\ Len(x) = k /\ \A j \in 1 .. k : x[j] = s[j]
    BY <1>6, <2>1, <2>2
  <2>4. x = s
    BY <1>5, <2>3, SameBytes
  <2> QED  BY <2>2, <2>4
<1>13. g.data = SubSeq(g.data, 1, g.size) \o w
  BY <1>2, <1>4, <1>5, <1>12
<1>14. Good(g)
  BY <1>4, <1>5, <1>6, <1>8, <1>9, <1>10 DEF Good
<1>15. Kept(g) = Kept(f)
  BY <1>1, <1>4, <1>5, <1>7 DEF Kept
<1> QED  BY <1>4, <1>11, <1>13, <1>14, <1>15

(* The size that makes them count.                                         *)
LEMMA SizeCounts ==
  ASSUME NEW f \in File, Good(f), NEW v \in Value, Written(f, v)
  PROVE  LET g == [f EXCEPT !.size = Len(f.data)]
         IN  g \in File /\ Good(g) /\ Kept(g) = Kept(f) \o <<v>>
<1> DEFINE g == [f EXCEPT !.size = Len(f.data)]
<1>1. PICK t \in Seq(Byte), k \in Nat :
        /\ t = f.data /\ k = f.size /\ k <= Len(t) /\ Start(t, k) /\ Sound(t, k)
        /\ Kept(f) = Upto(t, k) /\ t = SubSeq(t, 1, k) \o Bytes[v]
        /\ HeaderSize + Len(t) <= MaxSize
  BY DEF File, Good, Kept, Written
<1>2. PICK s : s = SubSeq(t, 1, k)
  OBVIOUS
<1>3. s \in Seq(Byte) /\ Len(s) = k /\ \A j \in 1 .. k : s[j] = t[j]
  <2>1. /\ SubSeq(t, 0 + 1, k) \in Seq(Byte) /\ Len(SubSeq(t, 0 + 1, k)) = k - 0
        /\ \A j \in 1 .. k - 0 : SubSeq(t, 0 + 1, k)[j] = t[0 + j]
    BY <1>1, Cut
  <2>2. k - 0 = k /\ 0 + 1 = 1 /\ \A j \in 1 .. k : 0 + j = j
    OBVIOUS
  <2> QED  BY ONLY <1>2, <2>1, <2>2
<1>4. Upto(s, k) = Upto(t, k)
  <2>1. k <= Len(s) /\ k <= Len(t)
    BY <1>1, <1>3
  <2> QED  BY <1>3, <2>1, UptoSame
<1>5. Sound(s, k)
  <2>1. ASSUME NEW n \in 1 .. k PROVE RecordAt(s, n) \in Seq(Value)
    <3>1. n \in Nat \ {0} /\ n <= Len(s) /\ n <= Len(t) /\ \A j \in 1 .. n : s[j] = t[j]
      BY <1>1, <1>3
    <3>2. RecordAt(s, n) = RecordAt(t, n)
      BY <1>3, <3>1, RecordSame
    <3> QED  BY <1>1, <3>2 DEF Sound
  <2> QED  BY <2>1 DEF Sound
<1>6. Start(s, k)
  <2>1. k # 0 => s[k] = t[k]
    BY <1>3
  <2>2. Start(t, k)
    BY <1>1
  <2> QED  BY <2>1, <2>2 DEF Start
<1>7. s \o Bytes[v] = t
  BY <1>1, <1>2
<1>8. /\ Start(t, Len(t)) /\ Sound(t, Len(t))
      /\ Upto(t, Len(t)) = Upto(s, Len(s)) \o <<v>>
  <2>1. Start(s, Len(s)) /\ Sound(s, Len(s))
    BY <1>3, <1>5, <1>6
  <2>2. LET u == s \o Bytes[v]
        IN  /\ Start(u, Len(u)) /\ Sound(u, Len(u))
            /\ Upto(u, Len(u)) = Upto(s, Len(s)) \o <<v>>
    BY <1>3, <2>1, WriteOne
  <2> QED  BY <1>7, <2>2
<1>9. g.data = t /\ g.size = Len(t) /\ g \in File
  <2>1. Len(f.data) \in Nat /\ f.data = t
    BY <1>1
  <2>2. g = [size |-> Len(f.data), data |-> f.data]
    BY DEF File
  <2> QED  BY <2>1, <2>2 DEF File
<1>10. Good(g)
  BY <1>1, <1>8, <1>9 DEF Good
<1>11. Kept(g) = Kept(f) \o <<v>>
  <2>1. Kept(f) = Upto(s, Len(s))
    BY <1>1, <1>3, <1>4
  <2> QED  BY <1>8, <1>9, <2>1 DEF Kept
<1> QED  BY <1>9, <1>10, <1>11

(* What is left of the writer's file.                                      *)
LEMMA RoomLeft ==
  ASSUME IndInv, wpc = "bytes"
  PROVE  /\ Len(disk[wfile].data) \in Nat /\ Left = MaxSize - HeaderSize - Len(disk[wfile].data)
         /\ HeaderSize + Len(disk[wfile].data) <= MaxSize
         /\ \A h \in Nat : h <= Left => HeaderSize + Len(disk[wfile].data) + h <= MaxSize
<1>1. disk[wfile] \in File /\ Good(disk[wfile])
  BY FilesInARow
<1>2. PICK l \in Nat : l = Len(disk[wfile].data) /\ HeaderSize + l <= MaxSize
  BY <1>1 DEF File, Good
<1> QED  BY <1>2, JournalAssumption DEF Left, HeaderSize

(* The writer puts bytes behind those that count in its file, the last.    *)
LEMMA BytesKeep ==
  ASSUME IndInv, wpc = "bytes", NEW w \in Seq(Byte),
         HeaderSize + Len(disk[wfile].data) + Len(w) <= MaxSize,
         disk' = [disk EXCEPT ![wfile].data = @ \o w]
  PROVE  /\ DiskOK(disk') /\ Count(disk') = Count(disk) /\ LogOf(disk') = Log
         /\ disk'[wfile].data = SubSeq(disk'[wfile].data, 1, disk'[wfile].size) \o w
         /\ disk'[wfile] \in File /\ Good(disk'[wfile])
<1>1. /\ wfile = Count(disk) /\ wfile # 0 /\ disk[wfile].size = Len(disk[wfile].data)
      /\ DiskOK(disk)
  BY DEF IndInv, WriterInv
<1>2. wfile \in 1 .. Count(disk) /\ disk[wfile] \in File /\ Good(disk[wfile])
  BY FilesInARow
<1>3. PICK g : g = [disk[wfile] EXCEPT !.data = @ \o w]
  OBVIOUS
<1>4. /\ g \in File /\ Good(g) /\ Kept(g) = Kept(disk[wfile]) \o <<>>
      /\ g.data = SubSeq(g.data, 1, g.size) \o w
  BY <1>1, <1>2, <1>3, BytesBehind
<1>5. disk' = [disk EXCEPT ![Count(disk)] = g] /\ disk'[wfile] = g
  BY <1>1, <1>2, <1>3 DEF DiskOK
<1>6. DiskOK(disk') /\ Count(disk') = Count(disk) /\ LogOf(disk') = LogOf(disk) \o <<>>
  <2>1. <<>> \in Seq(Value) /\ Count(disk) # 0
    BY <1>1
  <2>2. DiskOK(disk) /\ g \in File /\ Good(g) /\ Kept(g) = Kept(disk[Count(disk)]) \o <<>>
    BY <1>1, <1>4
  <2>3. LET e == [disk EXCEPT ![Count(disk)] = g]
        IN  DiskOK(e) /\ Count(e) = Count(disk) /\ LogOf(e) = LogOf(disk) \o <<>>
    BY <2>1, <2>2, LastFileChanges
  <2> QED  BY <1>5, <2>3
<1>7. LogOf(disk) \o <<>> = Log
  BY <1>1, LogIs, ConcatEmptySeq DEF Log
<1> QED  BY <1>4, <1>5, <1>6, <1>7

LEMMA WriteBytesKeeps ==
  ASSUME IndInv, WriteBytes
  PROVE  IndInv' /\ Log' = Log
<1>1. /\ wpc = "bytes" /\ wpc' = "size" /\ wfile' = wfile /\ wnext' = wnext /\ record' = record
      /\ disk' = [disk EXCEPT ![wfile].data = @ \o Bytes[record]] /\ UNCHANGED rvars
      /\ Len(Bytes[record]) <= Left
  BY DEF WriteBytes
<1>2. /\ wfile = Count(disk) /\ wfile # 0 /\ wnext = wfile + 1 /\ record \in Value /\ rpc = "none"
  BY <1>1 DEF IndInv, WriterInv
<1>3. PICK w \in Seq(Byte) : w = Bytes[record] /\ HeaderSize + Len(disk[wfile].data) + Len(w) <= MaxSize
  BY <1>1, <1>2, RoomLeft, RecordAssumption
<1>4. /\ DiskOK(disk') /\ Count(disk') = Count(disk) /\ LogOf(disk') = Log
      /\ disk'[wfile].data = SubSeq(disk'[wfile].data, 1, disk'[wfile].size) \o w
      /\ Good(disk'[wfile])
  BY <1>1, <1>3, BytesKeep
<1>5. Written(disk'[wfile], record)
  BY <1>3, <1>4 DEF Written, Good
<1>6. WriterInv'
  BY <1>1, <1>2, <1>4, <1>5 DEF WriterInv, rvars
<1>7. ReaderInv'
  BY <1>1, NoReader
<1> QED  BY <1>4, <1>6, <1>7 DEF IndInv, Log

(* A record for which there is not the room in its file was estimated too  *)
(* low, or is too long for any file: the room asked for is there, or the   *)
(* file is new.                                                            *)
LEMMA OverrunKeeps ==
  ASSUME IndInv, Overrun
  PROVE  IndInv' /\ Log' = Log
<1>1. /\ wpc = "bytes" /\ wpc' = "overrun" /\ wfile' = wfile /\ wnext' = wnext
      /\ record' = record /\ UNCHANGED rvars /\ Len(Bytes[record]) > Left
      /\ disk' = [disk EXCEPT ![wfile].data = @ \o SubSeq(Bytes[record], 1, Left)]
  BY DEF Overrun
<1>2. /\ wfile = Count(disk) /\ wfile # 0 /\ wnext = wfile + 1 /\ record \in Value /\ rpc = "none"
      /\ \/ HeaderSize + Len(disk[wfile].data) + Room[record] <= MaxSize
         \/ Len(disk[wfile].data) = 0
  BY <1>1 DEF IndInv, WriterInv
<1>3. PICK l \in Nat, h \in Nat, r \in Nat :
             /\ l = Len(disk[wfile].data) /\ h = Len(Bytes[record]) /\ r = Room[record]
             /\ Left = MaxSize - HeaderSize - l /\ HeaderSize + l <= MaxSize
  BY <1>1, <1>2, RoomLeft, RecordAssumption, JournalAssumption
<1>4. Underestimated(record) \/ TooLong(record)
  <2>1. HeaderSize + l + r <= MaxSize \/ l = 0
    BY <1>2, <1>3
  <2>2. h > MaxSize - HeaderSize - l
    BY <1>1, <1>3
  <2>3. r < h \/ h > MaxSize - HeaderSize
    BY <2>1, <2>2, JournalAssumption DEF HeaderSize
  <2> QED  BY <1>3, <2>3 DEF Underestimated, TooLong
<1>5. PICK w \in Seq(Byte) : w = SubSeq(Bytes[record], 1, Left) /\ Len(w) = Left
  <2>1. PICK k \in Nat : k = Left /\ k <= h
    <3>1. MaxSize - HeaderSize - l \in Nat
      BY <1>3, JournalAssumption DEF HeaderSize
    <3>2. PICK k \in Nat : k = Left
      BY <1>3, <3>1
    <3>3. k <= h
      BY <1>1, <1>3, <3>2
    <3> QED  BY <3>2, <3>3
  <2>2. PICK s \in Seq(Byte) : s = Bytes[record] /\ k <= Len(s)
    BY <1>2, <1>3, <2>1, RecordAssumption
  <2>3. SubSeq(s, 0 + 1, k) \in Seq(Byte) /\ Len(SubSeq(s, 0 + 1, k)) = k - 0
    BY <2>2, Cut
  <2>4. k - 0 = k /\ 0 + 1 = 1
    OBVIOUS
  <2> QED  BY <2>1, <2>2, <2>3, <2>4
<1>6. HeaderSize + Len(disk[wfile].data) + Len(w) <= MaxSize
  <2>1. PICK k \in Nat : k = Len(w) /\ k = MaxSize - HeaderSize - l
    BY <1>3, <1>5
  <2>2. HeaderSize + l + k <= MaxSize
    BY <2>1, JournalAssumption DEF HeaderSize
  <2> QED  BY <1>3, <2>1, <2>2
<1>7. DiskOK(disk') /\ Count(disk') = Count(disk) /\ LogOf(disk') = Log
  BY <1>1, <1>5, <1>6, BytesKeep
<1>8. WriterInv'
  BY <1>1, <1>2, <1>4, <1>7 DEF WriterInv, Underestimated, TooLong, rvars
<1>9. ReaderInv'
  BY <1>1, NoReader
<1> QED  BY <1>7, <1>8, <1>9 DEF IndInv, Log

(* A record counts, whole, when its size is written.                       *)
LEMMA WriteSizeKeeps ==
  ASSUME IndInv, WriteSize
  PROVE  IndInv' /\ record \in Value /\ Log' = Append(Log, record)
<1>1. /\ wpc = "size" /\ wpc' = "idle" /\ wfile' = wfile /\ wnext' = wnext /\ record' = Default
      /\ disk' = [disk EXCEPT ![wfile].size = Len(disk[wfile].data)] /\ UNCHANGED rvars
  BY DEF WriteSize
<1>2. /\ wfile = Count(disk) /\ wfile # 0 /\ wnext = wfile + 1 /\ record \in Value /\ rpc = "none"
      /\ Written(disk[wfile], record) /\ DiskOK(disk)
  BY <1>1 DEF IndInv, WriterInv
<1>3. wfile \in 1 .. Count(disk) /\ disk[wfile] \in File /\ Good(disk[wfile])
  BY <1>1, FilesInARow
<1>4. PICK g : g = [disk[wfile] EXCEPT !.size = Len(disk[wfile].data)]
  OBVIOUS
<1>5. g \in File /\ Good(g) /\ Kept(g) = Kept(disk[wfile]) \o <<record>>
  BY <1>2, <1>3, <1>4, SizeCounts
<1>6. /\ disk' = [disk EXCEPT ![Count(disk)] = g] /\ disk'[wfile] = g
      /\ g.size = Len(g.data)
  BY <1>1, <1>2, <1>3, <1>4 DEF DiskOK, File
<1>7. DiskOK(disk') /\ Count(disk') = Count(disk) /\ LogOf(disk') = LogOf(disk) \o <<record>>
  <2>1. <<record>> \in Seq(Value) /\ Count(disk) # 0
    BY <1>2
  <2>2. Kept(g) = Kept(disk[Count(disk)]) \o <<record>>
    BY <1>2, <1>5
  <2> QED  BY <1>2, <1>5, <1>6, <2>1, <2>2, LastFileChanges
<1>8. LogOf(disk) \o <<record>> = Append(LogOf(disk), record)
  BY <1>2, LogIs, AppendIsConcat
<1>9. WriterInv'
  BY <1>1, <1>2, <1>6, <1>7 DEF WriterInv, rvars
<1>10. ReaderInv'
  BY <1>1, NoReader
<1> QED  BY <1>2, <1>7, <1>8, <1>9, <1>10 DEF IndInv, Log

-----------------------------------------------------------------------------
(* Readers change no file but the first, which they make.                  *)
LEMMA OpenReaderKeeps ==
  ASSUME IndInv, OpenReader
  PROVE  IndInv' /\ Log' = Log
<1>1. /\ wpc = "down" /\ disk' = Opened(1) /\ rfile' = 1 /\ rpos' = 0 /\ rnext' = 2
      /\ got' = <<>> /\ rpc' = "ask" /\ UNCHANGED wvars
  BY DEF OpenReader
<1>2. DiskOK(disk') /\ LogOf(disk') = LogOf(disk) /\ 1 \in 1 .. Count(disk')
  <2>1. CASE Exists(1)
    <3>1. disk' = disk
      <4>1. DOMAIN disk \cup {1} = DOMAIN disk
        BY <2>1 DEF Exists
      <4>2. disk = [n \in DOMAIN disk |-> disk[n]]
        BY DEF IndInv, DiskOK
      <4> QED  BY <1>1, <4>1, <4>2 DEF Opened, Exists
    <3> QED  BY <2>1, <3>1, FilesInARow DEF IndInv
  <2>2. CASE ~Exists(1)
    <3>1. 1 = Count(disk) + 1 /\ 1 <= FileMax
      BY <2>2, FilesInARow, JournalAssumption
    <3>2. disk' = [n \in DOMAIN disk \cup {1} |-> IF n \in DOMAIN disk THEN disk[n] ELSE Empty]
      BY <1>1 DEF Opened, Exists
    <3>3. DiskOK(disk') /\ Count(disk') = 1 /\ LogOf(disk') = LogOf(disk)
      BY <3>1, <3>2, NewFile DEF IndInv
    <3> QED  BY <3>3
  <2> QED  BY <2>1, <2>2
<1>3. WriterInv'
  BY <1>1 DEF IndInv, WriterInv, wvars
<1>4. At(disk', 1, 0) /\ ReadTo(disk', 1, 0) = <<>>
  <2>1. At(disk', 1, 0) /\ ReadTo(disk', 1, 0) = InARow(Decoded(disk'), 1 - 1)
    BY <1>2, FileRead
  <2>2. InARow(Decoded(disk'), 0) = <<>>
    BY RowNext
  <2> QED  BY <2>1, <2>2
<1>5. ReaderInv'
  BY <1>1, <1>4 DEF ReaderInv, AllRead
<1> QED  BY <1>2, <1>3, <1>5 DEF IndInv, Log

(* Where a reader is.                                                      *)
LEMMA ReaderAt ==
  ASSUME IndInv, rpc # "none"
  PROVE  /\ wpc = "down" /\ DiskOK(disk) /\ At(disk, rfile, rpos) /\ rnext \in Nat
         /\ rnext = rfile + 1 \/ (rfile = Count(disk) /\ rnext > Count(disk))
         /\ (AllRead \/ OneMoreRead)
         /\ rfile \in 1 .. Count(disk) /\ Count(disk) \in Nat
         /\ Exists(rnext) <=> rnext \in 1 .. Count(disk)
         /\ got \in Seq(Value \cup {Default})

<1>1. wpc = "down" /\ DiskOK(disk)
  BY DEF IndInv, WriterInv
<1>2. /\ At(disk, rfile, rpos) /\ rnext \in Nat /\ (AllRead \/ OneMoreRead)
      /\ rnext = rfile + 1 \/ (rfile = Count(disk) /\ rnext > Count(disk))
  BY DEF IndInv, ReaderInv
<1>3. rfile \in 1 .. Count(disk)
  BY <1>2 DEF At
<1>4. Count(disk) \in Nat /\ (Exists(rnext) <=> rnext \in 1 .. Count(disk))
  BY <1>2, FilesInARow
<1>5. got \in Seq(Value \cup {Default})
  <2>1. CASE AllRead
    <3>1. ReadTo(disk, rfile, rpos) \in Seq(Value)
      BY <1>1, <1>2, ReadBegins
    <3> QED  BY <2>1, <3>1 DEF AllRead
  <2>2. CASE OneMoreRead
    <3>1. Log \in Seq(Value)
      BY <1>1, LogIs DEF Log
    <3>2. PICK l \in Seq(Value \cup {Default}) : l = Log
      BY <3>1
    <3>3. Append(l, Default) \in Seq(Value \cup {Default})
      BY AppendProperties
    <3> QED  BY <2>2, <3>2, <3>3 DEF OneMoreRead
  <2> QED  BY <1>2, <2>1, <2>2
<1> QED  BY <1>1, <1>2, <1>3, <1>4, <1>5

(* A reader at the end of a file that is not the last has come to the head *)
(* of the next.                                                            *)
LEMMA HeadOfNext ==
  ASSUME IndInv, rpc \in {"askNext", "readNext"}, Exists(rnext)
  PROVE  /\ rnext \in 1 .. Count(disk) /\ At(disk, rnext, 0) /\ got = ReadTo(disk, rnext, 0)
         /\ Len(got) < Len(Log) \/ disk[Count(disk)].size = 0
<1>1. /\ DiskOK(disk) /\ At(disk, rfile, rpos) /\ (AllRead \/ OneMoreRead)
      /\ rnext = rfile + 1 \/ (rfile = Count(disk) /\ rnext > Count(disk))
      /\ rfile \in 1 .. Count(disk) /\ Count(disk) \in Nat /\ rnext \in 1 .. Count(disk)
  BY ReaderAt
<1>2. rnext = rfile + 1 /\ rfile # Count(disk) /\ rnext - 1 = rfile
  BY <1>1
<1>3. AllRead /\ rpos = disk[rfile].size
  BY <1>1, <1>2 DEF OneMoreRead, IndInv, ReaderInv, Eof
<1>4. got = InARow(Decoded(disk), rfile)
  BY <1>1, <1>3, FileRead DEF AllRead
<1>5. ReadTo(disk, rnext, 0) = InARow(Decoded(disk), rfile) /\ At(disk, rnext, 0)
  <2>1. rnext - 1 = rfile
    BY <1>2
  <2>2. ReadTo(disk, rnext, 0) = InARow(Decoded(disk), rnext - 1) /\ At(disk, rnext, 0)
    BY <1>1, FileRead
  <2> QED  BY <2>1, <2>2
<1>6. disk[Count(disk)].size # 0 => Len(ReadTo(disk, rnext, 0)) < Len(LogOf(disk))
  BY <1>1, MoreInLast
<1> QED  BY <1>1, <1>4, <1>5, <1>6 DEF Log

LEMMA NoNext ==
  ASSUME IndInv, rpc # "none", ~Exists(rnext)
  PROVE  rfile = Count(disk) /\ rnext > Count(disk)
<1>1. /\ rnext \in Nat /\ rfile \in 1 .. Count(disk) /\ Count(disk) \in Nat
      /\ rnext = rfile + 1 \/ (rfile = Count(disk) /\ rnext > Count(disk))
      /\ ~(rnext \in 1 .. Count(disk))
  BY ReaderAt
<1> QED  BY <1>1

LEMMA ReaderLeaves ==
  ASSUME IndInv, rpc # "none", UNCHANGED <<disk, wvars>>
  PROVE  DiskOK(disk') /\ WriterInv' /\ Log' = Log /\ Count(disk') = Count(disk)
<1>1. wpc = "down" /\ wpc' = "down" /\ disk' = disk
  BY ReaderAt DEF wvars
<1>2. WriterInv'
  BY <1>1 DEF wvars, IndInv, WriterInv
<1> QED  BY <1>1, <1>2 DEF IndInv, Log

LEMMA AskEofKeeps ==
  ASSUME IndInv, AskEof
  PROVE  IndInv' /\ Log' = Log
<1>1. /\ rpc = "ask" /\ rpc' = (IF Eof THEN "askNext" ELSE "read") /\ rfile' = rfile
      /\ rpos' = rpos /\ rnext' = rnext /\ got' = got /\ UNCHANGED <<disk, wvars>> /\ disk' = disk
  BY DEF AskEof
<1>2. DiskOK(disk') /\ WriterInv' /\ Log' = Log
  BY <1>1, ReaderLeaves
<1>3. /\ At(disk, rfile, rpos) /\ rnext \in Nat /\ (AllRead \/ OneMoreRead)
      /\ rnext = rfile + 1 \/ (rfile = Count(disk) /\ rnext > Count(disk))
  BY <1>1, ReaderAt
<1>4. CASE Eof
  <2>1. Eof' /\ rpc' = "askNext"
    BY <1>1, <1>4 DEF Eof
  <2>2. (AllRead \/ OneMoreRead)'
    BY <1>1, <1>2, <1>3, <2>1 DEF AllRead, OneMoreRead
  <2> QED  BY <1>1, <1>2, <1>3, <2>1, <2>2 DEF IndInv, ReaderInv
<1>5. CASE ~Eof
  <2>1. AllRead
    BY <1>3, <1>5 DEF OneMoreRead, Eof
  <2>2. rpos < disk[rfile].size
    <3>1. rpos \in 0 .. disk[rfile].size /\ rfile \in 1 .. Count(disk)
      BY <1>3 DEF At
    <3>2. disk[rfile].size \in Nat
      BY <3>1 DEF IndInv, DiskOK, File
    <3> QED  BY <1>5, <3>1, <3>2 DEF Eof
  <2>3. Len(got) < Len(Log)
    BY <1>3, <2>1, <2>2, MoreInFile DEF IndInv, AllRead, Log
  <2>4. AllRead' /\ Len(got') < Len(Log')
    BY <1>1, <1>2, <2>1, <2>3 DEF AllRead
  <2> QED  BY <1>1, <1>2, <1>3, <1>5, <2>4 DEF IndInv, ReaderInv
<1> QED  BY <1>4, <1>5

LEMMA AskNextKeeps ==
  ASSUME IndInv, AskNext
  PROVE  IndInv' /\ Log' = Log
<1>1. /\ rpc = "askNext" /\ rpc' = (IF Exists(rnext) THEN "read" ELSE "done") /\ NextFile
      /\ got' = got /\ UNCHANGED <<disk, wvars>> /\ disk' = disk
  BY DEF AskNext
<1>2. DiskOK(disk') /\ WriterInv' /\ Log' = Log
  BY <1>1, ReaderLeaves
<1>3. /\ At(disk, rfile, rpos) /\ rnext \in Nat /\ (AllRead \/ OneMoreRead)
      /\ Count(disk) \in Nat /\ rfile \in 1 .. Count(disk) /\ Eof
  BY <1>1, ReaderAt DEF IndInv, ReaderInv
<1>4. CASE Exists(rnext)
  <2>1. /\ rnext \in 1 .. Count(disk) /\ At(disk, rnext, 0) /\ got = ReadTo(disk, rnext, 0)
        /\ Len(got) < Len(Log) \/ disk[Count(disk)].size = 0
    BY <1>1, <1>4, HeadOfNext
  <2>2. rfile' = rnext /\ rpos' = 0 /\ rnext' = rnext + 1 /\ rpc' = "read"
    BY <1>1, <1>4 DEF NextFile
  <2>3. AllRead'
    BY <1>1, <2>1, <2>2 DEF AllRead
  <2>4. At(disk', rfile', rpos') /\ rnext' \in Nat /\ rnext' = rfile' + 1
    BY <1>1, <1>3, <2>1, <2>2
  <2>5. Len(got') < Len(Log') \/ disk'[Count(disk')].size = 0
    BY <1>1, <1>2, <2>1
  <2> QED  BY <1>2, <2>2, <2>3, <2>4, <2>5 DEF IndInv, ReaderInv
<1>5. CASE ~Exists(rnext)
  <2>1. rfile = Count(disk) /\ rnext > Count(disk)
    BY <1>1, <1>5, NoNext
  <2>2. rfile' = rfile /\ rpos' = rpos /\ rnext' = rnext + 1 /\ rpc' = "done"
    BY <1>1, <1>5 DEF NextFile
  <2>3. Eof' /\ rnext' \in Nat /\ rnext' > Count(disk')
    <3>1. PICK n \in Nat : n = Count(disk) /\ n = Count(disk') /\ rnext > n
      BY <1>1, <1>3, <2>1
    <3>2. rnext + 1 > n /\ rnext + 1 \in Nat
      BY <1>3, <3>1
    <3> QED  BY <1>1, <1>3, <2>2, <3>1, <3>2 DEF Eof
  <2>4. (AllRead \/ OneMoreRead)'
    BY <1>1, <1>2, <1>3, <2>2 DEF AllRead, OneMoreRead
  <2> QED  BY <1>1, <1>2, <1>3, <2>1, <2>2, <2>3, <2>4 DEF IndInv, ReaderInv
<1> QED  BY <1>4, <1>5

LEMMA ReadCountedKeeps ==
  ASSUME IndInv, ReadCounted
  PROVE  IndInv' /\ Log' = Log
<1>1. /\ rpc = "ask" /\ rpc' = "read" /\ Len(got) < Len(Log) /\ rfile' = rfile
      /\ rpos' = rpos /\ rnext' = rnext /\ got' = got /\ UNCHANGED <<disk, wvars>> /\ disk' = disk
  BY DEF ReadCounted
<1>2. DiskOK(disk') /\ WriterInv' /\ Log' = Log
  BY <1>1, ReaderLeaves
<1>3. /\ At(disk, rfile, rpos) /\ rnext \in Nat /\ (AllRead \/ OneMoreRead)
      /\ rnext = rfile + 1 \/ (rfile = Count(disk) /\ rnext > Count(disk))
  BY <1>1, ReaderAt
<1>4. AllRead
  <2>1. PICK l \in Seq(Value \cup {Default}) : l = Log
    BY LogIs DEF IndInv, Log
  <2>2. Len(Append(l, Default)) = Len(l) + 1 /\ Len(l) \in Nat
    OBVIOUS
  <2> QED  BY <1>1, <1>3, <2>1, <2>2 DEF OneMoreRead
<1>5. AllRead' /\ Len(got') < Len(Log')
  BY <1>1, <1>2, <1>4 DEF AllRead
<1> QED  BY <1>1, <1>2, <1>3, <1>5 DEF IndInv, ReaderInv

LEMMA ReadKeeps ==
  ASSUME IndInv, Read
  PROVE  IndInv' /\ Log' = Log
<1>1. /\ rpc = "read" /\ rpc' = "ask" /\ ~Eof /\ rfile' = rfile /\ rnext' = rnext
      /\ got' = Append(got, Decode(Kind, Rest)) /\ rpos' = rpos + HeadLength(Rest)
      /\ UNCHANGED <<disk, wvars>> /\ disk' = disk
  BY DEF Read
<1>2. DiskOK(disk') /\ WriterInv' /\ Log' = Log
  BY <1>1, ReaderLeaves
<1>3. /\ At(disk, rfile, rpos) /\ rnext \in Nat /\ AllRead
      /\ rnext = rfile + 1 \/ (rfile = Count(disk) /\ rnext > Count(disk))
  BY <1>1, ReaderAt DEF OneMoreRead
<1>4. /\ At(disk, rfile, rpos + HeadLength(Rest))
      /\ ReadTo(disk, rfile, rpos + HeadLength(Rest))
           = Append(ReadTo(disk, rfile, rpos), Decode(Kind, Rest))
  BY <1>1, <1>3, ReadOne DEF IndInv, Rest, Eof
<1>5. AllRead'
  BY <1>1, <1>3, <1>4 DEF AllRead
<1>6. At(disk', rfile', rpos')
  BY <1>1, <1>4
<1> QED  BY <1>1, <1>2, <1>3, <1>5, <1>6 DEF IndInv, ReaderInv

LEMMA ReadEofKeeps ==
  ASSUME IndInv, ReadEof
  PROVE  IndInv' /\ Log' = Log
<1>1. /\ rpc = "read" /\ rpc' = "readNext" /\ Eof /\ rfile' = rfile /\ rnext' = rnext
      /\ got' = got /\ rpos' = rpos /\ UNCHANGED <<disk, wvars>> /\ disk' = disk
  BY DEF ReadEof
<1>2. DiskOK(disk') /\ WriterInv' /\ Log' = Log
  BY <1>1, ReaderLeaves
<1>3. /\ At(disk, rfile, rpos) /\ rnext \in Nat /\ AllRead
      /\ rnext = rfile + 1 \/ (rfile = Count(disk) /\ rnext > Count(disk))
  BY <1>1, ReaderAt DEF OneMoreRead
<1>4. AllRead' /\ Eof' /\ (Len(got') < Len(Log') \/ disk'[Count(disk')].size = 0)
  BY <1>1, <1>2, <1>3 DEF AllRead, Eof, IndInv, ReaderInv
<1> QED  BY <1>1, <1>2, <1>3, <1>4 DEF IndInv, ReaderInv

LEMMA ReadNextKeeps ==
  ASSUME IndInv, ReadNext
  PROVE  IndInv' /\ Log' = Log
<1>1. /\ rpc = "readNext" /\ NextFile /\ UNCHANGED <<disk, wvars>> /\ disk' = disk
      /\ IF Exists(rnext) THEN rpc' = "read" /\ got' = got
                          ELSE rpc' = "ask" /\ got' = Append(got, Default)
  BY DEF ReadNext
<1>2. DiskOK(disk') /\ WriterInv' /\ Log' = Log
  BY <1>1, ReaderLeaves
<1>3. /\ At(disk, rfile, rpos) /\ rnext \in Nat /\ AllRead /\ Eof
      /\ Count(disk) \in Nat /\ rfile \in 1 .. Count(disk)
      /\ Len(got) < Len(Log) \/ disk[Count(disk)].size = 0
  BY <1>1, ReaderAt DEF OneMoreRead, IndInv, ReaderInv
<1>4. CASE Exists(rnext)
  <2>1. /\ rnext \in 1 .. Count(disk) /\ At(disk, rnext, 0) /\ got = ReadTo(disk, rnext, 0)
        /\ Len(got) < Len(Log) \/ disk[Count(disk)].size = 0
    BY <1>1, <1>4, HeadOfNext
  <2>2. rfile' = rnext /\ rpos' = 0 /\ rnext' = rnext + 1 /\ rpc' = "read" /\ got' = got
    BY <1>1, <1>4 DEF NextFile
  <2>3. AllRead'
    BY <1>1, <2>1, <2>2 DEF AllRead
  <2>4. At(disk', rfile', rpos') /\ rnext' \in Nat /\ rnext' = rfile' + 1
    BY <1>1, <1>3, <2>1, <2>2
  <2>5. Len(got') < Len(Log') \/ disk'[Count(disk')].size = 0
    BY <1>1, <1>2, <2>1, <2>2
  <2> QED  BY <1>2, <2>2, <2>3, <2>4, <2>5 DEF IndInv, ReaderInv
<1>5. CASE ~Exists(rnext)
  <2>1. rfile = Count(disk) /\ rnext > Count(disk)
    BY <1>1, <1>5, NoNext
  <2>2. /\ rfile' = rfile /\ rpos' = rpos /\ rnext' = rnext + 1 /\ rpc' = "ask"
        /\ got' = Append(got, Default)
    BY <1>1, <1>5 DEF NextFile
  <2>3. rnext' \in Nat /\ rnext' > Count(disk')
    <3>1. PICK n \in Nat : n = Count(disk) /\ n = Count(disk') /\ rnext > n
      BY <1>1, <1>3, <2>1
    <3>2. rnext + 1 > n /\ rnext + 1 \in Nat
      BY <1>3, <3>1
    <3> QED  BY <2>2, <3>1, <3>2
  <2>4. got = Log
    <3>1. got = ReadTo(disk, Count(disk), disk[Count(disk)].size)
      BY <1>3, <2>1 DEF AllRead, Eof
    <3> QED  BY <1>3, <2>1, <3>1, FileRead, LogIs DEF IndInv, Log
  <2>5. disk[Count(disk)].size = 0
    <3>1. Log \in Seq(Value)
      BY LogIs DEF IndInv, Log
    <3>2. ~(Len(Log) < Len(Log))
      BY <3>1
    <3> QED  BY <1>3, <2>4, <3>2
  <2>6. OneMoreRead'
    BY <1>1, <1>2, <1>3, <2>1, <2>2, <2>4, <2>5 DEF OneMoreRead, Eof
  <2>7. At(disk', rfile', rpos') /\ rfile' = Count(disk')
    BY <1>1, <1>3, <2>1, <2>2
  <2> QED  BY <1>2, <2>2, <2>3, <2>6, <2>7 DEF IndInv, ReaderInv
<1> QED  BY <1>4, <1>5

LEMMA CloseReaderKeeps ==
  ASSUME IndInv, CloseReader
  PROVE  IndInv' /\ Log' = Log
<1>1. rpc # "none" /\ rpc' = "none" /\ got' = <<>> /\ UNCHANGED <<disk, wvars>>
  BY DEF CloseReader
<1>2. DiskOK(disk') /\ WriterInv' /\ Log' = Log
  BY <1>1, ReaderLeaves
<1> QED  BY <1>1, <1>2 DEF IndInv, ReaderInv

-----------------------------------------------------------------------------
LEMMA StepInv ==
  ASSUME IndInv, [Next]_vars
  PROVE  /\ IndInv'
         /\ Log' = Log \/ \E v \in Value : Log' = Append(Log, v)
<1>1. CASE OpenWriter
  BY <1>1, OpenWriterKeeps
<1>2. CASE \E v \in Value : BeginWrite(v)
  BY <1>2, BeginWriteKeeps
<1>3. CASE Roll
  BY <1>3, RollKeeps
<1>4. CASE RollFails
  BY <1>4, DownKeeps DEF RollFails
<1>5. CASE WriteBytes
  BY <1>5, WriteBytesKeeps
<1>6. CASE WriteSize
  BY <1>6, WriteSizeKeeps
<1>7. CASE CloseWriter
  BY <1>7, DownKeeps DEF CloseWriter
<1>8. CASE Crash
  BY <1>8, DownKeeps DEF Crash
<1>9. CASE OpenReader
  BY <1>9, OpenReaderKeeps
<1>10. CASE AskEof
  BY <1>10, AskEofKeeps
<1>11. CASE AskNext
  BY <1>11, AskNextKeeps
<1>12. CASE ReadCounted
  BY <1>12, ReadCountedKeeps
<1>13. CASE Read
  BY <1>13, ReadKeeps
<1>14. CASE ReadEof
  BY <1>14, ReadEofKeeps
<1>15. CASE ReadNext
  BY <1>15, ReadNextKeeps
<1>16. CASE CloseReader
  BY <1>16, CloseReaderKeeps
<1>17. CASE UNCHANGED vars
  <2>1. IndInv'
    BY <1>17 DEF vars, wvars, rvars, IndInv, WriterInv, ReaderInv, AllRead, OneMoreRead, Log, Eof
  <2> QED  BY <1>17, <2>1 DEF vars, Log
<1>18. CASE Overrun
  BY <1>18, OverrunKeeps
<1> QED  BY <1>1, <1>2, <1>3, <1>4, <1>5, <1>6, <1>7, <1>8, <1>9, <1>10, <1>11, <1>12, <1>13,
            <1>14, <1>15, <1>16, <1>17, <1>18 DEF Next, Writer, Reader

(* Every reachable state has the invariant.                                *)
THEOREM JournalInvariance == Spec => []IndInv
<1>1. IndInv /\ [Next]_vars => IndInv'
  BY StepInv
<1> QED  BY <1>1, InitInv, PTL DEF Spec

LEMMA ReadNothing ==
  ASSUME IndInv, rpc = "none"
  PROVE  got = <<>> /\ got \in Seq(Value \cup {Default})
<1>1. got = <<>>
  BY DEF IndInv, ReaderInv
<1> QED  BY <1>1

(* A record goes past the end of its file only if serialize_size answers   *)
(* too little for it or no file has the room for it, for every set of      *)
(* records.                                                                *)
THEOREM OverrunAlwaysExplained == Spec => []OverrunExplained
<1>1. IndInv => OverrunExplained
  <2> SUFFICES ASSUME IndInv PROVE OverrunExplained
    OBVIOUS
  <2>1. PICK n \in Nat : /\ n = Count(disk) /\ n <= FileMax /\ FileMax \in Nat
                         /\ DOMAIN disk = 1 .. n
    BY FilesInARow
  <2>2. \A id \in 1 .. n : /\ disk[id].size \in 0 .. Len(disk[id].data)
                           /\ HeaderSize + Len(disk[id].data) <= MaxSize
    <3> SUFFICES ASSUME NEW id \in 1 .. n
                 PROVE  /\ disk[id].size \in 0 .. Len(disk[id].data)
                        /\ HeaderSize + Len(disk[id].data) <= MaxSize
      OBVIOUS
    <3>1. disk[id] \in File /\ Good(disk[id])
      BY <2>1 DEF IndInv, DiskOK
    <3> QED  BY <3>1 DEF File, Good
  <2>3. wfile \in 0 .. FileMax /\ wnext \in 1 .. FileMax + 1
    <3>1. CASE wpc = "down"
      BY <2>1, <3>1 DEF IndInv, WriterInv
    <3>2. CASE wpc # "down"
      <4>1. wfile = n /\ wnext = wfile + 1 /\ wfile # 0
        BY <2>1, <3>2 DEF IndInv, WriterInv
      <4> QED  BY <2>1, <4>1
    <3> QED  BY <3>1, <3>2
  <2>4. /\ wpc \in {"down", "idle", "roll", "bytes", "size", "overrun"} /\ record \in Value \cup {Default}
        /\ rpc \in {"none", "ask", "askNext", "read", "readNext", "done"}
    BY DEF IndInv, WriterInv, ReaderInv
  <2>5. got \in Seq(Value \cup {Default})
    BY ReadNothing, ReaderAt
  <2>6. wpc = "overrun" => Underestimated(record) \/ TooLong(record)
    BY DEF IndInv, WriterInv
  <2> QED  BY <2>1, <2>2, <2>3, <2>4, <2>5, <2>6 DEF OverrunExplained, TypeOK, Count
<1> QED  BY <1>1, JournalInvariance, PTL

(* What the files decode to grows by whole records, through every crash and*)
(* every restart of the writer.                                            *)
THEOREM LogImplemented == Spec => RefinesLog
<1>1. Init => JournalLog!Init
  <2> SUFFICES ASSUME Init PROVE Log = <<>>
    BY DEF JournalLog!Init
  <2>1. DiskOK(disk) /\ DOMAIN disk = {}
    BY InitInv DEF Init, IndInv
  <2>2. Count(disk) = 0
    BY <2>1, FS_EmptySet DEF Count
  <2> QED  BY <2>1, <2>2, LogIs, RowNext DEF Log
<1>2. IndInv /\ [Next]_vars => [JournalLog!Next]_Log
  BY StepInv DEF JournalLog!Next, JournalLog!Write
<1> QED  BY <1>1, <1>2, JournalInvariance, PTL DEF Spec, RefinesLog, JournalLog!Spec

LEMMA BeginsIsPrefix ==
  ASSUME NEW S, NEW x \in Seq(S), NEW y, Begins(S, x, y)
  PROVE  IsPrefix(x, y)
<1>1. PICK r \in Seq(S) : y = x \o r
  BY DEF Begins
<1>2. PICK z : z = x \o r
  OBVIOUS
<1>3. /\ z \in Seq(S) /\ Len(z) = Len(x) + Len(r) /\ Len(x) \in Nat /\ Len(r) \in Nat
      /\ \A j \in 1 .. Len(x) : z[j] = x[j]
  BY <1>2, Concat
<1>4. SubSeq(x, 1, Len(x)) = SubSeq(z, 1, Len(x))
  BY ONLY <1>3, x \in Seq(S), SMTT(20)
<1>5. Len(x) <= Len(z)
  BY <1>3
<1> QED  BY <1>1, <1>2, <1>4, <1>5 DEF IsPrefix

(* A reader gets what was written, in order; it is told of the end when it *)
(* has it all; and it gets a value nobody wrote only where the last file is*)
(* empty, which shows when no record equals T().                           *)
THEOREM ReadsWhatWasWrittenAlways ==
  ASSUME Default \notin Value
  PROVE  Spec => []ReadsWhatWasWritten
<1>1. IndInv => ReadsWhatWasWritten
  <2> SUFFICES ASSUME IndInv PROVE ReadsWhatWasWritten
    OBVIOUS
  <2>1. Log \in Seq(Value) /\ Count(disk) = Cardinality(DOMAIN disk)
    BY LogIs DEF IndInv, Log, Count
  <2>2. CASE rpc = "none"
    <3>1. got = <<>>
      BY <2>2, ReadNothing
    <3>2. Log = <<>> \o Log /\ <<>> \in Seq(Value)
      BY <2>1, ConcatEmptySeq
    <3>3. IsPrefix(<<>>, Log)
      BY <2>1, <3>2, BeginsIsPrefix DEF Begins
    <3>4. ToSet(got) = {}
      BY <3>1 DEF ToSet
    <3> QED  BY <2>2, <3>1, <3>3, <3>4 DEF ReadsWhatWasWritten
  <2>3. CASE rpc # "none" /\ AllRead
    <3>1. At(disk, rfile, rpos) /\ DiskOK(disk)
      BY <2>3, ReaderAt
    <3>2. got \in Seq(Value) /\ Begins(Value, got, Log)
      BY <2>3, <3>1, ReadBegins DEF AllRead, Log
    <3>3. IsPrefix(got, Log)
      BY <3>2, BeginsIsPrefix
    <3>4. Default \notin ToSet(got)
      BY <3>2 DEF ToSet
    <3>5. rpc = "done" => IsPrefix(Log, got)
      <4> SUFFICES ASSUME rpc = "done" PROVE IsPrefix(Log, got)
        OBVIOUS
      <4>1. rfile = Count(disk) /\ rpos = disk[rfile].size
        BY DEF IndInv, ReaderInv, Eof
      <4>2. got = LogOf(disk)
        BY <2>3, <3>1, <4>1, FileRead, LogIs DEF AllRead, At
      <4> QED  BY <3>3, <4>2 DEF Log
    <3> QED  BY <3>3, <3>4, <3>5 DEF ReadsWhatWasWritten
  <2>4. CASE rpc # "none" /\ OneMoreRead
    <3>1. got = Append(Log, Default) /\ disk[Count(disk)].size = 0
      BY <2>4 DEF OneMoreRead
    <3>2. IsPrefix(Log, got)
      <4>1. PICK l \in Seq(Value \cup {Default}) : l = Log
        BY <2>1
      <4>2. Append(l, Default) = l \o <<Default>>
        BY AppendIsConcat
      <4>3. <<Default>> \in Seq(Value \cup {Default}) /\ got = l \o <<Default>>
        BY <3>1, <4>1, <4>2
      <4>4. Begins(Value \cup {Default}, l, got)
        BY <4>3 DEF Begins
      <4> QED  BY <4>1, <4>4, BeginsIsPrefix
    <3> QED  BY <2>1, <3>1, <3>2 DEF ReadsWhatWasWritten
  <2> QED  BY <2>2, <2>3, <2>4, ReaderAt
<1> QED  BY <1>1, JournalInvariance, PTL

=============================================================================
