--------------------------- MODULE IouContextProofs ---------------------------
(***************************************************************************)
(* Proofs about IouContext, for every set of connections, every capacity,  *)
(* every number and size of messages, requests that fail and peers that    *)
(* are let go of: a peer that is served has one request per direction, and *)
(* the bytes between two ends are what was sent and not received.          *)
(***************************************************************************)
EXTENDS IouContext, Integers, SequenceTheorems, FiniteSetTheorems, WellFoundedInduction, TLAPS

-----------------------------------------------------------------------------
(* A set of natural numbers has a least one.                               *)
LEMMA LeastNumber ==
  ASSUME NEW T \in SUBSET Nat, T # {}
  PROVE  \E m \in T : \A k \in T : m <= k
<1> DEFINE R == {p \in Nat \X Nat : p[1] < p[2]}
<1>1. IsWellFoundedOn(R, Nat)
  BY NatLessThanWellFounded DEF OpToRel
<1>2. PICK m \in T : \A k \in T : ~ (<<k, m>> \in R)
  BY <1>1, WFMin
<1>3. ASSUME NEW k \in T PROVE m <= k
  <2>1. ~ (<<k, m>> \in R) /\ k \in Nat /\ m \in Nat
    BY <1>2
  <2> QED  BY <2>1
<1> QED  BY <1>2, <1>3

-----------------------------------------------------------------------------
(* Sequences of bytes, as words that are put together and cut.             *)
LEMMA Concat ==
  ASSUME NEW S, NEW s \in Seq(S), NEW r \in Seq(S)
  PROVE  /\ s \o r \in Seq(S) /\ Len(s \o r) = Len(s) + Len(r)
         /\ Len(s) \in Nat /\ Len(r) \in Nat
         /\ \A j \in 1 .. Len(s) : (s \o r)[j] = s[j]
         /\ \A j \in 1 .. Len(r) : (s \o r)[Len(s) + j] = r[j]
<1>1. PICK k \in Nat, h \in Nat : k = Len(s) /\ h = Len(r)
  OBVIOUS
<1>2. /\ s \o r \in Seq(S) /\ Len(s \o r) = k + h
      /\ \A j \in 1 .. k + h : (s \o r)[j] = IF j <= k THEN s[j] ELSE r[j - k]
  BY <1>1, ConcatProperties
<1>3. \A j \in 1 .. k : (s \o r)[j] = s[j]
  BY <1>2
<1>4. \A j \in 1 .. h : (s \o r)[k + j] = r[j]
  <2> SUFFICES ASSUME NEW j \in 1 .. h PROVE (s \o r)[k + j] = r[j]
    OBVIOUS
  <2>1. k + j \in 1 .. k + h /\ ~(k + j <= k) /\ (k + j) - k = j
    BY <1>1
  <2> QED  BY <1>2, <2>1
<1> QED  BY <1>1, <1>2, <1>3, <1>4

LEMMA Sub ==
  ASSUME NEW S, NEW s \in Seq(S), NEW a \in Nat, NEW z \in Nat, a <= z, z <= Len(s)
  PROVE  /\ SubSeq(s, a + 1, z) \in Seq(S) /\ Len(SubSeq(s, a + 1, z)) = z - a
         /\ \A j \in 1 .. z - a : SubSeq(s, a + 1, z)[j] = s[a + j]
<1>1. PICK l \in Nat, h \in Nat : l = Len(s) /\ z = a + h /\ z - a = h
  <2>1. Len(s) \in Nat /\ z - a \in Nat /\ z = a + (z - a)
    OBVIOUS
  <2> QED  BY <2>1
<1>2. \A j \in a + 1 .. z : s[j] \in S
  BY <1>1
<1>3. a + 1 \in 1 .. l + 1 /\ z \in a .. l /\ (a + 1) + h - 1 = z
  BY <1>1
<1> QED  BY <1>1, <1>2, <1>3, SMTT(20)

Word == Seq(Byte)
Cat(a, b) == a \o b
First(s, n) == SubSeq(s, 1, n)
Begins(a, b) == \E r \in Word : b = Cat(a, r)

LEMMA CatType ==
  ASSUME NEW a \in Word, NEW b \in Word
  PROVE  Cat(a, b) \in Word /\ Len(Cat(a, b)) = Len(a) + Len(b) /\ Len(a) \in Nat
BY Concat DEF Cat, Word

Made(s, a, b, k, l) ==
  /\ Len(s) = k + l
  /\ \A j \in 1 .. k : s[j] = a[j]
  /\ \A j \in 1 .. l : s[k + j] = b[j]
LEMMA CatMade ==
  ASSUME NEW a \in Word, NEW b \in Word, NEW k \in Nat, NEW l \in Nat,
         k = Len(a), l = Len(b)
  PROVE  Cat(a, b) \in Word /\ Made(Cat(a, b), a, b, k, l)
BY Concat DEF Cat, Word, Made

LEMMA SameWord ==
  ASSUME NEW s \in Word, NEW t \in Word, NEW h \in Nat,
         Len(s) = h, Len(t) = h, \A j \in 1 .. h : s[j] = t[j]
  PROVE  s = t
BY SeqEqual DEF Word

\* Where an item of a word made of two comes from.
LEMMA MadeOf ==
  ASSUME NEW s, NEW a, NEW b, NEW k \in Nat, NEW l \in Nat, Made(s, a, b, k, l),
         NEW j \in 1 .. k + l
  PROVE  \/ j \in 1 .. k /\ s[j] = a[j]
         \/ \E i \in 1 .. l : j = k + i /\ s[j] = b[i]
<1>1. CASE j <= k
  BY <1>1 DEF Made
<1>2. CASE j > k
  <2>1. j - k \in 1 .. l /\ j = k + (j - k)
    BY <1>2
  <2>2. s[k + (j - k)] = b[j - k]
    BY <2>1 DEF Made
  <2> QED  BY <2>1, <2>2
<1> QED  BY <1>1, <1>2

LEMMA CatAssoc ==
  ASSUME NEW a \in Word, NEW b \in Word, NEW c \in Word
  PROVE  Cat(Cat(a, b), c) = Cat(a, Cat(b, c))
BY ConcatAssociative, SMTT(20) DEF Cat, Word

LEMMA CatEmpty ==
  /\ <<>> \in Word /\ Len(<<>>) = 0
  /\ \A a \in Word : Cat(a, <<>>) = a /\ Cat(<<>>, a) = a
BY ConcatEmptySeq DEF Cat, Word

(* One word cut in two ways.                                               *)
Overlap(a, b, c, d) == \E m \in Word : c = Cat(a, m) /\ b = Cat(m, d)
LEMMA CatLevi ==
  ASSUME NEW a \in Word, NEW b \in Word, NEW c \in Word, NEW d \in Word,
         Cat(a, b) = Cat(c, d), Len(a) <= Len(c)
  PROVE  Overlap(a, b, c, d)
<1>1. PICK k \in Nat, l \in Nat, h \in Nat, o \in Nat :
        k = Len(a) /\ l = Len(b) /\ Len(c) = k + h /\ o = Len(d) /\ l = h + o
  <2>1. Len(a) \in Nat /\ Len(b) \in Nat /\ Len(c) \in Nat /\ Len(d) \in Nat
    BY CatType
  <2>2. Len(a) + Len(b) = Len(c) + Len(d)
    <3>1. Len(Cat(a, b)) = Len(a) + Len(b)
      BY CatType
    <3>2. Len(Cat(c, d)) = Len(c) + Len(d)
      BY CatType
    <3> QED  BY <3>1, <3>2
  <2>3. Len(c) - Len(a) \in Nat /\ Len(c) = Len(a) + (Len(c) - Len(a))
        /\ Len(b) = (Len(c) - Len(a)) + Len(d)
    BY <2>1, <2>2
  <2> QED  BY <2>1, <2>3
<1>2. PICK s : s = Cat(a, b) /\ Made(s, a, b, k, l) /\ Made(s, c, d, k + h, o)
  <2>1. Made(Cat(a, b), a, b, k, l)
    BY <1>1, CatMade
  <2>2. Made(Cat(c, d), c, d, k + h, o)
    <3>1. k + h \in Nat
      OBVIOUS
    <3> QED  BY <1>1, <3>1, CatMade
  <2> QED  BY <2>1, <2>2
<1>3. PICK m \in Word : Len(m) = h /\ \A j \in 1 .. h : m[j] = c[k + j]
  <2> DEFINE m == [j \in 1 .. h |-> c[k + j]]
  <2>1. \A j \in 1 .. h : c[k + j] \in Byte
    BY <1>1 DEF Word
  <2>2. m \in Word /\ Len(m) = h /\ \A j \in 1 .. h : m[j] = c[k + j]
    BY <2>1 DEF Word
  <2> QED  BY <2>2
<1>4. c = Cat(a, m)
  <2>1. PICK t \in Word : t = Cat(a, m) /\ Made(t, a, m, k, h)
    BY <1>1, <1>3, CatMade
  <2>2. ASSUME NEW j \in 1 .. k + h PROVE c[j] = t[j]
    <3>1. s[j] = c[j]
      BY <1>2 DEF Made
    <3>2. CASE j \in 1 .. k /\ t[j] = a[j]
      <4>1. s[j] = a[j]
        BY <1>2, <3>2 DEF Made
      <4> QED  BY <3>1, <3>2, <4>1
    <3>3. CASE \E i \in 1 .. h : j = k + i /\ t[j] = m[i]
      BY <1>3, <3>3
    <3> QED  BY <2>1, <3>2, <3>3, MadeOf
  <2>3. Len(t) = k + h /\ k + h \in Nat
    BY <2>1 DEF Made
  <2> QED  BY <1>1, <2>1, <2>2, <2>3, SameWord
<1>5. b = Cat(m, d)
  <2>1. PICK t \in Word : t = Cat(m, d) /\ Made(t, m, d, h, o)
    BY <1>1, <1>3, CatMade
  <2>2. ASSUME NEW j \in 1 .. h + o PROVE b[j] = t[j]
    <3>1. s[k + j] = b[j]
      BY <1>1, <1>2 DEF Made
    <3>2. CASE j \in 1 .. h /\ t[j] = m[j]
      <4>1. k + j \in 1 .. k + h
        BY <3>2
      <4>2. s[k + j] = c[k + j]
        BY <1>2, <4>1 DEF Made
      <4> QED  BY <1>3, <3>1, <3>2, <4>2
    <3>3. CASE \E i \in 1 .. o : j = h + i /\ t[j] = d[i]
      <4>1. PICK i \in 1 .. o : j = h + i /\ t[j] = d[i] /\ k + j = (k + h) + i
        BY <3>3
      <4>2. s[(k + h) + i] = d[i]
        BY <1>2 DEF Made
      <4> QED  BY <3>1, <4>1, <4>2
    <3>4. (j \in 1 .. h /\ t[j] = m[j]) \/ \E i \in 1 .. o : j = h + i /\ t[j] = d[i]
      <4>1. Made(t, m, d, h, o)
        BY <2>1
      <4> QED  BY ONLY <4>1, MadeOf, h \in Nat, o \in Nat, j \in 1 .. h + o
    <3> QED  BY <3>2, <3>3, <3>4
  <2>3. Len(t) = h + o /\ h + o \in Nat /\ Len(b) = h + o
    BY <1>1, <2>1 DEF Made
  <2> QED  BY ONLY <2>1, <2>2, <2>3, SameWord, b \in Word
<1> QED  BY <1>4, <1>5 DEF Overlap

LEMMA CatCancel ==
  ASSUME NEW a \in Word, NEW b \in Word, NEW c \in Word, NEW d \in Word,
         Cat(a, b) = Cat(c, d), Len(a) = Len(c)
  PROVE  a = c /\ b = d
<1>1. Len(a) <= Len(c)
  OBVIOUS
<1>2. PICK m \in Word : c = Cat(a, m) /\ b = Cat(m, d)
  <2>1. Overlap(a, b, c, d)
    BY <1>1, CatLevi
  <2> QED  BY <2>1 DEF Overlap
<1>3. Len(m) = 0
  <2>1. Len(c) = Len(a) + Len(m) /\ Len(a) \in Nat /\ Len(m) \in Nat
    BY <1>2, CatType
  <2> QED  BY <2>1
<1>4. m = <<>>
  BY <1>3 DEF Word
<1> QED  BY <1>2, <1>4, CatEmpty

(* The first n of some bytes, and the rest.                                *)
LEMMA Split ==
  ASSUME NEW s \in Word, NEW n \in Nat, n <= Len(s)
  PROVE  /\ First(s, n) \in Word /\ Len(First(s, n)) = n
         /\ Drop(s, n) \in Word /\ Len(Drop(s, n)) = Len(s) - n
         /\ s = Cat(First(s, n), Drop(s, n))
<1>1. PICK h \in Nat : Len(s) = n + h /\ Len(s) - n = h
  <2>1. Len(s) - n \in Nat /\ Len(s) = n + (Len(s) - n)
    BY CatType
  <2> QED  BY <2>1
<1>2. PICK a \in Word : /\ a = First(s, n) /\ Len(a) = n
                             /\ \A j \in 1 .. n : a[j] = s[j]
  <2>1. 0 \in Nat /\ 0 <= n /\ n <= Len(s) /\ 0 + 1 = 1 /\ n - 0 = n
    OBVIOUS
  <2>2. /\ SubSeq(s, 0 + 1, n) \in Word /\ Len(SubSeq(s, 0 + 1, n)) = n - 0
        /\ \A j \in 1 .. n - 0 : SubSeq(s, 0 + 1, n)[j] = s[0 + j]
    BY <2>1, Sub DEF Word
  <2>3. \A j \in 1 .. n : 0 + j = j
    OBVIOUS
  <2> QED  BY <2>1, <2>2, <2>3 DEF Word, First
<1>3. PICK b \in Word : /\ b = Drop(s, n) /\ Len(b) = h
                             /\ \A j \in 1 .. h : b[j] = s[n + j]
  <2>1. /\ SubSeq(s, n + 1, n + h) \in Word /\ Len(SubSeq(s, n + 1, n + h)) = (n + h) - n
        /\ \A j \in 1 .. (n + h) - n : SubSeq(s, n + 1, n + h)[j] = s[n + j]
    <3>1. n + h \in Nat /\ n <= n + h /\ n + h <= Len(s)
      BY <1>1
    <3> QED  BY <3>1, Sub DEF Word
  <2>2. (n + h) - n = h
    OBVIOUS
  <2> QED  BY <1>1, <2>1, <2>2 DEF Drop, Word
<1>4. PICK t \in Word : t = Cat(a, b) /\ Made(t, a, b, n, h)
  BY <1>2, <1>3, CatMade
<1>5. ASSUME NEW j \in 1 .. n + h PROVE s[j] = t[j]
  <2>1. CASE j \in 1 .. n /\ t[j] = a[j]
    BY <1>2, <2>1
  <2>2. CASE \E i \in 1 .. h : j = n + i /\ t[j] = b[i]
    BY <1>3, <2>2
  <2> QED  BY <1>4, <2>1, <2>2, MadeOf
<1>6. s = t
  <2>1. Len(t) = n + h /\ n + h \in Nat
    BY <1>4 DEF Made
  <2> QED  BY <1>1, <1>5, <2>1, SameWord
<1> QED  BY <1>1, <1>2, <1>3, <1>4, <1>6

LEMMA DropHead ==
  ASSUME NEW a \in Word, NEW b \in Word
  PROVE  Drop(Cat(a, b), Len(a)) = b /\ First(Cat(a, b), Len(a)) = a
<1>1. PICK s \in Word, n \in Nat : s = Cat(a, b) /\ n = Len(a) /\ n <= Len(s)
  <2>1. Cat(a, b) \in Word /\ Len(a) \in Nat /\ Len(b) \in Nat
        /\ Len(Cat(a, b)) = Len(a) + Len(b)
    BY CatType
  <2> QED  BY <2>1
<1>2. /\ First(s, n) \in Word /\ Len(First(s, n)) = n
      /\ Drop(s, n) \in Word /\ s = Cat(First(s, n), Drop(s, n))
  BY <1>1, Split
<1> QED  BY <1>1, <1>2, CatCancel

LEMMA DropCat ==
  ASSUME NEW a \in Word, NEW b \in Word, NEW n \in Nat, n <= Len(a)
  PROVE  Drop(Cat(a, b), n) = Cat(Drop(a, n), b)
<1>1. PICK x \in Word, y \in Word :
        x = First(a, n) /\ y = Drop(a, n) /\ Len(x) = n /\ a = Cat(x, y)
  BY Split
<1>2. Cat(a, b) = Cat(x, Cat(y, b)) /\ Cat(y, b) \in Word
  BY <1>1, CatAssoc, CatType
<1>3. Drop(Cat(x, Cat(y, b)), Len(x)) = Cat(y, b)
  BY <1>2, DropHead
<1> QED  BY <1>1, <1>2, <1>3

-----------------------------------------------------------------------------
(* Messages one after the other.                                           *)
Sizes == Seq(Nat \ {0})
Message(z, n) == [i \in 1 .. z[n] |-> [n |-> n, i |-> i]]

LEMMA MessageType ==
  ASSUME NEW z \in Sizes, NEW n \in 1 .. Len(z)
  PROVE  /\ Message(z, n) \in Word /\ Len(Message(z, n)) = z[n] /\ z[n] \in Nat \ {0}
         /\ Message(z, n) # <<>> /\ Head(Message(z, n)) = [n |-> n, i |-> 1]
<1>1. PICK h \in Nat \ {0} : h = z[n]
  BY DEF Sizes
<1>2. PICK m : m = Message(z, n) /\ m = [i \in 1 .. h |-> [n |-> n, i |-> i]]
  BY <1>1 DEF Message
<1>3. \A i \in 1 .. h : [n |-> n, i |-> i] \in Byte
  BY DEF Byte
<1>4. m \in Word /\ Len(m) = h /\ m # <<>> /\ Head(m) = m[1] /\ 1 \in 1 .. h
  BY <1>2, <1>3 DEF Word
<1> QED  BY <1>1, <1>2, <1>4

IsRow(f, F, N) == f = [n \in 1 .. N |-> IF n = 1 THEN F[n] ELSE f[n - 1] \o F[n]]

LEMMA RowExists ==
  ASSUME NEW F, NEW N \in Nat
  PROVE  \E f : IsRow(f, F, N)
<1> DEFINE Bad == {k \in Nat : ~ \E f : IsRow(f, F, k)}
<1>1. SUFFICES ASSUME Bad # {} PROVE FALSE
  OBVIOUS
<1>2. PICK k \in Bad : \A j \in Bad : k <= j
  BY <1>1, LeastNumber
<1>3. CASE k = 0
  <2>1. IsRow([n \in 1 .. 0 |-> <<>>], F, 0)
    BY DEF IsRow
  <2> QED  BY <1>2, <1>3, <2>1
<1>4. CASE k # 0
  <2>1. k - 1 \in Nat /\ k - 1 \notin Bad /\ k \in Nat
    BY <1>2, <1>4
  <2>2. PICK g : IsRow(g, F, k - 1)
    BY <2>1
  <2> DEFINE L == IF k = 1 THEN F[k] ELSE g[k - 1] \o F[k]
             f == [n \in 1 .. k |-> IF n = k THEN L ELSE g[n]]
  <2>3. ASSUME NEW n \in 1 .. k
        PROVE  f[n] = IF n = 1 THEN F[n] ELSE f[n - 1] \o F[n]
    <3>1. n # 1 => n - 1 \in 1 .. k /\ n - 1 # k /\ f[n - 1] = g[n - 1]
      BY <2>1
    <3>2. CASE n = k
      BY <3>1, <3>2
    <3>3. CASE n # k
      <4>1. n \in 1 .. k - 1 /\ f[n] = g[n]
        BY <2>1, <3>3
      <4>2. g[n] = IF n = 1 THEN F[n] ELSE g[n - 1] \o F[n]
        BY <2>2, <4>1 DEF IsRow
      <4> QED  BY <3>1, <4>1, <4>2
    <3> QED  BY <3>2, <3>3
  <2>4. IsRow(f, F, k)
    BY <2>3 DEF IsRow
  <2> QED  BY <1>2, <2>4
<1> QED  BY <1>3, <1>4

LEMMA RowAgree ==
  ASSUME NEW F, NEW G, NEW N \in Nat \ {0}, NEW M \in Nat, N <= M,
         \A n \in 1 .. N : F[n] = G[n],
         NEW f, NEW g, IsRow(f, F, N), IsRow(g, G, M)
  PROVE  f[N] = g[N]
<1> DEFINE Bad == {k \in 1 .. N : f[k] # g[k]}
<1>1. SUFFICES ASSUME Bad # {} PROVE FALSE
  OBVIOUS
<1>2. PICK k \in Bad : \A j \in Bad : k <= j
  <2>1. Bad \in SUBSET Nat
    OBVIOUS
  <2> QED  BY <1>1, <2>1, LeastNumber
<1>3. /\ f[k] = IF k = 1 THEN F[k] ELSE f[k - 1] \o F[k]
      /\ g[k] = IF k = 1 THEN G[k] ELSE g[k - 1] \o G[k]
  <2>1. k \in 1 .. N /\ k \in 1 .. M
    OBVIOUS
  <2> QED  BY <2>1 DEF IsRow
<1>4. CASE k = 1
  BY <1>3, <1>4
<1>5. CASE k # 1
  <2>1. k \in 1 .. N /\ k - 1 \in 1 .. N /\ k - 1 \notin Bad
    BY <1>2, <1>5
  <2>2. f[k - 1] = g[k - 1] /\ F[k] = G[k]
    BY <2>1
  <2> QED  BY <1>3, <1>5, <2>2
<1> QED  BY <1>4, <1>5

\* FlattenSeq is the last of a row.
LEMMA RowFunction ==
  ASSUME NEW F, NEW N \in Nat, Len(F) = N
  PROVE  /\ N = 0 => FlattenSeq(F) = F
         /\ N # 0 => \E f : IsRow(f, F, N) /\ FlattenSeq(F) = f[N]
<1> DEFINE f == CHOOSE f : IsRow(f, F, N)
<1>1. IsRow(f, F, N)
  BY RowExists
<1>2. N # 0 => FlattenSeq(F) = f[N]
  BY DEF FlattenSeq, IsRow
<1>3. N = 0 => FlattenSeq(F) = F
  BY DEF FlattenSeq
<1> QED  BY <1>1, <1>2, <1>3

\* The messages of sizes z after the Dth, up to the Pth.
Listed(z, D, N) == [n \in 1 .. N |-> Message(z, D + n)]
Flat(z, D, P) == FlattenSeq([n \in 1 .. P - D |-> Message(z, D + n)])

IsListed(F, z, D, P, N) ==
  /\ F = Listed(z, D, N) /\ Flat(z, D, P) = FlattenSeq(F) /\ Len(F) = N
  /\ \A n \in 1 .. N : F[n] = Message(z, D + n)
LEMMA FlatListed ==
  ASSUME NEW z, NEW D \in Nat, NEW P \in Nat, NEW N \in Nat, P = D + N
  PROVE  IsListed(Listed(z, D, N), z, D, P, N)
<1>1. P - D = N
  OBVIOUS
<1>2. Len([n \in 1 .. N |-> Message(z, D + n)]) = N
  OBVIOUS
<1> QED  BY <1>1, <1>2 DEF IsListed, Flat, Listed

LEMMA FlatEmpty ==
  ASSUME NEW z, NEW D \in Nat
  PROVE  Flat(z, D, D) = <<>>
<1>1. PICK F : IsListed(F, z, D, D, 0)
  <2>1. 0 \in Nat /\ D = D + 0
    OBVIOUS
  <2> QED  BY <2>1, FlatListed
<1>2. F = <<>>
  BY <1>1 DEF IsListed, Listed
<1>3. 0 \in Nat
  OBVIOUS
<1> QED  BY <1>1, <1>2, <1>3, RowFunction DEF IsListed

LEMMA FlatNext ==
  ASSUME NEW z \in Sizes, NEW D \in Nat, NEW P \in Nat, D <= P, P < Len(z)
  PROVE  Flat(z, D, P + 1) =
           IF P = D THEN Message(z, P + 1) ELSE Flat(z, D, P) \o Message(z, P + 1)
<1>1. PICK N \in Nat, M \in Nat : P = D + N /\ P + 1 = D + M /\ M = N + 1
  <2>1. P - D \in Nat /\ (P - D) + 1 \in Nat /\ P = D + (P - D) /\ P + 1 = D + ((P - D) + 1)
    OBVIOUS
  <2> QED  BY <2>1
<1>2. PICK F : IsListed(F, z, D, P, N)
  BY <1>1, FlatListed
<1>3. PICK G : IsListed(G, z, D, P + 1, M)
  <2>1. P + 1 \in Nat
    OBVIOUS
  <2> QED  BY <1>1, <2>1, FlatListed
<1>4. PICK g : IsRow(g, G, M) /\ FlattenSeq(G) = g[M]
  <2>1. M # 0 /\ Len(G) = M
    BY <1>1, <1>3 DEF IsListed
  <2> QED  BY <2>1, RowFunction
<1>5. G[M] = Message(z, P + 1) /\ \A n \in 1 .. N : F[n] = G[n]
  <2>1. M \in 1 .. M /\ D + M = P + 1 /\ \A n \in 1 .. N : n \in 1 .. M
    BY <1>1
  <2> QED  BY <1>2, <1>3, <2>1 DEF IsListed
<1>6. CASE N = 0
  <2>1. M = 1 /\ 1 \in 1 .. M /\ P = D
    BY <1>1, <1>6
  <2>2. g[M] = G[M]
    BY <1>4, <2>1 DEF IsRow
  <2> QED  BY <1>3, <1>4, <1>5, <2>1, <2>2 DEF IsListed
<1>7. CASE N # 0
  <2>1. PICK f : IsRow(f, F, N) /\ FlattenSeq(F) = f[N]
    <3>1. Len(F) = N
      BY <1>2 DEF IsListed
    <3> QED  BY <1>7, <3>1, RowFunction
  <2>2. f[N] = g[N]
    <3>1. N <= M /\ N \in Nat \ {0}
      BY <1>1, <1>7
    <3> QED  BY <1>4, <1>5, <2>1, <3>1, RowAgree
  <2>3. g[M] = g[N] \o G[M] /\ P # D
    <3>1. M \in 1 .. M /\ M # 1 /\ M - 1 = N /\ P # D
      BY <1>1, <1>7
    <3> QED  BY <1>4, <3>1 DEF IsRow
  <2> QED  BY <1>2, <1>3, <1>4, <1>5, <2>1, <2>2, <2>3 DEF IsListed
<1> QED  BY <1>6, <1>7

LEMMA FlatType ==
  ASSUME NEW z \in Sizes, NEW D \in Nat, NEW P \in Nat, D <= P, P <= Len(z)
  PROVE  Flat(z, D, P) \in Word
<1> DEFINE Bad == {k \in Nat : D <= k /\ k <= P /\ Flat(z, D, k) \notin Word}
<1>1. SUFFICES ASSUME Bad # {} PROVE FALSE
  OBVIOUS
<1>2. PICK k \in Bad : \A j \in Bad : k <= j
  BY <1>1, LeastNumber
<1>3. CASE k = D
  BY <1>3, FlatEmpty, CatEmpty
<1>4. CASE k # D
  <2>1. PICK h \in Nat : k = h + 1 /\ D <= h /\ h < Len(z) /\ h + 1 \in 1 .. Len(z) /\ h \notin Bad /\ h <= P
    <3>1. k - 1 \in Nat /\ k = (k - 1) + 1 /\ D <= k - 1 /\ k - 1 < Len(z) /\ k - 1 <= P
      BY <1>4 DEF Sizes
    <3>2. k - 1 \notin Bad
      BY <1>2, <3>1
    <3> QED  BY <3>1, <3>2
  <2>2. Flat(z, D, h) \in Word
    BY <2>1
  <2>3. Message(z, h + 1) \in Word
    BY <2>1, MessageType
  <2>4. Cat(Flat(z, D, h), Message(z, h + 1)) \in Word
    BY <2>2, <2>3, CatType
  <2>5. Flat(z, D, h + 1) = Message(z, h + 1) \/ Flat(z, D, h + 1) = Cat(Flat(z, D, h), Message(z, h + 1))
    BY <2>1, FlatNext DEF Cat
  <2> QED  BY <2>1, <2>3, <2>4, <2>5
<1> QED  BY <1>3, <1>4

\* One more at the end.
LEMMA FlatLast ==
  ASSUME NEW z \in Sizes, NEW D \in Nat, NEW P \in Nat, D <= P, P < Len(z)
  PROVE  Flat(z, D, P + 1) = Cat(Flat(z, D, P), Message(z, P + 1))
<1>1. Message(z, P + 1) \in Word
  <2>1. P + 1 \in 1 .. Len(z)
    BY DEF Sizes
  <2> QED  BY <2>1, MessageType
<1>2. CASE P = D
  BY <1>1, <1>2, FlatNext, FlatEmpty, CatEmpty
<1>3. CASE P # D
  BY <1>3, FlatNext DEF Cat
<1> QED  BY <1>2, <1>3

\* One less at the front.
LEMMA FlatFirst ==
  ASSUME NEW z \in Sizes, NEW D \in Nat, NEW P \in Nat, D < P, P <= Len(z)
  PROVE  Flat(z, D, P) = Cat(Message(z, D + 1), Flat(z, D + 1, P))
<1> DEFINE Good(k) == Flat(z, D, k) = Cat(Message(z, D + 1), Flat(z, D + 1, k))
           Bad == {k \in Nat : D < k /\ k <= P /\ ~Good(k)}
<1>1. SUFFICES ASSUME Bad # {} PROVE FALSE
  OBVIOUS
<1>2. PICK k \in Bad : \A j \in Bad : k <= j
  BY <1>1, LeastNumber
<1>3. Message(z, D + 1) \in Word /\ D + 1 \in Nat
  <2>1. D + 1 \in 1 .. Len(z)
    BY DEF Sizes
  <2> QED  BY <2>1, MessageType
<1>4. CASE k = D + 1
  <2>1. Flat(z, D, D + 1) = Message(z, D + 1)
    <3>1. D <= D /\ D < Len(z)
      BY DEF Sizes
    <3> QED  BY <3>1, FlatNext
  <2> QED  BY <1>3, <1>4, <2>1, FlatEmpty, CatEmpty
<1>5. CASE k # D + 1
  <2>1. PICK h \in Nat : k = h + 1 /\ D < h /\ h < Len(z) /\ h + 1 \in 1 .. Len(z) /\ h \notin Bad /\ h <= P
    <3>1. k - 1 \in Nat /\ k = (k - 1) + 1 /\ D < k - 1 /\ k - 1 < Len(z) /\ k - 1 <= P
      BY <1>5 DEF Sizes
    <3>2. k - 1 \notin Bad
      BY <1>2, <3>1
    <3> QED  BY <3>1, <3>2
  <2>2. Good(h)
    BY <2>1
  <2> DEFINE a == Message(z, D + 1)
             b == Flat(z, D + 1, h)
             c == Message(z, h + 1)
  <2>3. D <= h /\ D + 1 <= h /\ D + 1 \in Nat /\ h <= Len(z)
    BY <2>1 DEF Sizes
  <2>4. a \in Word /\ b \in Word /\ c \in Word
    BY <1>3, <2>1, <2>3, MessageType, FlatType
  <2>5. Flat(z, D, h + 1) = Cat(Flat(z, D, h), c)
    BY <2>1, <2>3, FlatLast
  <2>6. Flat(z, D + 1, h + 1) = Cat(b, c)
    BY <2>1, <2>3, FlatLast
  <2>7. Cat(Cat(a, b), c) = Cat(a, Cat(b, c))
    BY <2>4, CatAssoc
  <2> QED  BY <2>1, <2>2, <2>5, <2>6, <2>7
<1> QED  BY <1>4, <1>5

\* Only the sizes of those messages count.
LEMMA FlatSame ==
  ASSUME NEW z, NEW w, NEW D \in Nat, NEW P \in Nat, D <= P,
         \A n \in D + 1 .. P : z[n] = w[n]
  PROVE  Flat(z, D, P) = Flat(w, D, P)
<1>1. \A n \in 1 .. P - D : Message(z, D + n) = Message(w, D + n)
  <2> SUFFICES ASSUME NEW n \in 1 .. P - D PROVE Message(z, D + n) = Message(w, D + n)
    OBVIOUS
  <2>1. z[D + n] = w[D + n]
    OBVIOUS
  <2> QED  BY <2>1 DEF Message
<1>2. [n \in 1 .. P - D |-> Message(z, D + n)] = [n \in 1 .. P - D |-> Message(w, D + n)]
  BY <1>1
<1> QED  BY <1>2 DEF Flat

-----------------------------------------------------------------------------
(* The ring, chain by chain: what is in the kernel, what is completed, and *)
(* what of it is a result.                                                 *)
Requests == [room : Nat, data : Word]
Result == Conn \cup Nat \cup Word
Finished == [peer : Peer, act : Action, noop : BOOLEAN, ok : BOOLEAN, res : Result]

Key(c) == <<c.peer, c.act>>
Flight(R, k) == R.inflight[k]
Done(R, k) == {c \in ToSet(R.cq) : Key(c) = k}
Got(R, k) == {c.res : c \in {d \in Done(R, k) : ~d.noop /\ d.ok}}

\* Nothing of the chain is there.
Alone(R, k) == Flight(R, k) = <<>> /\ Done(R, k) = {}
\* It is not put off.
Live(R, k) == Flight(R, k) # <<>> \/ \E c \in Done(R, k) : ~c.noop

RingType(R) == R \in [inflight : [Chain -> Seq(Requests)], cq : Seq(Finished)]
\* One request or completion of a chain.
Single(F, q) ==
  /\ \A k \in Chain : Len(F[k]) <= 1
  /\ \A i, j \in DOMAIN q : Key(q[i]) = Key(q[j]) => i = j
  /\ \A i \in DOMAIN q : F[Key(q[i])] = <<>>
RingOK(R) == RingType(R) /\ Single(R.inflight, R.cq)

\* A step of the ring that is about one chain.
Same(R, S, k) == Flight(S, k) = Flight(R, k) /\ Done(S, k) = Done(R, k)
Only(R, S, k) == \A j \in Chain : j # k => Same(R, S, j)

LEMMA KeyInChain ==
  ASSUME NEW c \in Finished
  PROVE  Key(c) \in Chain
BY DEF Finished, Key, Chain

\* The completion of a no-op, and that of a request that failed.
LEMMA MadeNoop ==
  ASSUME NEW p \in Peer, NEW act \in Action
  PROVE  \E c \in Finished : /\ c = Completion(p, act, TRUE, TRUE, 0)
                            /\ Key(c) = <<p, act>> /\ c.noop = TRUE
<1>1. PICK c : c = Completion(p, act, TRUE, TRUE, 0)
  OBVIOUS
<1>2. c \in Finished /\ Key(c) = <<p, act>> /\ c.noop = TRUE
  BY <1>1 DEF Finished, Key, Completion, Result
<1> QED  BY <1>1, <1>2

LEMMA MadeFailure ==
  ASSUME NEW p \in Peer, NEW act \in Action
  PROVE  \E c \in Finished : /\ c = Completion(p, act, FALSE, FALSE, 0)
                            /\ Key(c) = <<p, act>> /\ c.ok = FALSE
<1>1. PICK c : c = Completion(p, act, FALSE, FALSE, 0)
  OBVIOUS
<1>2. c \in Finished /\ Key(c) = <<p, act>> /\ c.ok = FALSE
  BY <1>1 DEF Finished, Key, Completion, Result
<1> QED  BY <1>1, <1>2

LEMMA RingFields ==
  ASSUME NEW R, RingType(R)
  PROVE  R.inflight \in [Chain -> Seq(Requests)] /\ R.cq \in Seq(Finished)
BY DEF RingType

LEMMA RingMade ==
  ASSUME NEW F \in [Chain -> Seq(Requests)], NEW q \in Seq(Finished), Single(F, q)
  PROVE  LET R == [inflight |-> F, cq |-> q] IN RingOK(R) /\ R.inflight = F /\ R.cq = q
BY DEF RingOK, RingType

LEMMA RingDone ==
  ASSUME NEW R, NEW k, RingType(R)
  PROVE  /\ \A c : c \in Done(R, k) <=> Key(c) = k /\ \E i \in DOMAIN R.cq : R.cq[i] = c
         /\ Done(R, k) \subseteq Finished
<1>1. R.cq \in Seq(Finished)
  BY RingFields
<1>2. ToSet(R.cq) = {R.cq[i] : i \in DOMAIN R.cq} /\ \A i \in DOMAIN R.cq : R.cq[i] \in Finished
  BY <1>1 DEF ToSet
<1> QED  BY <1>2 DEF Done

(* A completion is added.                                                  *)
LEMMA Pushed ==
  ASSUME NEW q \in Seq(Finished), NEW c \in Finished
  PROVE  /\ Append(q, c) \in Seq(Finished) /\ Len(q) + 1 \in DOMAIN Append(q, c)
         /\ Append(q, c)[Len(q) + 1] = c
         /\ \A i \in DOMAIN q : i \in DOMAIN Append(q, c) /\ Append(q, c)[i] = q[i]
         /\ \A i \in DOMAIN Append(q, c) : i \in DOMAIN q \/ i = Len(q) + 1
         /\ Len(q) + 1 \notin DOMAIN q
<1>1. Len(q) \in Nat /\ DOMAIN q = 1 .. Len(q)
  OBVIOUS
<1>2. Append(q, c) \in Seq(Finished) /\ DOMAIN Append(q, c) = 1 .. Len(q) + 1
  BY AppendProperties, <1>1
<1>3. \A i \in 1 .. Len(q) : Append(q, c)[i] = q[i]
  BY AppendProperties, <1>1
<1>4. Append(q, c)[Len(q) + 1] = c
  BY AppendProperties, <1>1
<1> QED  BY <1>1, <1>2, <1>3, <1>4

LEMMA PushRing ==
  ASSUME NEW F \in [Chain -> Seq(Requests)], NEW q \in Seq(Finished), Single(F, q),
         NEW c \in Finished, F[Key(c)] = <<>>, \A i \in DOMAIN q : Key(q[i]) # Key(c)
  PROVE  Single(F, Append(q, c))
<1>1. PICK w, n : /\ w = Append(q, c) /\ n \in DOMAIN w /\ w[n] = c
                  /\ \A i \in DOMAIN w : i \in DOMAIN q \/ i = n
                  /\ \A i \in DOMAIN q : w[i] = q[i]
  <2>1. /\ Len(q) + 1 \in DOMAIN Append(q, c) /\ Append(q, c)[Len(q) + 1] = c
        /\ \A i \in DOMAIN Append(q, c) : i \in DOMAIN q \/ i = Len(q) + 1
        /\ \A i \in DOMAIN q : Append(q, c)[i] = q[i]
    BY Pushed
  <2> QED  BY <2>1
<1>2. ASSUME NEW i \in DOMAIN w, NEW j \in DOMAIN w, Key(w[i]) = Key(w[j]) PROVE i = j
  BY <1>1, <1>2 DEF Single
<1>3. \A i \in DOMAIN w : F[Key(w[i])] = <<>>
  BY <1>1 DEF Single
<1> QED  BY <1>1, <1>2, <1>3 DEF Single

LEMMA PushDone ==
  ASSUME NEW R, NEW S, RingType(R), RingType(S), NEW c \in Finished,
         S.cq = Append(R.cq, c)
  PROVE  \A k : Done(S, k) = IF k = Key(c) THEN Done(R, k) \cup {c} ELSE Done(R, k)
<1>1. PICK q : q = R.cq /\ q \in Seq(Finished)
  BY RingFields
<1>2. PICK w, n : /\ w = Append(q, c) /\ n \in DOMAIN w /\ w[n] = c
                  /\ \A i \in DOMAIN w : i \in DOMAIN q \/ i = n
                  /\ \A i \in DOMAIN q : i \in DOMAIN w /\ w[i] = q[i]
  BY <1>1, Pushed
<1>3. S.cq = w
  BY <1>1, <1>2
<1>4. \A d : (\E i \in DOMAIN w : w[i] = d) <=> (d = c \/ \E i \in DOMAIN q : q[i] = d)
  BY <1>2
<1> SUFFICES ASSUME NEW k
             PROVE  Done(S, k) = IF k = Key(c) THEN Done(R, k) \cup {c} ELSE Done(R, k)
  OBVIOUS
<1>5. \A d : d \in Done(S, k) <=> Key(d) = k /\ \E i \in DOMAIN S.cq : S.cq[i] = d
  BY RingDone
<1>6. \A d : d \in Done(R, k) <=> Key(d) = k /\ \E i \in DOMAIN R.cq : R.cq[i] = d
  BY RingDone
<1>7. \A d : d \in Done(S, k) <=> d \in Done(R, k) \/ (d = c /\ Key(c) = k)
  BY <1>1, <1>3, <1>4, <1>5, <1>6
<1>8. CASE k = Key(c)
  BY <1>7, <1>8
<1>9. CASE k # Key(c)
  BY <1>7, <1>9
<1> QED  BY <1>8, <1>9

LEMMA DoneNone ==
  ASSUME NEW R, NEW k, RingType(R), Done(R, k) = {}
  PROVE  \A i \in DOMAIN R.cq : Key(R.cq[i]) # k
BY RingDone

\* What is in the kernel is not completed, and the other way.
LEMMA DoneOrFlight ==
  ASSUME NEW R, NEW k, RingOK(R), Flight(R, k) # <<>>
  PROVE  Done(R, k) = {}
BY RingDone DEF RingOK, Single, Flight

LEMMA DoneOne ==
  ASSUME NEW R, NEW k, RingOK(R), NEW c \in Done(R, k)
  PROVE  Done(R, k) = {c} /\ Flight(R, k) = <<>>
BY RingDone DEF RingOK, Single, Flight

LEMMA FlightOne ==
  ASSUME NEW R, NEW k \in Chain, RingOK(R), Flight(R, k) # <<>>
  PROVE  /\ Head(Flight(R, k)) \in Requests /\ Flight(R, k) = <<Head(Flight(R, k))>>
         /\ Tail(Flight(R, k)) = <<>>
<1>1. PICK s : s = Flight(R, k) /\ s \in Seq(Requests) /\ s # <<>> /\ Len(s) <= 1
  BY RingFields DEF RingOK, Single, Flight
<1>2. Len(s) \in Nat /\ Len(s) # 0
  BY <1>1, EmptySeq
<1>3. Len(s) = 1
  BY <1>1, <1>2
<1>4. PICK r \in Requests : r = s[1]
  BY <1>1, <1>3
<1>5. Head(s) = r /\ Tail(s) = <<>>
  <2>1. Head(s) = s[1] /\ Tail(s) \in Seq(Requests) /\ Len(Tail(s)) = Len(s) - 1
    BY <1>1, HeadTailProperties
  <2>2. Len(Tail(s)) = 0
    BY <1>3, <2>1
  <2> QED  BY <1>4, <2>1, <2>2, EmptySeq
<1>6. s = <<r>>
  <2>1. <<r>> \in Seq(Requests) /\ Len(<<r>>) = 1 /\ <<r>>[1] = r
    OBVIOUS
  <2>2. \A i \in 1 .. Len(s) : s[i] = <<r>>[i]
    BY <1>3, <1>4, <2>1
  <2> QED  BY <1>1, <1>3, <2>1, <2>2, SeqEqual
<1> QED  BY <1>1, <1>5, <1>6

LEMMA RecordCq ==
  ASSUME NEW F, NEW q, NEW w, NEW R, R = [inflight |-> F, cq |-> q]
  PROVE  [R EXCEPT !.cq = w] = [inflight |-> F, cq |-> w]
OBVIOUS
LEMMA RecordInflight ==
  ASSUME NEW F, NEW q, NEW G, NEW R, R = [inflight |-> F, cq |-> q]
  PROVE  [R EXCEPT !.inflight = G] = [inflight |-> G, cq |-> q]
OBVIOUS

(* A no-op.                                                                *)
LEMMA SignalRing ==
  ASSUME NEW R, RingOK(R), NEW p \in Peer, NEW act \in Action, Alone(R, <<p, act>>)
  PROVE  LET S == Signal(R, p, act)
             k == <<p, act>>
         IN  /\ RingOK(S) /\ Only(R, S, k) /\ Flight(S, k) = <<>>
             /\ Done(S, k) = {Completion(p, act, TRUE, TRUE, 0)}
<1>1. PICK c \in Finished : c = Completion(p, act, TRUE, TRUE, 0) /\ Key(c) = <<p, act>>
  BY MadeNoop
<1>2. PICK F, q : /\ F = R.inflight /\ q = R.cq /\ F \in [Chain -> Seq(Requests)]
                  /\ q \in Seq(Finished) /\ Single(F, q) /\ RingType(R)
                  /\ R = [inflight |-> F, cq |-> q]
  <2>1. /\ R.inflight \in [Chain -> Seq(Requests)]
        /\ R.cq \in Seq(Finished) /\ Single(R.inflight, R.cq) /\ RingType(R)
    BY RingFields DEF RingOK
  <2>2. R = [inflight |-> R.inflight, cq |-> R.cq]
    BY DEF RingOK, RingType
  <2> QED  BY <2>1, <2>2
<1>3. F[Key(c)] = <<>> /\ \A i \in DOMAIN q : Key(q[i]) # Key(c)
  BY <1>1, <1>2, DoneNone DEF Alone, Flight
<1>4. PICK S : S = [inflight |-> F, cq |-> Append(q, c)]
  OBVIOUS
<1>5. S = Signal(R, p, act)
  <2>1. Signal(R, p, act) = [R EXCEPT !.cq = Append(q, c)]
    BY <1>1, <1>2 DEF Signal
  <2> QED  BY <1>2, <1>4, <2>1, RecordCq
<1>6. RingOK(S) /\ S.inflight = F /\ S.cq = Append(q, c)
  <2>1. Single(F, Append(q, c)) /\ Append(q, c) \in Seq(Finished)
    BY <1>2, <1>3, PushRing, Pushed
  <2> QED  BY <1>2, <1>4, <2>1, RingMade
<1>7. \A k : Done(S, k) = IF k = Key(c) THEN Done(R, k) \cup {c} ELSE Done(R, k)
  <2>1. RingType(S)
    BY <1>6 DEF RingOK
  <2> QED  BY <1>2, <1>6, <2>1, PushDone
<1> QED  BY <1>1, <1>2, <1>5, <1>6, <1>7 DEF Only, Same, Alone, Flight

(* A request.                                                              *)
LEMMA SubmitRing ==
  ASSUME NEW R, RingOK(R), NEW p \in Peer, NEW act \in Action, Alone(R, <<p, act>>),
         NEW r \in Requests
  PROVE  LET S == Submit(R, p, act, r)
             k == <<p, act>>
         IN  /\ RingOK(S) /\ Only(R, S, k) /\ Flight(S, k) = <<r>> /\ Done(S, k) = {}
<1>1. PICK k \in Chain : k = <<p, act>>
  BY DEF Chain
<1>2. PICK F, q : /\ F = R.inflight /\ q = R.cq /\ F \in [Chain -> Seq(Requests)]
                  /\ q \in Seq(Finished) /\ Single(F, q) /\ RingType(R)
                  /\ R = [inflight |-> F, cq |-> q]
  <2>1. /\ R.inflight \in [Chain -> Seq(Requests)]
        /\ R.cq \in Seq(Finished) /\ Single(R.inflight, R.cq) /\ RingType(R)
    BY RingFields DEF RingOK
  <2>2. R = [inflight |-> R.inflight, cq |-> R.cq]
    BY DEF RingOK, RingType
  <2> QED  BY <2>1, <2>2
<1>3. F[k] = <<>> /\ \A i \in DOMAIN q : Key(q[i]) # k
  BY <1>1, <1>2, DoneNone DEF Alone, Flight
<1>4. PICK G : G = [F EXCEPT ![k] = <<r>>]
  OBVIOUS
<1>5. G \in [Chain -> Seq(Requests)] /\ G[k] = <<r>> /\ \A j \in Chain : j # k => G[j] = F[j]
  <2>1. <<r>> \in Seq(Requests)
    OBVIOUS
  <2> QED  BY <1>2, <1>4, <2>1
<1>6. PICK S : S = [inflight |-> G, cq |-> q]
  OBVIOUS
<1>7. S = Submit(R, p, act, r)
  <2>1. Append(<<>>, r) = <<r>>
    OBVIOUS
  <2>2. [F EXCEPT ![k] = Append(@, r)] = G
    BY <1>2, <1>3, <1>4, <2>1
  <2>3. [R.inflight EXCEPT ![<<p, act>>] = Append(@, r)] = G
    BY <1>1, <1>2, <2>2
  <2>4. Submit(R, p, act, r) = [R EXCEPT !.inflight = G]
    BY <2>3, Zenon DEF Submit
  <2> QED  BY <1>2, <1>6, <2>4, RecordInflight
<1>8. Single(G, q)
  <2>1. \A i \in DOMAIN q : Key(q[i]) \in Chain
    BY <1>2, KeyInChain
  <2>2. Len(<<r>>) = 1
    OBVIOUS
  <2>3. ASSUME NEW j \in Chain PROVE Len(G[j]) <= 1
    <3>1. CASE j = k
      <4>1. G[j] = <<r>>
        BY <1>5, <3>1
      <4> QED  BY <2>2, <4>1
    <3>2. CASE j # k
      BY <1>2, <1>5, <3>2 DEF Single
    <3> QED  BY <3>1, <3>2
  <2>4. ASSUME NEW i \in DOMAIN q PROVE G[Key(q[i])] = <<>>
    BY <1>2, <1>3, <1>5, <2>1 DEF Single
  <2> QED  BY <1>2, <2>3, <2>4 DEF Single
<1>9. RingOK(S) /\ S.inflight = G /\ S.cq = q
  BY <1>2, <1>5, <1>6, <1>8, RingMade
<1>10. \A j : Done(S, j) = Done(R, j)
  BY <1>2, <1>9 DEF Done
<1> QED  BY <1>1, <1>2, <1>5, <1>7, <1>9, <1>10 DEF Only, Same, Alone, Flight

(* The kernel ends a request.                                              *)
Ended(R, k, c) == [inflight |-> [R.inflight EXCEPT ![k] = Tail(@)], cq |-> Append(R.cq, c)]
LEMMA EndedRing ==
  ASSUME NEW R, RingOK(R), NEW k \in Chain, Flight(R, k) # <<>>, NEW c \in Finished, Key(c) = k,
         NEW S, S = Ended(R, k, c)
  PROVE  RingOK(S) /\ Only(R, S, k) /\ Flight(S, k) = <<>> /\ Done(S, k) = {c}
<1>1. PICK F, q : /\ F = R.inflight /\ q = R.cq /\ F \in [Chain -> Seq(Requests)]
                  /\ q \in Seq(Finished) /\ Single(F, q) /\ RingType(R)
  <2>1. /\ R.inflight \in [Chain -> Seq(Requests)]
        /\ R.cq \in Seq(Finished) /\ Single(R.inflight, R.cq) /\ RingType(R)
    BY RingFields DEF RingOK
  <2> QED  BY <2>1
<1>2. Done(R, k) = {} /\ Tail(F[k]) = <<>>
  BY <1>1, DoneOrFlight, FlightOne DEF Flight
<1>3. PICK G : G = [F EXCEPT ![k] = <<>>]
  OBVIOUS
<1>4. G \in [Chain -> Seq(Requests)] /\ G[k] = <<>> /\ \A j \in Chain : j # k => G[j] = F[j]
  <2>1. <<>> \in Seq(Requests)
    OBVIOUS
  <2> QED  BY <1>1, <1>3, <2>1
<1>5. Single(G, Append(q, c))
  <2>1. Single(G, q)
    <3>1. \A i \in DOMAIN q : Key(q[i]) \in Chain
      BY <1>1, KeyInChain
    <3>2. Len(<<>>) = 0
      OBVIOUS
    <3>3. ASSUME NEW j \in Chain PROVE Len(G[j]) <= 1
      <4>1. CASE j = k
        BY <1>4, <3>2, <4>1
      <4>2. CASE j # k
        BY <1>1, <1>4, <4>2 DEF Single
      <4> QED  BY <4>1, <4>2
    <3>4. ASSUME NEW i \in DOMAIN q PROVE G[Key(q[i])] = <<>>
      BY <1>1, <1>4, <3>1 DEF Single
    <3> QED  BY <1>1, <3>3, <3>4 DEF Single
  <2>2. \A i \in DOMAIN q : Key(q[i]) # k
    BY <1>1, <1>2, DoneNone
  <2> QED  BY <1>1, <1>4, <2>1, <2>2, PushRing
<1>6. S = [inflight |-> G, cq |-> Append(q, c)]
  <2>1. [F EXCEPT ![k] = Tail(@)] = G
    BY <1>2, <1>3, Zenon
  <2> QED  BY <1>1, <2>1, Zenon DEF Ended
<1>7. RingOK(S) /\ S.inflight = G /\ S.cq = Append(q, c)
  <2>1. PICK w \in Seq(Finished) : w = Append(q, c)
    BY <1>1, Pushed
  <2>2. Single(G, w) /\ G \in [Chain -> Seq(Requests)] /\ S = [inflight |-> G, cq |-> w]
    BY <1>4, <1>5, <1>6, <2>1
  <2>3. RingOK(S) /\ S.inflight = G /\ S.cq = w
    BY <2>2, RingMade
  <2> QED  BY <2>1, <2>3
<1>8. \A j : Done(S, j) = IF j = Key(c) THEN Done(R, j) \cup {c} ELSE Done(R, j)
  <2>1. RingType(S)
    BY <1>7 DEF RingOK
  <2> QED  BY <1>1, <1>7, <2>1, PushDone
<1> QED  BY <1>1, <1>2, <1>4, <1>6, <1>7, <1>8 DEF Only, Same, Flight

(* The loop takes the first completion.                                    *)
LEMMA Popped ==
  ASSUME NEW q \in Seq(Finished), q # <<>>
  PROVE  /\ Tail(q) \in Seq(Finished) /\ Head(q) = q[1] /\ 1 \in DOMAIN q
         /\ \A i \in DOMAIN Tail(q) : i + 1 \in DOMAIN q /\ Tail(q)[i] = q[i + 1] /\ i \in Nat
         /\ \A i \in DOMAIN q : i = 1 \/ (i - 1 \in DOMAIN Tail(q) /\ Tail(q)[i - 1] = q[i])
<1>1. Len(q) \in Nat /\ Len(q) # 0 /\ DOMAIN q = 1 .. Len(q)
  BY EmptySeq
<1>2. /\ Head(q) = q[1] /\ Tail(q) \in Seq(Finished) /\ Len(Tail(q)) = Len(q) - 1
      /\ \A i \in 1 .. Len(Tail(q)) : Tail(q)[i] = q[i + 1]
  BY HeadTailProperties, SMTT(30)
<1>3. PICK l \in Nat : Len(q) = l + 1 /\ Len(Tail(q)) = l
  <2>1. Len(q) - 1 \in Nat /\ Len(q) = (Len(q) - 1) + 1
    BY <1>1
  <2> QED  BY <1>2, <2>1
<1>4. DOMAIN Tail(q) = 1 .. l /\ DOMAIN q = 1 .. l + 1
  BY <1>1, <1>2, <1>3
<1>5. ASSUME NEW i \in 1 .. l + 1, i # 1 PROVE i - 1 \in 1 .. l /\ Tail(q)[i - 1] = q[i]
  <2>1. i - 1 \in 1 .. l /\ (i - 1) + 1 = i
    BY <1>5
  <2> QED  BY <1>2, <1>3, <2>1
<1>6. 1 \in 1 .. l + 1 /\ \A i \in 1 .. l : i + 1 \in 1 .. l + 1 /\ i \in Nat
  OBVIOUS
<1> QED  BY <1>2, <1>3, <1>4, <1>5, <1>6

LEMMA SeenRing ==
  ASSUME NEW R, RingOK(R), R.cq # <<>>
  PROVE  LET S == Seen(R)
             c == Head(R.cq)
         IN  /\ RingOK(S) /\ Only(R, S, Key(c)) /\ Alone(S, Key(c))
             /\ c \in Finished /\ Key(c) \in Chain
             /\ Done(R, Key(c)) = {c} /\ Flight(R, Key(c)) = <<>>
<1>1. PICK F, q : /\ F = R.inflight /\ q = R.cq /\ F \in [Chain -> Seq(Requests)]
                  /\ q \in Seq(Finished) /\ Single(F, q) /\ RingType(R)
                  /\ R = [inflight |-> F, cq |-> q] /\ q # <<>>
  <2>1. /\ R.inflight \in [Chain -> Seq(Requests)]
        /\ R.cq \in Seq(Finished) /\ Single(R.inflight, R.cq) /\ RingType(R)
    BY RingFields DEF RingOK
  <2>2. R = [inflight |-> R.inflight, cq |-> R.cq]
    BY DEF RingOK, RingType
  <2> QED  BY <2>1, <2>2
<1>2. PICK t : /\ t = Tail(q) /\ t \in Seq(Finished)
               /\ \A i \in DOMAIN t : i + 1 \in DOMAIN q /\ t[i] = q[i + 1] /\ i \in Nat
               /\ \A i \in DOMAIN q : i = 1 \/ (i - 1 \in DOMAIN t /\ t[i - 1] = q[i])
  <2>1. /\ Tail(q) \in Seq(Finished)
        /\ \A i \in DOMAIN Tail(q) : i + 1 \in DOMAIN q /\ Tail(q)[i] = q[i + 1] /\ i \in Nat
        /\ \A i \in DOMAIN q : i = 1 \/ (i - 1 \in DOMAIN Tail(q) /\ Tail(q)[i - 1] = q[i])
    BY <1>1, Popped
  <2> QED  BY <2>1
<1>3. PICK c \in Finished : c = Head(q) /\ c = q[1] /\ 1 \in DOMAIN q
  <2>1. Head(q) = q[1] /\ 1 \in DOMAIN q
    BY <1>1, Popped
  <2> QED  BY <1>1, <2>1
<1>4. PICK S : S = [inflight |-> F, cq |-> t]
  OBVIOUS
<1>5. S = Seen(R)
  <2>1. Seen(R) = [R EXCEPT !.cq = t]
    BY <1>1, <1>2 DEF Seen
  <2> QED  BY <1>1, <1>4, <2>1, RecordCq
<1>6. Single(F, t)
  <2>1. ASSUME NEW i \in DOMAIN t, NEW j \in DOMAIN t, Key(t[i]) = Key(t[j]) PROVE i = j
    <3>1. /\ i + 1 \in DOMAIN q /\ t[i] = q[i + 1] /\ i \in Nat
          /\ j + 1 \in DOMAIN q /\ t[j] = q[j + 1] /\ j \in Nat
      BY <1>2
    <3>2. i + 1 = j + 1
      BY <1>1, <2>1, <3>1 DEF Single
    <3> QED  BY <3>1, <3>2
  <2>2. ASSUME NEW i \in DOMAIN t PROVE F[Key(t[i])] = <<>>
    <3>1. i + 1 \in DOMAIN q /\ t[i] = q[i + 1]
      BY <1>2
    <3> QED  BY <1>1, <3>1 DEF Single
  <2> QED  BY <1>1, <2>1, <2>2 DEF Single
<1>7. RingOK(S) /\ S.inflight = F /\ S.cq = t /\ RingType(S)
  BY <1>1, <1>2, <1>4, <1>6, RingMade DEF RingOK
<1>8. \A k, d : d \in Done(S, k) <=> Key(d) = k /\ \E i \in DOMAIN t : t[i] = d
  BY <1>7, RingDone
<1>9. \A k, d : d \in Done(R, k) <=> Key(d) = k /\ \E i \in DOMAIN q : q[i] = d
  BY <1>1, RingDone
<1>10. \A i \in DOMAIN t : Key(t[i]) # Key(c)
  <2> SUFFICES ASSUME NEW i \in DOMAIN t, Key(t[i]) = Key(c) PROVE FALSE
    OBVIOUS
  <2>1. i + 1 \in DOMAIN q /\ t[i] = q[i + 1] /\ i \in Nat
    BY <1>2
  <2>2. i + 1 = 1
    BY <1>1, <1>3, <2>1 DEF Single
  <2>3. DOMAIN t = 1 .. Len(t) /\ Len(t) \in Nat
    BY <1>2
  <2> QED  BY <2>1, <2>2, <2>3
<1>11. ASSUME NEW k, k # Key(c) PROVE Done(S, k) = Done(R, k)
  <2>1. ASSUME NEW d, Key(d) = k
        PROVE  (\E i \in DOMAIN t : t[i] = d) <=> (\E i \in DOMAIN q : q[i] = d)
    <3>1. ASSUME NEW i \in DOMAIN t, t[i] = d PROVE \E j \in DOMAIN q : q[j] = d
      BY <1>2, <3>1
    <3>2. ASSUME NEW i \in DOMAIN q, q[i] = d PROVE \E j \in DOMAIN t : t[j] = d
      <4>1. i # 1
        BY <1>3, <1>11, <2>1, <3>2
      <4>2. i - 1 \in DOMAIN t /\ t[i - 1] = q[i]
        BY <1>2, <4>1
      <4> QED  BY <3>2, <4>2
    <3> QED  BY <3>1, <3>2
  <2>2. \A d : d \in Done(S, k) <=> d \in Done(R, k)
    BY <1>8, <1>9, <2>1
  <2> QED  BY <2>2
<1>12. c \in Done(R, Key(c)) /\ Done(S, Key(c)) = {}
  BY <1>3, <1>8, <1>9, <1>10
<1>13. Done(R, Key(c)) = {c} /\ Flight(R, Key(c)) = <<>>
  BY <1>12, DoneOne
<1> QED  BY <1>1, <1>3, <1>5, <1>7, <1>11, <1>12, <1>13, KeyInChain
    DEF Only, Same, Alone, Flight

(* What is seen of a chain.                                                *)
LEMMA SameView ==
  ASSUME NEW R, NEW S, NEW k, Same(R, S, k)
  PROVE  /\ Got(S, k) = Got(R, k) /\ (Alone(S, k) <=> Alone(R, k))
         /\ (Live(S, k) <=> Live(R, k))
BY DEF Same, Got, Alone, Live

LEMMA SameTwice ==
  ASSUME NEW R, NEW S, NEW T, NEW k, Same(R, S, k), Same(S, T, k)
  PROVE  Same(R, T, k)
BY DEF Same

LEMMA AloneView ==
  ASSUME NEW R, NEW k, Alone(R, k)
  PROVE  Got(R, k) = {} /\ ~Live(R, k)
BY DEF Got, Alone, Live

LEMMA DoneView ==
  ASSUME NEW R, NEW k, NEW c, Done(R, k) = {c}
  PROVE  /\ Got(R, k) = (IF ~c.noop /\ c.ok THEN {c.res} ELSE {}) /\ ~Alone(R, k)
         /\ Flight(R, k) = <<>> => (Live(R, k) <=> ~c.noop)
BY DEF Got, Alone, Live

LEMMA FlightView ==
  ASSUME NEW R, NEW k, RingOK(R), Flight(R, k) # <<>>
  PROVE  Got(R, k) = {} /\ ~Alone(R, k) /\ Live(R, k)
BY DoneOrFlight DEF Got, Alone, Live

LEMMA PairsEqual ==
  ASSUME NEW p, NEW q, NEW a, NEW b
  PROVE  <<p, a>> = <<q, b>> <=> p = q /\ a = b
OBVIOUS

AcceptChain == <<Acceptor, "accept">>
LEMMA ChainTypes ==
  /\ \A p \in End : p \in Peer /\ p # Acceptor
  /\ \A p \in Peer : \A act \in Action : <<p, act>> \in Chain
  /\ Acceptor \in Peer /\ AcceptChain \in Chain
  /\ "read" \in Action /\ "write" \in Action /\ "accept" \in Action
  /\ \A k \in Chain : k = <<k[1], k[2]>> /\ k[1] \in Peer /\ k[2] \in Action
<1>1. \A p \in End : p \in Peer /\ p # Acceptor
  BY IouAssumption DEF Peer
<1>2. Acceptor \in Peer
  BY DEF Peer
<1>3. "read" \in Action /\ "write" \in Action /\ "accept" \in Action
  BY DEF Action
<1>4. \A p \in Peer : \A act \in Action : <<p, act>> \in Chain
  BY DEF Chain
<1>5. \A k \in Chain : k = <<k[1], k[2]>> /\ k[1] \in Peer /\ k[2] \in Action
  BY DEF Chain
<1> QED  BY <1>1, <1>2, <1>3, <1>4, <1>5 DEF AcceptChain

-----------------------------------------------------------------------------
(* There is room for what was asked for, and what is being written is at   *)
(* the head of the outbox.                                                 *)
ReadRoom(R, p, in) ==
  LET k == <<p, "read">>
  IN  /\ Len(in) <= InCap
      /\ Flight(R, k) # <<>> => Head(Flight(R, k)).room <= InCap - Len(in)
      /\ \A s \in Got(R, k) : s \in Word /\ Len(s) <= InCap - Len(in)
WriteRoom(R, p, out) ==
  LET k == <<p, "write">>
  IN  /\ Len(out) <= OutCap
      /\ Flight(R, k) # <<>> => Begins(Head(Flight(R, k)).data, out)
      /\ \A n \in Got(R, k) : n \in Nat /\ n <= Len(out)

LEMMA RoomSame ==
  ASSUME NEW R, NEW S, NEW p, NEW w
  PROVE  /\ Same(R, S, <<p, "read">>) => (ReadRoom(S, p, w) <=> ReadRoom(R, p, w))
         /\ Same(R, S, <<p, "write">>) => (WriteRoom(S, p, w) <=> WriteRoom(R, p, w))
BY SameView DEF ReadRoom, WriteRoom, Same

(* A loop that goes on makes its request, or puts it off.                  *)
Starts(R, S, k) ==
  RingOK(S) /\ Only(R, S, k) /\ ~Alone(S, k) /\ Got(S, k) = {}

LEMMA SignalStarts ==
  ASSUME NEW R, RingOK(R), NEW p \in Peer, NEW act \in Action, Alone(R, <<p, act>>)
  PROVE  LET S == Signal(R, p, act)
         IN  /\ Starts(R, S, <<p, act>>) /\ Flight(S, <<p, act>>) = <<>>
             /\ ~Live(S, <<p, act>>)
<1>1. PICK S : S = Signal(R, p, act)
  OBVIOUS
<1>2. PICK c : c = Completion(p, act, TRUE, TRUE, 0) /\ c.noop = TRUE
  BY MadeNoop
<1>3. /\ RingOK(S) /\ Only(R, S, <<p, act>>) /\ Flight(S, <<p, act>>) = <<>>
      /\ Done(S, <<p, act>>) = {c}
  BY <1>1, <1>2, SignalRing
<1> QED  BY <1>1, <1>2, <1>3, DoneView DEF Starts

LEMMA SubmitStarts ==
  ASSUME NEW R, RingOK(R), NEW p \in Peer, NEW act \in Action, Alone(R, <<p, act>>),
         NEW r \in Requests
  PROVE  LET S == Submit(R, p, act, r)
         IN  Starts(R, S, <<p, act>>) /\ Flight(S, <<p, act>>) = <<r>>
<1>1. PICK S : S = Submit(R, p, act, r)
  OBVIOUS
<1>2. RingOK(S) /\ Only(R, S, <<p, act>>) /\ Flight(S, <<p, act>>) = <<r>>
  BY <1>1, SubmitRing
<1>3. <<r>> # <<>>
  OBVIOUS
<1> QED  BY <1>1, <1>2, <1>3, FlightView DEF Starts

LEMMA MadeRequest ==
  ASSUME NEW n \in Nat, NEW w \in Word
  PROVE  /\ Request(n, w) \in Requests /\ Request(n, w).room = n /\ Request(n, w).data = w
         /\ Head(<<Request(n, w)>>) = Request(n, w)
BY DEF Request, Requests

LEMMA ReadLoopStarts ==
  ASSUME NEW R, RingOK(R), NEW p \in End, Alone(R, <<p, "read">>), fd = Peer,
         NEW in \in Word, Len(in) <= InCap
  PROVE  LET S == ReadLoop(R, p, in)
         IN  Starts(R, S, <<p, "read">>) /\ ReadRoom(S, p, in)
<1>1. PICK S : S = ReadLoop(R, p, in)
  OBVIOUS
<1>2. p \in Peer /\ "read" \in Action
  BY ChainTypes
<1>3. CASE Len(in) = InCap
  <2>1. S = Signal(R, p, "read")
    BY <1>1, <1>2, <1>3 DEF ReadLoop
  <2>2. Starts(R, S, <<p, "read">>) /\ Flight(S, <<p, "read">>) = <<>>
    BY <1>2, <2>1, SignalStarts
  <2> QED  BY <1>1, <2>2 DEF ReadRoom, Starts
<1>4. CASE Len(in) # InCap
  <2>1. PICK n \in Nat : n = InCap - Len(in)
    <3>1. Len(in) \in Nat /\ InCap \in Nat
      BY CatType, IouAssumption
    <3>2. InCap - Len(in) \in Nat
      BY <3>1
    <3> QED  BY <3>2
  <2>2. PICK r \in Requests : r = Request(n, <<>>) /\ r.room = n /\ Head(<<r>>) = r
    BY CatEmpty, MadeRequest
  <2>3. S = Submit(R, p, "read", r)
    BY <1>1, <1>2, <1>4, <2>1, <2>2 DEF ReadLoop
  <2>4. Starts(R, S, <<p, "read">>) /\ Flight(S, <<p, "read">>) = <<r>>
    BY <1>2, <2>3, SubmitStarts
  <2> QED  BY <1>1, <2>1, <2>2, <2>4 DEF ReadRoom, Starts
<1> QED  BY <1>3, <1>4

LEMMA BeginsSelf ==
  ASSUME NEW w \in Word
  PROVE  Begins(w, w)
BY CatEmpty DEF Begins

LEMMA WriteLoopStarts ==
  ASSUME NEW R, RingOK(R), NEW p \in End, Alone(R, <<p, "write">>), fd = Peer,
         NEW out \in Word, Len(out) <= OutCap
  PROVE  LET S == WriteLoop(R, p, out)
         IN  Starts(R, S, <<p, "write">>) /\ WriteRoom(S, p, out)
<1>1. PICK S : S = WriteLoop(R, p, out)
  OBVIOUS
<1>2. p \in Peer /\ "write" \in Action
  BY ChainTypes
<1>3. CASE out = <<>>
  <2>1. S = Signal(R, p, "write")
    BY <1>1, <1>2, <1>3 DEF WriteLoop
  <2>2. Starts(R, S, <<p, "write">>) /\ Flight(S, <<p, "write">>) = <<>>
    BY <1>2, <2>1, SignalStarts
  <2> QED  BY <1>1, <2>2 DEF WriteRoom, Starts
<1>4. CASE out # <<>>
  <2>1. PICK r \in Requests : r = Request(0, out) /\ r.data = out /\ Head(<<r>>) = r
    <3>1. 0 \in Nat
      OBVIOUS
    <3> QED  BY <3>1, MadeRequest
  <2>2. S = Submit(R, p, "write", r)
    BY <1>1, <1>2, <1>4, <2>1 DEF WriteLoop
  <2>3. Starts(R, S, <<p, "write">>) /\ Flight(S, <<p, "write">>) = <<r>>
    BY <1>2, <2>2, SubmitStarts
  <2> QED  BY <1>1, <2>1, <2>3, BeginsSelf DEF WriteRoom, Starts
<1> QED  BY <1>3, <1>4

LEMMA AcceptLoopStarts ==
  ASSUME NEW R, RingOK(R), Alone(R, AcceptChain), fd = Peer,
         NEW waiting \in Nat, waiting <= AcceptCap
  PROVE  LET S == AcceptLoop(R, waiting)
         IN  Starts(R, S, AcceptChain) /\ (Live(S, AcceptChain) => waiting < AcceptCap)
<1>1. PICK S : S = AcceptLoop(R, waiting)
  OBVIOUS
<1>2. Acceptor \in Peer /\ "accept" \in Action
  BY ChainTypes
<1>3. CASE waiting = AcceptCap
  <2>1. S = Signal(R, Acceptor, "accept")
    BY <1>1, <1>2, <1>3 DEF AcceptLoop
  <2> QED  BY <1>1, <1>2, <2>1, SignalStarts DEF AcceptChain
<1>4. CASE waiting # AcceptCap
  <2>1. Request(0, <<>>) \in Requests
    <3>1. 0 \in Nat
      OBVIOUS
    <3> QED  BY <3>1, CatEmpty, MadeRequest
  <2>2. S = Submit(R, Acceptor, "accept", Request(0, <<>>))
    BY <1>1, <1>2, <1>4 DEF AcceptLoop
  <2>3. waiting < AcceptCap
    BY <1>4, IouAssumption
  <2> QED  BY <1>1, <1>2, <2>1, <2>2, <2>3, SubmitStarts DEF AcceptChain
<1> QED  BY <1>3, <1>4

-----------------------------------------------------------------------------
(* The bytes U between two ends: what has arrived at the other, as far as  *)
(* it still takes it, comes first of them; and as long as neither end is   *)
(* gone, the rest is what is left to write.                                *)
Arrived(in, rd, wr, how) == IF how = "deaf" THEN in ELSE Cat(Cat(in, rd), wr)
Stream(U, in, rd, wr, left, how) ==
  /\ Begins(Arrived(in, rd, wr, how), U)
  /\ how = "whole" => U = Cat(Arrived(in, rd, wr, how), left)

LEMMA ArrivedType ==
  ASSUME NEW in \in Word, NEW rd \in Word, NEW wr \in Word
  PROVE  \A how : Arrived(in, rd, wr, how) \in Word
BY CatType DEF Arrived

LEMMA BeginsCat ==
  ASSUME NEW a \in Word, NEW b \in Word, NEW m \in Word
  PROVE  /\ Begins(a, b) => Begins(a, Cat(b, m)) /\ Begins(Cat(m, a), Cat(m, b))
         /\ Begins(Cat(a, m), b) => Begins(a, b)
         /\ Begins(a, Cat(a, m))
<1>1. ASSUME Begins(a, b) PROVE Begins(a, Cat(b, m)) /\ Begins(Cat(m, a), Cat(m, b))
  <2>1. PICK r \in Word : b = Cat(a, r)
    BY <1>1 DEF Begins
  <2>2. Cat(b, m) = Cat(a, Cat(r, m)) /\ Cat(r, m) \in Word
    BY <2>1, CatAssoc, CatType
  <2>3. Cat(m, b) = Cat(Cat(m, a), r)
    BY <2>1, CatAssoc
  <2> QED  BY <2>2, <2>3 DEF Begins
<1>2. ASSUME Begins(Cat(a, m), b) PROVE Begins(a, b)
  <2>1. PICK r \in Word : b = Cat(Cat(a, m), r)
    BY <1>2 DEF Begins
  <2>2. b = Cat(a, Cat(m, r)) /\ Cat(m, r) \in Word
    BY <2>1, CatAssoc, CatType
  <2> QED  BY <2>2 DEF Begins
<1>3. Begins(a, Cat(a, m))
  BY DEF Begins
<1> QED  BY <1>1, <1>2, <1>3

(* The other end is let go of, or one of them.                             *)
LEMMA StreamCut ==
  ASSUME NEW U \in Word, NEW in \in Word, NEW rd \in Word, NEW wr \in Word, NEW left,
         NEW how, Stream(U, in, rd, wr, left, how)
  PROVE  /\ \A a, b, c : Stream(U, in, a, b, c, "deaf")
         /\ how # "deaf" => \A c : Stream(U, in, rd, wr, c, "cut")
<1>1. Begins(in, U)
  <2>1. CASE how = "deaf"
    BY <2>1 DEF Stream, Arrived
  <2>2. CASE how # "deaf"
    <3>1. Cat(in, rd) \in Word
      BY CatType
    <3>2. Begins(Cat(Cat(in, rd), wr), U)
      BY <2>2 DEF Stream, Arrived
    <3>3. Begins(Cat(in, rd), U)
      BY <3>1, <3>2, BeginsCat
    <3> QED  BY <3>3, BeginsCat
  <2> QED  BY <2>1, <2>2
<1> QED  BY <1>1 DEF Stream, Arrived

(* The kernel reads from the connection.                                   *)
LEMMA StreamRead ==
  ASSUME NEW U, NEW in \in Word, NEW wr \in Word, NEW left, NEW n \in Nat,
         n <= Len(wr), NEW how, how # "deaf", Stream(U, in, <<>>, wr, left, how)
  PROVE  Stream(U, in, First(wr, n), Drop(wr, n), left, how)
<1>1. First(wr, n) \in Word /\ Drop(wr, n) \in Word /\ wr = Cat(First(wr, n), Drop(wr, n))
  BY Split
<1>2. Cat(Cat(in, First(wr, n)), Drop(wr, n)) = Cat(in, wr) /\ Cat(Cat(in, <<>>), wr) = Cat(in, wr)
  BY <1>1, CatAssoc, CatEmpty
<1> QED  BY <1>2 DEF Stream, Arrived

(* The loop puts what was read into the inbox.                             *)
LEMMA StreamTake ==
  ASSUME NEW U, NEW in \in Word, NEW rd \in Word, NEW wr \in Word, NEW left, NEW how,
         how # "deaf", Stream(U, in, rd, wr, left, how)
  PROVE  Stream(U, Cat(in, rd), <<>>, wr, left, how)
<1>1. Cat(Cat(in, rd), <<>>) = Cat(in, rd)
  BY CatType, CatEmpty
<1> QED  BY <1>1 DEF Stream, Arrived

(* The kernel writes the first of the request, which the outbox begins     *)
(* with.                                                                   *)
LEMMA StreamWrite ==
  ASSUME NEW U, NEW in \in Word, NEW rd \in Word, NEW wr \in Word, NEW out \in Word,
         NEW data \in Word, NEW n \in Nat, n <= Len(data), Begins(data, out),
         NEW how, how \in {"whole", "deaf"}, Stream(U, in, rd, wr, Drop(out, 0), how)
  PROVE  /\ Stream(U, in, rd, Cat(wr, First(data, n)), Drop(out, n), how)
         /\ First(data, n) \in Word /\ n <= Len(out)
<1>1. PICK r \in Word : out = Cat(data, r)
  BY DEF Begins
<1>2. PICK a \in Word, b \in Word :
        a = First(data, n) /\ b = Drop(data, n) /\ data = Cat(a, b) /\ Len(a) = n
  BY Split
<1>3. Drop(out, n) = Cat(b, r) /\ Cat(b, r) \in Word
  BY <1>1, <1>2, DropCat, CatType
<1>4. out = Cat(a, Drop(out, n))
  BY <1>1, <1>2, <1>3, CatAssoc
<1>5. n <= Len(out)
  <2>1. Len(out) = Len(data) + Len(r) /\ Len(data) \in Nat /\ Len(r) \in Nat
    BY <1>1, CatType
  <2> QED  BY <2>1
<1>6. Drop(out, 0) = out
  <2>1. out = Cat(<<>>, out) /\ Len(<<>>) = 0 /\ <<>> \in Word
    BY CatEmpty
  <2> QED  BY <2>1, DropHead
<1>7. Stream(U, in, rd, Cat(wr, a), Drop(out, n), how)
  <2>1. CASE how = "deaf"
    BY <2>1 DEF Stream, Arrived
  <2>2. CASE how # "deaf"
    <3>1. PICK h \in Word : h = Cat(in, rd)
      BY CatType
    <3>2. PICK l \in Word : l = Drop(out, n)
      BY <1>3
    <3>3. U = Cat(Cat(h, wr), out)
      BY <1>6, <2>2, <3>1 DEF Stream, Arrived
    <3>4. Cat(h, wr) \in Word /\ Cat(wr, a) \in Word /\ Cat(h, Cat(wr, a)) \in Word
      BY <1>2, <3>1, CatType
    <3>5. U = Cat(Cat(h, Cat(wr, a)), l)
      <4>1. U = Cat(Cat(h, wr), Cat(a, l))
        BY <1>4, <3>2, <3>3
      <4>2. Cat(Cat(Cat(h, wr), a), l) = Cat(Cat(h, wr), Cat(a, l))
        BY <1>2, <3>2, <3>4, CatAssoc
      <4>3. Cat(Cat(h, wr), a) = Cat(h, Cat(wr, a))
        BY <1>2, <3>1, CatAssoc
      <4> QED  BY <4>1, <4>2, <4>3
    <3>6. Begins(Cat(h, Cat(wr, a)), U)
      BY <3>2, <3>4, <3>5, BeginsCat
    <3> QED  BY <2>2, <3>1, <3>2, <3>5, <3>6 DEF Stream, Arrived
  <2> QED  BY <2>1, <2>2
<1> QED  BY <1>2, <1>5, <1>7

(* One more message is packed.                                             *)
LEMMA StreamPack ==
  ASSUME NEW U \in Word, NEW in \in Word, NEW rd \in Word, NEW wr \in Word, NEW left \in Word,
         NEW m \in Word, NEW how, Stream(U, in, rd, wr, left, how)
  PROVE  Stream(Cat(U, m), in, rd, wr, Cat(left, m), how)
<1>1. PICK a \in Word : a = Arrived(in, rd, wr, how)
  BY ArrivedType
<1>2. Begins(a, Cat(U, m))
  BY <1>1, BeginsCat DEF Stream
<1>3. how = "whole" => Cat(U, m) = Cat(a, Cat(left, m))
  <2>1. how = "whole" => U = Cat(a, left)
    BY <1>1 DEF Stream
  <2>2. Cat(Cat(a, left), m) = Cat(a, Cat(left, m))
    BY CatAssoc
  <2> QED  BY <2>1, <2>2
<1> QED  BY <1>1, <1>2, <1>3 DEF Stream

(* The head of an inbox is of the first message that was not delivered,    *)
(* which is taken out whole.                                               *)
LEMMA BeginsHead ==
  ASSUME NEW a \in Word, NEW b \in Word, Begins(a, b), a # <<>>
  PROVE  b # <<>> /\ Head(a) = Head(b) /\ Head(a) = a[1]
<1>1. PICK r \in Word : b = Cat(a, r)
  BY DEF Begins
<1>2. Len(a) \in Nat /\ Len(a) # 0 /\ Len(r) \in Nat /\ Len(b) = Len(a) + Len(r)
  BY <1>1, CatType, EmptySeq DEF Word
<1>3. b[1] = a[1]
  <2>1. Made(b, a, r, Len(a), Len(r)) /\ 1 \in 1 .. Len(a)
    BY <1>1, <1>2, CatMade
  <2> QED  BY <2>1 DEF Made
<1> QED  BY <1>2, <1>3, CatEmpty

LEMMA StreamHead ==
  ASSUME NEW z \in Sizes, NEW D \in Nat, NEW P \in Nat, D <= P, P <= Len(z),
         NEW in \in Word, NEW rd \in Word, NEW wr \in Word, NEW left, NEW how,
         in # <<>>, Stream(Flat(z, D, P), in, rd, wr, left, how)
  PROVE  D < P /\ Head(in).n = D + 1
<1>1. PICK U \in Word : U = Flat(z, D, P)
  BY FlatType
<1>2. Begins(in, U)
  BY <1>1, StreamCut DEF Stream, Arrived
<1>3. U # <<>> /\ Head(in) = Head(U)
  BY <1>2, BeginsHead
<1>4. D < P
  BY <1>1, <1>3, FlatEmpty
<1>5. PICK m \in Word : /\ m = Message(z, D + 1) /\ m # <<>>
                        /\ Head(m) = [n |-> D + 1, i |-> 1]
  <2>1. D + 1 \in 1 .. Len(z)
    BY <1>4 DEF Sizes
  <2> QED  BY <2>1, MessageType
<1>6. PICK r \in Word : r = Flat(z, D + 1, P) /\ U = Cat(m, r)
  <2>1. D + 1 \in Nat /\ D + 1 <= P
    BY <1>4
  <2> QED  BY <1>1, <1>4, <1>5, <2>1, FlatFirst, FlatType
<1>7. Head(U) = Head(m)
  BY <1>5, <1>6, BeginsHead, BeginsCat
<1> QED  BY <1>3, <1>4, <1>5, <1>7

\* A word that begins with two others, of which one is no longer.
LEMMA BeginsShorter ==
  ASSUME NEW a \in Word, NEW m \in Word, NEW r \in Word, Begins(a, Cat(m, r)),
         Len(m) <= Len(a)
  PROVE  /\ a = Cat(m, Drop(a, Len(m))) /\ Drop(a, Len(m)) \in Word
         /\ Begins(Drop(a, Len(m)), r)
<1>1. PICK t \in Word : Cat(m, r) = Cat(a, t)
  BY DEF Begins
<1>2. Overlap(m, r, a, t)
  BY <1>1, CatLevi
<1>3. PICK d \in Word : a = Cat(m, d) /\ r = Cat(d, t)
  BY <1>2 DEF Overlap
<1>4. Drop(a, Len(m)) = d
  BY <1>3, DropHead
<1> QED  BY <1>3, <1>4 DEF Begins

LEMMA CatLeft ==
  ASSUME NEW m \in Word, NEW a \in Word, NEW b \in Word, Cat(m, a) = Cat(m, b)
  PROVE  a = b
BY CatCancel

LEMMA StreamDeliver ==
  ASSUME NEW z \in Sizes, NEW D \in Nat, NEW P \in Nat, D < P, P <= Len(z),
         NEW in \in Word, NEW rd \in Word, NEW wr \in Word, NEW left \in Word,
         NEW how, z[D + 1] <= Len(in), Stream(Flat(z, D, P), in, rd, wr, left, how)
  PROVE  /\ Stream(Flat(z, D + 1, P), Drop(in, z[D + 1]), rd, wr, left, how)
         /\ Drop(in, z[D + 1]) \in Word /\ Len(Drop(in, z[D + 1])) <= Len(in)
<1>1. PICK U \in Word : U = Flat(z, D, P)
  BY FlatType
<1>2. Begins(in, U)
  BY <1>1, StreamCut DEF Stream, Arrived
<1>3. PICK m \in Word : m = Message(z, D + 1) /\ Len(m) = z[D + 1]
  <2>1. D + 1 \in 1 .. Len(z)
    BY DEF Sizes
  <2> QED  BY <2>1, MessageType
<1>4. PICK r \in Word : r = Flat(z, D + 1, P) /\ U = Cat(m, r)
  <2>1. D + 1 \in Nat /\ D + 1 <= P
    OBVIOUS
  <2> QED  BY <1>1, <1>3, <2>1, FlatFirst, FlatType
<1>5. PICK d \in Word : d = Drop(in, z[D + 1]) /\ in = Cat(m, d) /\ Begins(d, r)
  BY <1>2, <1>3, <1>4, BeginsShorter
<1>6. Len(d) <= Len(in)
  <2>1. Len(in) = Len(m) + Len(d) /\ Len(m) \in Nat /\ Len(d) \in Nat
    BY <1>5, CatType
  <2> QED  BY <2>1
<1>7. Arrived(in, rd, wr, how) = Cat(m, Arrived(d, rd, wr, how))
  <2>1. Cat(in, rd) = Cat(m, Cat(d, rd)) /\ Cat(d, rd) \in Word
    BY <1>5, CatAssoc, CatType
  <2>2. Cat(Cat(m, Cat(d, rd)), wr) = Cat(m, Cat(Cat(d, rd), wr))
    BY <2>1, CatAssoc
  <2> QED  BY <1>5, <2>1, <2>2 DEF Arrived
<1>8. PICK a \in Word : a = Arrived(d, rd, wr, how)
  BY ArrivedType
<1>9. Begins(a, r)
  <2>1. PICK t \in Word : Cat(m, r) = Cat(Cat(m, a), t)
    BY <1>1, <1>4, <1>7, <1>8 DEF Stream, Begins
  <2>2. Cat(m, r) = Cat(m, Cat(a, t)) /\ Cat(a, t) \in Word
    BY <2>1, CatAssoc, CatType
  <2>3. r = Cat(a, t)
    BY <2>2, CatLeft
  <2> QED  BY <2>3 DEF Begins
<1>10. how = "whole" => r = Cat(a, left)
  <2> SUFFICES ASSUME how = "whole" PROVE r = Cat(a, left)
    OBVIOUS
  <2>1. Cat(m, r) = Cat(Cat(m, a), left)
    BY <1>1, <1>4, <1>7, <1>8 DEF Stream
  <2>2. Cat(m, r) = Cat(m, Cat(a, left)) /\ Cat(a, left) \in Word
    BY <2>1, CatAssoc, CatType
  <2> QED  BY <2>2, CatLeft
<1> QED  BY <1>4, <1>5, <1>6, <1>8, <1>9, <1>10 DEF Stream

-----------------------------------------------------------------------------
(* The inductive invariant.                                                *)
Types ==
  /\ go_on \in BOOLEAN
  /\ peers \subseteq Peer /\ held \subseteq Peer /\ gone \subseteq End \ held /\ fd \subseteq Peer
  /\ backlog \in Seq(Conn) /\ accept_inbox \in Seq(End)
  /\ lpc \in {"turn", "wait", "pack", "unpack", "ended"} /\ lpeer \in Peer
  /\ sent \in [End -> Seq(Size)] /\ packed \in [End -> Nat]
  /\ outbox \in [End -> Word] /\ wire \in [End -> Word] /\ inbox \in [End -> Word]
  /\ delivered \in [End -> Seq(Nat)] /\ taken \in [End -> Nat]

\* A peer that was started.
Born(p) == p \in held \cup gone \/ p \in ToSet(accept_inbox)
\* Connections that will be accepted.
Due == Got(ring, AcceptChain) \cup ToSet(backlog)

(* Who is where: nothing before bind; a peer is started once; the server's *)
(* end of a connection follows the client's.                               *)
Once(s) == \A i, j \in DOMAIN s : s[i] = s[j] => i = j
Unbound ==
  /\ peers = {} /\ held = {} /\ gone = {} /\ backlog = <<>> /\ accept_inbox = <<>>
  /\ \A k \in Chain : Alone(ring, k)
Accepted ==
  /\ \A p \in ToSet(accept_inbox) : p[2] = "server" /\ p \notin held \cup gone
  /\ Once(accept_inbox)
  /\ \A c \in Conn : Born(<<c, "server">>) => <<c, "client">> \in held \cup gone
ToAccept ==
  /\ Once(backlog) /\ Due \subseteq Conn /\ Got(ring, AcceptChain) \cap ToSet(backlog) = {}
  /\ \A c \in Due : <<c, "client">> \in held \cup gone /\ ~Born(<<c, "server">>)
Places ==
  /\ Acceptor \in peers <=> Acceptor \in held
  /\ Acceptor \notin peers => Unbound
  /\ \A p \in End : Alive(p) => p \in peers
  /\ Accepted /\ ToAccept

(* Chains: of whom, and that no peer that is served lacks one.             *)
Chains ==
  /\ \A k \in Chain : Alone(ring, k) \/ k = AcceptChain \/ (k[1] \in End /\ k[2] # "accept")
  /\ \A p \in End : \A act \in {"read", "write"} :
       /\ ~Born(p) => Alone(ring, <<p, act>>)
       /\ p \in gone => Flight(ring, <<p, act>>) = <<>>
       /\ Alive(p) /\ lpc # "ended" => ~Alone(ring, <<p, act>>)
  /\ Acceptor \in peers /\ lpc # "ended" => ~Alone(ring, AcceptChain)
Loops ==
  /\ lpc # "ended" => fd = Peer
  /\ lpc \in {"pack", "unpack"} => lpeer \in End /\ Born(lpeer)

AcceptRoom ==
  /\ Len(accept_inbox) <= AcceptCap
  /\ Live(ring, AcceptChain) => Len(accept_inbox) < AcceptCap
Rooms ==
  \A p \in End : /\ ReadRoom(ring, p, inbox[p]) /\ WriteRoom(ring, p, outbox[p])
                 /\ ~Born(p) => inbox[p] = <<>> /\ outbox[p] = <<>>

(* What was sent, packed, delivered and taken; and the bytes in between.   *)
Counted(p) ==
  /\ Len(delivered[Other(p)]) <= packed[p] /\ packed[p] <= Len(sent[p])
  /\ taken[p] <= Len(delivered[p])
  /\ delivered[p] = [n \in 1 .. Len(delivered[p]) |-> n]
Undelivered(p) == Flat(sent[p], Len(delivered[Other(p)]), packed[p])
OneOf(T, none) == IF T = {} THEN none ELSE CHOOSE x \in T : TRUE
AckedIn(R, p) == OneOf(Got(R, <<p, "write">>), 0)
ReadIn(R, p) == OneOf(Got(R, <<p, "read">>), <<>>)
How(p) == IF Other(p) \in gone THEN "deaf" ELSE IF p \in gone THEN "cut" ELSE "whole"
Streamed(p) ==
  Stream(Undelivered(p), inbox[Other(p)], ReadIn(ring, Other(p)), wire[p],
         Drop(outbox[p], AckedIn(ring, p)), How(p))
Flows == \A p \in End : Counted(p) /\ Streamed(p)

IndInv ==
  /\ Types /\ RingOK(ring) /\ Places /\ Chains /\ Loops /\ AcceptRoom /\ Rooms /\ Flows

LEMMA OtherEnd ==
  ASSUME NEW p \in End
  PROVE  Other(p) \in End /\ Other(Other(p)) = p /\ Other(p) # p
<1>1. PICK c \in Conn, s \in Side : p = <<c, s>>
  BY DEF End
<1>2. Other(p) = <<c, IF s = "client" THEN "server" ELSE "client">>
  BY <1>1 DEF Other
<1>3. CASE s = "client"
  <2>1. Other(p) = <<c, "server">>
    BY <1>2, <1>3
  <2> QED  BY <1>1, <1>3, <2>1 DEF Other, End, Side
<1>4. CASE s = "server"
  <2>1. Other(p) = <<c, "client">>
    BY <1>2, <1>4
  <2> QED  BY <1>1, <1>4, <2>1 DEF Other, End, Side
<1> QED  BY <1>3, <1>4 DEF Side

LEMMA EndPair ==
  /\ \A p \in End : \E c \in Conn : p = <<c, "client">> \/ p = <<c, "server">>
  /\ \A c \in Conn : <<c, "client">> \in End /\ <<c, "server">> \in End
  /\ \A c : <<c, "client">> # <<c, "server">>
BY DEF End, Side

LEMMA SentSizes ==
  ASSUME NEW z \in Seq(Size)
  PROVE  z \in Sizes
<1>1. Size \subseteq Nat \ {0}
  BY IouAssumption
<1>2. Len(z) \in Nat /\ \A i \in 1 .. Len(z) : z[i] \in Nat \ {0}
  <2>1. Len(z) \in Nat /\ \A i \in 1 .. Len(z) : z[i] \in Size
    OBVIOUS
  <2> QED  BY <1>1, <2>1
<1>3. z = [i \in 1 .. Len(z) |-> z[i]]
  OBVIOUS
<1> QED  BY <1>2, <1>3 DEF Sizes

(* The results a peer has not seen, of the ring.                           *)
LEMMA GotIn ==
  ASSUME NEW R, NEW p
  PROVE  /\ Got(R, <<p, "write">>) = {} => AckedIn(R, p) = 0
         /\ Got(R, <<p, "read">>) = {} => ReadIn(R, p) = <<>>
         /\ \A n : Got(R, <<p, "write">>) = {n} => AckedIn(R, p) = n
         /\ \A s : Got(R, <<p, "read">>) = {s} => ReadIn(R, p) = s
<1>1. \A n : (CHOOSE x \in {n} : TRUE) = n /\ {n} # {}
  OBVIOUS
<1> QED  BY <1>1 DEF AckedIn, ReadIn, OneOf

LEMMA SameIn ==
  ASSUME NEW R, NEW S, NEW p
  PROVE  /\ Got(S, <<p, "write">>) = Got(R, <<p, "write">>) => AckedIn(S, p) = AckedIn(R, p)
         /\ Got(S, <<p, "read">>) = Got(R, <<p, "read">>) => ReadIn(S, p) = ReadIn(R, p)
BY DEF AckedIn, ReadIn

LEMMA InTypes ==
  ASSUME NEW R, NEW p, NEW in \in Word, NEW out \in Word, ReadRoom(R, p, in),
         WriteRoom(R, p, out)
  PROVE  /\ AckedIn(R, p) \in Nat /\ AckedIn(R, p) <= Len(out)
         /\ ReadIn(R, p) \in Word
         /\ Len(ReadIn(R, p)) <= InCap - Len(in)
<1>1. /\ AckedIn(R, p) = 0 \/ AckedIn(R, p) \in Got(R, <<p, "write">>)
      /\ ReadIn(R, p) = <<>> \/ ReadIn(R, p) \in Got(R, <<p, "read">>)
  BY DEF AckedIn, ReadIn, OneOf
<1>2. AckedIn(R, p) \in Nat /\ AckedIn(R, p) <= Len(out)
  <2>1. Len(out) \in Nat
    BY CatType
  <2> QED  BY <1>1, <2>1 DEF WriteRoom
<1>3. ReadIn(R, p) \in Word /\ Len(ReadIn(R, p)) <= InCap - Len(in)
  <2>1. CASE ReadIn(R, p) = <<>>
    <3>1. Len(in) \in Nat /\ InCap \in Nat /\ Len(in) <= InCap
      BY CatType, IouAssumption DEF ReadRoom
    <3> QED  BY <2>1, <3>1, CatEmpty
  <2>2. CASE ReadIn(R, p) \in Got(R, <<p, "read">>)
    BY <2>2 DEF ReadRoom
  <2> QED  BY <1>1, <2>1, <2>2
<1> QED  BY <1>2, <1>3

-----------------------------------------------------------------------------
(* The beginning.                                                          *)
LEMMA InitRing ==
  ASSUME Init
  PROVE  RingOK(ring) /\ \A k : Done(ring, k) = {} /\ \A j \in Chain : Alone(ring, j)
<1>1. PICK F, q : F = [k \in Chain |-> <<>>] /\ q = <<>> /\ ring = [inflight |-> F, cq |-> q]
  BY DEF Init
<1>2. F \in [Chain -> Seq(Requests)] /\ q \in Seq(Finished) /\ \A k \in Chain : F[k] = <<>>
  BY <1>1
<1>3. DOMAIN q = {} /\ Len(<<>>) = 0
  BY <1>1
<1>4. Single(F, q)
  BY <1>2, <1>3 DEF Single
<1>5. RingOK(ring) /\ ring.inflight = F /\ ring.cq = q /\ RingType(ring)
  BY <1>1, <1>2, <1>4, RingMade DEF RingOK
<1>6. \A k, c : c \notin Done(ring, k)
  BY <1>3, <1>5, RingDone
<1> QED  BY <1>2, <1>5, <1>6 DEF Alone, Flight

LEMMA NoneAre ==
  ToSet(<<>>) = {} /\ Once(<<>>)
BY DEF ToSet, Once

LEMMA InitInv ==
  ASSUME Init
  PROVE  IndInv
<1>1. \A k \in Chain : Alone(ring, k) /\ Got(ring, k) = {} /\ ~Live(ring, k)
  BY InitRing, AloneView
<1>2. Types
  <2>1. <<>> \in Word /\ <<>> \in Seq(Size) /\ <<>> \in Seq(Nat) /\ <<>> \in Seq(Conn)
        /\ <<>> \in Seq(End) /\ Acceptor \in Peer /\ 0 \in Nat
    BY CatEmpty, ChainTypes
  <2> QED  BY <2>1, IouAssumption DEF Init, Types
<1>3. Places
  <2>1. Due = {}
    BY <1>1, NoneAre, ChainTypes DEF Due, Init
  <2>2. \A p : ~Born(p) /\ ~Alive(p)
    BY NoneAre DEF Born, Alive, Init
  <2>3. Unbound
    BY <1>1 DEF Unbound, Init
  <2>4. Accepted
    BY <2>2, NoneAre DEF Accepted, Init
  <2>5. ToAccept
    BY <1>1, <2>1, NoneAre, ChainTypes DEF ToAccept, Init
  <2> QED  BY <2>2, <2>3, <2>4, <2>5 DEF Places, Init
<1>4. Chains
  <2>1. \A p : ~Born(p) /\ ~Alive(p)
    BY NoneAre DEF Born, Alive, Init
  <2>2. \A p \in End : \A act \in {"read", "write"} : <<p, act>> \in Chain
    BY ChainTypes
  <2>3. Acceptor \notin peers
    BY DEF Init
  <2> QED  BY <1>1, <2>1, <2>2, <2>3 DEF Chains, Alone
<1>5. Loops
  BY DEF Loops, Init
<1>6. AcceptRoom
  <2>1. Len(<<>>) = 0 /\ AcceptCap \in Nat /\ 0 <= AcceptCap
    BY IouAssumption
  <2>2. ~Live(ring, AcceptChain)
    BY <1>1, ChainTypes
  <2> QED  BY <2>1, <2>2 DEF AcceptRoom, Init
<1>7. Rooms
  <2> SUFFICES ASSUME NEW p \in End
               PROVE  /\ ReadRoom(ring, p, inbox[p]) /\ WriteRoom(ring, p, outbox[p])
                      /\ inbox[p] = <<>> /\ outbox[p] = <<>>
    BY DEF Rooms
  <2>1. inbox[p] = <<>> /\ outbox[p] = <<>>
    BY DEF Init
  <2>2. \A act \in {"read", "write"} :
          Flight(ring, <<p, act>>) = <<>> /\ Got(ring, <<p, act>>) = {}
    BY <1>1, ChainTypes DEF Alone
  <2>3. Len(<<>>) = 0 /\ 0 <= InCap /\ 0 <= OutCap
    BY IouAssumption
  <2> QED  BY <2>1, <2>2, <2>3 DEF ReadRoom, WriteRoom
<1>8. Flows
  <2> SUFFICES ASSUME NEW p \in End
               PROVE  Counted(p) /\ Streamed(p)
    BY DEF Flows
  <2>1. PICK q \in End : q = Other(p)
    BY OtherEnd
  <2>2. /\ sent[p] = <<>> /\ packed[p] = 0 /\ outbox[p] = <<>> /\ wire[p] = <<>>
        /\ inbox[q] = <<>> /\ delivered[p] = <<>> /\ delivered[q] = <<>> /\ taken[p] = 0
        /\ gone = {}
    BY DEF Init
  <2>3. Len(<<>>) = 0 /\ <<>> = [n \in 1 .. 0 |-> n]
    OBVIOUS
  <2>4. Counted(p)
    BY <2>1, <2>2, <2>3 DEF Counted
  <2>5. Got(ring, <<q, "read">>) = {} /\ Got(ring, <<p, "write">>) = {}
    BY <1>1, ChainTypes
  <2>6. ReadIn(ring, q) = <<>> /\ AckedIn(ring, p) = 0
    BY <2>5, GotIn
  <2>7. Drop(<<>>, 0) = <<>>
    <3>1. <<>> = Cat(<<>>, <<>>) /\ Len(<<>>) = 0 /\ <<>> \in Word
      BY CatEmpty
    <3> QED  BY <3>1, DropHead
  <2>8. Undelivered(p) = <<>>
    <3>1. 0 \in Nat
      OBVIOUS
    <3> QED  BY <2>1, <2>2, <2>3, <3>1, FlatEmpty DEF Undelivered
  <2>9. Stream(<<>>, <<>>, <<>>, <<>>, <<>>, How(p))
    <3>1. Cat(<<>>, <<>>) = <<>> /\ <<>> \in Word
      BY CatEmpty
    <3> QED  BY <3>1, BeginsSelf DEF Stream, Arrived
  <2> QED  BY <2>1, <2>2, <2>4, <2>6, <2>7, <2>8, <2>9 DEF Streamed
<1> QED  BY <1>2, <1>3, <1>4, <1>5, <1>6, <1>7, <1>8, InitRing DEF IndInv

-----------------------------------------------------------------------------
(* What a step leaves alone.                                               *)
LEMMA PlacesFrame ==
  ASSUME Places, UNCHANGED <<peers, held, gone, backlog, accept_inbox>>,
         Got(ring', AcceptChain) = Got(ring, AcceptChain),
         Acceptor \in peers \/ ring' = ring
  PROVE  Places'
<1>1. /\ peers' = peers /\ held' = held /\ gone' = gone /\ backlog' = backlog
      /\ accept_inbox' = accept_inbox
  OBVIOUS
<1>2. Due' = Due
  BY <1>1 DEF Due
<1>3. \A p : (Born(p)' <=> Born(p)) /\ (Alive(p)' <=> Alive(p))
  BY <1>1 DEF Born, Alive
<1>4. Acceptor \notin peers => Unbound'
  BY <1>1 DEF Places, Unbound
<1>5. Accepted'
  BY <1>1, <1>3 DEF Places, Accepted
<1>6. ToAccept'
  BY <1>1, <1>2, <1>3 DEF Places, ToAccept
<1> QED  BY <1>1, <1>3, <1>4, <1>5, <1>6 DEF Places

LEMMA ChainsKept ==
  ASSUME Chains, lpc' = "ended" \/ lpc # "ended", Acceptor \in peers' => Acceptor \in peers,
         \A p \in End : (Born(p)' <=> Born(p)) /\ (Alive(p)' => Alive(p)),
         \A k \in Chain : Alone(ring', k) <=> Alone(ring, k),
         \A p \in gone' : \A act \in {"read", "write"} : Flight(ring', <<p, act>>) = <<>>
  PROVE  Chains'
<1>1. \A p \in End : \A act \in {"read", "write"} : <<p, act>> \in Chain
  BY ChainTypes
<1> QED  BY <1>1, ChainTypes DEF Chains

LEMMA ChainsFrame ==
  ASSUME Chains, UNCHANGED <<peers, held, gone, accept_inbox>>,
         lpc' = "ended" \/ lpc # "ended",
         \A k \in Chain : Alone(ring', k) <=> Alone(ring, k),
         \A p \in gone : \A act \in {"read", "write"} : Flight(ring', <<p, act>>) = <<>>
  PROVE  Chains'
<1>1. /\ peers' = peers /\ held' = held /\ gone' = gone /\ accept_inbox' = accept_inbox
  OBVIOUS
<1>2. \A p \in End : (Born(p)' <=> Born(p)) /\ (Alive(p)' => Alive(p))
  BY <1>1 DEF Born, Alive
<1> QED  BY <1>1, <1>2, ChainsKept

LEMMA StreamFrame ==
  ASSUME NEW p \in End, Streamed(p), UNCHANGED gone,
         sent'[p] = sent[p], packed'[p] = packed[p], outbox'[p] = outbox[p],
         wire'[p] = wire[p], inbox'[Other(p)] = inbox[Other(p)],
         delivered'[Other(p)] = delivered[Other(p)],
         Got(ring', <<p, "write">>) = Got(ring, <<p, "write">>),
         Got(ring', <<Other(p), "read">>) = Got(ring, <<Other(p), "read">>)
  PROVE  Streamed(p)'
<1>1. /\ AckedIn(ring', p) = AckedIn(ring, p) /\ ReadIn(ring', Other(p)) = ReadIn(ring, Other(p))
      /\ gone' = gone
  BY SameIn
<1>2. Other(p)' = Other(p)
  BY DEF Other
<1>3. Undelivered(p)' = Undelivered(p) /\ How(p)' = How(p)
  BY <1>1, <1>2 DEF Undelivered, How
<1> QED  BY <1>1, <1>2, <1>3 DEF Streamed

LEMMA FlowFrame ==
  ASSUME NEW p \in End, Counted(p), Streamed(p), gone' = gone,
         sent'[p] = sent[p], packed'[p] = packed[p], outbox'[p] = outbox[p],
         wire'[p] = wire[p], inbox'[Other(p)] = inbox[Other(p)],
         delivered'[p] = delivered[p], taken'[p] = taken[p],
         delivered'[Other(p)] = delivered[Other(p)],
         Got(ring', <<p, "write">>) = Got(ring, <<p, "write">>),
         Got(ring', <<Other(p), "read">>) = Got(ring, <<Other(p), "read">>)
  PROVE  Counted(p)' /\ Streamed(p)'
<1>1. gone' = gone /\ Other(p)' = Other(p)
  BY DEF Other
<1>2. Counted(p)'
  BY <1>1 DEF Counted
<1>3. Streamed(p)'
  BY <1>1, StreamFrame
<1> QED  BY <1>2, <1>3

LEMMA FlowsFrame ==
  ASSUME Flows, UNCHANGED <<gone, bytes>>,
         \A p \in End : \A act \in {"read", "write"} :
           Got(ring', <<p, act>>) = Got(ring, <<p, act>>)
  PROVE  Flows'
<1> SUFFICES ASSUME NEW p \in End PROVE Counted(p)' /\ Streamed(p)'
  BY DEF Flows
<1>1. /\ sent' = sent /\ packed' = packed /\ outbox' = outbox /\ wire' = wire
      /\ inbox' = inbox /\ delivered' = delivered /\ taken' = taken
  BY DEF bytes
<1>2. Counted(p) /\ Streamed(p) /\ Other(p) \in End
  BY OtherEnd DEF Flows
<1> QED  BY <1>1, <1>2, FlowFrame

LEMMA RoomsFrame ==
  ASSUME Rooms, UNCHANGED <<inbox, outbox, ring>>, \A p \in End : Born(p) => Born(p)'
  PROVE  Rooms'
BY DEF Rooms

LEMMA AcceptRoomFrame ==
  ASSUME AcceptRoom, accept_inbox' = accept_inbox,
         Live(ring', AcceptChain) => Live(ring, AcceptChain)
  PROVE  AcceptRoom'
BY DEF AcceptRoom

\* The loop goes from one step to another.
LEMMA ControlStep ==
  ASSUME IndInv, UNCHANGED <<peers, held, gone, backlog, accept_inbox, ring, bytes>>,
         Types', Loops', lpc' = "ended" \/ lpc # "ended"
  PROVE  IndInv'
<1>1. /\ peers' = peers /\ held' = held /\ gone' = gone /\ backlog' = backlog
      /\ accept_inbox' = accept_inbox /\ ring' = ring /\ bytes' = bytes
      /\ inbox' = inbox /\ outbox' = outbox
  BY DEF bytes
<1>2. Places' /\ RingOK(ring)' /\ AcceptRoom'
  BY <1>1, PlacesFrame, AcceptRoomFrame DEF IndInv
<1>3. Chains'
  <2>1. \A p \in gone : \A act \in {"read", "write"} : Flight(ring, <<p, act>>) = <<>>
    BY DEF IndInv, Chains, Types
  <2> QED  BY <1>1, <2>1, ChainsFrame DEF IndInv
<1>4. Rooms'
  BY <1>1, RoomsFrame DEF IndInv, Born
<1>5. Flows'
  BY <1>1, FlowsFrame DEF IndInv
<1> QED  BY <1>2, <1>3, <1>4, <1>5 DEF IndInv

\* Bytes move from one place to another.
LEMMA BytesStep ==
  ASSUME IndInv, UNCHANGED <<user, loop, ring>>, Types', Rooms', Flows'
  PROVE  IndInv'
<1>1. /\ peers' = peers /\ held' = held /\ gone' = gone /\ backlog' = backlog
      /\ accept_inbox' = accept_inbox /\ ring' = ring /\ lpc' = lpc /\ lpeer' = lpeer /\ fd' = fd
  BY DEF user, loop
<1>2. Places' /\ RingOK(ring)' /\ AcceptRoom'
  BY <1>1, PlacesFrame, AcceptRoomFrame DEF IndInv
<1>3. Chains'
  <2>1. \A p \in gone : \A act \in {"read", "write"} : Flight(ring, <<p, act>>) = <<>>
    BY DEF IndInv, Chains, Types
  <2> QED  BY <1>1, <2>1, ChainsFrame DEF IndInv
<1>4. Loops'
  BY <1>1 DEF IndInv, Loops, Born
<1> QED  BY <1>2, <1>3, <1>4 DEF IndInv

LEMMA StopInv ==
  ASSUME IndInv, Stop
  PROVE  IndInv'
<1>1. Types' /\ Loops' /\ UNCHANGED <<peers, held, gone, backlog, accept_inbox, ring, bytes>>
  BY DEF IndInv, Types, Loops, Born, Stop, loop, bytes
<1>2. lpc' = lpc
  BY DEF Stop, loop
<1> QED  BY <1>1, <1>2, ControlStep

LEMMA TurnInv ==
  ASSUME IndInv, Turn
  PROVE  IndInv'
<1>1. Types' /\ Loops' /\ UNCHANGED <<peers, held, gone, backlog, accept_inbox, ring, bytes>>
  BY DEF IndInv, Types, Loops, Born, Turn, user, bytes
<1>2. lpc # "ended"
  BY DEF Turn
<1> QED  BY <1>1, <1>2, ControlStep

LEMMA HandleFailedInv ==
  ASSUME IndInv, HandleFailed
  PROVE  IndInv'
<1>1. Types' /\ Loops' /\ UNCHANGED <<peers, held, gone, backlog, accept_inbox, ring, bytes>>
  BY DEF IndInv, Types, Loops, Born, HandleFailed, user, bytes
<1>2. lpc' = "ended"
  BY DEF HandleFailed
<1> QED  BY <1>1, <1>2, ControlStep

LEMMA PackEndInv ==
  ASSUME IndInv, PackEnd \/ UnpackEnd
  PROVE  IndInv'
<1>1. /\ lpc \in {"pack", "unpack"} /\ lpc' = "turn" /\ lpeer' = lpeer /\ fd' = fd
      /\ UNCHANGED <<go_on, peers, held, gone, backlog, accept_inbox, ring, bytes>>
  BY DEF PackEnd, UnpackEnd, user
<1>2. Types' /\ Loops'
  BY <1>1 DEF IndInv, Types, Loops, Born, bytes
<1>3. lpc # "ended"
  BY <1>1
<1> QED  BY <1>1, <1>2, <1>3, ControlStep

LEMMA StutterInv ==
  ASSUME IndInv, UNCHANGED vars
  PROVE  IndInv'
<1>1. Types' /\ Loops' /\ UNCHANGED <<peers, held, gone, backlog, accept_inbox, ring, bytes>>
  BY DEF IndInv, Types, Loops, Born, vars, user, loop, bytes
<1>2. lpc' = lpc
  BY DEF vars, loop
<1> QED  BY <1>1, <1>2, ControlStep

-----------------------------------------------------------------------------
(* Bytes are sent, packed, unpacked and taken.                             *)
LEMMA FlowVars ==
  ASSUME IndInv, NEW p \in End
  PROVE  /\ Other(p) \in End /\ Other(Other(p)) = p /\ Other(p) # p
         /\ sent[p] \in Sizes /\ Len(sent[p]) \in Nat /\ packed[p] \in Nat
         /\ Len(delivered[Other(p)]) \in Nat
         /\ Len(delivered[Other(p)]) <= packed[p] /\ packed[p] <= Len(sent[p])
         /\ inbox[Other(p)] \in Word /\ inbox[p] \in Word /\ wire[p] \in Word
         /\ outbox[p] \in Word /\ ReadIn(ring, Other(p)) \in Word
         /\ AckedIn(ring, p) \in Nat /\ AckedIn(ring, p) <= Len(outbox[p])
         /\ Drop(outbox[p], AckedIn(ring, p)) \in Word
         /\ Undelivered(p) \in Word /\ Counted(p) /\ Streamed(p)
<1>1. Other(p) \in End /\ Other(Other(p)) = p /\ Other(p) # p
  BY OtherEnd
<1>2. /\ sent[p] \in Seq(Size) /\ packed[p] \in Nat /\ delivered[Other(p)] \in Seq(Nat)
      /\ inbox[Other(p)] \in Word /\ inbox[p] \in Word /\ wire[p] \in Word /\ outbox[p] \in Word
      /\ outbox[Other(p)] \in Word
  BY <1>1 DEF IndInv, Types
<1>3. sent[p] \in Sizes /\ Len(sent[p]) \in Nat /\ Len(delivered[Other(p)]) \in Nat
  BY <1>2, SentSizes
<1>4. Counted(p) /\ Streamed(p)
  BY DEF IndInv, Flows
<1>5. Len(delivered[Other(p)]) <= packed[p] /\ packed[p] <= Len(sent[p])
  BY <1>4 DEF Counted
<1>6. /\ ReadRoom(ring, p, inbox[p]) /\ WriteRoom(ring, p, outbox[p])
      /\ ReadRoom(ring, Other(p), inbox[Other(p)]) /\ WriteRoom(ring, Other(p), outbox[Other(p)])
  BY <1>1 DEF IndInv, Rooms
<1>7. /\ ReadIn(ring, Other(p)) \in Word
      /\ AckedIn(ring, p) \in Nat /\ AckedIn(ring, p) <= Len(outbox[p])
  BY <1>2, <1>6, InTypes
<1>8. Drop(outbox[p], AckedIn(ring, p)) \in Word
  BY <1>2, <1>7, Split
<1>9. Undelivered(p) \in Word
  BY <1>2, <1>3, <1>5, FlatType DEF Undelivered
<1> QED  BY <1>1, <1>2, <1>3, <1>4, <1>5, <1>7, <1>8, <1>9

LEMMA OneMore ==
  ASSUME NEW S, NEW z \in Seq(S), NEW s \in S
  PROVE  /\ Append(z, s) \in Seq(S) /\ Len(Append(z, s)) = Len(z) + 1 /\ Len(z) \in Nat
         /\ \A n \in 1 .. Len(z) : Append(z, s)[n] = z[n]
         /\ Append(z, s)[Len(z) + 1] = s
BY AppendProperties

LEMMA AsyncSendInv ==
  ASSUME IndInv, NEW p \in End, NEW s \in Size, AsyncSend(p, s)
  PROVE  IndInv'
<1>1. /\ sent' = [sent EXCEPT ![p] = Append(@, s)]
      /\ UNCHANGED <<user, loop, ring>>
      /\ packed' = packed /\ outbox' = outbox /\ wire' = wire /\ inbox' = inbox
      /\ delivered' = delivered /\ taken' = taken /\ gone' = gone
  BY DEF AsyncSend, user
<1>2. PICK z, w : /\ z = sent[p] /\ w = Append(z, s) /\ w = sent'[p] /\ w \in Seq(Size)
                  /\ Len(w) = Len(z) + 1 /\ \A n \in 1 .. Len(z) : w[n] = z[n]
  <2>1. s \in Size /\ sent[p] \in Seq(Size) /\ sent'[p] = Append(sent[p], s)
    BY <1>1 DEF IndInv, Types
  <2>2. /\ Append(sent[p], s) \in Seq(Size)
        /\ Len(Append(sent[p], s)) = Len(sent[p]) + 1
        /\ \A n \in 1 .. Len(sent[p]) : Append(sent[p], s)[n] = sent[p][n]
    BY <2>1, OneMore
  <2> QED  BY <2>1, <2>2
<1>3. Types'
  BY <1>1, <1>2 DEF IndInv, Types, user, loop
<1>4. Rooms'
  BY <1>1, RoomsFrame DEF IndInv, Born, user, loop
<1>5. Flows'
  <2> SUFFICES ASSUME NEW r \in End PROVE Counted(r)' /\ Streamed(r)'
    BY DEF Flows
  <2>1. Counted(r) /\ Streamed(r)
    BY FlowVars
  <2>2. CASE r # p
    <3>1. sent'[r] = sent[r]
      BY <1>1, <2>2 DEF IndInv, Types
    <3> QED  BY <1>1, <2>1, <3>1, FlowFrame
  <2>3. CASE r = p
    <3>1. Other(p)' = Other(p)
      BY DEF Other
    <3>2. Counted(p)'
      <4>1. Len(z) \in Nat /\ packed[p] \in Nat /\ packed[p] <= Len(w)
        BY <1>2, FlowVars
      <4> QED  BY <1>1, <1>2, <2>1, <2>3, <3>1, <4>1 DEF Counted
    <3>3. Undelivered(p)' = Undelivered(p)
      <4>1. PICK D \in Nat, P \in Nat :
              D = Len(delivered[Other(p)]) /\ P = packed[p] /\ D <= P /\ P <= Len(z) /\ Len(z) \in Nat
        BY <1>2, FlowVars
      <4>2. \A n \in D + 1 .. P : z[n] = w[n]
        BY <1>2, <4>1
      <4>3. Flat(z, D, P) = Flat(w, D, P)
        <5>1. D <= P
          BY <4>1
        <5> QED  BY ONLY D \in Nat, P \in Nat, <5>1, <4>2, FlatSame
      <4> QED  BY <1>1, <1>2, <3>1, <4>1, <4>3 DEF Undelivered
    <3>4. Streamed(p)'
      BY <1>1, <2>1, <2>3, <3>1, <3>3 DEF Streamed, How
    <3> QED  BY <2>3, <3>2, <3>4
  <2> QED  BY <2>2, <2>3
<1> QED  BY <1>1, <1>3, <1>4, <1>5, BytesStep

\* A message follows what is in the outbox.
LEMMA PackedFlow ==
  ASSUME IndInv, NEW p \in End, NEW z \in Sizes, z = sent'[p], NEW m \in Word,
         \A n \in 1 .. packed[p] : z[n] = sent[p][n], packed[p] < Len(z),
         m = Message(z, packed[p] + 1),
         packed'[p] = packed[p] + 1, outbox'[p] = Cat(outbox[p], m),
         UNCHANGED <<wire, inbox, delivered, ring, gone>>
  PROVE  Streamed(p)'
<1>1. Other(p)' = Other(p)
  BY DEF Other
<1>2. PICK D \in Nat, P \in Nat :
        /\ D = Len(delivered[Other(p)]) /\ P = packed[p] /\ D <= P /\ P < Len(z)
        /\ P <= Len(sent[p]) /\ sent[p] \in Sizes
  BY FlowVars
<1>3. PICK U \in Word : U = Undelivered(p) /\ U = Flat(sent[p], D, P)
  BY <1>2, FlowVars DEF Undelivered
<1>4. Undelivered(p)' = Cat(U, m)
  <2>1. \A n \in D + 1 .. P : sent[p][n] = z[n]
    BY <1>2
  <2>2. PICK y : y = sent[p]
    OBVIOUS
  <2>3. Flat(y, D, P) = Flat(z, D, P)
    <3>1. D <= P /\ \A n \in D + 1 .. P : y[n] = z[n]
      BY <1>2, <2>1, <2>2
    <3> QED  BY ONLY D \in Nat, P \in Nat, <3>1, FlatSame
  <2>4. Flat(z, D, P + 1) = Cat(U, m)
    <3>1. D <= P /\ P < Len(z)
      BY <1>2
    <3>2. Flat(z, D, P + 1) = Cat(Flat(z, D, P), Message(z, P + 1))
      BY ONLY z \in Sizes, D \in Nat, P \in Nat, <3>1, FlatLast
    <3> QED  BY <1>2, <1>3, <2>2, <2>3, <3>2
  <2>5. Undelivered(p)' = Flat(z, D, P + 1)
    BY <1>1, <1>2 DEF Undelivered
  <2> QED  BY <2>4, <2>5
<1>5. PICK n \in Nat, out \in Word, in \in Word, rd \in Word, wr \in Word :
        /\ n = AckedIn(ring, p) /\ out = outbox[p] /\ in = inbox[Other(p)] /\ wr = wire[p]
        /\ rd = ReadIn(ring, Other(p)) /\ n <= Len(out)
  BY FlowVars
<1>6. PICK how : how = How(p) /\ How(p)' = how
  <2>1. How(p)' = How(p)
    BY <1>1 DEF How
  <2> QED  BY <2>1
<1>7. Drop(out, n) \in Word /\ Drop(Cat(out, m), n) = Cat(Drop(out, n), m)
  BY <1>5, Split, DropCat
<1>8. Stream(U, in, rd, wr, Drop(out, n), how)
  BY <1>3, <1>5, <1>6, FlowVars DEF Streamed
<1>9. Stream(Cat(U, m), in, rd, wr, Cat(Drop(out, n), m), how)
  BY <1>7, <1>8, StreamPack
<1>10. /\ AckedIn(ring, p)' = n /\ ReadIn(ring, Other(p))' = rd /\ wire'[p] = wr
       /\ inbox'[Other(p)] = in /\ outbox'[p] = Cat(out, m)
  BY <1>1, <1>5
<1> QED  BY <1>1, <1>4, <1>6, <1>7, <1>9, <1>10 DEF Streamed

\* And the request that is being written still begins it.
LEMMA PackedRoom ==
  ASSUME NEW R, NEW p, NEW out \in Word, NEW m \in Word, WriteRoom(R, p, out), RingOK(R),
         p \in End, Len(out) + Len(m) <= OutCap
  PROVE  WriteRoom(R, p, Cat(out, m))
<1> DEFINE k == <<p, "write">>
<1>1. Len(Cat(out, m)) = Len(out) + Len(m) /\ Len(out) \in Nat /\ Len(m) \in Nat
  BY CatType
<1>2. Flight(R, k) # <<>> => Begins(Head(Flight(R, k)).data, Cat(out, m))
  <2> SUFFICES ASSUME Flight(R, k) # <<>> PROVE Begins(Head(Flight(R, k)).data, Cat(out, m))
    OBVIOUS
  <2>1. k \in Chain
    BY ChainTypes
  <2>2. PICK d \in Word : d = Head(Flight(R, k)).data
    BY <2>1, FlightOne DEF Requests
  <2> QED  BY <2>2, BeginsCat DEF WriteRoom
<1>3. \A n \in Got(R, k) : n \in Nat /\ n <= Len(Cat(out, m))
  BY <1>1 DEF WriteRoom
<1> QED  BY <1>1, <1>2, <1>3 DEF WriteRoom

\* The rooms of the peers whose boxes have not changed.
LEMMA RoomsAt ==
  ASSUME Rooms, UNCHANGED ring, NEW p \in End, inbox'[p] = inbox[p], outbox'[p] = outbox[p]
  PROVE  /\ ReadRoom(ring, p, inbox[p])' /\ WriteRoom(ring, p, outbox[p])'
         /\ ~Born(p) => inbox'[p] = <<>> /\ outbox'[p] = <<>>
BY DEF Rooms

LEMMA PackOneInv ==
  ASSUME IndInv, PackOne
  PROVE  IndInv'
<1>1. PICK p \in End : p = lpeer /\ Born(p)
  BY DEF IndInv, Loops, PackOne
<1>2. /\ CanPack(p) /\ UNCHANGED <<user, loop, ring>>
      /\ outbox' = [outbox EXCEPT ![p] = @ \o BytesOf(p, packed[p] + 1)]
      /\ packed' = [packed EXCEPT ![p] = @ + 1]
      /\ sent' = sent /\ wire' = wire /\ inbox' = inbox /\ delivered' = delivered
      /\ taken' = taken /\ gone' = gone
  BY <1>1 DEF PackOne, user
<1>3. PICK z \in Sizes, P \in Nat :
        z = sent[p] /\ P = packed[p] /\ P < Len(z) /\ P + 1 \in 1 .. Len(z)
        /\ z[P + 1] <= OutCap - Len(outbox[p])
  <2>1. sent[p] \in Sizes /\ packed[p] \in Nat /\ Len(sent[p]) \in Nat
    BY <1>1, FlowVars
  <2>2. packed[p] < Len(sent[p]) /\ packed[p] + 1 \in 1 .. Len(sent[p])
    BY <1>2, <2>1 DEF CanPack
  <2> QED  BY <1>2, <2>1, <2>2 DEF CanPack
<1>4. PICK m \in Word : /\ m = Message(z, P + 1) /\ Len(m) = z[P + 1] /\ z[P + 1] \in Nat
                        /\ m = BytesOf(p, packed[p] + 1)
  BY <1>3, MessageType DEF BytesOf, Message
<1>5. PICK out \in Word : /\ out = outbox[p] /\ outbox'[p] = Cat(out, m)
                          /\ Cat(out, m) \in Word /\ packed'[p] = P + 1
  <2>1. outbox[p] \in Word /\ Cat(outbox[p], m) \in Word
    BY <1>1, FlowVars, CatType
  <2>2. outbox'[p] = Cat(outbox[p], m) /\ packed'[p] = P + 1
    BY <1>1, <1>2, <1>3, <1>4 DEF IndInv, Types, Cat
  <2> QED  BY <2>1, <2>2
<1>6. \A r \in End : r # p => outbox'[r] = outbox[r] /\ packed'[r] = packed[r]
  BY <1>1, <1>2 DEF IndInv, Types
<1>7. Types'
  <2>1. outbox' \in [End -> Word] /\ packed' \in [End -> Nat]
    <3>1. outbox' = [outbox EXCEPT ![p] = Cat(out, m)] /\ packed' = [packed EXCEPT ![p] = P + 1]
      BY <1>2, <1>3, <1>4, <1>5 DEF Cat
    <3> QED  BY <1>5, <3>1 DEF IndInv, Types
  <2> QED  BY <1>2, <2>1 DEF IndInv, Types, user, loop
<1>8. Rooms'
  <2> SUFFICES ASSUME NEW r \in End
               PROVE  /\ ReadRoom(ring, r, inbox[r])' /\ WriteRoom(ring, r, outbox[r])'
                      /\ ~Born(r)' => inbox'[r] = <<>> /\ outbox'[r] = <<>>
    BY DEF Rooms
  <2>1. (Born(r)' <=> Born(r)) /\ ring' = ring
    BY <1>2 DEF Born, user, loop
  <2>2. CASE r # p
    BY <1>2, <1>6, <2>1, <2>2, RoomsAt DEF IndInv
  <2>3. CASE r = p
    <3>1. ReadRoom(ring, p, inbox[p]) /\ WriteRoom(ring, p, outbox[p]) /\ RingOK(ring)
      BY <1>1 DEF IndInv, Rooms
    <3>2. Len(out) + Len(m) <= OutCap
      <4>1. Len(out) \in Nat /\ OutCap \in Nat
        BY CatType, IouAssumption
      <4>2. PICK h \in Nat, o \in Nat : h = Len(m) /\ o = Len(out) /\ h <= OutCap - o
        BY <1>3, <1>4, <1>5, <4>1
      <4> QED  BY <4>1, <4>2
    <3>3. WriteRoom(ring, p, Cat(out, m))
      BY <1>1, <1>5, <3>1, <3>2, PackedRoom
    <3> QED  BY <1>1, <1>2, <1>5, <2>1, <2>3, <3>1, <3>3
  <2> QED  BY <2>2, <2>3
<1>9. Flows'
  <2> SUFFICES ASSUME NEW r \in End PROVE Counted(r)' /\ Streamed(r)'
    BY DEF Flows
  <2>1. Counted(r) /\ Streamed(r)
    BY FlowVars
  <2>2. CASE r # p
    BY <1>2, <1>6, <2>1, <2>2, FlowFrame
  <2>3. CASE r = p
    <3>1. Counted(p)'
      <4>1. Other(p)' = Other(p) /\ Len(delivered[Other(p)]) \in Nat
        BY <1>1, FlowVars DEF Other
      <4> QED  BY <1>2, <1>3, <1>5, <2>1, <2>3, <4>1 DEF Counted
    <3>2. Streamed(p)'
      <4>1. z = sent'[p] /\ \A n \in 1 .. packed[p] : z[n] = sent[p][n]
        BY <1>2, <1>3
      <4> QED  BY <1>1, <1>2, <1>3, <1>4, <1>5, <4>1, PackedFlow
    <3> QED  BY <2>3, <3>1, <3>2
  <2> QED  BY <2>2, <2>3
<1> QED  BY <1>2, <1>7, <1>8, <1>9, BytesStep

\* The head of an inbox is of the next message of the other end.
LEMMA HeadIn ==
  ASSUME IndInv, NEW q \in End, NEW s \in End, s = Other(q), inbox[q] # <<>>,
         NEW D \in Nat, D = Len(delivered[q])
  PROVE  /\ Head(inbox[q]).n = D + 1 /\ D < packed[s] /\ D + 1 \in 1 .. Len(sent[s])
         /\ sent[s][D + 1] \in Nat \ {0}
<1>1. PICK z \in Sizes, P \in Nat, in \in Word, rd \in Word, wr \in Word :
        /\ z = sent[s] /\ P = packed[s] /\ in = inbox[q] /\ wr = wire[s] /\ rd = ReadIn(ring, q)
        /\ D <= P /\ P <= Len(z) /\ Len(z) \in Nat /\ Other(s) = q /\ Streamed(s)
  <2>1. Other(s) = q
    BY OtherEnd
  <2> QED  BY <2>1, FlowVars
<1>2. Stream(Flat(z, D, P), in, rd, wr, Drop(outbox[s], AckedIn(ring, s)), How(s))
  BY <1>1 DEF Streamed, Undelivered
<1>3. D < P /\ Head(in).n = D + 1
  BY <1>1, <1>2, StreamHead
<1>4. D + 1 \in 1 .. Len(z)
  BY <1>1, <1>3
<1>5. z[D + 1] \in Nat \ {0}
  BY <1>4, MessageType
<1> QED  BY <1>1, <1>3, <1>4, <1>5

\* It is taken out of the inbox.
TakenOut(q, s, D) ==
  /\ Streamed(s)' /\ inbox'[q] \in Word /\ Len(inbox'[q]) <= Len(inbox[q])
  /\ Len(delivered'[q]) = D + 1 /\ delivered'[q] \in Seq(Nat)
  /\ delivered'[q] = [n \in 1 .. D + 1 |-> n]
LEMMA DeliveredFlow ==
  ASSUME IndInv, NEW q \in End, NEW s \in End, s = Other(q), inbox[q] # <<>>,
         NEW D \in Nat, D = Len(delivered[q]), NEW h \in Nat, h = sent[s][D + 1],
         h <= Len(inbox[q]), inbox'[q] = Drop(inbox[q], h),
         delivered'[q] = Append(delivered[q], D + 1),
         UNCHANGED <<sent, packed, outbox, wire, ring, gone>>
  PROVE  TakenOut(q, s, D)
<1>1. PICK z \in Sizes, P \in Nat, in \in Word, rd \in Word, wr \in Word, left \in Word :
        /\ z = sent[s] /\ P = packed[s] /\ in = inbox[q] /\ wr = wire[s] /\ rd = ReadIn(ring, q)
        /\ left = Drop(outbox[s], AckedIn(ring, s))
        /\ D <= P /\ P <= Len(z) /\ Len(z) \in Nat /\ Other(s) = q /\ Streamed(s)
  <2>1. Other(s) = q
    BY OtherEnd
  <2> QED  BY <2>1, FlowVars
<1>2. PICK how : how = How(s) /\ How(s)' = how /\ Other(s)' = q
  <2>1. How(s)' = How(s) /\ Other(s)' = Other(s)
    BY DEF How, Other
  <2> QED  BY <1>1, <2>1
<1>3. Stream(Flat(z, D, P), in, rd, wr, left, how)
  BY <1>1, <1>2 DEF Streamed, Undelivered
<1>4. D < P /\ z[D + 1] <= Len(in) /\ h = z[D + 1]
  BY <1>1, HeadIn
<1>5. /\ Stream(Flat(z, D + 1, P), Drop(in, h), rd, wr, left, how)
      /\ Drop(in, h) \in Word /\ Len(Drop(in, h)) <= Len(in)
  BY <1>1, <1>3, <1>4, StreamDeliver
<1>6. PICK d \in Seq(Nat) : d = delivered[q] /\ d = [n \in 1 .. D |-> n]
  BY FlowVars DEF IndInv, Types, Counted
<1>7. PICK w : /\ w = Append(d, D + 1) /\ w \in Seq(Nat) /\ Len(w) = D + 1
               /\ \A n \in 1 .. D + 1 : w[n] = n
  <2>1. D + 1 \in Nat /\ Len(d) = D
    BY <1>6
  <2>2. /\ Append(d, D + 1) \in Seq(Nat) /\ Len(Append(d, D + 1)) = D + 1
        /\ \A n \in 1 .. D : Append(d, D + 1)[n] = d[n]
        /\ Append(d, D + 1)[D + 1] = D + 1
    BY <2>1, OneMore
  <2>3. \A n \in 1 .. D + 1 : Append(d, D + 1)[n] = n
    BY <1>6, <2>2
  <2> QED  BY <2>2, <2>3
<1>8. w = [n \in 1 .. D + 1 |-> n]
  BY <1>7
<1>9. Undelivered(s)' = Flat(z, D + 1, P)
  BY <1>1, <1>2, <1>6, <1>7 DEF Undelivered
<1>10. /\ AckedIn(ring, s)' = AckedIn(ring, s) /\ ReadIn(ring, q)' = rd /\ wire'[s] = wr
       /\ inbox'[q] = Drop(in, h) /\ outbox'[s] = outbox[s]
  BY <1>1
<1>11. Streamed(s)'
  BY <1>1, <1>2, <1>5, <1>9, <1>10 DEF Streamed
<1> QED  BY <1>1, <1>5, <1>6, <1>7, <1>8, <1>10, <1>11 DEF TakenOut

\* A room is no less when the inbox is shorter.
LEMMA ShorterRoom ==
  ASSUME NEW R, NEW p \in End, NEW in \in Word, NEW w \in Word, ReadRoom(R, p, in), RingOK(R),
         Len(w) <= Len(in)
  PROVE  ReadRoom(R, p, w)
<1> DEFINE k == <<p, "read">>
<1>1. Len(w) \in Nat /\ Len(in) \in Nat /\ InCap \in Nat
  BY CatType, IouAssumption
<1>2. PICK a \in Nat, b \in Nat : a = Len(w) /\ b = Len(in) /\ a <= b
  BY <1>1
<1>3. Flight(R, k) # <<>> => Head(Flight(R, k)).room <= InCap - a
  <2> SUFFICES ASSUME Flight(R, k) # <<>> PROVE Head(Flight(R, k)).room <= InCap - a
    OBVIOUS
  <2>1. k \in Chain
    BY ChainTypes
  <2>2. PICK r \in Nat : r = Head(Flight(R, k)).room
    BY <2>1, FlightOne DEF Requests
  <2>3. r <= InCap - b
    BY <1>2, <2>2 DEF ReadRoom
  <2> QED  BY <1>1, <1>2, <2>2, <2>3
<1>4. ASSUME NEW s \in Got(R, k) PROVE s \in Word /\ Len(s) <= InCap - a
  <2>1. s \in Word /\ Len(s) <= InCap - b
    BY <1>2 DEF ReadRoom
  <2>2. PICK l \in Nat : l = Len(s)
    BY <2>1, CatType
  <2> QED  BY <1>1, <1>2, <2>1, <2>2
<1>5. a <= InCap
  BY <1>1, <1>2 DEF ReadRoom
<1> QED  BY <1>2, <1>3, <1>4, <1>5 DEF ReadRoom

LEMMA TailDrop ==
  ASSUME NEW a \in Word, a # <<>>
  PROVE  Tail(a) = Drop(a, 1) /\ 1 <= Len(a) /\ Len(a) \in Nat
<1>1. Len(a) \in Nat /\ 1 <= Len(a)
  BY CatType, EmptySeq, SMTT(30) DEF Word
<1>2. PICK h \in Nat : Len(a) = 1 + h
  <2>1. Len(a) - 1 \in Nat /\ Len(a) = 1 + (Len(a) - 1)
    BY <1>1, SMTT(30)
  <2> QED  BY <2>1
<1>3. Tail(a) \in Word /\ Len(Tail(a)) = h /\ \A j \in 1 .. h : Tail(a)[j] = a[j + 1]
  <2>1. /\ Tail(a) \in Word /\ Len(Tail(a)) = Len(a) - 1
        /\ \A j \in 1 .. Len(Tail(a)) : Tail(a)[j] = a[j + 1]
    BY HeadTailProperties DEF Word
  <2>2. Len(a) - 1 = h
    BY <1>2
  <2> QED  BY <2>1, <2>2
<1>4. Drop(a, 1) \in Word /\ Len(Drop(a, 1)) = h /\ \A j \in 1 .. h : Drop(a, 1)[j] = a[1 + j]
  <2>1. 1 \in Nat /\ 1 + h \in Nat /\ 1 <= 1 + h /\ (1 + h) - 1 = h
    OBVIOUS
  <2> QED  BY <1>2, <2>1, Sub DEF Word, Drop
<1>5. \A j \in 1 .. h : Tail(a)[j] = Drop(a, 1)[j]
  <2>1. \A j \in 1 .. h : 1 + j = j + 1
    OBVIOUS
  <2> QED  BY <1>3, <1>4, <2>1
<1>6. Tail(a) = Drop(a, 1)
  BY <1>3, <1>4, <1>5, SameWord
<1> QED  BY <1>1, <1>6

LEMMA DeliverInv ==
  ASSUME IndInv, NEW q \in End, NEW s \in End, s = Other(q), inbox[q] # <<>>,
         NEW D \in Nat, D = Len(delivered[q]), NEW h \in Nat, h = sent[s][D + 1],
         h <= Len(inbox[q]), UNCHANGED <<user, loop, ring, sent, packed, outbox, wire>>,
         inbox' = [inbox EXCEPT ![q] = Drop(@, h)],
         delivered' = [delivered EXCEPT ![q] = Append(@, D + 1)],
         taken' \in [End -> Nat], \A r \in End : r # q => taken'[r] = taken[r],
         taken'[q] <= D + 1
  PROVE  IndInv'
<1>1. /\ gone' = gone /\ sent' = sent /\ packed' = packed /\ outbox' = outbox
      /\ wire' = wire /\ ring' = ring
  BY DEF user
<1>2. /\ inbox'[q] = Drop(inbox[q], h) /\ delivered'[q] = Append(delivered[q], D + 1)
      /\ \A r \in End : r # q => inbox'[r] = inbox[r] /\ delivered'[r] = delivered[r]
  BY DEF IndInv, Types
<1>3. /\ Streamed(s)' /\ inbox'[q] \in Word /\ Len(inbox'[q]) <= Len(inbox[q])
      /\ Len(delivered'[q]) = D + 1 /\ delivered'[q] \in Seq(Nat)
      /\ delivered'[q] = [n \in 1 .. D + 1 |-> n]
  <2>1. UNCHANGED <<sent, packed, outbox, wire, ring, gone>>
    BY <1>1
  <2>2. inbox'[q] = Drop(inbox[q], h) /\ delivered'[q] = Append(delivered[q], D + 1)
    BY <1>2
  <2>3. TakenOut(q, s, D)
    BY <2>1, <2>2, DeliveredFlow
  <2> QED  BY <2>3 DEF TakenOut
<1>4. Other(q) = s /\ Other(s) = q /\ s # q /\ \A r \in End : Other(r)' = Other(r)
  BY OtherEnd DEF Other
<1>5. Types'
  <2>1. inbox' \in [End -> Word] /\ delivered' \in [End -> Seq(Nat)]
    <3>1. inbox' = [inbox EXCEPT ![q] = inbox'[q]] /\ delivered' = [delivered EXCEPT ![q] = delivered'[q]]
      BY <1>2 DEF IndInv, Types
    <3> QED  BY <1>3, <3>1 DEF IndInv, Types
  <2> QED  BY <1>1, <2>1 DEF IndInv, Types, user, loop
<1>6. Rooms'
  <2> SUFFICES ASSUME NEW r \in End
               PROVE  /\ ReadRoom(ring, r, inbox[r])' /\ WriteRoom(ring, r, outbox[r])'
                      /\ ~Born(r)' => inbox'[r] = <<>> /\ outbox'[r] = <<>>
    BY DEF Rooms
  <2>1. (Born(r)' <=> Born(r)) /\ ring' = ring
    BY DEF Born, user, loop
  <2>2. CASE r # q
    BY <1>1, <1>2, <2>1, <2>2, RoomsAt DEF IndInv
  <2>3. CASE r = q
    <3>1. ReadRoom(ring, q, inbox[q]) /\ WriteRoom(ring, q, outbox[q]) /\ RingOK(ring) /\ Born(q)
      BY DEF IndInv, Rooms
    <3>2. inbox[q] \in Word
      BY FlowVars
    <3>3. ReadRoom(ring, q, inbox'[q])
      BY <1>3, <3>1, <3>2, ShorterRoom
    <3> QED  BY <1>1, <2>1, <2>3, <3>1, <3>3
  <2> QED  BY <2>2, <2>3
<1>7. Flows'
  <2> SUFFICES ASSUME NEW r \in End PROVE Counted(r)' /\ Streamed(r)'
    BY DEF Flows
  <2>1. Counted(r) /\ Streamed(r) /\ Other(r) \in End /\ Other(Other(r)) = r
    BY FlowVars
  <2>2. CASE r # q /\ r # s
    <3>1. Other(r) # q
      BY <1>4, <2>1, <2>2
    <3> QED  BY <1>1, <1>2, <2>1, <2>2, <3>1, FlowFrame
  <2>3. CASE r = q
    <3>1. Counted(q)'
      <4>1. delivered'[s] = delivered[s]
        BY <1>2, <1>4
      <4> QED  BY <1>1, <1>3, <1>4, <2>1, <2>3, <4>1 DEF Counted
    <3>2. Streamed(q)'
      BY <1>1, <1>2, <1>4, <2>1, <2>3, StreamFrame
    <3> QED  BY <2>3, <3>1, <3>2
  <2>4. CASE r = s
    <3>1. D + 1 <= packed[s]
      <4>1. D < packed[s] /\ packed[s] \in Nat
        BY HeadIn, FlowVars
      <4> QED  BY <4>1
    <3>2. delivered'[s] = delivered[s] /\ taken'[s] = taken[s]
      BY <1>2, <1>4
    <3>3. Counted(s)'
      BY <1>1, <1>3, <1>4, <2>1, <2>4, <3>1, <3>2 DEF Counted
    <3> QED  BY <1>3, <2>4, <3>3
  <2> QED  BY <2>2, <2>3, <2>4
<1> QED  BY <1>5, <1>6, <1>7, BytesStep

LEMMA UnpackOneInv ==
  ASSUME IndInv, UnpackOne
  PROVE  IndInv'
<1>1. PICK q \in End : q = lpeer
  BY DEF IndInv, Loops, UnpackOne
<1>2. /\ CanUnpack(q) /\ UNCHANGED <<user, loop, ring, sent, packed, outbox, wire>>
      /\ delivered' = [delivered EXCEPT ![q] = Append(@, Head(inbox[q]).n)]
      /\ inbox' = [inbox EXCEPT ![q] = Drop(@, HeadSize(q))] /\ taken' = taken
      /\ inbox[q] # <<>> /\ HeadSize(q) <= Len(inbox[q])
  BY <1>1 DEF UnpackOne, CanUnpack
<1>3. PICK s \in End : s = Other(q)
  BY OtherEnd
<1>4. PICK D \in Nat : D = Len(delivered[q])
  BY <1>3, FlowVars, OtherEnd
<1>5. Head(inbox[q]).n = D + 1 /\ sent[s][D + 1] \in Nat \ {0}
  BY <1>2, <1>3, <1>4, HeadIn
<1>6. PICK h \in Nat : h = sent[s][D + 1] /\ HeadSize(q) = h
  BY <1>3, <1>5 DEF HeadSize
<1>7. taken' \in [End -> Nat] /\ taken'[q] <= D + 1
  <2>1. taken \in [End -> Nat] /\ taken[q] <= D
    BY <1>4, FlowVars DEF IndInv, Types, Counted
  <2> QED  BY <1>2, <2>1
<1> QED  BY <1>2, <1>3, <1>4, <1>5, <1>6, <1>7, DeliverInv

LEMMA TakeInv ==
  ASSUME IndInv, NEW p \in End, Take(p)
  PROVE  IndInv'
<1>1. /\ taken' = [taken EXCEPT ![p] = @ + 1]
      /\ UNCHANGED <<user, loop, ring, sent, packed, outbox, wire>>
  BY DEF Take
<1>2. PICK D \in Nat, s \in End : D = Len(delivered[p]) /\ s = Other(p) /\ Other(s) = p
  <2>1. Other(p) \in End /\ Other(Other(p)) = p
    BY OtherEnd
  <2>2. Len(delivered[p]) \in Nat
    BY <2>1, FlowVars
  <2> QED  BY <2>1, <2>2
<1>3. /\ taken \in [End -> Nat] /\ taken[p] <= D
      /\ taken' \in [End -> Nat] /\ taken'[p] = taken[p] + 1
      /\ \A r \in End : r # p => taken'[r] = taken[r]
  <2>1. taken \in [End -> Nat]
    BY DEF IndInv, Types
  <2>2. taken[p] <= D
    BY <1>2, FlowVars DEF Counted
  <2>3. PICK t \in Nat : t = taken[p] + 1
    BY <2>1
  <2>4. taken' = [taken EXCEPT ![p] = t]
    BY <1>1, <2>3
  <2> QED  BY <2>1, <2>2, <2>3, <2>4
<1>4. taken[p] < D /\ inbox' = inbox /\ delivered' = delivered
  BY <1>2 DEF Take
<1>5. taken'[p] <= D
  BY <1>3, <1>4
<1>6. Types'
  BY <1>1, <1>3, <1>4 DEF IndInv, Types, user, loop
<1>7. Rooms'
  BY <1>1, <1>4, RoomsFrame DEF IndInv, Born, user, loop
<1>8. Flows'
  <2> SUFFICES ASSUME NEW r \in End PROVE Counted(r)' /\ Streamed(r)'
    BY DEF Flows
  <2>1. Counted(r) /\ Streamed(r) /\ Other(r)' = Other(r)
    BY FlowVars DEF Other
  <2>2. Streamed(r)'
    BY <1>1, <1>4, <2>1, StreamFrame DEF user
  <2>3. taken'[r] <= Len(delivered[r])
    BY <1>2, <1>3, <1>5, <2>1 DEF Counted
  <2>4. Counted(r)'
    BY <1>1, <1>4, <2>1, <2>3 DEF Counted, user
  <2> QED  BY <2>2, <2>4
<1> QED  BY <1>1, <1>6, <1>7, <1>8, BytesStep

-----------------------------------------------------------------------------
(* Peers are taken, let go of and forgotten.                               *)
LEMMA QueueHead ==
  ASSUME NEW S, NEW s \in Seq(S), s # <<>>
  PROVE  /\ Head(s) \in S /\ Tail(s) \in Seq(S) /\ Len(Tail(s)) = Len(s) - 1
         /\ Len(s) \in Nat \ {0} /\ ToSet(s) = {Head(s)} \cup ToSet(Tail(s))
         /\ Once(s) => Once(Tail(s)) /\ Head(s) \notin ToSet(Tail(s))
<1>1. Len(s) \in Nat \ {0} /\ DOMAIN s = 1 .. Len(s)
  BY EmptySeq
<1>2. /\ Head(s) = s[1] /\ Tail(s) \in Seq(S) /\ Len(Tail(s)) = Len(s) - 1
      /\ \A i \in 1 .. Len(Tail(s)) : Tail(s)[i] = s[i + 1]
  BY HeadTailProperties, SMTT(30)
<1>3. PICK l \in Nat : Len(s) = l + 1 /\ Len(Tail(s)) = l
  <2>1. Len(s) - 1 \in Nat /\ Len(s) = (Len(s) - 1) + 1
    BY <1>1, SMTT(30)
  <2> QED  BY <1>2, <2>1
<1>4. PICK t \in Seq(S) : t = Tail(s) /\ DOMAIN t = 1 .. l /\ \A i \in 1 .. l : t[i] = s[i + 1]
  <2>1. DOMAIN Tail(s) = 1 .. l
    BY <1>2, <1>3
  <2> QED  BY <1>2, <1>3, <2>1
<1>5. DOMAIN s = 1 .. l + 1
  BY <1>1, <1>3
<1>6. ASSUME NEW i \in 1 .. l + 1, i # 1 PROVE i - 1 \in 1 .. l /\ t[i - 1] = s[i]
  <2>1. i - 1 \in 1 .. l /\ (i - 1) + 1 = i
    BY <1>6
  <2> QED  BY <1>4, <2>1
<1>7. \A i \in 1 .. l : i + 1 \in 1 .. l + 1 /\ i + 1 # 1 /\ t[i] = s[i + 1]
  BY <1>4
<1>8. 1 \in 1 .. l + 1 /\ Head(s) = s[1] /\ s[1] \in S
  BY <1>1, <1>2, <1>3
<1>9. ToSet(s) = {s[i] : i \in 1 .. l + 1} /\ ToSet(t) = {t[i] : i \in 1 .. l}
  BY <1>4, <1>5 DEF ToSet
<1>10. ToSet(s) = {Head(s)} \cup ToSet(t)
  <2>1. ASSUME NEW i \in 1 .. l + 1 PROVE s[i] = Head(s) \/ s[i] \in ToSet(t)
    BY <1>6, <1>8, <1>9
  <2>2. ASSUME NEW i \in 1 .. l PROVE t[i] \in ToSet(s)
    BY <1>7, <1>9
  <2>3. Head(s) \in ToSet(s)
    BY <1>8, <1>9
  <2>4. \A x : x \in ToSet(s) <=> x = Head(s) \/ x \in ToSet(t)
    BY <1>9, <2>1, <2>2, <2>3
  <2> QED  BY <2>4
<1>11. ASSUME Once(s) PROVE Once(t) /\ Head(s) \notin ToSet(t)
  <2>1. ASSUME NEW i \in 1 .. l, NEW j \in 1 .. l, t[i] = t[j] PROVE i = j
    <3>1. i + 1 = j + 1
      BY ZenonT(40), <1>5, <1>7, <1>11, <2>1 DEF Once
    <3> QED  BY <3>1
  <2>2. \A i \in 1 .. l : t[i] # s[1]
    BY ZenonT(40), <1>5, <1>7, <1>8, <1>11 DEF Once
  <2> QED  BY <1>4, <1>8, <1>9, <2>1, <2>2 DEF Once
<1> QED  BY <1>1, <1>2, <1>4, <1>8, <1>10, <1>11

LEMMA QueueLast ==
  ASSUME NEW S, NEW s \in Seq(S), NEW x \in S
  PROVE  /\ Append(s, x) \in Seq(S) /\ Len(Append(s, x)) = Len(s) + 1 /\ Len(s) \in Nat
         /\ ToSet(Append(s, x)) = ToSet(s) \cup {x}
         /\ Once(s) /\ x \notin ToSet(s) => Once(Append(s, x))
<1>1. PICK l \in Nat : l = Len(s) /\ DOMAIN s = 1 .. l
  OBVIOUS
<1>2. PICK w : /\ w = Append(s, x) /\ w \in Seq(S) /\ Len(w) = l + 1
               /\ w[l + 1] = x /\ \A i \in 1 .. l : w[i] = s[i]
  <2>1. /\ Append(s, x) \in Seq(S) /\ Len(Append(s, x)) = l + 1
        /\ Append(s, x)[l + 1] = x /\ \A i \in 1 .. l : Append(s, x)[i] = s[i]
    BY <1>1, OneMore
  <2> QED  BY <2>1
<1>3. DOMAIN w = 1 .. l + 1
  BY <1>2
<1>4. ToSet(s) = {s[i] : i \in 1 .. l} /\ ToSet(w) = {w[i] : i \in 1 .. l + 1}
  BY <1>1, <1>3 DEF ToSet
<1>5. \A i \in 1 .. l + 1 : i = l + 1 \/ i \in 1 .. l
  OBVIOUS
<1>6. l + 1 \in 1 .. l + 1 /\ \A i \in 1 .. l : i \in 1 .. l + 1 /\ i # l + 1
  OBVIOUS
<1>7. ToSet(w) = ToSet(s) \cup {x}
  BY <1>2, <1>4, <1>5, <1>6
<1>8. ASSUME Once(s), x \notin ToSet(s) PROVE Once(w)
  <2> SUFFICES ASSUME NEW i \in 1 .. l + 1, NEW j \in 1 .. l + 1, w[i] = w[j] PROVE i = j
    BY <1>3 DEF Once
  <2>1. \A n \in 1 .. l : s[n] # x
    BY <1>4, <1>8
  <2> QED  BY <1>1, <1>2, <1>5, <1>8, <2>1 DEF Once
<1> QED  BY <1>1, <1>2, <1>7, <1>8

LEMMA TakeAcceptedInv ==
  ASSUME IndInv, TakeAccepted
  PROVE  IndInv'
<1>1. /\ accept_inbox # <<>> /\ held' = held \cup {Head(accept_inbox)}
      /\ accept_inbox' = Tail(accept_inbox)
      /\ go_on' = go_on /\ gone' = gone /\ backlog' = backlog /\ peers' = peers
      /\ fd' = fd /\ lpc' = lpc /\ lpeer' = lpeer /\ ring' = ring /\ bytes' = bytes
  BY DEF TakeAccepted
<1>2. PICK h \in End, t \in Seq(End) :
        /\ h = Head(accept_inbox) /\ t = Tail(accept_inbox)
        /\ Len(t) = Len(accept_inbox) - 1 /\ Len(accept_inbox) \in Nat \ {0}
        /\ ToSet(accept_inbox) = {h} \cup ToSet(t)
        /\ Once(t) /\ h \notin ToSet(t)
  <2>1. accept_inbox \in Seq(End) /\ Once(accept_inbox)
    BY DEF IndInv, Types, Places, Accepted
  <2> QED  BY <1>1, <2>1, QueueHead
<1>3. Acceptor \in peers /\ Acceptor \in held /\ h \in Peer /\ h # Acceptor
      /\ h \notin gone /\ h \notin held
  BY <1>1, <1>2, ChainTypes DEF IndInv, Places, Unbound, Accepted
<1>4. \A p : (Born(p)' <=> Born(p)) /\ (Alive(p)' <=> Alive(p))
  BY <1>1, <1>2 DEF Born, Alive
<1>5. Types'
  BY <1>1, <1>2, <1>3 DEF IndInv, Types, bytes
<1>6. Places'
  <2>1. Accepted'
    BY <1>1, <1>2, <1>3, <1>4 DEF IndInv, Places, Accepted
  <2>2. ToAccept'
    <3>1. Due' = Due
      BY <1>1 DEF Due
    <3> QED  BY <1>1, <1>4, <3>1 DEF IndInv, Places, ToAccept
  <2> QED  BY <1>1, <1>2, <1>3, <1>4, <2>1, <2>2 DEF IndInv, Places
<1>7. Chains'
  <2>1. \A p \in gone : \A act \in {"read", "write"} : Flight(ring, <<p, act>>) = <<>>
    BY DEF IndInv, Chains, Types
  <2> QED  BY <1>1, <1>4, <2>1, ChainsKept DEF IndInv, Chains
<1>8. Loops'
  BY <1>1, <1>4 DEF IndInv, Loops
<1>9. AcceptRoom'
  <2>1. Len(accept_inbox) <= AcceptCap /\ AcceptCap \in Nat
    BY IouAssumption DEF IndInv, AcceptRoom
  <2>2. Len(t) < AcceptCap
    BY <1>2, <2>1
  <2>3. Len(t) <= AcceptCap
    BY <1>2, <2>1, <2>2
  <2> QED  BY <1>1, <1>2, <2>2, <2>3 DEF AcceptRoom
<1>10. Rooms' /\ Flows'
  <2>1. inbox' = inbox /\ outbox' = outbox
    BY <1>1 DEF bytes
  <2> QED  BY <1>1, <1>4, <2>1, RoomsFrame, FlowsFrame DEF IndInv
<1> QED  BY <1>1, <1>5, <1>6, <1>7, <1>8, <1>9, <1>10 DEF IndInv

LEMMA ReleaseInv ==
  ASSUME IndInv, NEW p \in End, Release(p)
  PROVE  IndInv'
<1>1. /\ p \in held /\ ring.inflight[<<p, "read">>] = <<>> /\ ring.inflight[<<p, "write">>] = <<>>
      /\ held' = held \ {p} /\ gone' = gone \cup {p}
      /\ go_on' = go_on /\ accept_inbox' = accept_inbox /\ backlog' = backlog
      /\ peers' = peers /\ fd' = fd /\ lpc' = lpc /\ lpeer' = lpeer /\ ring' = ring
      /\ bytes' = bytes
  BY DEF Release, Unused, loop
<1>2. Acceptor \in peers /\ Acceptor \in held /\ p # Acceptor
  BY <1>1, ChainTypes DEF IndInv, Places, Unbound
<1>3. \A r : (Born(r)' <=> Born(r)) /\ (Alive(r)' => Alive(r))
  BY <1>1 DEF Born, Alive
<1>4. Types'
  BY <1>1, <1>2 DEF IndInv, Types, bytes
<1>5. Places'
  <2>1. Accepted'
    BY <1>1, <1>3 DEF IndInv, Places, Accepted
  <2>2. ToAccept'
    <3>1. Due' = Due
      BY <1>1 DEF Due
    <3> QED  BY <1>1, <1>3, <3>1 DEF IndInv, Places, ToAccept
  <2> QED  BY <1>1, <1>2, <1>3, <2>1, <2>2 DEF IndInv, Places
<1>6. Chains'
  <2>1. \A r \in gone : \A act \in {"read", "write"} : Flight(ring, <<r, act>>) = <<>>
    BY DEF IndInv, Chains, Types
  <2>2. \A act \in {"read", "write"} : Flight(ring, <<p, act>>) = <<>>
    BY <1>1 DEF Flight
  <2> QED  BY <1>1, <1>3, <2>1, <2>2, ChainsKept DEF IndInv, Chains
<1>7. Loops'
  BY <1>1, <1>3 DEF IndInv, Loops
<1>8. AcceptRoom'
  BY <1>1 DEF IndInv, AcceptRoom
<1>9. Rooms'
  BY <1>1, <1>3, RoomsFrame DEF IndInv, bytes
<1>10. Flows'
  <2> SUFFICES ASSUME NEW r \in End PROVE Counted(r)' /\ Streamed(r)'
    BY DEF Flows
  <2>1. /\ Counted(r) /\ Streamed(r) /\ Other(r)' = Other(r)
        /\ sent' = sent /\ packed' = packed /\ outbox' = outbox /\ wire' = wire
        /\ inbox' = inbox /\ delivered' = delivered /\ taken' = taken
    BY <1>1, FlowVars DEF Other, bytes
  <2>2. Counted(r)'
    BY <1>1, <2>1 DEF Counted
  <2>a. PICK U \in Word, in \in Word, rd \in Word, wr \in Word :
          /\ U = Undelivered(r) /\ in = inbox[Other(r)] /\ rd = ReadIn(ring, Other(r))
          /\ wr = wire[r]
    BY FlowVars
  <2>b. PICK left, how : left = Drop(outbox[r], AckedIn(ring, r)) /\ how = How(r)
    OBVIOUS
  <2>3. /\ U = Undelivered(r) /\ in = inbox[Other(r)] /\ rd = ReadIn(ring, Other(r))
        /\ wr = wire[r] /\ left = Drop(outbox[r], AckedIn(ring, r)) /\ how = How(r)
    BY <2>a, <2>b
  <2>4. Stream(U, in, rd, wr, left, how)
    BY <2>1, <2>3 DEF Streamed
  <2>5. Stream(U, in, rd, wr, left, "deaf") /\ (how # "deaf" => Stream(U, in, rd, wr, left, "cut"))
    BY <2>4, StreamCut
  <2>6. How(r)' = how \/ How(r)' = "deaf" \/ (How(r)' = "cut" /\ how # "deaf")
    BY <1>1, <2>1, <2>3 DEF How
  <2>7. Undelivered(r)' = U
    BY <2>1, <2>3 DEF Undelivered
  <2>8. Stream(U, in, rd, wr, left, How(r)')
    BY <2>4, <2>5, <2>6
  <2>9. Streamed(r)'
    BY <1>1, <2>1, <2>3, <2>7, <2>8 DEF Streamed
  <2> QED  BY <2>2, <2>9
<1> QED  BY <1>1, <1>4, <1>5, <1>6, <1>7, <1>8, <1>9, <1>10 DEF IndInv

LEMMA HandleExpiredInv ==
  ASSUME IndInv, HandleExpired
  PROVE  IndInv'
<1>1. PICK x \in Peer : x = e.peer /\ x \in peers /\ ~Alive(x)
  BY DEF HandleExpired, IndInv, Types
<1>2. /\ peers' = peers \ {x} /\ lpc = "wait" /\ lpc' = "turn"
      /\ go_on' = go_on /\ accept_inbox' = accept_inbox /\ backlog' = backlog
      /\ held' = held /\ gone' = gone /\ fd' = fd /\ lpeer' = lpeer /\ ring' = ring
      /\ bytes' = bytes
  BY <1>1 DEF HandleExpired, user
<1>3. Acceptor \in peers /\ Acceptor \in held /\ x # Acceptor
  BY <1>1 DEF IndInv, Places, Unbound, Alive
<1>4. \A r : (Born(r)' <=> Born(r)) /\ (Alive(r)' <=> Alive(r))
  BY <1>2 DEF Born, Alive
<1>5. Types'
  BY <1>2 DEF IndInv, Types, bytes
<1>6. Places'
  <2>1. Accepted'
    BY <1>2, <1>4 DEF IndInv, Places, Accepted
  <2>2. ToAccept'
    <3>1. Due' = Due
      BY <1>2 DEF Due
    <3> QED  BY <1>2, <1>4, <3>1 DEF IndInv, Places, ToAccept
  <2> QED  BY <1>1, <1>2, <1>3, <1>4, <2>1, <2>2 DEF IndInv, Places
<1>7. Chains'
  <2>1. \A r \in gone : \A act \in {"read", "write"} : Flight(ring, <<r, act>>) = <<>>
    BY DEF IndInv, Chains, Types
  <2> QED  BY <1>2, <1>3, <1>4, <2>1, ChainsKept DEF IndInv
<1>8. Loops' /\ AcceptRoom'
  BY <1>2 DEF IndInv, Loops, AcceptRoom
<1>9. Rooms' /\ Flows'
  BY <1>2, <1>4, RoomsFrame, FlowsFrame DEF IndInv, bytes
<1> QED  BY <1>2, <1>5, <1>6, <1>7, <1>8, <1>9 DEF IndInv

-----------------------------------------------------------------------------
(* The ring moves: a request ends, or a completion is seen and answered    *)
(* with the next request.                                                  *)
LEMMA AliveIs ==
  ASSUME IndInv, NEW p, Alive(p)
  PROVE  p \notin gone /\ Born(p) /\ (p \in End => Acceptor \in peers)
BY DEF IndInv, Types, Places, Unbound, Accepted, Alive, Born

LEMMA OnlyOthers ==
  ASSUME NEW R, NEW S, NEW p \in Peer, NEW act \in Action, Only(R, S, <<p, act>>)
  PROVE  \A r \in Peer : \A a \in Action : (r # p \/ a # act) =>
           /\ Same(R, S, <<r, a>>) /\ Got(S, <<r, a>>) = Got(R, <<r, a>>)
           /\ (Alone(S, <<r, a>>) <=> Alone(R, <<r, a>>))
           /\ (Live(S, <<r, a>>) <=> Live(R, <<r, a>>))
<1> SUFFICES ASSUME NEW r \in Peer, NEW a \in Action, r # p \/ a # act
             PROVE  /\ Same(R, S, <<r, a>>) /\ Got(S, <<r, a>>) = Got(R, <<r, a>>)
                    /\ (Alone(S, <<r, a>>) <=> Alone(R, <<r, a>>))
                    /\ (Live(S, <<r, a>>) <=> Live(R, <<r, a>>))
  OBVIOUS
<1>1. <<r, a>> \in Chain /\ <<r, a>> # <<p, act>>
  BY ChainTypes, PairsEqual
<1> QED  BY <1>1, SameView DEF Only

LEMMA OtherGot ==
  ASSUME NEW R, NEW S, NEW k \in Chain, NEW j \in Chain, j # k, Only(R, S, k)
  PROVE  Got(S, j) = Got(R, j)
BY SameView DEF Only

LEMMA PeerStep ==
  ASSUME IndInv, NEW p \in End, NEW act \in {"read", "write"},
         UNCHANGED <<peers, held, gone, backlog, accept_inbox>>,
         lpc' = "ended" \/ lpc # "ended",
         Only(ring, ring', <<p, act>>), ~Alone(ring, <<p, act>>),
         ~Alone(ring', <<p, act>>) \/ ~Alive(p),
         p \in gone => Flight(ring', <<p, act>>) = <<>>
  PROVE  Places' /\ Chains' /\ AcceptRoom' /\ Born(p)
<1>1. /\ peers' = peers /\ held' = held /\ gone' = gone /\ backlog' = backlog
      /\ accept_inbox' = accept_inbox
  OBVIOUS
<1>2. p \in Peer /\ p # Acceptor /\ act \in Action /\ act # "accept" /\ <<p, act>> \in Chain
  BY ChainTypes
<1>3. \A r \in Peer : \A a \in Action : (r # p \/ a # act) =>
        /\ Same(ring, ring', <<r, a>>) /\ Got(ring', <<r, a>>) = Got(ring, <<r, a>>)
        /\ (Alone(ring', <<r, a>>) <=> Alone(ring, <<r, a>>))
        /\ (Live(ring', <<r, a>>) <=> Live(ring, <<r, a>>))
  BY <1>2, OnlyOthers
<1>4. /\ Got(ring', AcceptChain) = Got(ring, AcceptChain)
      /\ (Alone(ring', AcceptChain) <=> Alone(ring, AcceptChain))
      /\ (Live(ring', AcceptChain) <=> Live(ring, AcceptChain))
  BY <1>2, <1>3, ChainTypes DEF AcceptChain
<1>5. Born(p) /\ Acceptor \in peers
  BY <1>2 DEF IndInv, Chains, Places, Unbound
<1>6. \A r : (Born(r)' <=> Born(r)) /\ (Alive(r)' <=> Alive(r))
  BY <1>1 DEF Born, Alive
<1>7. Chains'
  <2>1. ASSUME NEW k \in Chain
        PROVE  Alone(ring', k) \/ k = AcceptChain \/ (k[1] \in End /\ k[2] # "accept")
    <3>1. k = <<k[1], k[2]>> /\ k[1] \in Peer /\ k[2] \in Action
      BY ChainTypes
    <3>2. PICK r \in Peer, a \in Action : k = <<r, a>> /\ r = k[1] /\ a = k[2]
      BY <3>1
    <3>3. Alone(ring, k) \/ k = AcceptChain \/ (k[1] \in End /\ k[2] # "accept")
      BY DEF IndInv, Chains
    <3>4. CASE r = p /\ a = act
      BY <1>2, <3>2, <3>4
    <3>5. CASE r # p \/ a # act
      BY <1>3, <3>2, <3>3, <3>5
    <3> QED  BY <3>4, <3>5
  <2>2. ASSUME NEW r \in End, NEW a \in {"read", "write"}
        PROVE  /\ ~Born(r) => Alone(ring', <<r, a>>)
               /\ r \in gone => Flight(ring', <<r, a>>) = <<>>
               /\ Alive(r) /\ lpc' # "ended" => ~Alone(ring', <<r, a>>)
    <3>1. /\ ~Born(r) => Alone(ring, <<r, a>>)
          /\ r \in gone => Flight(ring, <<r, a>>) = <<>>
          /\ Alive(r) /\ lpc # "ended" => ~Alone(ring, <<r, a>>)
      BY DEF IndInv, Chains
    <3>2. CASE r = p /\ a = act
      BY <1>5, <3>2
    <3>3. CASE r # p \/ a # act
      <4>1. r \in Peer /\ a \in Action
        BY ChainTypes
      <4>2. /\ Same(ring, ring', <<r, a>>)
            /\ (Alone(ring', <<r, a>>) <=> Alone(ring, <<r, a>>))
        BY <1>3, <3>3, <4>1
      <4> QED  BY <3>1, <4>2 DEF Same
    <3> QED  BY <3>2, <3>3
  <2>3. Acceptor \in peers /\ lpc' # "ended" => ~Alone(ring', AcceptChain)
    BY <1>4 DEF IndInv, Chains
  <2> QED  BY <1>1, <1>6, <2>1, <2>2, <2>3 DEF Chains
<1>8. Places'
  BY <1>1, <1>4, <1>5, PlacesFrame DEF IndInv
<1>9. AcceptRoom'
  BY <1>1, <1>4, AcceptRoomFrame DEF IndInv
<1> QED  BY <1>5, <1>7, <1>8, <1>9

LEMMA RoomsStep ==
  ASSUME Rooms, NEW p \in End, NEW act \in {"read", "write"},
         UNCHANGED <<held, gone, accept_inbox>>, Only(ring, ring', <<p, act>>),
         \A r \in End : r # p => inbox'[r] = inbox[r] /\ outbox'[r] = outbox[r],
         ReadRoom(ring', p, inbox'[p]), WriteRoom(ring', p, outbox'[p]), Born(p)
  PROVE  Rooms'
<1>1. \A r : Born(r)' <=> Born(r)
  BY DEF Born
<1> SUFFICES ASSUME NEW r \in End
             PROVE  /\ ReadRoom(ring', r, inbox'[r]) /\ WriteRoom(ring', r, outbox'[r])
                    /\ ~Born(r) => inbox'[r] = <<>> /\ outbox'[r] = <<>>
  BY <1>1 DEF Rooms
<1>2. CASE r = p
  BY <1>2
<1>3. CASE r # p
  <2>1. p \in Peer /\ r \in Peer /\ act \in Action /\ "read" \in Action /\ "write" \in Action
    BY ChainTypes
  <2>2. Same(ring, ring', <<r, "read">>) /\ Same(ring, ring', <<r, "write">>)
    BY <1>3, <2>1, OnlyOthers
  <2>3. /\ ReadRoom(ring, r, inbox[r]) /\ WriteRoom(ring, r, outbox[r])
        /\ ~Born(r) => inbox[r] = <<>> /\ outbox[r] = <<>>
    BY DEF Rooms
  <2>4. inbox'[r] = inbox[r] /\ outbox'[r] = outbox[r]
    BY <1>3
  <2> QED  BY <2>2, <2>3, <2>4, RoomSame
<1> QED  BY <1>2, <1>3

\* Of one direction of a connection.
LEMMA FlowsStep ==
  ASSUME Flows, NEW q \in End,
         UNCHANGED <<gone, sent, packed, delivered, taken>>,
         \A r \in End : r # q =>
           /\ outbox'[r] = outbox[r] /\ wire'[r] = wire[r] /\ inbox'[Other(r)] = inbox[Other(r)]
           /\ Got(ring', <<r, "write">>) = Got(ring, <<r, "write">>)
           /\ Got(ring', <<Other(r), "read">>) = Got(ring, <<Other(r), "read">>),
         Streamed(q)'
  PROVE  Flows'
<1> SUFFICES ASSUME NEW r \in End PROVE Counted(r)' /\ Streamed(r)'
  BY DEF Flows
<1>1. Counted(r) /\ Streamed(r) /\ Other(r)' = Other(r)
  BY DEF Flows, Other
<1>2. Counted(r)'
  BY <1>1 DEF Counted
<1>3. CASE r = q
  BY <1>2, <1>3
<1>4. CASE r # q
  <2>1. gone' = gone /\ sent' = sent /\ packed' = packed /\ delivered' = delivered
        /\ taken' = taken
    OBVIOUS
  <2> QED  BY <1>1, <1>4, <2>1, FlowFrame
<1> QED  BY <1>3, <1>4

LEMMA ReadStep ==
  ASSUME IndInv, NEW p \in End, UNCHANGED <<peers, held, gone, backlog, accept_inbox>>,
         UNCHANGED <<sent, packed, outbox, delivered, taken>>,
         lpc' = "ended" \/ lpc # "ended",
         RingOK(ring'), Only(ring, ring', <<p, "read">>), ~Alone(ring, <<p, "read">>),
         ~Alone(ring', <<p, "read">>) \/ ~Alive(p),
         p \in gone => Flight(ring', <<p, "read">>) = <<>>,
         \A r \in End : r # p => inbox'[r] = inbox[r],
         \A r \in End : r # Other(p) => wire'[r] = wire[r],
         ReadRoom(ring', p, inbox'[p]), Streamed(Other(p))', Types', Loops'
  PROVE  IndInv'
<1>1. PICK q \in End : q = Other(p) /\ Other(q) = p
  BY OtherEnd
<1>2. "read" \in {"read", "write"} /\ p \in Peer /\ "read" \in Action /\ "write" \in Action
  BY ChainTypes
<1>3. Places' /\ Chains' /\ AcceptRoom' /\ Born(p)
  BY <1>2, PeerStep
<1>4. Same(ring, ring', <<p, "write">>)
  BY <1>2, OnlyOthers
<1>5. WriteRoom(ring', p, outbox'[p])
  BY <1>4, RoomSame DEF IndInv, Rooms
<1>6. Rooms'
  BY <1>2, <1>3, <1>5, RoomsStep DEF IndInv
<1>7. ASSUME NEW r \in End, r # q
      PROVE  /\ outbox'[r] = outbox[r] /\ wire'[r] = wire[r]
             /\ inbox'[Other(r)] = inbox[Other(r)]
             /\ Got(ring', <<r, "write">>) = Got(ring, <<r, "write">>)
             /\ Got(ring', <<Other(r), "read">>) = Got(ring, <<Other(r), "read">>)
  <2>1. Other(r) \in End /\ Other(r) # p
    BY <1>1, <1>7, OtherEnd
  <2>2. r \in Peer /\ Other(r) \in Peer
    BY <2>1, ChainTypes
  <2>3. \A x \in Peer : \A a \in Action : (x # p \/ a # "read") =>
          /\ Same(ring, ring', <<x, a>>) /\ Got(ring', <<x, a>>) = Got(ring, <<x, a>>)
          /\ (Alone(ring', <<x, a>>) <=> Alone(ring, <<x, a>>))
          /\ (Live(ring', <<x, a>>) <=> Live(ring, <<x, a>>))
    BY <1>2, OnlyOthers
  <2>4. /\ Got(ring', <<r, "write">>) = Got(ring, <<r, "write">>)
        /\ Got(ring', <<Other(r), "read">>) = Got(ring, <<Other(r), "read">>)
    BY <1>2, <2>1, <2>2, <2>3
  <2> QED  BY <1>1, <1>7, <2>1, <2>4
<1>8. Flows'
  BY <1>1, <1>7, FlowsStep DEF IndInv
<1> QED  BY <1>3, <1>6, <1>8 DEF IndInv

LEMMA WriteStep ==
  ASSUME IndInv, NEW p \in End, UNCHANGED <<peers, held, gone, backlog, accept_inbox>>,
         UNCHANGED <<sent, packed, inbox, delivered, taken>>,
         lpc' = "ended" \/ lpc # "ended",
         RingOK(ring'), Only(ring, ring', <<p, "write">>), ~Alone(ring, <<p, "write">>),
         ~Alone(ring', <<p, "write">>) \/ ~Alive(p),
         p \in gone => Flight(ring', <<p, "write">>) = <<>>,
         \A r \in End : r # p => outbox'[r] = outbox[r] /\ wire'[r] = wire[r],
         WriteRoom(ring', p, outbox'[p]), Streamed(p)', Types', Loops'
  PROVE  IndInv'
<1>1. "write" \in {"read", "write"} /\ p \in Peer /\ "read" \in Action /\ "write" \in Action
  BY ChainTypes
<1>2. Places' /\ Chains' /\ AcceptRoom' /\ Born(p)
  BY <1>1, PeerStep
<1>3. Same(ring, ring', <<p, "read">>)
  BY <1>1, OnlyOthers
<1>4. ReadRoom(ring', p, inbox'[p])
  BY <1>3, RoomSame DEF IndInv, Rooms
<1>5. Rooms'
  BY <1>1, <1>2, <1>4, RoomsStep DEF IndInv
<1>6. ASSUME NEW r \in End, r # p
      PROVE  /\ outbox'[r] = outbox[r] /\ wire'[r] = wire[r]
             /\ inbox'[Other(r)] = inbox[Other(r)]
             /\ Got(ring', <<r, "write">>) = Got(ring, <<r, "write">>)
             /\ Got(ring', <<Other(r), "read">>) = Got(ring, <<Other(r), "read">>)
  <2>1. Other(r) \in End
    BY OtherEnd
  <2>2. r \in Peer /\ Other(r) \in Peer
    BY <2>1, ChainTypes
  <2>3. \A x \in Peer : \A a \in Action : (x # p \/ a # "write") =>
          /\ Same(ring, ring', <<x, a>>) /\ Got(ring', <<x, a>>) = Got(ring, <<x, a>>)
          /\ (Alone(ring', <<x, a>>) <=> Alone(ring, <<x, a>>))
          /\ (Live(ring', <<x, a>>) <=> Live(ring, <<x, a>>))
    BY <1>1, OnlyOthers
  <2>4. /\ Got(ring', <<r, "write">>) = Got(ring, <<r, "write">>)
        /\ Got(ring', <<Other(r), "read">>) = Got(ring, <<Other(r), "read">>)
    BY <1>1, <1>6, <2>2, <2>3
  <2> QED  BY <1>6, <2>1, <2>4
<1>7. Flows'
  BY <1>6, FlowsStep DEF IndInv
<1> QED  BY <1>2, <1>5, <1>7 DEF IndInv

-----------------------------------------------------------------------------
(* The kernel.                                                             *)
LEMMA CompleteIs ==
  ASSUME IndInv, NEW p \in Peer, NEW act \in Action, NEW ok, NEW res, Complete(p, act, ok, res)
  PROVE  /\ ring' = Ended(ring, <<p, act>>, Completion(p, act, FALSE, ok, res))
         /\ Flight(ring, <<p, act>>) # <<>>
         /\ go_on' = go_on /\ held' = held /\ gone' = gone
         /\ peers' = peers /\ fd' = fd /\ accept_inbox' = accept_inbox
         /\ lpc' = lpc /\ lpeer' = lpeer
         /\ p \notin gone \/ act \notin {"read", "write"}
         /\ ~Alone(ring, <<p, act>>) /\ Got(ring, <<p, act>>) = {} /\ Live(ring, <<p, act>>)
<1>1. /\ ring' = Ended(ring, <<p, act>>, Completion(p, act, FALSE, ok, res))
      /\ Flight(ring, <<p, act>>) # <<>>
      /\ go_on' = go_on /\ held' = held /\ gone' = gone
      /\ peers' = peers /\ fd' = fd /\ accept_inbox' = accept_inbox
      /\ lpc' = lpc /\ lpeer' = lpeer
  BY DEF Complete, Ended, Flight, loop
<1>2. p \notin gone \/ act \notin {"read", "write"}
  <2>1. gone \subseteq End
    BY DEF IndInv, Types
  <2> QED  BY <1>1, <2>1 DEF IndInv, Chains
<1>3. ~Alone(ring, <<p, act>>) /\ Got(ring, <<p, act>>) = {} /\ Live(ring, <<p, act>>)
  BY <1>1, FlightView DEF IndInv
<1> QED  BY <1>1, <1>2, <1>3

LEMMA CompletedRing ==
  ASSUME IndInv, NEW p \in Peer, NEW act \in Action, NEW res \in Result,
         Complete(p, act, TRUE, res)
  PROVE  /\ RingOK(ring') /\ Only(ring, ring', <<p, act>>) /\ Flight(ring', <<p, act>>) = <<>>
         /\ ~Alone(ring', <<p, act>>) /\ Got(ring', <<p, act>>) = {res}
<1>1. PICK k \in Chain, c \in Finished :
        /\ k = <<p, act>> /\ c = Completion(p, act, FALSE, TRUE, res) /\ Key(c) = k
        /\ ~c.noop /\ c.ok /\ c.res = res
  <2>1. PICK c : c = Completion(p, act, FALSE, TRUE, res)
    OBVIOUS
  <2>2. c \in Finished /\ Key(c) = <<p, act>> /\ ~c.noop /\ c.ok /\ c.res = res
    BY <2>1 DEF Finished, Key, Completion
  <2> QED  BY <2>1, <2>2, ChainTypes
<1>2. ring' = Ended(ring, k, c) /\ Flight(ring, k) # <<>>
  BY <1>1, CompleteIs
<1>3. Key(c) = k /\ RingOK(ring)
  BY <1>1 DEF IndInv
<1>4. RingOK(ring') /\ Only(ring, ring', k) /\ Flight(ring', k) = <<>> /\ Done(ring', k) = {c}
  BY <1>2, <1>3, EndedRing
<1>5. Got(ring', k) = (IF ~c.noop /\ c.ok THEN {c.res} ELSE {}) /\ ~Alone(ring', k)
  BY <1>4, DoneView
<1>6. Got(ring', k) = {res}
  BY <1>1, <1>5
<1> QED  BY <1>1, <1>4, <1>5, <1>6

LEMMA FailedRing ==
  ASSUME IndInv, NEW p \in Peer, NEW act \in Action, Complete(p, act, FALSE, 0)
  PROVE  /\ RingOK(ring') /\ Only(ring, ring', <<p, act>>) /\ Flight(ring', <<p, act>>) = <<>>
         /\ ~Alone(ring', <<p, act>>) /\ Got(ring', <<p, act>>) = {}
<1>1. PICK k \in Chain, c \in Finished :
        /\ k = <<p, act>> /\ c = Completion(p, act, FALSE, FALSE, 0) /\ Key(c) = k
        /\ c.ok = FALSE
  <2>1. PICK c \in Finished :
          c = Completion(p, act, FALSE, FALSE, 0) /\ Key(c) = <<p, act>> /\ c.ok = FALSE
    BY MadeFailure
  <2> QED  BY <2>1, ChainTypes
<1>2. ring' = Ended(ring, k, c) /\ Flight(ring, k) # <<>>
  BY <1>1, CompleteIs
<1>3. Key(c) = k /\ RingOK(ring)
  BY <1>1 DEF IndInv
<1>4. RingOK(ring') /\ Only(ring, ring', k) /\ Flight(ring', k) = <<>> /\ Done(ring', k) = {c}
  BY <1>2, <1>3, EndedRing
<1>5. Got(ring', k) = (IF ~c.noop /\ c.ok THEN {c.res} ELSE {}) /\ ~Alone(ring', k)
  BY <1>4, DoneView
<1>6. Got(ring', k) = {}
  BY <1>1, <1>5
<1> QED  BY <1>1, <1>4, <1>5, <1>6

LEMMA KernelReadInv ==
  ASSUME IndInv, NEW p \in End, NEW n \in 1 .. WireCap, KernelRead(p, n)
  PROVE  IndInv'
<1>1. PICK q \in End : q = Other(p) /\ Other(q) = p /\ q # p
  BY OtherEnd
<1>2. p \in Peer /\ "read" \in Action /\ "write" \in Action /\ q \in Peer
  BY ChainTypes
<1>3. n \in Nat /\ n <= Len(wire[q]) /\ wire[q] \in Word
  BY <1>1, FlowVars DEF KernelRead
<1>4. PICK f \in Word, d \in Word :
        f = First(wire[q], n) /\ d = Drop(wire[q], n) /\ Len(f) = n
  BY <1>3, Split
<1>5. /\ Complete(p, "read", TRUE, f) /\ wire' = [wire EXCEPT ![q] = d] /\ backlog' = backlog
      /\ sent' = sent /\ packed' = packed /\ outbox' = outbox /\ inbox' = inbox
      /\ delivered' = delivered /\ taken' = taken
      /\ n <= Head(Flight(ring, <<p, "read">>)).room
  BY <1>1, <1>4 DEF KernelRead, First, Flight
<1>6. /\ Flight(ring, <<p, "read">>) # <<>>
      /\ go_on' = go_on /\ held' = held /\ gone' = gone
      /\ peers' = peers /\ fd' = fd /\ accept_inbox' = accept_inbox
      /\ lpc' = lpc /\ lpeer' = lpeer /\ p \notin gone
      /\ ~Alone(ring, <<p, "read">>) /\ Got(ring, <<p, "read">>) = {}
  BY <1>2, <1>5, CompleteIs
<1>7. /\ RingOK(ring') /\ Only(ring, ring', <<p, "read">>) /\ Flight(ring', <<p, "read">>) = <<>>
      /\ ~Alone(ring', <<p, "read">>) /\ Got(ring', <<p, "read">>) = {f}
  <2>1. f \in Result
    BY DEF Result
  <2> QED  BY <1>2, <1>5, <2>1, CompletedRing
<1>8. ReadRoom(ring', p, inbox'[p])
  <2>1. ReadRoom(ring, p, inbox[p]) /\ inbox[p] \in Word
    BY DEF IndInv, Rooms, Types
  <2>2. /\ Len(inbox[p]) <= InCap /\ Len(inbox[p]) \in Nat /\ InCap \in Nat
        /\ Head(Flight(ring, <<p, "read">>)).room <= InCap - Len(inbox[p])
    BY <1>6, <2>1, CatType, IouAssumption DEF ReadRoom
  <2>3. Head(Flight(ring, <<p, "read">>)).room \in Nat
    BY <1>2, <1>6, FlightOne, ChainTypes DEF IndInv, Requests
  <2>4. Len(f) <= InCap - Len(inbox[p])
    BY <1>3, <1>4, <1>5, <2>2, <2>3
  <2> QED  BY <1>5, <1>7, <2>2, <2>4 DEF ReadRoom
<1>9. Streamed(q)'
  <2>1. PICK U \in Word, in \in Word, wr \in Word, left \in Word :
          /\ U = Undelivered(q) /\ in = inbox[p] /\ wr = wire[q]
          /\ left = Drop(outbox[q], AckedIn(ring, q))
    BY <1>1, FlowVars
  <2>2. Streamed(q) /\ Other(q)' = Other(q)
    BY FlowVars DEF Other
  <2>3. ReadIn(ring, p) = <<>> /\ ReadIn(ring', p) = f
    BY <1>6, <1>7, GotIn
  <2>4. AckedIn(ring', q) = AckedIn(ring, q)
    <3>1. Got(ring', <<q, "write">>) = Got(ring, <<q, "write">>)
      <4>1. <<p, "read">> \in Chain /\ <<q, "write">> \in Chain /\ <<q, "write">> # <<p, "read">>
        BY <1>2, ChainTypes, PairsEqual
      <4> QED  BY <1>7, <4>1, OtherGot
    <3> QED  BY <3>1, SameIn
  <2>5. PICK how : how = How(q) /\ how # "deaf"
    BY <1>1, <1>6 DEF How
  <2>6. Stream(U, in, <<>>, wr, left, how)
    BY <1>1, <2>1, <2>2, <2>3, <2>5 DEF Streamed
  <2>7. Stream(U, in, f, d, left, how)
    BY <1>3, <1>4, <2>1, <2>5, <2>6, StreamRead
  <2>8. How(q)' = how /\ Undelivered(q)' = U
    BY <1>5, <1>6, <2>1, <2>2, <2>5 DEF How, Undelivered
  <2>9. wire'[q] = d
    <3>1. wire \in [End -> Word]
      BY DEF IndInv, Types
    <3> QED  BY <1>5, <3>1
  <2> QED  BY <1>1, <1>5, <2>1, <2>2, <2>3, <2>4, <2>7, <2>8, <2>9 DEF Streamed
<1>10. Types' /\ \A r \in End : r # q => wire'[r] = wire[r]
  <2>1. wire' \in [End -> Word] /\ \A r \in End : r # q => wire'[r] = wire[r]
    BY <1>5 DEF IndInv, Types
  <2> QED  BY <1>5, <1>6, <2>1 DEF IndInv, Types
<1>11. Loops'
  BY <1>6 DEF IndInv, Loops, Born
<1>12. lpc' = "ended" \/ lpc # "ended"
  BY <1>6
<1> QED  BY <1>1, <1>5, <1>6, <1>7, <1>8, <1>9, <1>10, <1>11, <1>12, ReadStep

LEMMA KernelWriteInv ==
  ASSUME IndInv, NEW p \in End, NEW n \in 1 .. WireCap, KernelWrite(p, n)
  PROVE  IndInv'
<1>1. PICK q \in End : q = Other(p) /\ Other(q) = p /\ q # p
  BY OtherEnd
<1>2. p \in Peer /\ "read" \in Action /\ "write" \in Action /\ q \in Peer
  BY ChainTypes
<1>3. Flight(ring, <<p, "write">>) # <<>> /\ n \in Nat
  BY DEF KernelWrite, Flight
<1>4. PICK data \in Word : /\ data = Head(Flight(ring, <<p, "write">>)).data
                           /\ Begins(data, outbox[p])
  <2>1. Head(Flight(ring, <<p, "write">>)) \in Requests
    BY <1>2, <1>3, FlightOne, ChainTypes DEF IndInv
  <2>2. WriteRoom(ring, p, outbox[p])
    BY DEF IndInv, Rooms
  <2> QED  BY <1>3, <2>1, <2>2 DEF Requests, WriteRoom
<1>5. n <= Len(data)
  BY <1>4 DEF KernelWrite, Flight
<1>6. PICK f \in Word : f = First(data, n)
  BY <1>3, <1>5, Split
<1>7. /\ Complete(p, "write", TRUE, n) /\ wire' = [wire EXCEPT ![p] = Cat(@, f)]
      /\ backlog' = backlog
      /\ sent' = sent /\ packed' = packed /\ outbox' = outbox /\ inbox' = inbox
      /\ delivered' = delivered /\ taken' = taken
  BY <1>4, <1>6 DEF KernelWrite, First, Flight, Cat
<1>8. /\ go_on' = go_on /\ held' = held /\ gone' = gone
      /\ peers' = peers /\ fd' = fd /\ accept_inbox' = accept_inbox
      /\ lpc' = lpc /\ lpeer' = lpeer /\ p \notin gone
      /\ ~Alone(ring, <<p, "write">>) /\ Got(ring, <<p, "write">>) = {}
  BY <1>2, <1>7, CompleteIs
<1>9. /\ RingOK(ring') /\ Only(ring, ring', <<p, "write">>) /\ Flight(ring', <<p, "write">>) = <<>>
      /\ ~Alone(ring', <<p, "write">>) /\ Got(ring', <<p, "write">>) = {n}
  <2>1. n \in Result
    BY <1>3 DEF Result
  <2> QED  BY <1>2, <1>7, <2>1, CompletedRing
<1>10. PICK U \in Word, in \in Word, rd \in Word, wr \in Word, out \in Word :
         /\ U = Undelivered(p) /\ in = inbox[q] /\ rd = ReadIn(ring, q) /\ wr = wire[p]
         /\ out = outbox[p]
  BY <1>1, FlowVars
<1>11. PICK how : how = How(p) /\ how \in {"whole", "deaf"}
  BY <1>8 DEF How
<1>12. AckedIn(ring, p) = 0 /\ AckedIn(ring', p) = n
  BY <1>8, <1>9, GotIn
<1>13. Streamed(p) /\ Other(p)' = Other(p)
  BY FlowVars DEF Other
<1>14. Stream(U, in, rd, wr, Drop(out, 0), how)
  BY <1>1, <1>10, <1>11, <1>12, <1>13 DEF Streamed
<1>15. /\ Stream(U, in, rd, Cat(wr, f), Drop(out, n), how)
       /\ n <= Len(out)
  <2>1. Begins(data, out) /\ n \in Nat
    BY <1>3, <1>4, <1>10
  <2>2. Stream(U, in, rd, Cat(wr, First(data, n)), Drop(out, n), how)
    BY ONLY <1>5, <1>11, <1>14, <2>1, StreamWrite, in \in Word, rd \in Word, wr \in Word,
            out \in Word, data \in Word
  <2>3. n <= Len(out)
    <3>1. PICK r \in Word : out = Cat(data, r)
      BY <2>1 DEF Begins
    <3>2. Len(out) = Len(data) + Len(r) /\ Len(data) \in Nat /\ Len(r) \in Nat
      BY <3>1, CatType
    <3> QED  BY <1>5, <2>1, <3>2
  <2> QED  BY <1>6, <2>2, <2>3
<1>16. WriteRoom(ring', p, outbox'[p])
  <2>1. WriteRoom(ring, p, outbox[p])
    BY DEF IndInv, Rooms
  <2> QED  BY <1>3, <1>7, <1>9, <1>10, <1>15, <2>1 DEF WriteRoom
<1>17. wire'[p] = Cat(wr, f) /\ wire' \in [End -> Word] /\ \A r \in End : r # p => wire'[r] = wire[r]
  <2>1. wire \in [End -> Word] /\ Cat(wr, f) \in Word
    BY CatType DEF IndInv, Types
  <2> QED  BY <1>7, <1>10, <2>1
<1>18. Streamed(p)'
  <2>1. ReadIn(ring', q) = ReadIn(ring, q)
    <3>1. <<p, "write">> \in Chain /\ <<q, "read">> \in Chain /\ <<q, "read">> # <<p, "write">>
      BY <1>2, ChainTypes, PairsEqual
    <3>2. Got(ring', <<q, "read">>) = Got(ring, <<q, "read">>)
      BY <1>9, <3>1, OtherGot
    <3> QED  BY <3>2, SameIn
  <2>2. How(p)' = how /\ Undelivered(p)' = U
    BY <1>7, <1>8, <1>10, <1>11, <1>13 DEF How, Undelivered
  <2> QED  BY <1>1, <1>7, <1>10, <1>12, <1>13, <1>15, <1>17, <2>1, <2>2 DEF Streamed
<1>19. Types'
  BY <1>7, <1>8, <1>17 DEF IndInv, Types
<1>20. Loops'
  BY <1>8 DEF IndInv, Loops, Born
<1>21. lpc' = "ended" \/ lpc # "ended"
  BY <1>8
<1> QED  BY <1>7, <1>8, <1>9, <1>16, <1>17, <1>18, <1>19, <1>20, <1>21, WriteStep

\* A step of the accept chain.
LEMMA AcceptStep ==
  ASSUME IndInv, UNCHANGED <<peers, held, gone, accept_inbox, bytes>>,
         lpc' = "ended" \/ lpc # "ended",
         RingOK(ring'), Only(ring, ring', AcceptChain), ~Alone(ring, AcceptChain),
         ~Alone(ring', AcceptChain),
         Live(ring', AcceptChain) => Len(accept_inbox) < AcceptCap,
         ToAccept', Types', Loops'
  PROVE  IndInv'
<1>1. /\ peers' = peers /\ held' = held /\ gone' = gone
      /\ accept_inbox' = accept_inbox /\ bytes' = bytes /\ inbox' = inbox /\ outbox' = outbox
  BY DEF bytes
<1>2. \A k \in Chain : Alone(ring', k) <=> Alone(ring, k)
  BY SameView DEF Only
<1>3. \A p \in End : \A act \in {"read", "write"} :
        <<p, act>> \in Chain /\ <<p, act>> # AcceptChain
  BY ChainTypes, PairsEqual DEF AcceptChain
<1>4. Acceptor \in peers
  BY ChainTypes DEF IndInv, Places, Unbound
<1>5. \A p : (Born(p)' <=> Born(p)) /\ (Alive(p)' <=> Alive(p))
  BY <1>1 DEF Born, Alive
<1>6. Places'
  BY <1>1, <1>4, <1>5 DEF IndInv, Places, Accepted
<1>7. Chains'
  <2>1. \A p \in gone : \A act \in {"read", "write"} : Flight(ring', <<p, act>>) = <<>>
    BY <1>3 DEF IndInv, Chains, Types, Only, Same
  <2> QED  BY <1>1, <1>2, <2>1, ChainsFrame DEF IndInv
<1>8. AcceptRoom'
  BY <1>1 DEF IndInv, AcceptRoom
<1>9. Rooms'
  <2> SUFFICES ASSUME NEW r \in End
               PROVE  /\ ReadRoom(ring', r, inbox[r]) /\ WriteRoom(ring', r, outbox[r])
                      /\ ~Born(r) => inbox[r] = <<>> /\ outbox[r] = <<>>
    BY <1>1, <1>5 DEF Rooms
  <2>1. Same(ring, ring', <<r, "read">>) /\ Same(ring, ring', <<r, "write">>)
    BY <1>3 DEF Only
  <2> QED  BY <2>1, RoomSame DEF IndInv, Rooms
<1>10. Flows'
  <2>1. \A p \in End : \A act \in {"read", "write"} :
          Got(ring', <<p, act>>) = Got(ring, <<p, act>>)
    BY <1>3, SameView DEF Only
  <2> QED  BY <1>1, <2>1, FlowsFrame DEF IndInv
<1> QED  BY <1>6, <1>7, <1>8, <1>9, <1>10 DEF IndInv

\* The results have not changed.
LEMMA ToAcceptSame ==
  ASSUME IndInv, UNCHANGED <<held, gone, accept_inbox, backlog>>,
         Got(ring', AcceptChain) = Got(ring, AcceptChain)
  PROVE  ToAccept'
<1>1. /\ Due' = Due /\ backlog' = backlog /\ held' = held /\ gone' = gone
      /\ \A p : Born(p)' <=> Born(p)
  BY DEF Due, Born
<1> QED  BY <1>1 DEF IndInv, Places, ToAccept

LEMMA KernelFailsInv ==
  ASSUME IndInv, NEW p \in Peer, NEW act \in Action, KernelFails(p, act)
  PROVE  IndInv'
<1>1. Complete(p, act, FALSE, 0) /\ backlog' = backlog /\ bytes' = bytes
  BY DEF KernelFails
<1>2. /\ go_on' = go_on /\ held' = held /\ gone' = gone
      /\ peers' = peers /\ fd' = fd /\ accept_inbox' = accept_inbox
      /\ lpc' = lpc /\ lpeer' = lpeer /\ (p \notin gone \/ act \notin {"read", "write"})
      /\ ~Alone(ring, <<p, act>>) /\ Got(ring, <<p, act>>) = {} /\ Live(ring, <<p, act>>)
  BY <1>1, CompleteIs
<1>3. /\ RingOK(ring') /\ Only(ring, ring', <<p, act>>) /\ Flight(ring', <<p, act>>) = <<>>
      /\ ~Alone(ring', <<p, act>>) /\ Got(ring', <<p, act>>) = {}
  BY <1>1, FailedRing
<1>4. Types' /\ Loops' /\ (lpc' = "ended" \/ lpc # "ended")
  BY <1>1, <1>2 DEF IndInv, Types, Loops, Born, bytes
<1>5. /\ sent' = sent /\ packed' = packed /\ outbox' = outbox /\ inbox' = inbox /\ wire' = wire
      /\ delivered' = delivered /\ taken' = taken
  BY <1>1 DEF bytes
<1>6. CASE <<p, act>> = AcceptChain
  <2>1. Got(ring', AcceptChain) = Got(ring, AcceptChain)
    BY <1>2, <1>3, <1>6
  <2>2. ToAccept'
    BY <1>1, <1>2, <2>1, ToAcceptSame
  <2>3. Live(ring', AcceptChain) => Len(accept_inbox) < AcceptCap
    BY <1>2, <1>6 DEF IndInv, AcceptRoom
  <2> QED  BY <1>1, <1>2, <1>3, <1>4, <1>6, <2>2, <2>3, AcceptStep
<1>7. \A r \in End : \A a \in {"read", "write"} :
        Got(ring', <<r, a>>) = Got(ring, <<r, a>>)
  <2> SUFFICES ASSUME NEW r \in End, NEW a \in {"read", "write"}
               PROVE  Got(ring', <<r, a>>) = Got(ring, <<r, a>>)
    OBVIOUS
  <2>1. <<r, a>> \in Chain /\ <<p, act>> \in Chain
    BY ChainTypes
  <2>2. CASE <<r, a>> = <<p, act>>
    BY <1>2, <1>3, <2>2
  <2>3. CASE <<r, a>> # <<p, act>>
    BY <1>3, <2>1, <2>3, OtherGot
  <2> QED  BY <2>2, <2>3
<1>8. \A r \in End : Streamed(r)'
  <2>1. Flows'
    BY <1>1, <1>2, <1>7, FlowsFrame DEF IndInv
  <2> QED  BY <2>1 DEF Flows
<1>9. CASE p \in End /\ act = "read"
  <2>1. ReadRoom(ring', p, inbox'[p])
    BY <1>3, <1>5, <1>9 DEF IndInv, Rooms, ReadRoom
  <2>2. Other(p) \in End
    BY <1>9, OtherEnd
  <2> QED  BY <1>1, <1>2, <1>3, <1>4, <1>5, <1>8, <1>9, <2>1, <2>2, ReadStep
<1>10. CASE p \in End /\ act = "write"
  <2>1. WriteRoom(ring', p, outbox'[p])
    BY <1>3, <1>5, <1>10 DEF IndInv, Rooms, WriteRoom
  <2> QED  BY <1>1, <1>2, <1>3, <1>4, <1>5, <1>8, <1>10, <2>1, WriteStep
<1>11. <<p, act>> = AcceptChain \/ (p \in End /\ act \in {"read", "write"})
  <2>1. PICK k \in Chain : k = <<p, act>> /\ k[1] = p /\ k[2] = act
    BY ChainTypes
  <2> QED  BY <1>2, <2>1 DEF IndInv, Chains, Action
<1> QED  BY <1>6, <1>9, <1>10, <1>11

LEMMA KernelAcceptInv ==
  ASSUME IndInv, KernelAccept
  PROVE  IndInv'
<1>1. PICK h \in Conn, t \in Seq(Conn) :
        /\ h = Head(backlog) /\ t = Tail(backlog) /\ Once(t) /\ h \notin ToSet(t)
        /\ ToSet(backlog) = {h} \cup ToSet(t)
  <2>1. backlog \in Seq(Conn) /\ Once(backlog) /\ backlog # <<>>
    BY DEF IndInv, Types, Places, ToAccept, KernelAccept
  <2>2. /\ Head(backlog) \in Conn /\ Tail(backlog) \in Seq(Conn) /\ Once(Tail(backlog))
        /\ Head(backlog) \notin ToSet(Tail(backlog))
        /\ ToSet(backlog) = {Head(backlog)} \cup ToSet(Tail(backlog))
    BY <2>1, QueueHead
  <2> QED  BY <2>2
<1>2. Complete(Acceptor, "accept", TRUE, h) /\ backlog' = t /\ bytes' = bytes
  BY <1>1 DEF KernelAccept
<1>3. Acceptor \in Peer /\ "accept" \in Action /\ h \in Result
  BY ChainTypes DEF Result
<1>4. /\ go_on' = go_on /\ held' = held /\ gone' = gone
      /\ peers' = peers /\ fd' = fd /\ accept_inbox' = accept_inbox
      /\ lpc' = lpc /\ lpeer' = lpeer
      /\ ~Alone(ring, AcceptChain) /\ Got(ring, AcceptChain) = {} /\ Live(ring, AcceptChain)
  BY <1>2, <1>3, CompleteIs DEF AcceptChain
<1>5. /\ RingOK(ring') /\ Only(ring, ring', AcceptChain) /\ ~Alone(ring', AcceptChain)
      /\ Got(ring', AcceptChain) = {h}
  BY <1>2, <1>3, CompletedRing DEF AcceptChain
<1>6. ToAccept'
  <2>1. Due' = Due
    BY <1>1, <1>2, <1>4, <1>5 DEF Due
  <2>2. \A p : Born(p)' <=> Born(p)
    BY <1>4 DEF Born
  <2> QED  BY <1>1, <1>2, <1>4, <1>5, <2>1, <2>2 DEF IndInv, Places, ToAccept
<1>7. Types' /\ Loops' /\ (lpc' = "ended" \/ lpc # "ended")
  BY <1>2, <1>4 DEF IndInv, Types, Loops, Born, bytes
<1>8. Live(ring', AcceptChain) => Len(accept_inbox) < AcceptCap
  BY <1>4 DEF IndInv, AcceptRoom
<1> QED  BY <1>2, <1>4, <1>5, <1>6, <1>7, <1>8, AcceptStep

-----------------------------------------------------------------------------
(* The loop sees a completion.                                             *)
LEMMA SeenIs ==
  ASSUME IndInv, ring.cq # <<>>
  PROVE  /\ e \in Finished /\ Key(e) \in Chain /\ Key(e) = <<e.peer, e.act>>
         /\ e.peer \in Peer /\ e.act \in Action
         /\ RingOK(Seen(ring)) /\ Only(ring, Seen(ring), Key(e)) /\ Alone(Seen(ring), Key(e))
         /\ Done(ring, Key(e)) = {e} /\ Flight(ring, Key(e)) = <<>> /\ ~Alone(ring, Key(e))
         /\ Got(ring, Key(e)) = (IF ~e.noop /\ e.ok THEN {e.res} ELSE {})
         /\ Key(e) = AcceptChain \/ (e.peer \in End /\ e.act \in {"read", "write"})
<1>1. RingOK(ring)
  BY DEF IndInv
<1>2. /\ RingOK(Seen(ring)) /\ Only(ring, Seen(ring), Key(e)) /\ Alone(Seen(ring), Key(e))
      /\ e \in Finished /\ Key(e) \in Chain
      /\ Done(ring, Key(e)) = {e} /\ Flight(ring, Key(e)) = <<>>
  BY <1>1, SeenRing DEF e
<1>3. Key(e) = <<e.peer, e.act>> /\ e.peer \in Peer /\ e.act \in Action
  BY <1>2 DEF Key, Finished
<1>4. /\ Got(ring, Key(e)) = (IF ~e.noop /\ e.ok THEN {e.res} ELSE {})
      /\ ~Alone(ring, Key(e))
  BY <1>2, DoneView
<1>5. Key(e) = AcceptChain \/ (e.peer \in End /\ e.act \in {"read", "write"})
  <2>1. PICK k \in Chain : k = Key(e) /\ k[1] = e.peer /\ k[2] = e.act
    BY <1>2, <1>3
  <2> QED  BY <1>3, <1>4, <2>1 DEF IndInv, Chains, Action
<1> QED  BY <1>2, <1>3, <1>4, <1>5

LEMMA OnlyTwice ==
  ASSUME NEW R, NEW S, NEW T, NEW k, Only(R, S, k), Only(S, T, k)
  PROVE  Only(R, T, k)
BY DEF Only, Same

\* What was read is in the inbox, and the next read begins.
LEMMA NextRead ==
  ASSUME IndInv, NEW p \in End, NEW in \in Word, Len(in) <= InCap,
         lpc = "wait", ring.cq # <<>>, Key(e) = <<p, "read">>, Alive(p),
         UNCHANGED <<user, peers, fd, accept_inbox, sent, packed, outbox, wire, delivered, taken>>,
         ring' = ReadLoop(Seen(ring), p, in), inbox' = [inbox EXCEPT ![p] = in],
         lpc' = "unpack", lpeer' = p,
         Stream(Undelivered(Other(p)), in, <<>>, wire[Other(p)],
                Drop(outbox[Other(p)], AckedIn(ring, Other(p))), How(Other(p)))
  PROVE  IndInv'
<1>1. PICK q \in End : q = Other(p) /\ Other(q) = p /\ q # p
  BY OtherEnd
<1>2. p \in Peer /\ "read" \in Action /\ "write" \in Action /\ q \in Peer
  BY ChainTypes
<1>3. /\ go_on' = go_on /\ held' = held /\ gone' = gone /\ backlog' = backlog
      /\ peers' = peers /\ fd' = fd /\ accept_inbox' = accept_inbox
      /\ sent' = sent /\ packed' = packed /\ outbox' = outbox /\ wire' = wire
      /\ delivered' = delivered /\ taken' = taken
  BY DEF user
<1>4. PICK R : R = Seen(ring)
  OBVIOUS
<1>5. /\ RingOK(R) /\ Only(ring, R, <<p, "read">>) /\ Alone(R, <<p, "read">>)
      /\ ~Alone(ring, <<p, "read">>)
  BY <1>4, SeenIs
<1>6. Starts(R, ring', <<p, "read">>) /\ ReadRoom(ring', p, in)
  <2>1. fd = Peer
    BY DEF IndInv, Loops
  <2> QED  BY <1>4, <1>5, <2>1, ReadLoopStarts
<1>7. /\ RingOK(ring') /\ Only(ring, ring', <<p, "read">>) /\ ~Alone(ring', <<p, "read">>)
      /\ Got(ring', <<p, "read">>) = {}
  BY <1>5, <1>6, OnlyTwice DEF Starts
<1>8. inbox' \in [End -> Word] /\ inbox'[p] = in /\ \A r \in End : r # p => inbox'[r] = inbox[r]
  BY DEF IndInv, Types
<1>9. Streamed(q)'
  <2>1. ReadIn(ring', p) = <<>>
    BY <1>7, GotIn
  <2>2. AckedIn(ring', q) = AckedIn(ring, q)
    <3>1. <<p, "read">> \in Chain /\ <<q, "write">> \in Chain /\ <<q, "write">> # <<p, "read">>
      BY <1>2, ChainTypes, PairsEqual
    <3>2. Got(ring', <<q, "write">>) = Got(ring, <<q, "write">>)
      BY <1>7, <3>1, OtherGot
    <3> QED  BY <3>2, SameIn
  <2>3. Other(q)' = Other(q)
    BY DEF Other
  <2>4. How(q)' = How(q) /\ Undelivered(q)' = Undelivered(q)
    BY <1>3, <2>3 DEF How, Undelivered
  <2> QED  BY <1>1, <1>3, <1>8, <2>1, <2>2, <2>3, <2>4 DEF Streamed
<1>10. p \notin gone /\ Born(p)
  BY AliveIs
<1>11. Types'
  BY <1>2, <1>3, <1>8 DEF IndInv, Types
<1>12. Loops'
  BY <1>3, <1>10 DEF IndInv, Loops, Born
<1>13. lpc' = "ended" \/ lpc # "ended"
  OBVIOUS
<1> QED  BY <1>1, <1>3, <1>5, <1>6, <1>7, <1>8, <1>9, <1>10, <1>11, <1>12, <1>13, ReadStep

\* What was written has left the outbox, and the next write begins.
LEMMA NextWrite ==
  ASSUME IndInv, NEW p \in End, NEW out \in Word, Len(out) <= OutCap,
         lpc = "wait", ring.cq # <<>>, Key(e) = <<p, "write">>, Alive(p),
         UNCHANGED <<user, peers, fd, accept_inbox, sent, packed, wire, inbox, delivered, taken>>,
         ring' = WriteLoop(Seen(ring), p, out), outbox' = [outbox EXCEPT ![p] = out],
         lpc' = "pack", lpeer' = p,
         Stream(Undelivered(p), inbox[Other(p)], ReadIn(ring, Other(p)), wire[p],
                Drop(out, 0), How(p))
  PROVE  IndInv'
<1>1. PICK q \in End : q = Other(p) /\ Other(q) = p /\ q # p
  BY OtherEnd
<1>2. p \in Peer /\ "read" \in Action /\ "write" \in Action /\ q \in Peer
  BY ChainTypes
<1>3. /\ go_on' = go_on /\ held' = held /\ gone' = gone /\ backlog' = backlog
      /\ peers' = peers /\ fd' = fd /\ accept_inbox' = accept_inbox
      /\ sent' = sent /\ packed' = packed /\ inbox' = inbox /\ wire' = wire
      /\ delivered' = delivered /\ taken' = taken
  BY DEF user
<1>4. PICK R : R = Seen(ring)
  OBVIOUS
<1>5. /\ RingOK(R) /\ Only(ring, R, <<p, "write">>) /\ Alone(R, <<p, "write">>)
      /\ ~Alone(ring, <<p, "write">>)
  BY <1>4, SeenIs
<1>6. Starts(R, ring', <<p, "write">>) /\ WriteRoom(ring', p, out)
  <2>1. fd = Peer
    BY DEF IndInv, Loops
  <2> QED  BY <1>4, <1>5, <2>1, WriteLoopStarts
<1>7. /\ RingOK(ring') /\ Only(ring, ring', <<p, "write">>) /\ ~Alone(ring', <<p, "write">>)
      /\ Got(ring', <<p, "write">>) = {}
  BY <1>5, <1>6, OnlyTwice DEF Starts
<1>8. /\ outbox' \in [End -> Word] /\ outbox'[p] = out
      /\ \A r \in End : r # p => outbox'[r] = outbox[r]
  BY DEF IndInv, Types
<1>9. Streamed(p)'
  <2>1. AckedIn(ring', p) = 0
    BY <1>7, GotIn
  <2>2. ReadIn(ring', q) = ReadIn(ring, q)
    <3>1. <<p, "write">> \in Chain /\ <<q, "read">> \in Chain /\ <<q, "read">> # <<p, "write">>
      BY <1>2, ChainTypes, PairsEqual
    <3>2. Got(ring', <<q, "read">>) = Got(ring, <<q, "read">>)
      BY <1>7, <3>1, OtherGot
    <3> QED  BY <3>2, SameIn
  <2>3. Other(p)' = Other(p)
    BY DEF Other
  <2>4. How(p)' = How(p) /\ Undelivered(p)' = Undelivered(p)
    BY <1>3, <2>3 DEF How, Undelivered
  <2> QED  BY <1>1, <1>3, <1>8, <2>1, <2>2, <2>3, <2>4 DEF Streamed
<1>10. p \notin gone /\ Born(p)
  BY AliveIs
<1>11. Types'
  BY <1>2, <1>3, <1>8 DEF IndInv, Types
<1>12. Loops'
  BY <1>3, <1>10 DEF IndInv, Loops, Born
<1>13. lpc' = "ended" \/ lpc # "ended"
  OBVIOUS
<1>14. \A r \in End : r # p => outbox'[r] = outbox[r] /\ wire'[r] = wire[r]
  BY <1>3, <1>8
<1> QED  BY <1>3, <1>5, <1>6, <1>7, <1>8, <1>9, <1>10, <1>11, <1>12, <1>13, <1>14, WriteStep

\* The completion is of an end that is served.
LEMMA HandlingEnd ==
  ASSUME IndInv, lpc = "wait", ring.cq # <<>>, Alive(e.peer), NEW act \in {"read", "write"},
         e.act = act
  PROVE  /\ e.peer \in End /\ Key(e) = <<e.peer, act>> /\ e.peer \notin gone
         /\ Got(ring, <<e.peer, act>>) = (IF ~e.noop /\ e.ok THEN {e.res} ELSE {})
<1>1. /\ Key(e) = <<e.peer, e.act>> /\ (Key(e) = AcceptChain \/ e.peer \in End)
      /\ Got(ring, Key(e)) = (IF ~e.noop /\ e.ok THEN {e.res} ELSE {})
  BY SeenIs
<1>2. Key(e) # AcceptChain
  BY <1>1, PairsEqual DEF AcceptChain
<1>3. e.peer \notin gone
  BY AliveIs
<1> QED  BY <1>1, <1>2, <1>3

LEMMA HandleReadInv ==
  ASSUME IndInv, HandleRead \/ HandleReadDeferred
  PROVE  IndInv'
<1>1. /\ lpc = "wait" /\ ring.cq # <<>> /\ Alive(e.peer) /\ e.ok /\ e.act = "read"
      /\ lpc' = "unpack" /\ lpeer' = e.peer
      /\ UNCHANGED <<user, peers, fd, accept_inbox, sent, packed, outbox, wire, delivered, taken>>
      /\ ring' = ReadLoop(Seen(ring), e.peer, inbox'[e.peer])
  BY DEF HandleRead, HandleReadDeferred, Handling, ReadNext
<1>2. /\ e.peer \in End /\ Key(e) = <<e.peer, "read">> /\ e.peer \notin gone
      /\ Got(ring, <<e.peer, "read">>) = (IF ~e.noop /\ e.ok THEN {e.res} ELSE {})
  BY <1>1, HandlingEnd
<1>3. PICK p \in End : p = e.peer
  BY <1>2
<1>4. PICK q \in End : q = Other(p) /\ Other(q) = p
  BY OtherEnd
<1>5. PICK U \in Word, in \in Word, wr \in Word, left \in Word :
        /\ U = Undelivered(q) /\ in = inbox[p] /\ wr = wire[q]
        /\ left = Drop(outbox[q], AckedIn(ring, q))
  BY <1>4, FlowVars
<1>6. PICK how : how = How(q) /\ how # "deaf"
  BY <1>2, <1>3, <1>4 DEF How
<1>7. Stream(U, in, ReadIn(ring, p), wr, left, how)
  <2>1. Streamed(q)
    BY FlowVars
  <2> QED  BY <1>4, <1>5, <1>6, <2>1 DEF Streamed
<1>8. ReadRoom(ring, p, in) /\ inbox \in [End -> Word]
  BY <1>5 DEF IndInv, Rooms, Types
<1>9. Len(in) \in Nat /\ InCap \in Nat /\ Len(in) <= InCap
  BY <1>8, CatType, IouAssumption DEF ReadRoom
<1>10. CASE HandleRead
  <2>1. e.noop = FALSE /\ inbox' = [inbox EXCEPT ![e.peer] = Cat(@, e.res)]
    BY <1>10 DEF HandleRead, Handling, Cat
  <2>2. Got(ring, <<p, "read">>) = {e.res}
    BY <1>1, <1>2, <1>3, <2>1
  <2>3. PICK rd \in Word : rd = e.res /\ Len(rd) <= InCap - Len(in)
    BY <1>8, <2>2 DEF ReadRoom
  <2>4. ReadIn(ring, p) = rd
    BY <2>2, <2>3, GotIn
  <2>5. PICK w \in Word : w = Cat(in, rd) /\ Len(w) = Len(in) + Len(rd) /\ Len(rd) \in Nat
    BY CatType
  <2>6. Len(w) <= InCap
    BY <1>9, <2>3, <2>5
  <2>7. Stream(U, w, <<>>, wr, left, how)
    BY <1>6, <1>7, <2>4, <2>5, StreamTake
  <2>8. inbox' = [inbox EXCEPT ![p] = w] /\ inbox'[p] = w
    BY <1>3, <1>5, <1>8, <2>1, <2>3, <2>5
  <2> QED  BY <1>1, <1>2, <1>3, <1>4, <1>5, <1>6, <2>6, <2>7, <2>8, NextRead
<1>11. CASE HandleReadDeferred
  <2>1. e.noop = TRUE /\ inbox' = inbox
    BY <1>11 DEF HandleReadDeferred, Handling
  <2>2. Got(ring, <<p, "read">>) = {}
    BY <1>2, <1>3, <2>1
  <2>3. Stream(U, in, <<>>, wr, left, how)
    BY <1>7, <2>2, GotIn
  <2>4. inbox' = [inbox EXCEPT ![p] = in] /\ inbox'[p] = in
    BY <1>5, <1>8, <2>1
  <2> QED  BY <1>1, <1>2, <1>3, <1>4, <1>5, <1>6, <1>9, <2>3, <2>4, NextRead
<1> QED  BY <1>10, <1>11

LEMMA DropNone ==
  ASSUME NEW w \in Word
  PROVE  Drop(w, 0) = w
<1>1. w = Cat(<<>>, w) /\ Len(<<>>) = 0 /\ <<>> \in Word
  BY CatEmpty
<1> QED  BY <1>1, DropHead

LEMMA HandleWriteInv ==
  ASSUME IndInv, HandleWrite \/ HandleWriteDeferred
  PROVE  IndInv'
<1>1. /\ lpc = "wait" /\ ring.cq # <<>> /\ Alive(e.peer) /\ e.ok /\ e.act = "write"
      /\ lpc' = "pack" /\ lpeer' = e.peer
      /\ UNCHANGED <<user, peers, fd, accept_inbox, sent, packed, wire, inbox, delivered, taken>>
      /\ ring' = WriteLoop(Seen(ring), e.peer, outbox'[e.peer])
  BY DEF HandleWrite, HandleWriteDeferred, Handling, WriteNext
<1>2. /\ e.peer \in End /\ Key(e) = <<e.peer, "write">> /\ e.peer \notin gone
      /\ Got(ring, <<e.peer, "write">>) = (IF ~e.noop /\ e.ok THEN {e.res} ELSE {})
  BY <1>1, HandlingEnd
<1>3. PICK p \in End : p = e.peer
  BY <1>2
<1>4. PICK q \in End : q = Other(p) /\ Other(q) = p
  BY OtherEnd
<1>5. PICK U \in Word, in \in Word, rd \in Word, wr \in Word, out \in Word :
        /\ U = Undelivered(p) /\ in = inbox[q] /\ rd = ReadIn(ring, q) /\ wr = wire[p]
        /\ out = outbox[p]
  BY <1>4, FlowVars
<1>6. PICK how : how = How(p)
  OBVIOUS
<1>7. Stream(U, in, rd, wr, Drop(out, AckedIn(ring, p)), how)
  <2>1. Streamed(p)
    BY FlowVars
  <2> QED  BY <1>4, <1>5, <1>6, <2>1 DEF Streamed
<1>8. WriteRoom(ring, p, out) /\ outbox \in [End -> Word]
  BY <1>5 DEF IndInv, Rooms, Types
<1>9. Len(out) \in Nat /\ OutCap \in Nat /\ Len(out) <= OutCap
  BY <1>8, CatType, IouAssumption DEF WriteRoom
<1>10. CASE HandleWrite
  <2>1. e.noop = FALSE /\ outbox' = [outbox EXCEPT ![e.peer] = Drop(@, e.res)]
    BY <1>10 DEF HandleWrite, Handling
  <2>2. Got(ring, <<p, "write">>) = {e.res}
    BY <1>1, <1>2, <1>3, <2>1
  <2>3. PICK n \in Nat : n = e.res /\ n <= Len(out)
    BY <1>8, <2>2 DEF WriteRoom
  <2>4. AckedIn(ring, p) = n
    BY <2>2, <2>3, GotIn
  <2>5. PICK w \in Word : w = Drop(out, n) /\ Len(w) = Len(out) - n
    BY <2>3, Split
  <2>6. Len(w) <= OutCap
    BY <1>9, <2>3, <2>5
  <2>7. Stream(U, in, rd, wr, Drop(w, 0), how)
    BY <1>7, <2>4, <2>5, DropNone
  <2>8. outbox' = [outbox EXCEPT ![p] = w] /\ outbox'[p] = w
    BY <1>3, <1>5, <1>8, <2>1, <2>3, <2>5
  <2> QED  BY <1>1, <1>2, <1>3, <1>4, <1>5, <1>6, <2>6, <2>7, <2>8, NextWrite
<1>11. CASE HandleWriteDeferred
  <2>1. e.noop = TRUE /\ outbox' = outbox
    BY <1>11 DEF HandleWriteDeferred, Handling
  <2>2. Got(ring, <<p, "write">>) = {}
    BY <1>2, <1>3, <2>1
  <2>3. Stream(U, in, rd, wr, Drop(out, 0), how)
    BY <1>7, <2>2, GotIn
  <2>4. outbox' = [outbox EXCEPT ![p] = out] /\ outbox'[p] = out
    BY <1>5, <1>8, <2>1
  <2> QED  BY <1>1, <1>2, <1>3, <1>4, <1>5, <1>6, <1>9, <2>3, <2>4, NextWrite
<1> QED  BY <1>10, <1>11

LEMMA HandleUnknownInv ==
  ASSUME IndInv, HandleUnknown
  PROVE  IndInv'
<1>1. /\ lpc = "wait" /\ ring.cq # <<>> /\ e.peer \notin peers /\ ring' = Seen(ring)
      /\ lpc' = "turn" /\ lpeer' = lpeer
      /\ go_on' = go_on /\ held' = held /\ gone' = gone /\ backlog' = backlog
      /\ peers' = peers /\ fd' = fd /\ accept_inbox' = accept_inbox
      /\ sent' = sent /\ packed' = packed /\ outbox' = outbox /\ wire' = wire
      /\ inbox' = inbox /\ delivered' = delivered /\ taken' = taken
  BY DEF HandleUnknown, user, bytes
<1>2. /\ Key(e) \in Chain /\ Key(e) = <<e.peer, e.act>>
      /\ RingOK(ring') /\ Only(ring, ring', Key(e)) /\ Alone(ring', Key(e))
      /\ ~Alone(ring, Key(e))
      /\ Key(e) = AcceptChain \/ (e.peer \in End /\ e.act \in {"read", "write"})
  BY <1>1, SeenIs
<1>3. PICK p \in End, act \in {"read", "write"} : p = e.peer /\ act = e.act
  <2>1. Acceptor \in peers
    BY <1>2 DEF IndInv, Places, Unbound
  <2>2. Key(e) # AcceptChain
    BY <1>1, <1>2, <2>1, PairsEqual DEF AcceptChain
  <2> QED  BY <1>2, <2>2
<1>4. /\ Only(ring, ring', <<p, act>>) /\ Alone(ring', <<p, act>>) /\ ~Alone(ring, <<p, act>>)
  BY <1>2, <1>3
<1>5. ~Alive(p) /\ p \in gone
  <2>1. ~Alive(p)
    BY <1>1, <1>3 DEF IndInv, Places
  <2>2. Born(p)
    BY <1>4 DEF IndInv, Chains
  <2> QED  BY <2>1, <2>2 DEF Alive, Born
<1>6. Flight(ring', <<p, act>>) = <<>> /\ Got(ring', <<p, act>>) = {}
  BY <1>4, AloneView DEF Alone
<1>7. Types' /\ Loops' /\ (lpc' = "ended" \/ lpc # "ended")
  BY <1>1 DEF IndInv, Types, Loops
<1>8. PICK q \in End : q = Other(p) /\ Other(q) = p /\ q # p
  BY OtherEnd
<1>9. /\ p \in Peer /\ q \in Peer /\ "read" \in Action /\ "write" \in Action
      /\ \A r : Other(r)' = Other(r)
  BY ChainTypes DEF Other
<1>10. CASE act = "read"
  <2>1. ReadRoom(ring', p, inbox'[p])
    BY <1>1, <1>6, <1>10 DEF IndInv, Rooms, ReadRoom
  <2>2. PICK U \in Word, in \in Word, rd \in Word, wr \in Word :
          /\ U = Undelivered(q) /\ in = inbox[p] /\ rd = ReadIn(ring, p) /\ wr = wire[q]
    BY <1>8, FlowVars
  <2>3. How(q) = "deaf" /\ How(q)' = "deaf" /\ Undelivered(q)' = U
    BY <1>1, <1>5, <1>8, <1>9, <2>2 DEF How, Undelivered
  <2>4. PICK left : left = Drop(outbox[q], AckedIn(ring, q))
    OBVIOUS
  <2>5. Stream(U, in, rd, wr, left, "deaf")
    <3>1. Streamed(q)
      BY FlowVars
    <3> QED  BY <1>8, <2>2, <2>3, <2>4, <3>1 DEF Streamed
  <2>6. \A a, b, c : Stream(U, in, a, b, c, "deaf")
    BY <2>5, StreamCut
  <2>7. Streamed(q)'
    BY <1>1, <1>8, <1>9, <2>2, <2>3, <2>6 DEF Streamed
  <2> QED  BY <1>1, <1>2, <1>4, <1>5, <1>6, <1>7, <1>8, <1>10, <2>1, <2>7, ReadStep
<1>11. CASE act = "write"
  <2>1. WriteRoom(ring', p, outbox'[p])
    BY <1>1, <1>6, <1>11 DEF IndInv, Rooms, WriteRoom
  <2>2. PICK U \in Word, in \in Word, rd \in Word, wr \in Word :
          /\ U = Undelivered(p) /\ in = inbox[q] /\ rd = ReadIn(ring, q) /\ wr = wire[p]
    BY <1>8, FlowVars
  <2>3. PICK how : /\ how = How(p) /\ How(p)' = how /\ how \in {"deaf", "cut"}
                   /\ Undelivered(p)' = U
    BY <1>1, <1>5, <1>8, <1>9, <2>2 DEF How, Undelivered
  <2>4. PICK left : left = Drop(outbox[p], AckedIn(ring, p))
    OBVIOUS
  <2>5. Stream(U, in, rd, wr, left, how)
    <3>1. Streamed(p)
      BY FlowVars
    <3> QED  BY <1>8, <2>2, <2>3, <2>4, <3>1 DEF Streamed
  <2>6. \A c : Stream(U, in, rd, wr, c, how)
    BY <2>3, <2>5, StreamCut
  <2>7. ReadIn(ring', q) = ReadIn(ring, q)
    <3>1. <<p, "write">> \in Chain /\ <<q, "read">> \in Chain /\ <<q, "read">> # <<p, "write">>
      BY <1>9, ChainTypes, PairsEqual
    <3>2. Got(ring', <<q, "read">>) = Got(ring, <<q, "read">>)
      BY <1>4, <1>11, <3>1, OtherGot
    <3> QED  BY <3>2, SameIn
  <2>8. Streamed(p)'
    BY <1>1, <1>8, <1>9, <2>2, <2>3, <2>6, <2>7 DEF Streamed
  <2> QED  BY <1>1, <1>2, <1>4, <1>5, <1>6, <1>7, <1>8, <1>11, <2>1, <2>8, WriteStep
<1> QED  BY <1>10, <1>11

LEMMA HandleAcceptDeferredInv ==
  ASSUME IndInv, HandleAcceptDeferred
  PROVE  IndInv'
<1>1. /\ lpc = "wait" /\ ring.cq # <<>> /\ e.act = "accept" /\ e.noop = TRUE
      /\ ring' = AcceptLoop(Seen(ring), Len(accept_inbox)) /\ lpc' = "turn" /\ lpeer' = lpeer
      /\ go_on' = go_on /\ held' = held /\ gone' = gone /\ backlog' = backlog
      /\ peers' = peers /\ fd' = fd /\ accept_inbox' = accept_inbox /\ bytes' = bytes
  BY DEF HandleAcceptDeferred, Handling, user
<1>2. PICK R : R = Seen(ring)
  OBVIOUS
<1>3. /\ RingOK(R) /\ Only(ring, R, AcceptChain) /\ Alone(R, AcceptChain)
      /\ ~Alone(ring, AcceptChain) /\ Got(ring, AcceptChain) = {}
  <2>1. Key(e) = AcceptChain
    BY <1>1, SeenIs
  <2>2. Got(ring, Key(e)) = (IF ~e.noop /\ e.ok THEN {e.res} ELSE {})
    BY <1>1, SeenIs
  <2>3. Got(ring, Key(e)) = {}
    BY <1>1, <2>2
  <2> QED  BY <1>1, <1>2, <2>1, <2>3, SeenIs
<1>4. /\ Starts(R, ring', AcceptChain)
      /\ Live(ring', AcceptChain) => Len(accept_inbox) < AcceptCap
  <2>1. Len(accept_inbox) \in Nat /\ Len(accept_inbox) <= AcceptCap /\ fd = Peer
    BY <1>1 DEF IndInv, Types, AcceptRoom, Loops
  <2> QED  BY <1>1, <1>2, <1>3, <2>1, AcceptLoopStarts
<1>5. /\ RingOK(ring') /\ Only(ring, ring', AcceptChain) /\ ~Alone(ring', AcceptChain)
      /\ Got(ring', AcceptChain) = {}
  BY <1>3, <1>4, OnlyTwice DEF Starts
<1>6. ToAccept'
  BY <1>1, <1>3, <1>5, ToAcceptSame
<1>7. Types' /\ Loops' /\ (lpc' = "ended" \/ lpc # "ended")
  BY <1>1 DEF IndInv, Types, Loops, bytes
<1> QED  BY <1>1, <1>3, <1>4, <1>5, <1>6, <1>7, AcceptStep

-----------------------------------------------------------------------------
(* A peer starts: a read and a write begin.                                *)
Others(R, S, p) == \A k \in Chain : k \notin {<<p, "read">>, <<p, "write">>} => Same(R, S, k)
Begun(S, p) ==
  /\ ~Alone(S, <<p, "read">>) /\ Got(S, <<p, "read">>) = {} /\ ReadRoom(S, p, <<>>)
  /\ ~Alone(S, <<p, "write">>) /\ Got(S, <<p, "write">>) = {} /\ WriteRoom(S, p, <<>>)

LEMMA PeerStarts ==
  ASSUME NEW R, RingOK(R), NEW p \in End, fd = Peer,
         Alone(R, <<p, "read">>), Alone(R, <<p, "write">>),
         NEW T, T = WriteLoop(ReadLoop(R, p, <<>>), p, <<>>)
  PROVE  RingOK(T) /\ Others(R, T, p) /\ Begun(T, p)
<1>1. PICK r \in Chain, w \in Chain : r = <<p, "read">> /\ w = <<p, "write">> /\ r # w
  <2>1. <<p, "read">> \in Chain /\ <<p, "write">> \in Chain /\ <<p, "read">> # <<p, "write">>
    BY ChainTypes, PairsEqual
  <2> QED  BY <2>1
<1>2. PICK S : S = ReadLoop(R, p, <<>>)
  OBVIOUS
<1>3. <<>> \in Word /\ Len(<<>>) <= InCap /\ Len(<<>>) <= OutCap
  <2>1. <<>> \in Word /\ Len(<<>>) = 0 /\ 0 <= InCap /\ 0 <= OutCap
    BY CatEmpty, IouAssumption
  <2> QED  BY <2>1
<1>4. Starts(R, S, r) /\ ReadRoom(S, p, <<>>)
  BY <1>1, <1>2, <1>3, ReadLoopStarts
<1>5. Alone(S, w)
  BY <1>1, <1>4, SameView DEF Starts, Only
<1>6. Starts(S, T, w) /\ WriteRoom(T, p, <<>>)
  BY <1>1, <1>2, <1>3, <1>4, <1>5, WriteLoopStarts DEF Starts
<1>7. Same(S, T, r)
  BY <1>1, <1>6 DEF Starts, Only
<1>8. ~Alone(T, r) /\ Got(T, r) = {} /\ ReadRoom(T, p, <<>>)
  <2>1. ReadRoom(T, p, <<>>)
    BY <1>1, <1>4, <1>7, RoomSame
  <2> QED  BY <1>4, <1>7, <2>1, SameView DEF Starts
<1>9. Others(R, T, p)
  BY <1>1, <1>4, <1>6, SameTwice DEF Starts, Only, Others
<1> QED  BY <1>1, <1>6, <1>8, <1>9 DEF Starts, Begun

LEMMA NewPeer ==
  ASSUME IndInv, NEW p \in End, ~Born(p), Acceptor \in peers, lpc # "ended",
         \A r \in End : Born(r)' <=> (Born(r) \/ r = p),
         \A r \in End : Alive(r)' => (Alive(r) \/ r = p),
         UNCHANGED <<gone, bytes>>,
         \A k \in Chain : k \notin {<<p, "read">>, <<p, "write">>, AcceptChain} =>
           Same(ring, ring', k),
         ~Alone(ring', AcceptChain), Begun(ring', p)
  PROVE  Chains' /\ Rooms' /\ Flows'
<1>1. /\ gone' = gone /\ inbox' = inbox /\ outbox' = outbox /\ p \notin gone
  BY DEF bytes, Born
<1>2. \A r \in End : \A act \in {"read", "write"} :
        /\ <<r, act>> \in Chain /\ <<r, act>> # AcceptChain
        /\ r # p => <<r, act>> \notin {<<p, "read">>, <<p, "write">>, AcceptChain}
  BY ChainTypes, PairsEqual DEF AcceptChain
<1>3. ASSUME NEW r \in End, NEW act \in {"read", "write"}, r # p
      PROVE  /\ Same(ring, ring', <<r, act>>) /\ Got(ring', <<r, act>>) = Got(ring, <<r, act>>)
             /\ (Alone(ring', <<r, act>>) <=> Alone(ring, <<r, act>>))
             /\ Flight(ring', <<r, act>>) = Flight(ring, <<r, act>>)
  <2>1. Same(ring, ring', <<r, act>>)
    BY <1>2, <1>3
  <2> QED  BY <2>1, SameView DEF Same
<1>4. \A act \in {"read", "write"} : /\ Alone(ring, <<p, act>>) /\ Got(ring, <<p, act>>) = {}
                                     /\ ~Alone(ring', <<p, act>>) /\ Got(ring', <<p, act>>) = {}
  BY AloneView DEF IndInv, Chains, Begun
<1>5. Chains'
  <2>1. ASSUME NEW k \in Chain
        PROVE  Alone(ring', k) \/ k = AcceptChain \/ (k[1] \in End /\ k[2] # "accept")
    <3>1. CASE k \in {<<p, "read">>, <<p, "write">>, AcceptChain}
      BY <3>1
    <3>2. CASE k \notin {<<p, "read">>, <<p, "write">>, AcceptChain}
      <4>1. Alone(ring', k) <=> Alone(ring, k)
        BY <3>2, SameView
      <4> QED  BY <4>1 DEF IndInv, Chains
    <3> QED  BY <3>1, <3>2
  <2>2. ASSUME NEW r \in End, NEW act \in {"read", "write"}
        PROVE  /\ ~Born(r)' => Alone(ring', <<r, act>>)
               /\ r \in gone => Flight(ring', <<r, act>>) = <<>>
               /\ Alive(r)' => ~Alone(ring', <<r, act>>)
    <3>1. CASE r = p
      BY <1>1, <1>4, <3>1
    <3>2. CASE r # p
      <4>1. /\ ~Born(r) => Alone(ring, <<r, act>>)
            /\ r \in gone => Flight(ring, <<r, act>>) = <<>>
            /\ Alive(r) => ~Alone(ring, <<r, act>>)
        BY DEF IndInv, Chains
      <4>2. /\ (Alone(ring', <<r, act>>) <=> Alone(ring, <<r, act>>))
            /\ Flight(ring', <<r, act>>) = Flight(ring, <<r, act>>)
        BY <1>3, <3>2
      <4> QED  BY <3>2, <4>1, <4>2
    <3> QED  BY <3>1, <3>2
  <2> QED  BY <1>1, <2>1, <2>2 DEF Chains
<1>6. Rooms'
  <2> SUFFICES ASSUME NEW r \in End
               PROVE  /\ ReadRoom(ring', r, inbox[r]) /\ WriteRoom(ring', r, outbox[r])
                      /\ ~Born(r)' => inbox[r] = <<>> /\ outbox[r] = <<>>
    BY <1>1 DEF Rooms
  <2>1. /\ ReadRoom(ring, r, inbox[r]) /\ WriteRoom(ring, r, outbox[r])
        /\ ~Born(r) => inbox[r] = <<>> /\ outbox[r] = <<>>
    BY DEF IndInv, Rooms
  <2>2. CASE r = p
    BY <2>1, <2>2 DEF Begun
  <2>3. CASE r # p
    <3>1. Same(ring, ring', <<r, "read">>) /\ Same(ring, ring', <<r, "write">>)
      BY <1>3, <2>3
    <3> QED  BY <2>1, <3>1, RoomSame
  <2> QED  BY <2>2, <2>3
<1>7. Flows'
  <2>1. \A r \in End : \A act \in {"read", "write"} :
          Got(ring', <<r, act>>) = Got(ring, <<r, act>>)
    BY <1>3, <1>4
  <2> QED  BY <2>1, FlowsFrame DEF IndInv
<1> QED  BY <1>5, <1>6, <1>7

LEMMA ConnectInv ==
  ASSUME IndInv, NEW c \in Conn, Connect(c)
  PROVE  IndInv'
<1>1. PICK p \in End : p = <<c, "client">> /\ p[2] = "client"
  BY EndPair
<1>2. /\ Acceptor \in peers /\ p \notin held \cup gone /\ lpc \in {"turn", "wait"}
      /\ peers' = peers \cup {p} /\ held' = held \cup {p}
      /\ backlog' = Append(backlog, c)
      /\ ring' = WriteLoop(ReadLoop(ring, p, <<>>), p, <<>>)
      /\ go_on' = go_on /\ gone' = gone /\ fd' = fd
      /\ accept_inbox' = accept_inbox /\ lpc' = lpc /\ lpeer' = lpeer /\ bytes' = bytes
  BY <1>1 DEF Connect, Between
<1>3. ~Born(p) /\ p \in Peer /\ p # Acceptor
  BY <1>1, <1>2, ChainTypes DEF Born, IndInv, Places, Accepted
<1>4. RingOK(ring') /\ Others(ring, ring', p) /\ Begun(ring', p)
  <2>1. RingOK(ring) /\ fd = Peer /\ Alone(ring, <<p, "read">>) /\ Alone(ring, <<p, "write">>)
    BY <1>2, <1>3 DEF IndInv, Chains, Loops
  <2> QED  BY <1>2, <2>1, PeerStarts
<1>5. /\ Same(ring, ring', AcceptChain) /\ Got(ring', AcceptChain) = Got(ring, AcceptChain)
      /\ (Alone(ring', AcceptChain) <=> Alone(ring, AcceptChain))
      /\ (Live(ring', AcceptChain) <=> Live(ring, AcceptChain))
  <2>1. AcceptChain \notin {<<p, "read">>, <<p, "write">>} /\ AcceptChain \in Chain
    BY <1>3, ChainTypes, PairsEqual DEF AcceptChain
  <2>2. Same(ring, ring', AcceptChain)
    BY <1>4, <2>1 DEF Others
  <2> QED  BY <2>2, SameView
<1>6. \A r : (Born(r)' <=> (Born(r) \/ r = p)) /\ (Alive(r)' <=> (Alive(r) \/ r = p))
  BY <1>2 DEF Born, Alive
<1>7. Chains' /\ Rooms' /\ Flows'
  <2>1. ~Alone(ring', AcceptChain)
    BY <1>2, <1>5 DEF IndInv, Chains
  <2>2. \A k \in Chain : k \notin {<<p, "read">>, <<p, "write">>, AcceptChain} =>
          Same(ring, ring', k)
    BY <1>4 DEF Others
  <2> QED  BY <1>2, <1>3, <1>4, <1>6, <2>1, <2>2, NewPeer
<1>8. PICK l \in Seq(Conn) :
        /\ l = Append(backlog, c) /\ ToSet(l) = ToSet(backlog) \cup {c}
        /\ Once(backlog) /\ c \notin ToSet(backlog) => Once(l)
  <2>1. backlog \in Seq(Conn)
    BY DEF IndInv, Types
  <2>2. /\ Append(backlog, c) \in Seq(Conn) /\ ToSet(Append(backlog, c)) = ToSet(backlog) \cup {c}
        /\ Once(backlog) /\ c \notin ToSet(backlog) => Once(Append(backlog, c))
    BY <2>1, QueueLast
  <2> QED  BY <2>2
<1>9. c \notin Due /\ ~Born(<<c, "server">>) /\ <<c, "server">> # p
  BY <1>1, <1>2, EndPair DEF IndInv, Places, ToAccept, Accepted
<1>10. ToAccept'
  <2>1. Due' = Due \cup {c}
    BY <1>2, <1>5, <1>8 DEF Due
  <2>2. Once(l) /\ Got(ring', AcceptChain) \cap ToSet(l) = {}
    BY <1>5, <1>8, <1>9 DEF IndInv, Places, ToAccept, Due
  <2>3. ASSUME NEW d \in Due' PROVE <<d, "client">> \in held' \cup gone' /\ ~Born(<<d, "server">>)'
    <3>1. <<d, "server">> # p
      BY <1>1, PairsEqual
    <3>2. CASE d = c
      BY <1>1, <1>2, <1>6, <1>9, <3>2
    <3>3. CASE d # c
      <4>1. d \in Due
        BY <2>1, <3>3
      <4> QED  BY <1>2, <1>6, <3>1, <4>1 DEF IndInv, Places, ToAccept
    <3> QED  BY <3>2, <3>3
  <2>4. Due' \subseteq Conn
    BY <2>1 DEF IndInv, Places, ToAccept
  <2> QED  BY <1>2, <1>8, <2>2, <2>3, <2>4 DEF ToAccept
<1>11. Accepted'
  <2>1. \A r \in ToSet(accept_inbox) : r[2] = "server" /\ r \notin held' \cup gone'
    BY <1>1, <1>2 DEF IndInv, Places, Accepted
  <2>2. \A d \in Conn : Born(<<d, "server">>)' => <<d, "client">> \in held' \cup gone'
    <3>1. \A d : <<d, "server">> # p
      BY <1>1, PairsEqual
    <3> QED  BY <1>2, <1>6, <3>1 DEF IndInv, Places, Accepted
  <2> QED  BY <1>2, <2>1, <2>2 DEF IndInv, Places, Accepted
<1>12. Places'
  BY <1>2, <1>3, <1>6, <1>10, <1>11 DEF IndInv, Places
<1>13. AcceptRoom'
  BY <1>2, <1>5 DEF IndInv, AcceptRoom
<1>14. Types'
  BY <1>2, <1>3, <1>8 DEF IndInv, Types, bytes
<1>15. Loops'
  BY <1>2 DEF IndInv, Loops
<1> QED  BY <1>4, <1>7, <1>12, <1>13, <1>14, <1>15 DEF IndInv

LEMMA HandleAcceptInv ==
  ASSUME IndInv, HandleAccept
  PROVE  IndInv'
<1>1. /\ lpc = "wait" /\ ring.cq # <<>> /\ Acceptor \in peers /\ e.ok /\ e.noop = FALSE
      /\ Key(e) = AcceptChain
  <2>1. lpc = "wait" /\ ring.cq # <<>> /\ e.peer \in peers /\ e.ok /\ e.act = "accept" /\ e.noop = FALSE
    BY DEF HandleAccept, Handling
  <2>2. Key(e) = AcceptChain
    BY <2>1, SeenIs
  <2>3. Key(e) = <<e.peer, e.act>>
    BY <2>1, SeenIs
  <2>4. e.peer = Acceptor
    BY <2>2, <2>3, PairsEqual DEF AcceptChain
  <2> QED  BY <2>1, <2>2, <2>4
<1>2. PICK R : R = Seen(ring)
  OBVIOUS
<1>3. /\ RingOK(R) /\ Only(ring, R, AcceptChain) /\ Alone(R, AcceptChain)
      /\ ~Alone(ring, AcceptChain) /\ Got(ring, AcceptChain) = {e.res}
  <2>1. Got(ring, Key(e)) = (IF ~e.noop /\ e.ok THEN {e.res} ELSE {})
    BY <1>1, SeenIs
  <2>2. Got(ring, Key(e)) = {e.res}
    BY <1>1, <2>1
  <2> QED  BY <1>1, <1>2, <2>2, SeenIs
<1>4. PICK h \in Conn : /\ h = e.res /\ h \notin ToSet(backlog) /\ h \in Due
                        /\ <<h, "client">> \in held \cup gone /\ ~Born(<<h, "server">>)
  BY <1>3 DEF IndInv, Places, ToAccept, Due
<1>5. PICK p \in End : p = <<h, "server">> /\ p[2] = "server"
  BY EndPair
<1>6. /\ Len(accept_inbox) < AcceptCap
      /\ accept_inbox' = Append(accept_inbox, p) /\ peers' = peers \cup {p}
      /\ ring' = WriteLoop(ReadLoop(AcceptLoop(R, Len(accept_inbox) + 1), p, <<>>), p, <<>>)
      /\ lpc' = "turn" /\ lpeer' = lpeer
      /\ go_on' = go_on /\ held' = held /\ gone' = gone /\ backlog' = backlog
      /\ fd' = fd /\ bytes' = bytes
  BY <1>2, <1>4, <1>5 DEF HandleAccept, user
<1>7. ~Born(p) /\ p \in Peer /\ p # Acceptor /\ p \notin held \cup gone /\ p \notin ToSet(accept_inbox)
  BY <1>4, <1>5, ChainTypes DEF Born
<1>8. PICK n \in Nat : n = Len(accept_inbox) + 1 /\ n <= AcceptCap
  <2>1. Len(accept_inbox) \in Nat /\ AcceptCap \in Nat
    BY IouAssumption DEF IndInv, Types
  <2>2. Len(accept_inbox) + 1 \in Nat /\ Len(accept_inbox) + 1 <= AcceptCap
    BY <1>6, <2>1
  <2> QED  BY <2>2
<1>9. PICK S : S = AcceptLoop(R, n)
  OBVIOUS
<1>10. fd = Peer
  BY <1>1 DEF IndInv, Loops
<1>11. /\ RingOK(S) /\ Only(R, S, AcceptChain) /\ ~Alone(S, AcceptChain)
       /\ Got(S, AcceptChain) = {} /\ (Live(S, AcceptChain) => n < AcceptCap)
  BY <1>3, <1>8, <1>9, <1>10, AcceptLoopStarts DEF Starts
<1>12. Only(ring, S, AcceptChain)
  BY <1>3, <1>11, OnlyTwice
<1>13. RingOK(ring') /\ Others(S, ring', p) /\ Begun(ring', p)
  <2>1. \A act \in {"read", "write"} : <<p, act>> \in Chain /\ <<p, act>> # AcceptChain
    BY <1>7, ChainTypes, PairsEqual DEF AcceptChain
  <2>2. Alone(S, <<p, "read">>) /\ Alone(S, <<p, "write">>)
    <3>1. Alone(ring, <<p, "read">>) /\ Alone(ring, <<p, "write">>)
      BY <1>7 DEF IndInv, Chains
    <3>2. Same(ring, S, <<p, "read">>) /\ Same(ring, S, <<p, "write">>)
      BY <1>12, <2>1 DEF Only
    <3> QED  BY <3>1, <3>2, SameView
  <2>3. ring' = WriteLoop(ReadLoop(S, p, <<>>), p, <<>>)
    BY <1>6, <1>8, <1>9
  <2> QED  BY <1>10, <1>11, <2>2, <2>3, PeerStarts
<1>14. /\ ~Alone(ring', AcceptChain) /\ Got(ring', AcceptChain) = {}
       /\ (Live(ring', AcceptChain) => n < AcceptCap)
  <2>1. AcceptChain \notin {<<p, "read">>, <<p, "write">>} /\ AcceptChain \in Chain
    BY <1>7, ChainTypes, PairsEqual DEF AcceptChain
  <2>2. Same(S, ring', AcceptChain)
    BY <1>13, <2>1 DEF Others
  <2> QED  BY <1>11, <2>2, SameView
<1>15. PICK l \in Seq(End) :
         /\ l = Append(accept_inbox, p) /\ Len(l) = n /\ ToSet(l) = ToSet(accept_inbox) \cup {p}
         /\ Once(l)
  <2>1. accept_inbox \in Seq(End) /\ Once(accept_inbox)
    BY DEF IndInv, Types, Places, Accepted
  <2>2. /\ Append(accept_inbox, p) \in Seq(End) /\ Len(Append(accept_inbox, p)) = Len(accept_inbox) + 1
        /\ ToSet(Append(accept_inbox, p)) = ToSet(accept_inbox) \cup {p}
        /\ Once(accept_inbox) /\ p \notin ToSet(accept_inbox) => Once(Append(accept_inbox, p))
    BY <2>1, QueueLast
  <2> QED  BY <1>7, <1>8, <2>1, <2>2
<1>16. \A r : (Born(r)' <=> (Born(r) \/ r = p)) /\ (Alive(r)' <=> (Alive(r) \/ r = p))
  BY <1>6, <1>15 DEF Born, Alive
<1>17. Chains' /\ Rooms' /\ Flows'
  <2>1. \A k \in Chain : k \notin {<<p, "read">>, <<p, "write">>, AcceptChain} =>
          Same(ring, ring', k)
    BY <1>12, <1>13, SameTwice DEF Others, Only
  <2> QED  BY <1>1, <1>6, <1>7, <1>13, <1>14, <1>16, <2>1, NewPeer
<1>18. ToAccept'
  <2>1. Due' = ToSet(backlog) /\ Due' \subseteq Due
    BY <1>6, <1>14 DEF Due
  <2>2. ASSUME NEW d \in Due' PROVE <<d, "client">> \in held' \cup gone' /\ ~Born(<<d, "server">>)'
    <3>1. d # h
      BY <1>4, <2>1
    <3>2. <<d, "server">> # p
      BY <1>5, <3>1, PairsEqual
    <3> QED  BY <1>6, <1>16, <2>1, <3>2 DEF IndInv, Places, ToAccept
  <2>3. Due' \subseteq Conn
    BY <2>1 DEF IndInv, Places, ToAccept
  <2> QED  BY <1>6, <1>14, <2>2, <2>3 DEF IndInv, Places, ToAccept
<1>19. Accepted'
  <2>1. \A r \in ToSet(l) : r[2] = "server" /\ r \notin held \cup gone
    BY <1>5, <1>7, <1>15 DEF IndInv, Places, Accepted
  <2>2. \A d \in Conn : Born(<<d, "server">>)' => <<d, "client">> \in held \cup gone
    <3>1. \A d : <<d, "server">> = p => d = h
      BY <1>5, PairsEqual
    <3> QED  BY <1>4, <1>16, <3>1 DEF IndInv, Places, Accepted
  <2> QED  BY <1>6, <1>15, <2>1, <2>2 DEF Accepted
<1>20. Places'
  BY <1>1, <1>6, <1>7, <1>16, <1>18, <1>19 DEF IndInv, Places
<1>21. AcceptRoom'
  BY <1>6, <1>8, <1>14, <1>15 DEF AcceptRoom
<1>22. Types' /\ Loops'
  BY <1>6, <1>7, <1>10, <1>15 DEF IndInv, Types, Loops, bytes
<1> QED  BY <1>13, <1>17, <1>20, <1>21, <1>22 DEF IndInv

LEMMA BindInv ==
  ASSUME IndInv, Bind
  PROVE  IndInv'
<1>1. /\ Acceptor \notin peers /\ lpc \in {"turn", "wait"}
      /\ peers' = {Acceptor} /\ held' = {Acceptor} /\ ring' = AcceptLoop(ring, 0)
      /\ go_on' = go_on /\ gone' = gone /\ fd' = fd /\ backlog' = backlog
      /\ accept_inbox' = accept_inbox /\ lpc' = lpc /\ lpeer' = lpeer /\ bytes' = bytes
      /\ inbox' = inbox /\ outbox' = outbox
  BY DEF Bind, Between, bytes
<1>2. /\ gone = {} /\ held = {} /\ backlog = <<>> /\ accept_inbox = <<>>
      /\ \A k \in Chain : Alone(ring, k)
  BY <1>1 DEF IndInv, Places, Unbound
<1>3. Len(<<>>) = 0 /\ 0 \in Nat /\ 0 <= AcceptCap /\ AcceptCap \in Nat /\ fd = Peer
  BY <1>1, IouAssumption DEF IndInv, Loops
<1>4. Starts(ring, ring', AcceptChain) /\ (Live(ring', AcceptChain) => 0 < AcceptCap)
  <2>1. RingOK(ring) /\ Alone(ring, AcceptChain)
    BY <1>2, ChainTypes DEF IndInv
  <2> QED  BY <1>1, <1>3, <2>1, AcceptLoopStarts
<1>5. \A p : (Born(p)' <=> p = Acceptor) /\ (Alive(p)' <=> p = Acceptor) /\ ~Born(p)
  BY <1>1, <1>2, NoneAre DEF Born, Alive
<1>6. \A p \in End : \A act \in {"read", "write"} :
        <<p, act>> \in Chain /\ <<p, act>> # AcceptChain /\ p # Acceptor
  BY ChainTypes, PairsEqual DEF AcceptChain
<1>7. ASSUME NEW k \in Chain, k # AcceptChain
      PROVE  Same(ring, ring', k) /\ Alone(ring', k) /\ Got(ring', k) = Got(ring, k)
             /\ Flight(ring', k) = <<>>
  <2>1. Same(ring, ring', k)
    BY <1>4, <1>7 DEF Starts, Only
  <2> QED  BY <1>2, <2>1, SameView DEF Alone
<1>8. Places'
  <2>1. Due' = {}
    BY <1>1, <1>2, <1>4, NoneAre DEF Due, Starts
  <2>2. Accepted'
    <3>1. \A c \in Conn : ~Born(<<c, "server">>)'
      BY <1>5, EndPair, ChainTypes
    <3> QED  BY <1>1, <1>2, <3>1, NoneAre DEF Accepted
  <2>3. ToAccept'
    BY <1>1, <1>2, <1>4, <2>1, NoneAre DEF ToAccept, Starts
  <2>4. \A p \in End : ~Alive(p)'
    BY <1>5, ChainTypes
  <2> QED  BY <1>1, <2>2, <2>3, <2>4 DEF Places
<1>9. Chains'
  BY <1>1, <1>2, <1>4, <1>5, <1>6, <1>7 DEF Chains, Starts
<1>10. Loops' /\ AcceptRoom'
  BY <1>1, <1>2, <1>3, <1>4 DEF IndInv, Loops, AcceptRoom
<1>11. Rooms'
  <2> SUFFICES ASSUME NEW r \in End
               PROVE  /\ ReadRoom(ring', r, inbox[r]) /\ WriteRoom(ring', r, outbox[r])
                      /\ inbox[r] = <<>> /\ outbox[r] = <<>>
    BY <1>1 DEF Rooms
  <2>1. /\ ReadRoom(ring, r, inbox[r]) /\ WriteRoom(ring, r, outbox[r])
        /\ inbox[r] = <<>> /\ outbox[r] = <<>>
    BY <1>5 DEF IndInv, Rooms
  <2>2. Same(ring, ring', <<r, "read">>) /\ Same(ring, ring', <<r, "write">>)
    BY <1>6, <1>7
  <2> QED  BY <2>1, <2>2, RoomSame
<1>12. Flows'
  <2>1. \A r \in End : \A act \in {"read", "write"} :
          Got(ring', <<r, act>>) = Got(ring, <<r, act>>)
    BY <1>6, <1>7
  <2> QED  BY <1>1, <2>1, FlowsFrame DEF IndInv
<1>13. Types'
  BY <1>1, <1>2, ChainTypes DEF IndInv, Types, bytes
<1> QED  BY <1>4, <1>8, <1>9, <1>10, <1>11, <1>12, <1>13 DEF IndInv, Starts

-----------------------------------------------------------------------------
(* Every step keeps the invariant.                                         *)
LEMMA UserInv ==
  ASSUME IndInv, User
  PROVE  IndInv'
<1>1. CASE Bind
  BY <1>1, BindInv
<1>2. CASE \E c \in Conn : Connect(c)
  BY <1>2, ConnectInv
<1>3. CASE TakeAccepted
  BY <1>3, TakeAcceptedInv
<1>4. CASE Stop
  BY <1>4, StopInv
<1>5. ASSUME NEW p \in End, Take(p) PROVE IndInv'
  BY <1>5, TakeInv
<1>6. ASSUME NEW p \in End, Release(p) PROVE IndInv'
  BY <1>6, ReleaseInv
<1>7. ASSUME NEW p \in End, NEW s \in Size, AsyncSend(p, s) PROVE IndInv'
  BY <1>7, AsyncSendInv
<1> QED  BY <1>1, <1>2, <1>3, <1>4, <1>5, <1>6, <1>7 DEF User

LEMMA KernelInv ==
  ASSUME IndInv, Kernel
  PROVE  IndInv'
<1>1. CASE KernelAccept
  BY <1>1, KernelAcceptInv
<1>2. ASSUME NEW p \in End, NEW n \in 1 .. WireCap, KernelRead(p, n) PROVE IndInv'
  BY <1>2, KernelReadInv
<1>3. ASSUME NEW p \in End, NEW n \in 1 .. WireCap, KernelWrite(p, n) PROVE IndInv'
  BY <1>3, KernelWriteInv
<1>4. ASSUME NEW k \in Chain, KernelFails(k[1], k[2]) PROVE IndInv'
  <2>1. k[1] \in Peer /\ k[2] \in Action
    BY ChainTypes
  <2> QED  BY <1>4, <2>1, KernelFailsInv
<1> QED  BY <1>1, <1>2, <1>3, <1>4 DEF Kernel

LEMMA LoopInv ==
  ASSUME IndInv, Loop
  PROVE  IndInv'
<1>1. CASE Turn
  BY <1>1, TurnInv
<1>2. CASE HandleUnknown
  BY <1>2, HandleUnknownInv
<1>3. CASE HandleExpired
  BY <1>3, HandleExpiredInv
<1>4. CASE HandleFailed
  BY <1>4, HandleFailedInv
<1>5. CASE HandleAccept
  BY <1>5, HandleAcceptInv
<1>6. CASE HandleAcceptDeferred
  BY <1>6, HandleAcceptDeferredInv
<1>7. CASE HandleRead \/ HandleReadDeferred
  BY <1>7, HandleReadInv
<1>8. CASE UnpackOne
  BY <1>8, UnpackOneInv
<1>9. CASE HandleWrite \/ HandleWriteDeferred
  BY <1>9, HandleWriteInv
<1>10. CASE PackOne
  BY <1>10, PackOneInv
<1>11. CASE PackEnd \/ UnpackEnd
  BY <1>11, PackEndInv
<1> QED  BY <1>1, <1>2, <1>3, <1>4, <1>5, <1>6, <1>7, <1>8, <1>9, <1>10, <1>11 DEF Loop

(* The inductive invariant holds in every state: every peer that is served *)
(* has its request or its no-op, there is room for what was asked for, and *)
(* the bytes between two ends are those of what was sent, in their places. *)
THEOREM Invariance == Spec => []IndInv
<1>1. Init => IndInv
  BY InitInv
<1>2. IndInv /\ [Next]_vars => IndInv'
  <2> SUFFICES ASSUME IndInv, [Next]_vars PROVE IndInv'
    OBVIOUS
  <2>1. CASE User
    BY <2>1, UserInv
  <2>2. CASE Kernel
    BY <2>2, KernelInv
  <2>3. CASE Loop
    BY <2>3, LoopInv
  <2>4. CASE UNCHANGED vars
    BY <2>4, StutterInv
  <2> QED  BY <2>1, <2>2, <2>3, <2>4 DEF Next
<1> QED  BY <1>1, <1>2, PTL DEF Spec

-----------------------------------------------------------------------------
(* One request or completion of a chain, counted.                          *)
Answers(p, act) == {i \in Completions(p, act) : ~ring.cq[i].noop}

LEMMA CompletionsAre ==
  ASSUME RingOK(ring), NEW p \in Peer, NEW act \in Action
  PROVE  /\ Alone(ring, <<p, act>>) => Completions(p, act) = {}
         /\ Flight(ring, <<p, act>>) # <<>> => Completions(p, act) = {}
         /\ ~Alone(ring, <<p, act>>) /\ Flight(ring, <<p, act>>) = <<>> =>
              \E i \in DOMAIN ring.cq : Completions(p, act) = {i} /\ ring.cq[i] \in Done(ring, <<p, act>>)
<1>1. PICK k \in Chain : k = <<p, act>>
  BY DEF Chain
<1>2. PICK q : q = ring.cq /\ RingType(ring)
  BY DEF RingOK
<1>3. \A i \in DOMAIN q : i \in Completions(p, act) <=> Key(q[i]) = k
  BY <1>1, <1>2, PairsEqual DEF Completions, Key
<1>4. Completions(p, act) \subseteq DOMAIN q
  BY <1>2 DEF Completions
<1>5. \A c : c \in Done(ring, k) <=> Key(c) = k /\ \E i \in DOMAIN q : q[i] = c
  BY <1>2, RingDone
<1>6. Done(ring, k) = {} => Completions(p, act) = {}
  BY <1>3, <1>4, <1>5
<1>7. ASSUME NEW c \in Done(ring, k)
      PROVE  \E i \in DOMAIN q : Completions(p, act) = {i} /\ q[i] \in Done(ring, k)
  <2>1. PICK i \in DOMAIN q : q[i] = c /\ Key(q[i]) = k
    BY <1>5
  <2>2. \A j \in DOMAIN q : Key(q[j]) = k => j = i
    BY <1>2, <2>1 DEF RingOK, Single
  <2> QED  BY <1>3, <1>4, <2>1, <2>2
<1>8. Flight(ring, k) # <<>> => Done(ring, k) = {}
  BY DoneOrFlight
<1> QED  BY <1>1, <1>2, <1>6, <1>7, <1>8 DEF Alone

LEMMA TokensAre ==
  ASSUME RingOK(ring), NEW p \in Peer, NEW act \in Action
  PROVE  /\ Tokens(p, act) <= 1
         /\ ~Alone(ring, <<p, act>>) => Tokens(p, act) = 1
         /\ Len(ring.inflight[<<p, act>>]) \in Nat /\ Cardinality(Answers(p, act)) \in Nat
         /\ Len(ring.inflight[<<p, act>>]) + Cardinality(Answers(p, act)) <= 1
         /\ ~Live(ring, <<p, act>>) =>
              Len(ring.inflight[<<p, act>>]) + Cardinality(Answers(p, act)) = 0
<1>1. PICK k \in Chain : k = <<p, act>>
  BY DEF Chain
<1>2. Cardinality({}) = 0 /\ Len(<<>>) = 0 /\ \A i : Cardinality({i}) = 1
  BY FS_EmptySet, FS_Singleton
<1>3. CASE Alone(ring, k)
  <2>1. Flight(ring, k) = <<>> /\ Completions(p, act) = {}
    BY <1>1, <1>3, CompletionsAre DEF Alone
  <2>2. Answers(p, act) = {} /\ ring.inflight[k] = <<>>
    BY <2>1 DEF Answers, Flight
  <2> QED  BY <1>1, <1>2, <1>3, <2>1, <2>2 DEF Tokens
<1>4. CASE Flight(ring, k) # <<>>
  <2>1. Completions(p, act) = {}
    BY <1>1, <1>4, CompletionsAre
  <2>2. Answers(p, act) = {}
    BY <2>1 DEF Answers
  <2>3. Len(ring.inflight[k]) = 1
    <3>1. PICK r : Flight(ring, k) = <<r>>
      BY <1>4, FlightOne
    <3> QED  BY <3>1 DEF Flight
  <2>4. Live(ring, k)
    BY <1>4 DEF Live
  <2> QED  BY <1>1, <1>2, <2>1, <2>2, <2>3, <2>4 DEF Tokens
<1>5. CASE ~Alone(ring, k) /\ Flight(ring, k) = <<>>
  <2>1. PICK i \in DOMAIN ring.cq : Completions(p, act) = {i} /\ ring.cq[i] \in Done(ring, k)
    BY <1>1, <1>5, CompletionsAre
  <2>2. Answers(p, act) = (IF ring.cq[i].noop THEN {} ELSE {i})
    BY <2>1 DEF Answers
  <2>3. ~Live(ring, k) => ring.cq[i].noop
    BY <2>1 DEF Live
  <2>4. ring.inflight[k] = <<>>
    BY <1>5 DEF Flight
  <2>5. Tokens(p, act) = 1
    <3>1. Tokens(p, act) = Len(ring.inflight[k]) + Cardinality(Completions(p, act))
      BY <1>1 DEF Tokens
    <3>2. Len(ring.inflight[k]) = 0 /\ Cardinality(Completions(p, act)) = 1
      BY <1>2, <2>1, <2>4
    <3> QED  BY <3>1, <3>2
  <2>6. Cardinality(Answers(p, act)) = IF ring.cq[i].noop THEN 0 ELSE 1
    BY <1>2, <2>2
  <2> QED  BY <1>1, <1>2, <2>3, <2>4, <2>5, <2>6
<1> QED  BY <1>1, <1>3, <1>4, <1>5

LEMMA TypesAre ==
  ASSUME IndInv
  PROVE  TypeOK
<1>1. ASSUME NEW p \in End
      PROVE  /\ sent[p] \in Seq(Size) /\ packed[p] \in 0 .. Len(sent[p])
             /\ {outbox[p], wire[p], inbox[p]} \subseteq Seq(Byte)
             /\ Len(outbox[p]) <= OutCap /\ Len(inbox[p]) <= InCap
             /\ taken[p] \in 0 .. Len(delivered[p])
  <2>1. /\ sent[p] \in Seq(Size) /\ packed[p] \in Nat /\ taken[p] \in Nat
        /\ delivered[p] \in Seq(Nat) /\ {outbox[p], wire[p], inbox[p]} \subseteq Seq(Byte)
    BY DEF IndInv, Types, Word
  <2>2. packed[p] <= Len(sent[p]) /\ taken[p] <= Len(delivered[p])
    BY DEF IndInv, Flows, Counted
  <2>3. Len(outbox[p]) <= OutCap /\ Len(inbox[p]) <= InCap
    BY DEF IndInv, Rooms, ReadRoom, WriteRoom
  <2>4. Len(sent[p]) \in Nat /\ Len(delivered[p]) \in Nat
    BY <2>1
  <2>5. packed[p] \in 0 .. Len(sent[p]) /\ taken[p] \in 0 .. Len(delivered[p])
    BY <2>1, <2>2, <2>4
  <2> QED  BY <2>1, <2>3, <2>5
<1> QED  BY <1>1 DEF IndInv, Types, TypeOK

(* A peer that is served always has one read and one write request, or the *)
(* no-op that will make it, and never two; and the acceptor has room for   *)
(* what its one request brings.                                            *)
THEOREM OneRequest == Spec => []OneChain
<1>1. IndInv => OneChain
  <2> SUFFICES ASSUME IndInv PROVE OneChain
    OBVIOUS
  <2>1. RingOK(ring) /\ TypeOK
    BY TypesAre DEF IndInv
  <2>2. \A p \in End : p \in Peer /\ "read" \in Action /\ "write" \in Action /\ "accept" \in Action
    BY ChainTypes
  <2>3. ASSUME NEW p \in peers \cap End, Alive(p), lpc # "ended"
        PROVE  Tokens(p, "read") = 1 /\ Tokens(p, "write") = 1
    <3>1. ~Alone(ring, <<p, "read">>) /\ ~Alone(ring, <<p, "write">>)
      BY <2>3 DEF IndInv, Chains
    <3> QED  BY <2>1, <2>2, <3>1, TokensAre
  <2>4. Acceptor \in Peer /\ "accept" \in Action
    BY ChainTypes
  <2>5. ASSUME Acceptor \in peers, lpc # "ended" PROVE Tokens(Acceptor, "accept") = 1
    <3>1. ~Alone(ring, <<Acceptor, "accept">>)
      BY <2>5 DEF IndInv, Chains, AcceptChain
    <3> QED  BY <2>1, <2>4, <3>1, TokensAre
  <2>6. ASSUME NEW p \in End PROVE Tokens(p, "read") <= 1 /\ Tokens(p, "write") <= 1
    BY <2>1, <2>2, TokensAre
  <2>7. Len(accept_inbox) + Len(ring.inflight[<<Acceptor, "accept">>])
          + Cardinality({i \in Completions(Acceptor, "accept") : ~ring.cq[i].noop}) <= AcceptCap
    <3>1. PICK a \in Nat : a = Len(accept_inbox)
      BY DEF IndInv, Types
    <3>2. PICK l, n : /\ l = Len(ring.inflight[<<Acceptor, "accept">>])
                      /\ n = Cardinality(Answers(Acceptor, "accept"))
      OBVIOUS
    <3>3. l + n <= 1 /\ (~Live(ring, AcceptChain) => l + n = 0)
      BY <2>1, <2>4, <3>2, TokensAre DEF AcceptChain
    <3>4. a <= AcceptCap /\ (Live(ring, AcceptChain) => a < AcceptCap) /\ AcceptCap \in Nat
      BY <3>1, IouAssumption DEF IndInv, AcceptRoom
    <3>5. l \in Nat /\ n \in Nat
      BY <2>1, <2>4, <3>2, TokensAre DEF AcceptChain
    <3> QED  BY <3>1, <3>2, <3>3, <3>4, <3>5 DEF Answers
  <2> QED  BY <2>1, <2>3, <2>5, <2>6, <2>7 DEF OneChain
<1> QED  BY <1>1, Invariance, PTL

(* As long as neither end is let go of, the bytes in the inbox, the read   *)
(* result, the connection and what is left of the outbox are those of the  *)
(* messages packed and not delivered, and those delivered came in order.   *)
THEOREM BytesInOrder == Spec => []StreamWhole
<1>1. IndInv => StreamWhole
  <2> SUFFICES ASSUME IndInv, NEW p \in End, {p, Other(p)} \cap gone = {}
               PROVE  /\ Acked(p) <= Len(outbox[p]) /\ Len(Read(p)) <= InCap - Len(inbox[p])
                      /\ delivered[Other(p)] = [n \in 1 .. Len(delivered[Other(p)]) |-> n]
                      /\ Path(p) = FlattenSeq([n \in 1 .. packed[p] - Len(delivered[Other(p)]) |->
                                                 BytesOf(p, Len(delivered[Other(p)]) + n)])
    BY DEF StreamWhole
  <2>1. PICK q \in End : q = Other(p)
    BY OtherEnd
  <2>2. \A r, act : Results(r, act) = Got(ring, <<r, act>>)
    <3> SUFFICES ASSUME NEW r, NEW act PROVE Results(r, act) = Got(ring, <<r, act>>)
      OBVIOUS
    <3>1. \A c : c \in Done(ring, <<r, act>>) <=> c \in ToSet(ring.cq) /\ c.peer = r /\ c.act = act
      BY PairsEqual DEF Done, Key
    <3> QED  BY <3>1 DEF Results, Got
  <2>3. \A r : Acked(r) = AckedIn(ring, r) /\ Read(r) = ReadIn(ring, r)
    <3> SUFFICES ASSUME NEW r PROVE Acked(r) = AckedIn(ring, r) /\ Read(r) = ReadIn(ring, r)
      OBVIOUS
    <3>1. PICK A, B : A = Results(r, "write") /\ B = Results(r, "read")
      OBVIOUS
    <3>2. A = Got(ring, <<r, "write">>) /\ B = Got(ring, <<r, "read">>)
      BY <2>2, <3>1
    <3>3. /\ Acked(r) = (IF A = {} THEN 0 ELSE CHOOSE n \in A : TRUE)
          /\ Read(r) = (IF B = {} THEN <<>> ELSE CHOOSE s \in B : TRUE)
      BY <3>1 DEF Acked, Read
    <3>4. /\ AckedIn(ring, r) = (IF A = {} THEN 0 ELSE CHOOSE n \in A : TRUE)
          /\ ReadIn(ring, r) = (IF B = {} THEN <<>> ELSE CHOOSE s \in B : TRUE)
      BY <3>2 DEF AckedIn, ReadIn, OneOf
    <3> QED  BY <3>3, <3>4
  <2>4. Acked(p) <= Len(outbox[p])
    BY <2>3, FlowVars
  <2>5. Len(Read(p)) <= InCap - Len(inbox[p])
    <3>1. /\ inbox[p] \in Word /\ outbox[p] \in Word
          /\ ReadRoom(ring, p, inbox[p]) /\ WriteRoom(ring, p, outbox[p])
      BY FlowVars DEF IndInv, Rooms
    <3> QED  BY <2>3, <3>1, InTypes
  <2>6. delivered[q] = [n \in 1 .. Len(delivered[q]) |-> n]
    BY DEF IndInv, Flows, Counted
  <2>7. Undelivered(p) = Path(p)
    <3>1. Streamed(p) /\ How(p) = "whole"
      BY <2>1, FlowVars DEF How
    <3>2. Undelivered(p) = Cat(Cat(Cat(inbox[q], ReadIn(ring, q)), wire[p]),
                               Drop(outbox[p], AckedIn(ring, p)))
      BY <2>1, <3>1 DEF Streamed, Stream, Arrived
    <3> QED  BY <2>1, <2>3, <3>2 DEF Path, Cat
  <2>8. Undelivered(p) = FlattenSeq([n \in 1 .. packed[p] - Len(delivered[q]) |->
                                       BytesOf(p, Len(delivered[q]) + n)])
    BY <2>1 DEF Undelivered, Flat, Message, BytesOf
  <2> QED  BY <2>1, <2>4, <2>5, <2>6, <2>7, <2>8
<1> QED  BY <1>1, Invariance, PTL

=============================================================================
