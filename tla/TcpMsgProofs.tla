----------------------------- MODULE TcpMsgProofs -----------------------------
(***************************************************************************)
(* A message connection carries whole messages and delivers each           *)
(* producer's in order, each once, for any number of producers, any shapes *)
(* of messages and any capacities.                                         *)
(***************************************************************************)
EXTENDS TcpMsg, Integers, SequenceTheorems, FiniteSetTheorems, TLAPS

-----------------------------------------------------------------------------
(* s holds the t bytes of the n-th message of k behind h other bytes.      *)
Message(s, h, k, n, t) ==
  h + t <= Len(s) /\ \A m \in 1 .. t : s[h + m] = [from |-> k, n |-> n, i |-> m]

(* Each byte of s lies in a whole message of s, sent as z tells.  Said of  *)
(* every byte at once, so that no induction along the stream is needed.    *)
SizeOf(b, z) == Total(z[b.from][b.n])
Around(s, z, j, h, k, n, t) ==
  /\ n \in 1 .. Len(z[k]) /\ t = Total(z[k][n])
  /\ h < j /\ j <= h + t /\ Message(s, h, k, n, t)
OneMessage(r, z, k, n, t) ==
  /\ n \in 1 .. Len(z[k]) /\ t = Total(z[k][n])
  /\ t = Len(r) /\ Message(r, 0, k, n, t)
Framed(s, z) ==
  \A j \in 1 .. Len(s) :
    \E h \in Nat, k \in Producer, n \in Nat \ {0}, t \in Nat \ {0} :
      Around(s, z, j, h, k, n, t)

(* s carries, for each producer k, the messages after the first done[k] up *)
(* to the first left[k], in their order, each once.                        *)
Before(b, c) == b.n < c.n \/ (b.n = c.n /\ b.i < c.i)
InOrder(s) ==
  \A h, j \in 1 .. Len(s) : h < j /\ s[h].from = s[j].from => Before(s[h], s[j])

Carries(s, done, left) ==
  /\ InOrder(s)
  /\ \A j \in 1 .. Len(s) : done[s[j].from] < s[j].n /\ s[j].n <= left[s[j].from]
  /\ \A k \in Producer : /\ done[k] <= left[k]
                         /\ \A n \in done[k] + 1 .. left[k] :
                              \E j \in 1 .. Len(s) : s[j] = [from |-> k, n |-> n, i |-> 1]

\* What has arrived.
Count(d, k) == Cardinality({n \in DOMAIN d : d[n][1] = k})
Done == [k \in Producer |-> Count(delivered, k)]

(* The inductive invariant.                                                *)
IndInv ==
  /\ TypeOK /\ (wpc = "pack" => wk \in Producer)
  /\ Framed(Stream, sent) /\ Carries(Stream, Done, packed)

-----------------------------------------------------------------------------
(* Sequences.                                                              *)
LEMMA Concat ==
  ASSUME NEW S, NEW s \in Seq(S), NEW r \in Seq(S)
  PROVE  /\ s \o r \in Seq(S) /\ Len(s \o r) = Len(s) + Len(r)
         /\ Len(s) \in Nat /\ Len(r) \in Nat
         /\ \A j \in 1 .. Len(s) : (s \o r)[j] = s[j]
         /\ \A j \in 1 .. Len(r) : (s \o r)[Len(s) + j] = r[j]
<1>1. PICK k \in Nat, h \in Nat : k = Len(s) /\ h = Len(r)
  OBVIOUS
<1>2. /\ s \o r \in Seq(S) /\ Len(s \o r) = k + h
      /\ \A j \in 1 .. k + h : (s \o r)[j] = IF j <= k THEN s[j] ELSE r[j - k]
  BY <1>1, ConcatProperties
<1>3. \A j \in 1 .. k : (s \o r)[j] = s[j]
  BY <1>2
<1>4. \A j \in 1 .. h : (s \o r)[k + j] = r[j]
  <2> SUFFICES ASSUME NEW j \in 1 .. h PROVE (s \o r)[k + j] = r[j]
    OBVIOUS
  <2>1. k + j \in 1 .. k + h /\ ~(k + j <= k) /\ (k + j) - k = j
    BY <1>1
  <2> QED  BY <1>2, <2>1
<1> QED  BY <1>1, <1>2, <1>3, <1>4

LEMMA Dropped ==
  ASSUME NEW S, NEW s \in Seq(S), NEW n \in 0 .. Len(s)
  PROVE  /\ Drop(s, n) \in Seq(S) /\ Len(Drop(s, n)) = Len(s) - n /\ Len(s) \in Nat
         /\ \A j \in 1 .. Len(s) - n : Drop(s, n)[j] = s[n + j]
<1>1. PICK k \in Nat : k = Len(s) /\ n \in 0 .. k
  OBVIOUS
<1>2. /\ SubSeq(s, n + 1, k) \in Seq(S) /\ Len(SubSeq(s, n + 1, k)) = k - n
      /\ \A j \in 1 .. k - n : SubSeq(s, n + 1, k)[j] = s[n + j]
  <2>1. \A j \in (n + 1) .. k : s[j] \in S
    BY <1>1
  <2> QED  BY <1>1
<1> QED  BY <1>1, <1>2 DEF Drop

LEMMA DropOfConcat ==
  ASSUME NEW S, NEW s \in Seq(S), NEW r \in Seq(S), NEW n \in 0 .. Len(s)
  PROVE  Drop(s, n) \o r = Drop(s \o r, n)
<1>1. PICK k \in Nat, h \in Nat, l \in Nat :
        k = Len(s) /\ h = Len(r) /\ n \in 0 .. k /\ l = k - n
  <2>1. Len(s) \in Nat /\ Len(r) \in Nat /\ Len(s) - n \in Nat
    OBVIOUS
  <2> QED  BY <2>1
<1>2. PICK a \in Seq(S) : /\ a = Drop(s, n) /\ Len(a) = l
                          /\ \A j \in 1 .. l : a[j] = s[n + j]
  <2>1. /\ Drop(s, n) \in Seq(S) /\ Len(Drop(s, n)) = Len(s) - n
        /\ \A j \in 1 .. Len(s) - n : Drop(s, n)[j] = s[n + j]
    BY Dropped
  <2> QED  BY <1>1, <2>1
<1>3. PICK b \in Seq(S) : /\ b = s \o r /\ Len(b) = k + h
                          /\ \A j \in 1 .. k : b[j] = s[j]
                          /\ \A j \in 1 .. h : b[k + j] = r[j]
  <2>1. /\ s \o r \in Seq(S) /\ Len(s \o r) = Len(s) + Len(r)
        /\ \A j \in 1 .. Len(s) : (s \o r)[j] = s[j]
        /\ \A j \in 1 .. Len(r) : (s \o r)[Len(s) + j] = r[j]
    BY Concat
  <2> QED  BY <1>1, <2>1
<1>4. PICK c \in Seq(S) : /\ c = Drop(b, n) /\ Len(c) = l + h
                          /\ \A j \in 1 .. l + h : c[j] = b[n + j]
  <2>1. n \in 0 .. Len(b) /\ Len(b) - n = l + h
    BY <1>1, <1>3
  <2>2. /\ Drop(b, n) \in Seq(S) /\ Len(Drop(b, n)) = Len(b) - n
        /\ \A j \in 1 .. Len(b) - n : Drop(b, n)[j] = b[n + j]
    BY <2>1, Dropped
  <2> QED  BY <2>1, <2>2
<1>5. PICK d \in Seq(S) : /\ d = a \o r /\ Len(d) = l + h
                          /\ \A j \in 1 .. l : d[j] = a[j]
                          /\ \A j \in 1 .. h : d[l + j] = r[j]
  <2>1. /\ a \o r \in Seq(S) /\ Len(a \o r) = Len(a) + Len(r)
        /\ \A j \in 1 .. Len(a) : (a \o r)[j] = a[j]
        /\ \A j \in 1 .. Len(r) : (a \o r)[Len(a) + j] = r[j]
    BY Concat
  <2>2. Len(a) = l /\ Len(r) = h
    BY <1>1, <1>2
  <2>3. /\ a \o r \in Seq(S) /\ Len(a \o r) = l + h
        /\ \A j \in 1 .. l : (a \o r)[j] = a[j]
        /\ \A j \in 1 .. h : (a \o r)[l + j] = r[j]
    BY <2>1, <2>2
  <2> QED  BY <2>3
<1>6. \A j \in 1 .. l + h : c[j] = d[j]
  <2> SUFFICES ASSUME NEW j \in 1 .. l + h PROVE c[j] = d[j]
    OBVIOUS
  <2>1. CASE j <= l
    <3>1. j \in 1 .. l /\ n + j \in 1 .. k
      BY <1>1, <2>1
    <3>2. d[j] = s[n + j] /\ b[n + j] = s[n + j]
      BY <1>2, <1>3, <1>5, <3>1
    <3> QED  BY <1>4, <3>2
  <2>2. CASE j > l
    <3>1. j - l \in 1 .. h /\ l + (j - l) = j /\ k + (j - l) = n + j
      BY <1>1, <2>2
    <3>2. d[j] = r[j - l] /\ b[n + j] = r[j - l]
      BY <1>3, <1>5, <3>1
    <3> QED  BY <1>4, <3>2
  <2> QED  BY <1>1, <2>1, <2>2
<1>7. c = d
  BY <1>4, <1>5, <1>6, SeqEqual
<1> QED  BY <1>2, <1>3, <1>4, <1>5, <1>7

First(s, n) == SubSeq(s, 1, n)

(* Bytes that move from one ring to the next stay in the stream.           *)
LEMMA Moved ==
  ASSUME NEW s \in Seq(Byte), NEW r \in Seq(Byte), NEW n \in 0 .. Len(r)
  PROVE  \E a, b \in Seq(Byte) :
           /\ a = First(r, n) /\ b = Drop(r, n)
           /\ s \o a \in Seq(Byte) /\ (s \o a) \o b = s \o r
<1>1. PICK k \in Nat, l \in Nat : k = Len(r) /\ n \in 0 .. k /\ l = k - n
  <2>1. Len(r) \in Nat /\ Len(r) - n \in Nat
    OBVIOUS
  <2> QED  BY <2>1
<1>2. PICK a \in Seq(Byte) : /\ a = SubSeq(r, 1, n) /\ Len(a) = n
                             /\ \A j \in 1 .. n : a[j] = r[j]
  <2>1. /\ SubSeq(r, 1, n) \in Seq(Byte) /\ Len(SubSeq(r, 1, n)) = n
        /\ \A j \in 1 .. n : SubSeq(r, 1, n)[j] = r[j]
    BY <1>1
  <2> QED  BY <2>1
<1>3. PICK b \in Seq(Byte) : /\ b = Drop(r, n) /\ Len(b) = l
                             /\ \A j \in 1 .. l : b[j] = r[n + j]
  <2>1. /\ Drop(r, n) \in Seq(Byte) /\ Len(Drop(r, n)) = Len(r) - n
        /\ \A j \in 1 .. Len(r) - n : Drop(r, n)[j] = r[n + j]
    BY Dropped
  <2> QED  BY <1>1, <2>1
<1>4. a \o b = r
  <2>1. PICK c \in Seq(Byte) : /\ c = a \o b /\ Len(c) = n + l
                               /\ \A j \in 1 .. n : c[j] = a[j]
                               /\ \A j \in 1 .. l : c[n + j] = b[j]
    <3>1. /\ a \o b \in Seq(Byte) /\ Len(a \o b) = Len(a) + Len(b)
          /\ \A j \in 1 .. Len(a) : (a \o b)[j] = a[j]
          /\ \A j \in 1 .. Len(b) : (a \o b)[Len(a) + j] = b[j]
      BY Concat
    <3>2. Len(a) = n /\ Len(b) = l
      BY <1>2, <1>3
    <3>3. /\ a \o b \in Seq(Byte) /\ Len(a \o b) = n + l
          /\ \A j \in 1 .. n : (a \o b)[j] = a[j]
          /\ \A j \in 1 .. l : (a \o b)[n + j] = b[j]
      BY <3>1, <3>2
    <3> QED  BY <3>3
  <2>2. \A j \in 1 .. k : c[j] = r[j]
    <3> SUFFICES ASSUME NEW j \in 1 .. k PROVE c[j] = r[j]
      OBVIOUS
    <3>1. CASE j <= n
      BY <1>1, <1>2, <2>1, <3>1
    <3>2. CASE j > n
      <4>1. j - n \in 1 .. l /\ n + (j - n) = j
        BY <1>1, <3>2
      <4> QED  BY <1>3, <2>1, <4>1, SMTT(20)
    <3> QED  BY <1>1, <3>1, <3>2
  <2>3. Len(c) = k
    BY <1>1, <2>1
  <2> QED  BY <1>1, <2>1, <2>2, <2>3, SeqEqual
<1>5. (s \o a) \o b = s \o r
  <2>1. (s \o a) \o b = s \o (a \o b)
    BY ConcatAssociative, SMTT(20)
  <2> QED  BY <1>4, <2>1
<1>6. s \o a \in Seq(Byte)
  BY <1>2, Concat
<1> QED  BY <1>2, <1>3, <1>5, <1>6 DEF First

-----------------------------------------------------------------------------
(* Whole messages.                                                         *)
LEMMA SizeType ==
  ASSUME NEW z \in [Producer -> Seq(Shape)], NEW k \in Producer, NEW n \in 1 .. Len(z[k])
  PROVE  Total(z[k][n]) \in Nat \ {0}
<1>1. z[k][n] \in Shape
  OBVIOUS
<1> QED  BY <1>1, ShapeAssumption DEF Total

(* The message at the head of a stream.                                    *)
LEMMA HeadMessage ==
  ASSUME NEW z \in [Producer -> Seq(Shape)], NEW s \in Seq(Byte), Framed(s, z),
         1 \in 1 .. Len(s)
  PROVE  \E k \in Producer, n \in Nat \ {0}, t \in Nat \ {0} :
           /\ Around(s, z, 1, 0, k, n, t)
           /\ s[1] = [from |-> k, n |-> n, i |-> 1] /\ t = SizeOf(s[1], z)
<1>1. PICK h \in Nat, k \in Producer, n \in Nat \ {0}, t \in Nat \ {0} :
        Around(s, z, 1, h, k, n, t)
  BY DEF Framed
<1>2. h = 0 /\ Around(s, z, 1, 0, k, n, t)
  BY <1>1 DEF Around
<1>3. 1 \in 1 .. t /\ 0 + 1 = 1
  OBVIOUS
<1>4. s[1] = [from |-> k, n |-> n, i |-> 1]
  BY <1>2, <1>3 DEF Around, Message
<1>5. t = SizeOf(s[1], z)
  BY <1>2, <1>4 DEF Around, SizeOf
<1> QED  BY <1>2, <1>4, <1>5

(* A message joins the stream as a whole.                                  *)
LEMMA FramedAppend ==
  ASSUME NEW z \in [Producer -> Seq(Shape)], NEW s \in Seq(Byte), Framed(s, z),
         NEW r \in Seq(Byte), NEW p \in Producer, NEW q \in Nat \ {0}, NEW y \in Nat \ {0},
         OneMessage(r, z, p, q, y)
  PROVE  Framed(s \o r, z)
<1>1. PICK l \in Nat : l = Len(s)
  OBVIOUS
<1>2. PICK a \in Seq(Byte) : /\ a = s \o r /\ Len(a) = l + y
                             /\ \A j \in 1 .. l : a[j] = s[j]
                             /\ \A j \in 1 .. y : a[l + j] = r[j]
  <2>1. /\ s \o r \in Seq(Byte) /\ Len(s \o r) = Len(s) + Len(r)
        /\ \A j \in 1 .. Len(s) : (s \o r)[j] = s[j]
        /\ \A j \in 1 .. Len(r) : (s \o r)[Len(s) + j] = r[j]
    BY Concat
  <2> QED  BY <1>1, <2>1 DEF OneMessage
<1>3. ASSUME NEW j \in 1 .. l + y
      PROVE  \E h \in Nat, k \in Producer, n \in Nat \ {0}, t \in Nat \ {0} :
               Around(a, z, j, h, k, n, t)
  <2>1. CASE j <= l
    <3>1. j \in 1 .. Len(s)
      BY <1>1, <2>1
    <3>2. PICK h \in Nat, k \in Producer, n \in Nat \ {0}, t \in Nat \ {0} :
            Around(s, z, j, h, k, n, t)
      BY <3>1 DEF Framed
    <3>3. /\ h + t <= l + y
          /\ \A m \in 1 .. t : h + m \in 1 .. l
      <4>1. h + t <= l
        BY <1>1, <3>2 DEF Around, Message
      <4> QED  BY <4>1
    <3>4. \A m \in 1 .. t : a[h + m] = [from |-> k, n |-> n, i |-> m]
      BY <1>2, <3>2, <3>3 DEF Around, Message
    <3>5. Around(a, z, j, h, k, n, t)
      BY <1>2, <3>2, <3>3, <3>4 DEF Around, Message
    <3> QED  BY <3>5
  <2>2. CASE j > l
    <3>1. Message(a, l, p, q, y)
      <4>1. ASSUME NEW m \in 1 .. y PROVE r[m] = [from |-> p, n |-> q, i |-> m]
        <5>1. 0 + m = m
          OBVIOUS
        <5> QED  BY <5>1 DEF OneMessage, Message
      <4>2. ASSUME NEW m \in 1 .. y PROVE a[l + m] = [from |-> p, n |-> q, i |-> m]
        BY <1>2, <4>1
      <4>3. l + y <= Len(a)
        BY <1>2
      <4> QED  BY <4>2, <4>3 DEF Message
    <3>2. Around(a, z, j, l, p, q, y)
      BY <1>1, <2>2, <3>1 DEF OneMessage, Around
    <3> QED  BY <3>2
  <2> QED  BY <1>1, <2>1, <2>2
<1> QED  BY <1>2, <1>3 DEF Framed

(* The message at the head leaves it as a whole.                           *)
LEMMA FramedDrop ==
  ASSUME NEW z \in [Producer -> Seq(Shape)], NEW s \in Seq(Byte), Framed(s, z),
         NEW p \in Producer, NEW q \in Nat \ {0}, NEW y \in Nat \ {0},
         Around(s, z, 1, 0, p, q, y)
  PROVE  Framed(Drop(s, y), z)
<1>1. PICK l \in Nat, g \in Nat : l = Len(s) /\ y <= l /\ g = l - y
  <2>1. Len(s) \in Nat /\ y <= Len(s)
    BY DEF Around, Message
  <2> QED  BY <2>1
<1>2. PICK a \in Seq(Byte) : /\ a = Drop(s, y) /\ Len(a) = g
                             /\ \A j \in 1 .. g : a[j] = s[y + j]
  <2>1. y \in 0 .. Len(s)
    BY <1>1
  <2>2. /\ Drop(s, y) \in Seq(Byte) /\ Len(Drop(s, y)) = Len(s) - y
        /\ \A j \in 1 .. Len(s) - y : Drop(s, y)[j] = s[y + j]
    BY <2>1, Dropped
  <2> QED  BY <1>1, <2>2
<1>3. ASSUME NEW j \in 1 .. g
      PROVE  \E h \in Nat, k \in Producer, n \in Nat \ {0}, t \in Nat \ {0} :
               Around(a, z, j, h, k, n, t)
  <2>1. y + j \in 1 .. Len(s)
    BY <1>1
  <2>2. PICK h \in Nat, k \in Producer, n \in Nat \ {0}, t \in Nat \ {0} :
          Around(s, z, y + j, h, k, n, t)
    BY <2>1 DEF Framed
  <2>3. h >= y
    <3> SUFFICES ASSUME h < y PROVE FALSE
      OBVIOUS
    <3>1. h + 1 \in 1 .. y /\ 1 \in 1 .. t /\ 0 + (h + 1) = h + 1
      OBVIOUS
    <3>2. /\ s[h + 1] = [from |-> k, n |-> n, i |-> 1]
          /\ s[h + 1] = [from |-> p, n |-> q, i |-> h + 1]
      BY <2>2, <3>1 DEF Around, Message
    <3>3. k = p /\ n = q /\ h = 0
      BY <3>2
    <3>4. t = y
      BY <2>2, <3>3 DEF Around
    <3> QED  BY <2>2, <3>3, <3>4 DEF Around
  <2>4. PICK x \in Nat : h = y + x
    <3>1. h - y \in Nat /\ h = y + (h - y)
      BY <2>3
    <3> QED  BY <3>1
  <2>5. x < j /\ j <= x + t /\ x + t <= g
    <3>1. h < y + j /\ y + j <= h + t /\ h + t <= l
      BY <1>1, <2>2 DEF Around, Message
    <3>2. l \in Nat /\ g \in Nat /\ l = y + g
      BY <1>1
    <3>3. y \in Nat /\ x \in Nat /\ j \in Nat /\ t \in Nat
      OBVIOUS
    <3>4. x < j
      BY <2>4, <3>1, <3>3
    <3>5. j <= x + t
      BY <2>4, <3>1, <3>3
    <3>6. x + t <= g
      BY <2>4, <3>1, <3>2, <3>3
    <3> QED  BY <3>4, <3>5, <3>6
  <2>6. ASSUME NEW m \in 1 .. t PROVE a[x + m] = [from |-> k, n |-> n, i |-> m]
    <3>1. x + m \in 1 .. g /\ y + (x + m) = h + m
      BY <2>4, <2>5
    <3>2. a[x + m] = s[h + m]
      BY <1>2, <3>1
    <3> QED  BY <2>2, <3>2 DEF Around, Message
  <2>7. Around(a, z, j, x, k, n, t)
    BY <1>2, <2>2, <2>5, <2>6 DEF Around, Message
  <2> QED  BY <2>7
<1> QED  BY <1>2, <1>3 DEF Framed

(* What is framed stays framed when more is sent.                          *)
LEMMA FramedSent ==
  ASSUME NEW z \in [Producer -> Seq(Shape)], NEW s \in Seq(Byte), Framed(s, z),
         NEW p \in Producer, NEW x \in Shape
  PROVE  Framed(s, [z EXCEPT ![p] = Append(@, x)])
<1> DEFINE w == [z EXCEPT ![p] = Append(@, x)]
<1>1. ASSUME NEW k \in Producer, NEW n \in 1 .. Len(z[k])
      PROVE  n \in 1 .. Len(w[k]) /\ w[k][n] = z[k][n]
  <2>1. PICK b \in Seq(Shape) : b = z[k]
    OBVIOUS
  <2>2. n \in 1 .. Len(b) /\ n \in 1 .. Len(Append(b, x)) /\ Append(b, x)[n] = b[n]
    BY <2>1
  <2>3. w[k] = b \/ w[k] = Append(b, x)
    BY <2>1
  <2> QED  BY <2>1, <2>2, <2>3
<1>2. ASSUME NEW j \in 1 .. Len(s)
      PROVE  \E h \in Nat, k \in Producer, n \in Nat \ {0}, t \in Nat \ {0} :
               Around(s, w, j, h, k, n, t)
  <2>1. PICK h \in Nat, k \in Producer, n \in Nat \ {0}, t \in Nat \ {0} :
          Around(s, z, j, h, k, n, t)
    BY DEF Framed
  <2>2. n \in 1 .. Len(z[k]) /\ t = Total(z[k][n])
    BY <2>1 DEF Around
  <2>3. n \in 1 .. Len(w[k]) /\ w[k][n] = z[k][n]
    BY <1>1, <2>2
  <2>4. t = Total(w[k][n])
    BY <2>2, <2>3
  <2> HIDE DEF w
  <2>5. Around(s, w, j, h, k, n, t)
    BY <2>1, <2>3, <2>4 DEF Around
  <2> QED  BY <2>5
<1> HIDE DEF w
<1>3. Framed(s, w)
  BY <1>2 DEF Framed
<1> QED  BY <1>3 DEF w

(* Framed, as StreamWhole says it.                                         *)
LEMMA FramedWhole ==
  ASSUME NEW z \in [Producer -> Seq(Shape)], NEW s \in Seq(Byte), Framed(s, z), s # <<>>
  PROVE  /\ s[1].i = 1 /\ s[Len(s)].i = SizeOf(s[Len(s)], z)
         /\ \A j \in 1 .. Len(s) - 1 :
              IF s[j].i = SizeOf(s[j], z) THEN s[j + 1].i = 1
              ELSE s[j + 1] = [s[j] EXCEPT !.i = @ + 1]
<1>1. PICK l \in Nat \ {0} : l = Len(s)
  BY EmptySeq
<1>2. s[1].i = 1
  <2>1. PICK k \in Producer, n \in Nat \ {0} : s[1] = [from |-> k, n |-> n, i |-> 1]
    <3>1. 1 \in 1 .. Len(s)
      BY <1>1
    <3> QED  BY <3>1, HeadMessage
  <2> QED  BY <2>1
<1>3. ASSUME NEW j \in 1 .. l
      PROVE  \E h \in Nat, k \in Producer, n \in Nat \ {0}, t \in Nat \ {0} :
               /\ Around(s, z, j, h, k, n, t) /\ j - h \in 1 .. t /\ h + t <= l
               /\ s[j] = [from |-> k, n |-> n, i |-> j - h] /\ SizeOf(s[j], z) = t
  <2>1. PICK h \in Nat, k \in Producer, n \in Nat \ {0}, t \in Nat \ {0} :
          Around(s, z, j, h, k, n, t)
    BY <1>1 DEF Framed
  <2>2. h < j /\ j <= h + t /\ h + t <= l
    BY <1>1, <2>1 DEF Around, Message
  <2>3. j - h \in 1 .. t /\ h + (j - h) = j
    BY <2>2
  <2>4. s[j] = [from |-> k, n |-> n, i |-> j - h]
    BY <2>1, <2>3 DEF Around, Message
  <2>5. SizeOf(s[j], z) = t
    BY <2>1, <2>4 DEF Around, SizeOf
  <2> QED  BY <2>1, <2>2, <2>3, <2>4, <2>5
<1>4. s[l].i = SizeOf(s[l], z)
  <2>1. l \in 1 .. l
    OBVIOUS
  <2>2. PICK h \in Nat, k \in Producer, n \in Nat \ {0}, t \in Nat \ {0} :
          /\ l - h \in 1 .. t /\ h + t <= l
          /\ s[l] = [from |-> k, n |-> n, i |-> l - h] /\ SizeOf(s[l], z) = t
    BY <1>3, <2>1
  <2>3. l - h = t
    BY <2>2
  <2> QED  BY <2>2, <2>3
<1>5. ASSUME NEW j \in 1 .. l - 1
      PROVE  IF s[j].i = SizeOf(s[j], z) THEN s[j + 1].i = 1
             ELSE s[j + 1] = [s[j] EXCEPT !.i = @ + 1]
  <2>1. j \in 1 .. l /\ j + 1 \in 1 .. l
    OBVIOUS
  <2>2. PICK h \in Nat, k \in Producer, n \in Nat \ {0}, t \in Nat \ {0} :
          /\ Around(s, z, j, h, k, n, t) /\ j - h \in 1 .. t
          /\ s[j] = [from |-> k, n |-> n, i |-> j - h] /\ SizeOf(s[j], z) = t
    BY <1>3, <2>1
  <2>3. CASE j - h = t
    <3>1. PICK g \in Nat, c \in Producer, q \in Nat \ {0}, y \in Nat \ {0} :
            /\ Around(s, z, j + 1, g, c, q, y) /\ (j + 1) - g \in 1 .. y
            /\ s[j + 1] = [from |-> c, n |-> q, i |-> (j + 1) - g]
      BY <1>3, <2>1
    <3>2. g = j
      <4> SUFFICES ASSUME g # j PROVE FALSE
        OBVIOUS
      <4>1. j - g \in 1 .. y /\ g + (j - g) = j
        BY <3>1
      <4>2. s[j] = [from |-> c, n |-> q, i |-> j - g]
        BY <3>1, <4>1 DEF Around, Message
      <4>3. c = k /\ q = n /\ j - g = j - h
        BY <2>2, <4>2
      <4>4. y = t
        BY <2>2, <3>1, <4>3 DEF Around
      <4> QED  BY <2>3, <3>1, <4>3, <4>4
    <3>3. s[j + 1].i = 1
      BY <3>1, <3>2
    <3> QED  BY <2>2, <2>3, <3>3
  <2>4. CASE j - h # t
    <3>1. (j + 1) - h \in 1 .. t /\ h + ((j + 1) - h) = j + 1 /\ (j + 1) - h = (j - h) + 1
      BY <2>2, <2>4
    <3>2. s[j + 1] = [from |-> k, n |-> n, i |-> (j + 1) - h]
      BY <2>2, <3>1 DEF Around, Message
    <3>3. s[j + 1] = [s[j] EXCEPT !.i = @ + 1]
      <4>1. PICK i \in Nat : i = j - h /\ (j + 1) - h = i + 1
        BY <2>2, <3>1
      <4>2. /\ s[j] = [from |-> k, n |-> n, i |-> i]
            /\ s[j + 1] = [from |-> k, n |-> n, i |-> i + 1]
        BY <2>2, <3>2, <4>1
      <4> QED  BY <4>2
    <3> QED  BY <2>2, <2>4, <3>3
  <2> QED  BY <2>3, <2>4
<1> QED  BY <1>1, <1>2, <1>4, <1>5

-----------------------------------------------------------------------------
(* What a stream carries, and in which order.                              *)
LEMMA CarriesAppend ==
  ASSUME NEW z \in [Producer -> Seq(Shape)], NEW s \in Seq(Byte), NEW r \in Seq(Byte),
         NEW done \in [Producer -> Nat], NEW left \in [Producer -> Nat],
         Carries(s, done, left),
         NEW p \in Producer, NEW q \in Nat \ {0}, NEW y \in Nat \ {0},
         OneMessage(r, z, p, q, y), q = left[p] + 1
  PROVE  Carries(s \o r, done, [left EXCEPT ![p] = @ + 1])
<1>1. PICK l \in Nat : l = Len(s)
  OBVIOUS
<1>2. PICK a \in Seq(Byte) : /\ a = s \o r /\ Len(a) = l + y
                             /\ \A j \in 1 .. l : a[j] = s[j]
                             /\ \A j \in 1 .. y : a[l + j] = r[j]
  <2>1. /\ s \o r \in Seq(Byte) /\ Len(s \o r) = Len(s) + Len(r)
        /\ \A j \in 1 .. Len(s) : (s \o r)[j] = s[j]
        /\ \A j \in 1 .. Len(r) : (s \o r)[Len(s) + j] = r[j]
    BY Concat
  <2> QED  BY <1>1, <2>1 DEF OneMessage
<1>3. PICK more \in [Producer -> Nat] :
        /\ more = [left EXCEPT ![p] = @ + 1]
        /\ more[p] = q /\ \A k \in Producer : left[k] <= more[k]
        /\ \A k \in Producer : k # p => more[k] = left[k]
  <2> DEFINE w == [left EXCEPT ![p] = @ + 1]
  <2>1. w \in [Producer -> Nat]
    OBVIOUS
  <2>2. w[p] = q
    OBVIOUS
  <2>3. \A k \in Producer : k # p => w[k] = left[k]
    OBVIOUS
  <2>4. ASSUME NEW k \in Producer PROVE left[k] <= w[k]
    <3>1. left[k] \in Nat /\ left[p] \in Nat /\ (k = p \/ w[k] = left[k])
      BY <2>3
    <3> QED  BY <2>2, <3>1
  <2> HIDE DEF w
  <2> QED  BY <2>1, <2>2, <2>3, <2>4 DEF w
<1>4. ASSUME NEW j \in 1 .. l
      PROVE  /\ a[j] = s[j] /\ s[j] \in Byte
             /\ done[s[j].from] < s[j].n /\ s[j].n <= left[s[j].from]
  BY <1>1, <1>2 DEF Carries
<1>5. ASSUME NEW j \in 1 .. l + y, ~(j <= l)
      PROVE  a[j].from = p /\ a[j].n = q /\ a[j].i = j - l
  <2>1. j - l \in 1 .. y /\ l + (j - l) = j /\ 0 + (j - l) = j - l
    BY <1>5
  <2>2. PICK m \in 1 .. y : m = j - l /\ l + m = j /\ 0 + m = m
    BY <2>1
  <2>3. r[m] = [from |-> p, n |-> q, i |-> m]
    BY <2>2 DEF OneMessage, Message
  <2>4. a[j] = [from |-> p, n |-> q, i |-> m]
    BY <1>2, <2>2, <2>3
  <2> QED  BY <2>2, <2>4
<1>6. ASSUME NEW h \in 1 .. l + y, NEW j \in 1 .. l + y, h < j, a[h].from = a[j].from
      PROVE  Before(a[h], a[j])
  <2>1. CASE j <= l
    <3>1. h \in 1 .. l /\ j \in 1 .. l
      BY <1>6, <2>1
    <3> QED  BY <1>1, <1>4, <1>6, <3>1 DEF Carries, InOrder
  <2>2. CASE ~(j <= l) /\ h <= l
    <3>1. h \in 1 .. l
      BY <2>2
    <3>2. a[j].from = p /\ a[j].n = q
      BY <1>5, <2>2
    <3>3. a[h].n <= left[p] /\ a[h].n \in Nat
      BY <1>4, <1>6, <3>1, <3>2 DEF Byte
    <3> QED  BY <3>2, <3>3, SMTT(20) DEF Before
  <2>3. CASE ~(j <= l) /\ ~(h <= l)
    <3>1. a[h].n = q /\ a[j].n = q /\ a[h].i = h - l /\ a[j].i = j - l
      BY <1>5, <2>3
    <3> QED  BY <1>6, <3>1 DEF Before
  <2> QED  BY <2>1, <2>2, <2>3
<1>7. ASSUME NEW j \in 1 .. l + y
      PROVE  done[a[j].from] < a[j].n /\ a[j].n <= more[a[j].from]
  <2>1. CASE j <= l
    <3>1. j \in 1 .. l
      BY <2>1
    <3>2. a[j] = s[j] /\ s[j].from \in Producer /\ s[j].n \in Nat
      BY <1>4, <3>1 DEF Byte
    <3>3. PICK k \in Producer, n \in Nat : k = s[j].from /\ n = s[j].n
      BY <3>2
    <3>4. done[k] < n /\ n <= left[k] /\ left[k] \in Nat /\ more[k] \in Nat /\ left[k] <= more[k]
      BY <1>3, <1>4, <3>1, <3>3
    <3>5. n <= more[k]
      BY <3>4
    <3> QED  BY <3>2, <3>3, <3>4, <3>5
  <2>2. CASE ~(j <= l)
    <3>1. a[j].from = p /\ a[j].n = q
      BY <1>5, <2>2
    <3>2. done[p] <= left[p]
      BY DEF Carries
    <3> QED  BY <1>3, <3>1, <3>2
  <2> QED  BY <2>1, <2>2
<1>8. ASSUME NEW k \in Producer
      PROVE  /\ done[k] <= more[k]
             /\ \A n \in done[k] + 1 .. more[k] :
                  \E j \in 1 .. l + y : a[j] = [from |-> k, n |-> n, i |-> 1]
  <2>1. done[k] <= more[k]
    <3>1. done[k] <= left[k]
      BY DEF Carries
    <3> QED  BY <1>3, <3>1
  <2>2. ASSUME NEW n \in done[k] + 1 .. more[k]
        PROVE  \E j \in 1 .. l + y : a[j] = [from |-> k, n |-> n, i |-> 1]
    <3>1. CASE n <= left[k]
      <4>1. n \in done[k] + 1 .. left[k]
        BY <3>1
      <4>2. PICK j \in 1 .. l : s[j] = [from |-> k, n |-> n, i |-> 1]
        BY <1>1, <4>1 DEF Carries
      <4>3. j \in 1 .. l + y /\ a[j] = s[j]
        BY <1>2, SMTT(20)
      <4> QED  BY <4>2, <4>3
    <3>2. CASE ~(n <= left[k])
      <4>1. k = p /\ n = q
        BY <1>3, <3>2
      <4>2. l + 1 \in 1 .. l + y /\ ~(l + 1 <= l) /\ (l + 1) - l = 1
        OBVIOUS
      <4>3. a[l + 1] = [from |-> p, n |-> q, i |-> 1]
        <5>1. r[1] = [from |-> p, n |-> q, i |-> 1]
          <6>1. 1 \in 1 .. y /\ 0 + 1 = 1
            OBVIOUS
          <6> QED  BY <6>1 DEF OneMessage, Message
        <5>2. 1 \in 1 .. y
          OBVIOUS
        <5> QED  BY <1>2, <5>1, <5>2
      <4> QED  BY <4>1, <4>2, <4>3
    <3> QED  BY <3>1, <3>2
  <2> QED  BY <2>1, <2>2
<1>9. Carries(a, done, more)
  BY <1>2, <1>6, <1>7, <1>8, ZenonT(30) DEF Carries, InOrder
<1> QED  BY <1>2, <1>3, <1>9

(* The message at the head is its producer's next.                         *)
LEMMA CarriesDrop ==
  ASSUME NEW z \in [Producer -> Seq(Shape)], NEW s \in Seq(Byte), Framed(s, z),
         NEW done \in [Producer -> Nat], NEW left \in [Producer -> Nat],
         Carries(s, done, left),
         NEW p \in Producer, NEW q \in Nat \ {0}, NEW y \in Nat \ {0},
         Around(s, z, 1, 0, p, q, y)
  PROVE  /\ q = done[p] + 1
         /\ Carries(Drop(s, y), [done EXCEPT ![p] = @ + 1], left)
<1>1. PICK l \in Nat, g \in Nat : l = Len(s) /\ y <= l /\ l = y + g
  <2>1. Len(s) \in Nat /\ y <= Len(s)
    BY DEF Around, Message
  <2>2. Len(s) - y \in Nat /\ Len(s) = y + (Len(s) - y)
    BY <2>1
  <2> QED  BY <2>1, <2>2
<1>2. PICK a \in Seq(Byte) : /\ a = Drop(s, y) /\ Len(a) = g
                             /\ \A j \in 1 .. g : a[j] = s[y + j]
  <2>1. y \in 0 .. Len(s) /\ Len(s) - y = g
    BY <1>1
  <2>2. /\ Drop(s, y) \in Seq(Byte) /\ Len(Drop(s, y)) = Len(s) - y
        /\ \A j \in 1 .. Len(s) - y : Drop(s, y)[j] = s[y + j]
    BY <2>1, Dropped
  <2> QED  BY <2>1, <2>2
<1>3. ASSUME NEW m \in 1 .. y
      PROVE  /\ m \in 1 .. l /\ s[m] = [from |-> p, n |-> q, i |-> m]
             /\ s[m].from = p /\ s[m].n = q /\ s[m].i = m
  <2>1. 0 + m = m /\ m \in 1 .. l
    BY <1>1
  <2> QED  BY <2>1 DEF Around, Message
<1>4. q = done[p] + 1
  <2>1. 1 \in 1 .. l /\ s[1] = [from |-> p, n |-> q, i |-> 1]
    <3>1. 1 \in 1 .. y
      OBVIOUS
    <3> QED  BY <1>3, <3>1
  <2>2. done[p] < q /\ q <= left[p]
    BY <1>1, <2>1 DEF Carries
  <2>3. done[p] + 1 \in done[p] + 1 .. left[p]
    BY <2>2
  <2>4. PICK j \in 1 .. l : s[j] = [from |-> p, n |-> done[p] + 1, i |-> 1]
    BY <1>1, <2>3 DEF Carries
  <2>5. CASE j = 1
    BY <2>1, <2>4, <2>5
  <2>6. CASE j # 1
    <3>1. 1 < j
      BY <2>6
    <3>2. s[1].from = s[j].from /\ s[1].n = q /\ s[j].n = done[p] + 1 /\ s[1].i = s[j].i
      BY <2>1, <2>4
    <3>3. s[1].i = 1
      BY <2>1
    <3>4. Before(s[1], s[j])
      BY <1>1, <2>1, <2>4, <3>1, <3>2 DEF Carries, InOrder
    <3>5. q < done[p] + 1 \/ 1 < 1
      BY <3>2, <3>3, <3>4 DEF Before
    <3> QED  BY <2>2, <3>5
  <2> QED  BY <2>5, <2>6
<1>5. PICK more \in [Producer -> Nat] :
        /\ more = [done EXCEPT ![p] = @ + 1]
        /\ more[p] = q /\ \A k \in Producer : done[k] <= more[k]
        /\ \A k \in Producer : k # p => more[k] = done[k]
  <2> DEFINE w == [done EXCEPT ![p] = @ + 1]
  <2>1. w \in [Producer -> Nat]
    OBVIOUS
  <2>2. w[p] = q
    BY <1>4
  <2>3. \A k \in Producer : k # p => w[k] = done[k]
    OBVIOUS
  <2>4. ASSUME NEW k \in Producer PROVE done[k] <= w[k]
    <3>1. done[k] \in Nat /\ done[p] \in Nat /\ (k = p \/ w[k] = done[k])
      BY <2>3
    <3> QED  BY <1>4, <2>2, <3>1
  <2> HIDE DEF w
  <2> QED  BY <2>1, <2>2, <2>3, <2>4 DEF w
<1>6. ASSUME NEW j \in 1 .. g
      PROVE  y + j \in 1 .. l /\ a[j] = s[y + j] /\ a[j] \in Byte
  BY <1>1, <1>2
<1>7. ASSUME NEW j \in 1 .. g, a[j].from = p PROVE q < a[j].n
  <2>1. y \in 1 .. y /\ y < y + j
    OBVIOUS
  <2>2. y \in 1 .. l /\ s[y] = [from |-> p, n |-> q, i |-> y]
    BY <1>3, <2>1
  <2>3. y + j \in 1 .. l /\ s[y + j].from = p
    BY <1>6, <1>7
  <2>4. q < s[y + j].n \/ (q = s[y + j].n /\ y < s[y + j].i)
    <3>1. Before(s[y], s[y + j])
      <4>1. s[y].from = s[y + j].from
        BY <2>2, <2>3
      <4> QED  BY <1>1, <2>1, <2>2, <2>3, <4>1 DEF Carries, InOrder
    <3> QED  BY <2>2, <3>1 DEF Before
  <2>5. ~(q = s[y + j].n /\ y < s[y + j].i)
    <3> SUFFICES ASSUME q = s[y + j].n, y < s[y + j].i PROVE FALSE
      OBVIOUS
    <3>1. PICK h \in Nat, k \in Producer, n \in Nat \ {0}, t \in Nat \ {0} :
            Around(s, z, y + j, h, k, n, t)
      BY <1>1, <2>3 DEF Framed
    <3>2. PICK m \in 1 .. t : h + m = y + j
      <4>1. h < y + j /\ y + j <= h + t
        BY <3>1 DEF Around
      <4>2. (y + j) - h \in 1 .. t /\ h + ((y + j) - h) = y + j
        <5>1. PICK x \in Nat : x = y + j
          OBVIOUS
        <5>2. h < x /\ x <= h + t
          BY <4>1, <5>1
        <5>3. x - h \in 1 .. t /\ h + (x - h) = x
          BY <5>2, SMTT(20)
        <5> QED  BY <5>1, <5>3
      <4> QED  BY <4>2, SMTT(20)
    <3>3. s[y + j] = [from |-> k, n |-> n, i |-> m]
      BY <3>1, <3>2, ZenonT(30) DEF Around, Message
    <3>4. k = p /\ n = q
      BY <2>3, <3>3, SMTT(20)
    <3>5. t = y
      BY <3>1, <3>4, ZenonT(30) DEF Around
    <3> QED  BY <3>3, <3>5
  <2> QED  BY <1>6, <2>4, <2>5
<1>8. ASSUME NEW h \in 1 .. g, NEW j \in 1 .. g, h < j, a[h].from = a[j].from
      PROVE  Before(a[h], a[j])
  <2>1. y + h < y + j
    BY <1>8
  <2> QED  BY <1>1, <1>6, <1>8, <2>1, ZenonT(30) DEF Carries, InOrder
<1>9. ASSUME NEW j \in 1 .. g
      PROVE  more[a[j].from] < a[j].n /\ a[j].n <= left[a[j].from]
  <2>1. done[a[j].from] < a[j].n /\ a[j].n <= left[a[j].from] /\ a[j].from \in Producer
    BY <1>1, <1>6 DEF Carries, Byte
  <2> QED  BY <1>5, <1>7, <2>1
<1>10. ASSUME NEW k \in Producer
       PROVE  /\ more[k] <= left[k]
              /\ \A n \in more[k] + 1 .. left[k] :
                   \E j \in 1 .. g : a[j] = [from |-> k, n |-> n, i |-> 1]
  <2>1. more[k] <= left[k]
    <3>1. done[k] <= left[k]
      BY DEF Carries
    <3>2. q <= left[p]
      <4>1. 1 \in 1 .. l /\ s[1] = [from |-> p, n |-> q, i |-> 1]
        <5>1. 1 \in 1 .. y
          OBVIOUS
        <5> QED  BY <1>3, <5>1
      <4> QED  BY <1>1, <4>1 DEF Carries
    <3> QED  BY <1>5, <3>1, <3>2
  <2>2. ASSUME NEW n \in more[k] + 1 .. left[k]
        PROVE  \E j \in 1 .. g : a[j] = [from |-> k, n |-> n, i |-> 1]
    <3>1. n \in done[k] + 1 .. left[k] /\ (k = p => n # q)
      BY <1>5
    <3>2. PICK j \in 1 .. l : s[j] = [from |-> k, n |-> n, i |-> 1]
      BY <1>1, <3>1 DEF Carries
    <3>3. ~(j <= y)
      <4> SUFFICES ASSUME j <= y PROVE FALSE
        OBVIOUS
      <4>1. s[j] = [from |-> p, n |-> q, i |-> j]
        BY <1>3, SMTT(20)
      <4> QED  BY <3>1, <3>2, <4>1, SMTT(20)
    <3>4. PICK h \in 1 .. g : j = y + h
      <4>1. j - y \in 1 .. g /\ j = y + (j - y)
        BY <1>1, <3>3
      <4> QED  BY <4>1
    <3>5. a[h] = [from |-> k, n |-> n, i |-> 1]
      BY <1>6, <3>2, <3>4
    <3> QED  BY <3>5
  <2> QED  BY <2>1, <2>2
<1>11. Carries(a, more, left)
  BY <1>2, <1>8, <1>9, <1>10 DEF Carries, InOrder
<1> QED  BY <1>2, <1>4, <1>5, <1>11

-----------------------------------------------------------------------------
(* How many messages of a producer have arrived.                           *)
LEMMA CountType ==
  ASSUME NEW d \in Seq(Producer \X Nat), NEW k \in Producer
  PROVE  IsFiniteSet({n \in DOMAIN d : d[n][1] = k}) /\ Count(d, k) \in Nat
<1>1. IsFiniteSet(1 .. Len(d))
  BY FS_Interval
<1>2. {n \in DOMAIN d : d[n][1] = k} \subseteq 1 .. Len(d)
  OBVIOUS
<1>3. IsFiniteSet({n \in DOMAIN d : d[n][1] = k})
  BY <1>1, <1>2, FS_Subset
<1> QED  BY <1>3, FS_CardinalityType DEF Count

LEMMA CountAppend ==
  ASSUME NEW d \in Seq(Producer \X Nat), NEW k \in Producer, NEW p \in Producer, NEW q \in Nat
  PROVE  Count(Append(d, <<p, q>>), k) = IF k = p THEN Count(d, k) + 1 ELSE Count(d, k)
<1>1. PICK l \in Nat : l = Len(d)
  OBVIOUS
<1>2. PICK e : /\ e = Append(d, <<p, q>>) /\ DOMAIN e = 1 .. l + 1 /\ e[l + 1] = <<p, q>>
               /\ \A n \in 1 .. l : e[n] = d[n]
  <2>1. <<p, q>> \in Producer \X Nat
    OBVIOUS
  <2>2. PICK x \in Producer \X Nat : x = <<p, q>>
    BY <2>1
  <2>3. /\ DOMAIN Append(d, x) = 1 .. l + 1 /\ Append(d, x)[l + 1] = x
        /\ \A n \in 1 .. l : Append(d, x)[n] = d[n]
    BY <1>1
  <2> QED  BY <2>2, <2>3
<1>3. DOMAIN d = 1 .. l
  BY <1>1
<1> DEFINE D == {n \in DOMAIN d : d[n][1] = k}
           F == {n \in DOMAIN e : e[n][1] = k}
<1>4. e[l + 1][1] = p
  BY <1>2
<1>5. CASE k = p
  <2>1. F = D \cup {l + 1}
    BY <1>2, <1>3, <1>4, <1>5
  <2>2. l + 1 \notin D
    BY <1>3
  <2>3. IsFiniteSet(D)
    BY CountType
  <2> HIDE DEF D, F
  <2>4. Cardinality(F) = Cardinality(D) + 1
    BY <2>1, <2>2, <2>3, FS_AddElement
  <2> QED  BY <1>2, <1>5, <2>4 DEF Count, D, F
<1>6. CASE k # p
  <2>1. F = D
    BY <1>2, <1>3, <1>4, <1>6
  <2> QED  BY <1>2, <1>6, <2>1 DEF Count
<1> QED  BY <1>5, <1>6

LEMMA DoneIs == \A k \in Producer : Merged!Arrived(k) = Count(delivered, k)
BY DEF Count, Merged!Arrived, Cardinality, Merged!Cardinality

-----------------------------------------------------------------------------
LEMMA InitIndInv == Init => IndInv
<1> SUFFICES ASSUME Init PROVE IndInv
  OBVIOUS
<1> USE DEF Init
<1>1. TypeOK
  <2>1. Producers \in Nat \ {0}
    BY CapAssumption
  <2>2. 1 \in 1 .. Producers + 1 /\ 0 \in 0 .. Len(<<>>)
    BY <2>1
  <2>3. \A k \in Producer : packed[k] <= Len(sent[k])
    OBVIOUS
  <2>4. sent \in [Producer -> Seq(Shape)] /\ packed \in [Producer -> Nat]
    OBVIOUS
  <2>5. <<>> \in Seq(Byte) /\ <<>> \in Seq(Producer \X Nat)
    OBVIOUS
  <2> QED  BY <2>2, <2>3, <2>4, <2>5, Zenon DEF TypeOK
<1>2. Stream = <<>> /\ Len(Stream) = 0
  BY DEF Stream
<1>3. \A k \in Producer : Done[k] = 0 /\ packed[k] = 0
  <2>1. ASSUME NEW k \in Producer PROVE Done[k] = 0
    <3>1. {n \in DOMAIN delivered : delivered[n][1] = k} = {}
      OBVIOUS
    <3> QED  BY <3>1, FS_EmptySet DEF Done, Count
  <2> QED  BY <2>1
<1>4. Framed(Stream, sent)
  BY <1>2 DEF Framed
<1>5. Carries(Stream, Done, packed)
  <2>1. InOrder(Stream)
    BY <1>2 DEF InOrder
  <2>2. \A k \in Producer : Done[k] <= packed[k] /\ Done[k] + 1 .. packed[k] = {}
    BY <1>3
  <2> QED  BY <1>2, <2>1, <2>2 DEF Carries
<1> QED  BY <1>1, <1>4, <1>5 DEF IndInv

(* The stream, whole.                                                      *)
LEMMA StreamType ==
  ASSUME NEW S, NEW a \in Seq(S), NEW b \in Seq(S), NEW c \in Seq(S)
  PROVE  /\ a \o b \in Seq(S) /\ (a \o b) \o c \in Seq(S)
         /\ (a \o b) \o c = a \o (b \o c)
<1>1. a \o b \in Seq(S)
  BY Concat
<1>2. (a \o b) \o c \in Seq(S)
  BY <1>1, Concat
<1> QED  BY <1>1, <1>2, ConcatAssociative

(* A step that leaves the stream, what was sent and what arrived as they   *)
(* were.                                                                   *)
LEMMA StreamKept ==
  ASSUME IndInv, TypeOK', (wpc = "pack" => wk \in Producer)',
         Stream' = Stream, UNCHANGED <<sent, packed, delivered>>
  PROVE  IndInv'
<1>1. Done' = Done
  BY DEF Done
<1> QED  BY <1>1 DEF IndInv

(* Packing a message appends its bytes to the stream.                      *)
LEMMA PackKeeps ==
  ASSUME IndInv, PackOne
  PROVE  IndInv'
<1> USE DEF IndInv
<1>1. PICK q \in Nat \ {0} :
        q = packed[wk] + 1 /\ q \in 1 .. Len(sent[wk]) /\ wk \in Producer
  <2>1. wk \in Producer /\ packed[wk] \in Nat /\ Len(sent[wk]) \in Nat /\ Len(sent[wk]) - packed[wk] > 0
    BY DEF PackOne, TypeOK, Queued
  <2> QED  BY <2>1
<1>2. PICK z \in [Producer -> Seq(Shape)] : z = sent
  BY DEF TypeOK
<1>3. PICK y \in Nat \ {0} : y = Total(z[wk][q])
  BY <1>1, <1>2, SizeType
<1>4. PICK r \in Seq(Byte) : r = Bytes(wk, q) /\ OneMessage(r, z, wk, q, y)
  <2>1. Bytes(wk, q) = [i \in 1 .. y |-> [from |-> wk, n |-> q, i |-> i]]
    BY <1>2, <1>3 DEF Bytes
  <2>2. ASSUME NEW i \in 1 .. y PROVE [from |-> wk, n |-> q, i |-> i] \in Byte
    <3>1. i \in Nat \ {0}
      OBVIOUS
    <3> QED  BY <1>1, <3>1 DEF Byte
  <2>3. Bytes(wk, q) \in Seq(Byte) /\ Len(Bytes(wk, q)) = y
    BY <2>1, <2>2
  <2>4. Message(Bytes(wk, q), 0, wk, q, y)
    <3>1. ASSUME NEW m \in 1 .. y
          PROVE  Bytes(wk, q)[0 + m] = [from |-> wk, n |-> q, i |-> m]
      <4>1. 0 + m = m
        OBVIOUS
      <4> QED  BY <2>1, <4>1
    <3>2. 0 + y <= Len(Bytes(wk, q))
      BY <2>3
    <3> QED  BY <3>1, <3>2 DEF Message
  <2> QED  BY <1>1, <1>2, <1>3, <2>3, <2>4 DEF OneMessage
<1>5. /\ outbox' = outbox \o r /\ packed' = [packed EXCEPT ![wk] = @ + 1]
      /\ UNCHANGED <<sent, ready, alive, wpc, wk, sock, inbox, rpc, closed, delivered, taken>>
  BY <1>1, <1>4 DEF PackOne, producers, reader
<1>6. /\ Stream \in Seq(Byte) /\ Stream' = Stream \o r /\ outbox' \in Seq(Byte)
  <2>1. inbox \in Seq(Byte) /\ sock \in Seq(Byte) /\ outbox \in Seq(Byte)
    BY DEF TypeOK
  <2>2. inbox \o sock \in Seq(Byte) /\ Stream \in Seq(Byte)
    BY <2>1, StreamType DEF Stream
  <2>3. (inbox \o sock) \o (outbox \o r) = ((inbox \o sock) \o outbox) \o r
    <3>1. PICK a \in Seq(Byte) : a = inbox \o sock
      BY <2>2
    <3>2. (a \o outbox) \o r = a \o (outbox \o r)
      BY <2>1, ConcatAssociative, SMTT(20)
    <3> QED  BY <3>1, <3>2
  <2>4. outbox \o r \in Seq(Byte)
    BY <2>1, Concat
  <2> QED  BY <1>5, <2>2, <2>3, <2>4 DEF Stream
<1>7. Framed(Stream', sent')
  <2>1. Framed(Stream \o r, z)
    BY <1>1, <1>2, <1>4, <1>6, FramedAppend
  <2> QED  BY <1>2, <1>5, <1>6, <2>1
<1>8. Done' = Done /\ Done \in [Producer -> Nat] /\ packed \in [Producer -> Nat]
  <2>1. \A k \in Producer : Count(delivered, k) \in Nat
    BY CountType DEF TypeOK
  <2> QED  BY <1>5, <2>1 DEF Done, TypeOK
<1>9. Carries(Stream', Done', packed')
  <2>1. Carries(Stream \o r, Done, [packed EXCEPT ![wk] = @ + 1])
    BY <1>1, <1>4, <1>6, <1>8, CarriesAppend
  <2> QED  BY <1>5, <1>6, <1>8, <2>1
<1>10. TypeOK'
  <2>1. \A k \in Producer : packed'[k] <= Len(sent'[k])
    BY <1>1, <1>5 DEF TypeOK
  <2>2. packed' \in [Producer -> Nat]
    <3>1. packed[wk] + 1 \in Nat
      BY <1>1, <1>8
    <3> QED  BY <1>5, <1>8, <3>1
  <2> QED  BY <1>5, <1>6, <2>1, <2>2 DEF TypeOK
<1> QED  BY <1>5, <1>7, <1>9, <1>10

(* Unpacking one takes the message at the head of the stream, which is the *)
(* next of its producer.                                                   *)
LEMMA UnpackTakes ==
  ASSUME IndInv, UnpackOne
  PROVE  \E p \in Producer, q \in Nat \ {0}, y \in Nat \ {0} :
           /\ Around(Stream, sent, 1, 0, p, q, y) /\ y <= Len(inbox)
           /\ delivered' = Append(delivered, <<p, q>>) /\ inbox' = Drop(inbox, y)
           /\ UNCHANGED <<sent, packed, ready, alive, wpc, wk, outbox, sock, rpc, closed, taken>>
<1> USE DEF IndInv
<1>1. inbox \in Seq(Byte) /\ sock \in Seq(Byte) /\ outbox \in Seq(Byte) /\ inbox # <<>>
  BY DEF TypeOK, UnpackOne, Unpacking
<1>2. 1 \in 1 .. Len(inbox)
  BY <1>1
<1>3. 1 \in 1 .. Len(Stream) /\ Stream[1] = Head(inbox) /\ Stream \in Seq(Byte)
  <2>1. inbox \o sock \in Seq(Byte) /\ Stream \in Seq(Byte)
    BY <1>1, StreamType DEF Stream
  <2>2. /\ Len(inbox \o sock) = Len(inbox) + Len(sock) /\ Len(sock) \in Nat /\ Len(inbox) \in Nat
        /\ \A j \in 1 .. Len(inbox) : (inbox \o sock)[j] = inbox[j]
    BY <1>1, Concat
  <2>3. 1 \in 1 .. Len(inbox \o sock) /\ (inbox \o sock)[1] = inbox[1]
    BY <1>2, <2>2
  <2>4. /\ Len(Stream) = Len(inbox \o sock) + Len(outbox) /\ Len(outbox) \in Nat
        /\ Len(inbox \o sock) \in Nat
        /\ \A j \in 1 .. Len(inbox \o sock) : Stream[j] = (inbox \o sock)[j]
    BY <1>1, <2>1, Concat DEF Stream
  <2>5. Head(inbox) = inbox[1]
    BY <1>1
  <2> QED  BY <2>1, <2>3, <2>4, <2>5
<1>4. PICK p \in Producer, q \in Nat \ {0}, y \in Nat \ {0} :
        /\ Around(Stream, sent, 1, 0, p, q, y)
        /\ Stream[1] = [from |-> p, n |-> q, i |-> 1] /\ y = SizeOf(Stream[1], sent)
  <2>1. PICK s \in Seq(Byte) : s = Stream
    BY <1>3
  <2>2. sent \in [Producer -> Seq(Shape)] /\ Framed(s, sent) /\ 1 \in 1 .. Len(s)
    BY <1>3, <2>1 DEF TypeOK
  <2> QED  BY <2>1, <2>2, HeadMessage
<1>5. Head(inbox).from = p /\ Head(inbox).n = q
  BY <1>3, <1>4
<1>6. Total(HeadShape) = y
  BY <1>4, <1>5 DEF HeadShape, SizeOf
<1> QED  BY <1>4, <1>5, <1>6 DEF UnpackOne, BodyHere, producers, writer

LEMMA UnpackKeeps ==
  ASSUME IndInv, UnpackOne
  PROVE  IndInv'
<1> USE DEF IndInv
<1>1. PICK p \in Producer, q \in Nat \ {0}, y \in Nat \ {0} :
        /\ Around(Stream, sent, 1, 0, p, q, y) /\ y <= Len(inbox)
        /\ delivered' = Append(delivered, <<p, q>>) /\ inbox' = Drop(inbox, y)
        /\ UNCHANGED <<sent, packed, ready, alive, wpc, wk, outbox, sock, rpc, closed, taken>>
  BY UnpackTakes
<1>2. PICK z \in [Producer -> Seq(Shape)] : z = sent
  BY DEF TypeOK
<1>3. /\ inbox' \in Seq(Byte) /\ Stream \in Seq(Byte) /\ Stream' = Drop(Stream, y)
  <2>1. inbox \in Seq(Byte) /\ sock \in Seq(Byte) /\ outbox \in Seq(Byte)
    BY DEF TypeOK
  <2>2. PICK a \in Seq(Byte) : a = inbox \o sock /\ y <= Len(a) /\ Stream = a \o outbox
    <3>1. inbox \o sock \in Seq(Byte) /\ Len(inbox \o sock) = Len(inbox) + Len(sock)
      BY <2>1, Concat
    <3>2. Len(inbox) \in Nat /\ Len(sock) \in Nat
      BY <2>1
    <3>3. y <= Len(inbox \o sock)
      BY <1>1, <3>1, <3>2
    <3> QED  BY <3>1, <3>3 DEF Stream
  <2>3. y \in 0 .. Len(inbox) /\ y \in 0 .. Len(a)
    BY <1>1, <2>1, <2>2
  <2>4. Drop(inbox, y) \in Seq(Byte)
    BY <2>1, <2>3, Dropped
  <2>5. Drop(inbox, y) \o sock = Drop(a, y)
    BY <2>1, <2>2, <2>3, DropOfConcat
  <2>6. Drop(a, y) \o outbox = Drop(Stream, y)
    BY <2>1, <2>2, <2>3, DropOfConcat
  <2>7. Stream \in Seq(Byte)
    BY <2>1, <2>2, Concat
  <2> QED  BY <1>1, <2>4, <2>5, <2>6, <2>7 DEF Stream
<1>4. PICK s \in Seq(Byte) : s = Stream /\ Around(s, z, 1, 0, p, q, y) /\ Framed(s, z)
  BY <1>1, <1>2, <1>3
<1>5. Framed(Stream', sent')
  <2>1. Framed(Drop(s, y), z)
    BY <1>4, FramedDrop
  <2> QED  BY <1>1, <1>2, <1>3, <1>4, <2>1
<1>6. /\ Done \in [Producer -> Nat] /\ packed \in [Producer -> Nat]
      /\ Done' = [Done EXCEPT ![p] = @ + 1]
  <2>1. \A k \in Producer : Count(delivered, k) \in Nat
    BY CountType DEF TypeOK
  <2>2. \A k \in Producer : Count(delivered', k) = IF k = p THEN Count(delivered, k) + 1
                                                   ELSE Count(delivered, k)
    <3>1. PICK d \in Seq(Producer \X Nat) : d = delivered
      BY DEF TypeOK
    <3>2. PICK c \in Nat : c = q
      OBVIOUS
    <3>3. ASSUME NEW k \in Producer
          PROVE  Count(Append(d, <<p, c>>), k) = IF k = p THEN Count(d, k) + 1 ELSE Count(d, k)
      <4>1. d \in Seq(Producer \X Nat) /\ k \in Producer /\ p \in Producer /\ c \in Nat
        OBVIOUS
      <4> QED  BY ONLY <4>1, CountAppend, ZenonT(30)
    <3> QED  BY <1>1, <3>1, <3>2, <3>3
  <2> QED  BY <2>1, <2>2 DEF Done, TypeOK
<1>7. Carries(Stream', Done', packed')
  <2>1. PICK done \in [Producer -> Nat] : done = Done
    BY <1>6
  <2>2. Carries(s, done, packed)
    BY <1>4, <2>1
  <2>3. Carries(Drop(s, y), [done EXCEPT ![p] = @ + 1], packed)
    BY <1>4, <1>6, <2>2, CarriesDrop
  <2> QED  BY <1>1, <1>3, <1>4, <1>6, <2>1, <2>3
<1>8. TypeOK'
  <2>1. PICK d \in Seq(Producer \X Nat) : d = delivered
    BY DEF TypeOK
  <2>2. <<p, q>> \in Producer \X Nat
    OBVIOUS
  <2>3. PICK x \in Producer \X Nat : x = <<p, q>>
    BY <2>2
  <2>4. Append(d, x) \in Seq(Producer \X Nat) /\ Len(Append(d, x)) = Len(d) + 1 /\ Len(d) \in Nat
    OBVIOUS
  <2>5. delivered' \in Seq(Producer \X Nat) /\ taken' \in 0 .. Len(delivered')
    <3>1. taken \in 0 .. Len(d)
      BY <2>1 DEF TypeOK
    <3>2. taken \in 0 .. Len(Append(d, x))
      BY <2>4, <3>1
    <3> QED  BY <1>1, <2>1, <2>3, <2>4, <3>2
  <2> QED  BY <1>1, <1>3, <2>5 DEF TypeOK
<1> QED  BY <1>1, <1>5, <1>7, <1>8

(* The sockets move bytes along the stream, wherever messages end.         *)
LEMMA SendKeeps ==
  ASSUME IndInv, NEW n \in 1 .. OutCap, Send(n)
  PROVE  IndInv'
<1>1. inbox \in Seq(Byte) /\ sock \in Seq(Byte) /\ outbox \in Seq(Byte)
  BY DEF IndInv, TypeOK
<1>2. n \in 0 .. Len(outbox)
  BY <1>1 DEF Send
<1>3. /\ SubSeq(outbox, 1, n) \in Seq(Byte)
      /\ sock \o SubSeq(outbox, 1, n) \in Seq(Byte) /\ Drop(outbox, n) \in Seq(Byte)
      /\ (sock \o SubSeq(outbox, 1, n)) \o Drop(outbox, n) = sock \o outbox
  <2>1. PICK s \in Seq(Byte), r \in Seq(Byte) : s = sock /\ r = outbox
    BY <1>1
  <2>2. PICK m \in 0 .. Len(r) : m = n
    BY <1>2, <2>1
  <2>3. PICK a \in Seq(Byte), b \in Seq(Byte) :
          /\ a = First(r, m) /\ b = Drop(r, m)
          /\ s \o a \in Seq(Byte) /\ (s \o a) \o b = s \o r
    BY Moved
  <2> QED  BY <2>1, <2>2, <2>3 DEF First
<1>4. /\ sock' \in Seq(Byte) /\ outbox' \in Seq(Byte) /\ sock' \o outbox' = sock \o outbox
      /\ wpc' = "lock"
      /\ UNCHANGED <<sent, packed, ready, alive, wk, inbox, rpc, closed, delivered, taken>>
  BY <1>3 DEF Send, producers, reader
<1>5. Stream' = Stream
  <2>1. (inbox \o sock) \o outbox = inbox \o (sock \o outbox)
    BY <1>1, ConcatAssociative, SMTT(20)
  <2>2. (inbox \o sock') \o outbox' = inbox \o (sock' \o outbox')
    <3>1. PICK a \in Seq(Byte), b \in Seq(Byte) : a = sock' /\ b = outbox'
      BY <1>4
    <3>2. (inbox \o a) \o b = inbox \o (a \o b)
      BY <1>1, ConcatAssociative, SMTT(20)
    <3> QED  BY <3>1, <3>2
  <2> QED  BY <1>4, <2>1, <2>2 DEF Stream
<1>6. TypeOK'
  BY <1>4 DEF IndInv, TypeOK
<1>7. (wpc = "pack" => wk \in Producer)'
  BY <1>4
<1> QED  BY <1>4, <1>5, <1>6, <1>7, StreamKept

LEMMA RecvKeeps ==
  ASSUME IndInv, NEW n \in 1 .. InCap, Recv(n)
  PROVE  IndInv'
<1>1. inbox \in Seq(Byte) /\ sock \in Seq(Byte) /\ outbox \in Seq(Byte)
  BY DEF IndInv, TypeOK
<1>2. n \in 0 .. Len(sock)
  BY <1>1 DEF Recv
<1>3. /\ SubSeq(sock, 1, n) \in Seq(Byte)
      /\ inbox \o SubSeq(sock, 1, n) \in Seq(Byte) /\ Drop(sock, n) \in Seq(Byte)
      /\ (inbox \o SubSeq(sock, 1, n)) \o Drop(sock, n) = inbox \o sock
  <2>1. PICK s \in Seq(Byte), r \in Seq(Byte) : s = inbox /\ r = sock
    BY <1>1
  <2>2. PICK m \in 0 .. Len(r) : m = n
    BY <1>2, <2>1
  <2>3. PICK a \in Seq(Byte), b \in Seq(Byte) :
          /\ a = First(r, m) /\ b = Drop(r, m)
          /\ s \o a \in Seq(Byte) /\ (s \o a) \o b = s \o r
    BY Moved
  <2> QED  BY <2>1, <2>2, <2>3 DEF First
<1>4. /\ inbox' \in Seq(Byte) /\ sock' \in Seq(Byte) /\ inbox' \o sock' = inbox \o sock
      /\ rpc' = "unpack"
      /\ UNCHANGED <<sent, packed, ready, alive, wpc, wk, outbox, closed, delivered, taken>>
  BY <1>3 DEF Recv, producers, writer
<1>5. Stream' = Stream
  BY <1>4 DEF Stream
<1>6. TypeOK'
  BY <1>4 DEF IndInv, TypeOK
<1>7. (wpc = "pack" => wk \in Producer)'
  BY <1>4 DEF IndInv
<1> QED  BY <1>4, <1>5, <1>6, <1>7, StreamKept

LEMMA AsyncSendKeeps ==
  ASSUME IndInv, NEW k \in Producer, NEW s \in Shape, AsyncSend(k, s)
  PROVE  IndInv'
<1>1. /\ sent' = [sent EXCEPT ![k] = Append(@, s)]
      /\ UNCHANGED <<packed, ready, alive, wpc, wk, outbox, sock, inbox, rpc, closed,
                     delivered, taken>>
  BY DEF AsyncSend, writer, reader
<1>2. Stream' = Stream /\ Done' = Done
  BY <1>1 DEF Stream, Done
<1>3. PICK z \in [Producer -> Seq(Shape)] : z = sent
  BY DEF IndInv, TypeOK
<1>4. Framed(Stream, [z EXCEPT ![k] = Append(@, s)])
  <2>1. Stream \in Seq(Byte)
    BY StreamType DEF IndInv, TypeOK, Stream
  <2>2. PICK x \in Seq(Byte) : x = Stream /\ Framed(x, z)
    BY <1>3, <2>1 DEF IndInv
  <2> QED  BY <2>2, FramedSent
<1>5. TypeOK'
  <2>1. ASSUME NEW p \in Producer
        PROVE  sent'[p] \in Seq(Shape) /\ packed[p] <= Len(sent'[p])
    <3>1. PICK b \in Seq(Shape) : b = z[p]
      OBVIOUS
    <3>2. PICK m \in Nat : m = packed[p] /\ m <= Len(b)
      BY <1>3, <3>1 DEF IndInv, TypeOK
    <3>3. sent'[p] = b \/ sent'[p] = Append(b, s)
      BY <1>1, <1>3, <3>1
    <3>4. /\ b \in Seq(Shape) /\ Append(b, s) \in Seq(Shape) /\ Len(Append(b, s)) = Len(b) + 1
          /\ Len(b) \in Nat
      OBVIOUS
    <3>5. m <= Len(Append(b, s))
      BY <3>2, <3>4
    <3> QED  BY <3>2, <3>3, <3>4, <3>5
  <2>2. sent' \in [Producer -> Seq(Shape)]
    <3>1. sent' = [p \in Producer |-> sent'[p]]
      BY <1>1, <1>3
    <3> QED  BY <2>1, <3>1
  <2> QED  BY <1>1, <2>1, <2>2 DEF IndInv, TypeOK
<1> QED  BY <1>1, <1>2, <1>3, <1>4, <1>5 DEF IndInv

(* The steps that move no byte.                                            *)
LEMMA OthersKeep ==
  ASSUME IndInv,
         \/ OutboxesReady \/ \E k \in Producer : ReleaseOutbox(k)
         \/ LockOutbox \/ PackNext \/ SendNothing \/ SendFails
         \/ RecvNothing \/ RecvFails \/ UnpackClose \/ UnpackEnd \/ Take
  PROVE  IndInv'
<1> USE DEF IndInv, TypeOK, producers, writer, reader
<1>1. UNCHANGED <<sent, packed, outbox, sock, inbox, delivered>>
  BY DEF OutboxesReady, ReleaseOutbox, LockOutbox, PackNext, SendNothing, SendFails,
         RecvNothing, RecvFails, UnpackClose, UnpackEnd, Take
<1>2. Stream' = Stream
  BY <1>1 DEF Stream
<1>3. /\ ready' \in BOOLEAN /\ alive' \subseteq Producer
      /\ rpc' \in {"read", "unpack", "gone"} /\ closed' \in BOOLEAN
  BY DEF OutboxesReady, ReleaseOutbox, LockOutbox, PackNext, SendNothing, SendFails,
         RecvNothing, RecvFails, UnpackClose, UnpackEnd, Take
<1>4. taken' \in 0 .. Len(delivered)
  <2>1. PICK l \in Nat : l = Len(delivered) /\ taken \in 0 .. l
    OBVIOUS
  <2>2. taken' = taken \/ (taken < l /\ taken' = taken + 1)
    BY <2>1 DEF OutboxesReady, ReleaseOutbox, LockOutbox, PackNext, SendNothing, SendFails,
           RecvNothing, RecvFails, UnpackClose, UnpackEnd, Take
  <2>3. taken' \in 0 .. l
    BY ONLY <2>1, <2>2, l \in Nat
  <2> QED  BY <2>1, <2>3
<1>5. /\ wpc' \in {"lock", "pack", "write", "gone"} /\ wk' \in 1 .. Producers + 1
      /\ (wpc' = "pack" => wk' \in Producer)
  <2>1. Producers \in Nat \ {0} /\ Producer = 1 .. Producers
    BY CapAssumption DEF Producer
  <2>2. CASE LockOutbox
    BY <2>1, <2>2, SMTT(20) DEF LockOutbox
  <2>3. CASE PackNext
    BY <2>1, <2>3 DEF PackNext
  <2>4. CASE SendNothing \/ SendFails
    BY <2>4 DEF SendNothing, SendFails
  <2>5. CASE UNCHANGED <<wpc, wk>>
    BY <2>5
  <2> QED  BY <2>2, <2>3, <2>4, <2>5
        DEF OutboxesReady, ReleaseOutbox, RecvNothing, RecvFails, UnpackClose, UnpackEnd, Take
<1>6. TypeOK'
  BY <1>1, <1>3, <1>4, <1>5
<1> HIDE DEF IndInv, TypeOK
<1> QED  BY <1>1, <1>2, <1>5, <1>6, StreamKept

(* The invariant holds of every step.                                      *)
THEOREM ConnectionInvariance == Spec => []IndInv
<1>1. IndInv /\ [Next]_vars => IndInv'
  <2> SUFFICES ASSUME IndInv, [Next]_vars PROVE IndInv'
    OBVIOUS
  <2>1. CASE \E k \in Producer, s \in Shape : AsyncSend(k, s)
    BY <2>1, AsyncSendKeeps
  <2>2. CASE PackOne
    BY <2>2, PackKeeps
  <2>3. CASE \E n \in 1 .. OutCap : Send(n)
    BY <2>3, SendKeeps
  <2>4. CASE \E n \in 1 .. InCap : Recv(n)
    BY <2>4, RecvKeeps
  <2>5. CASE UnpackOne
    BY <2>5, UnpackKeeps
  <2>6. CASE \/ OutboxesReady \/ \E k \in Producer : ReleaseOutbox(k)
             \/ LockOutbox \/ PackNext \/ SendNothing \/ SendFails
             \/ RecvNothing \/ RecvFails \/ UnpackClose \/ UnpackEnd \/ Take
    BY <2>6, OthersKeep
  <2>7. CASE UNCHANGED vars
    <3>1. UNCHANGED <<sent, packed, ready, alive, wpc, wk, outbox, sock, inbox, rpc, closed,
                      delivered, taken>>
      BY <2>7 DEF vars, producers, writer, reader
    <3>2. Stream' = Stream /\ TypeOK' /\ (wpc = "pack" => wk \in Producer)'
      BY <3>1 DEF IndInv, TypeOK, Stream
    <3> QED  BY <3>1, <3>2, StreamKept
  <2> QED  BY <2>1, <2>2, <2>3, <2>4, <2>5, <2>6, <2>7 DEF Next, Writer, Reader
<1> QED  BY <1>1, InitIndInv, PTL DEF Spec

(* However sends and reads cut the stream, it is a run of whole messages:  *)
(* unpack() always starts at the size of a message, and the messages of    *)
(* two producers never mix.                                                *)
THEOREM StreamWholeAlways == Spec => []StreamWhole
<1>1. IndInv => StreamWhole
  <2> SUFFICES ASSUME IndInv PROVE StreamWhole
    OBVIOUS
  <2>1. Stream \in Seq(Byte)
    BY StreamType DEF IndInv, TypeOK, Stream
  <2>2. ASSUME Stream # <<>>
        PROVE  /\ Stream[1].i = 1 /\ Stream[Len(Stream)].i = SizeOf(Stream[Len(Stream)], sent)
               /\ \A j \in 1 .. Len(Stream) - 1 :
                    IF Stream[j].i = SizeOf(Stream[j], sent) THEN Stream[j + 1].i = 1
                    ELSE Stream[j + 1] = [Stream[j] EXCEPT !.i = @ + 1]
    <3>1. PICK s \in Seq(Byte) : s = Stream
      BY <2>1
    <3>2. sent \in [Producer -> Seq(Shape)] /\ Framed(s, sent) /\ s # <<>>
      BY <2>2, <3>1 DEF IndInv, TypeOK
    <3>3. /\ s[1].i = 1 /\ s[Len(s)].i = SizeOf(s[Len(s)], sent)
          /\ \A j \in 1 .. Len(s) - 1 :
               IF s[j].i = SizeOf(s[j], sent) THEN s[j + 1].i = 1
               ELSE s[j + 1] = [s[j] EXCEPT !.i = @ + 1]
      BY <3>2, FramedWhole
    <3> QED  BY <3>1, <3>3
  <2>3. TypeOK
    BY DEF IndInv
  <2> QED  BY <2>2, <2>3 DEF StreamWhole, EndsMessage, SizeOf
<1> QED  BY <1>1, ConnectionInvariance, PTL

(* What arrives is what each producer sent, in its order, each message     *)
(* once: the connection implements the merged queue.                       *)
THEOREM MergedImplemented == Spec => RefinesMerged
<1>1. Init => Merged!Init
  BY DEF Init, Merged!Init
<1>2. IndInv /\ [Next]_vars =>
        [Merged!Next]_<<[k \in Producer |-> Len(sent[k])], delivered>>
  <2> SUFFICES ASSUME IndInv, [Next]_vars
               PROVE  [Merged!Next]_<<[k \in Producer |-> Len(sent[k])], delivered>>
    OBVIOUS
  <2>1. CASE \E k \in Producer, s \in Shape : AsyncSend(k, s)
    <3>1. PICK k \in Producer, s \in Shape : AsyncSend(k, s)
      BY <2>1
    <3>2. PICK z \in [Producer -> Seq(Shape)] : z = sent /\ sent' = [z EXCEPT ![k] = Append(@, s)]
      BY <3>1 DEF AsyncSend, IndInv, TypeOK
    <3>3. delivered' = delivered
      BY <3>1 DEF AsyncSend, reader
    <3>4. ASSUME NEW p \in Producer
          PROVE  Len(sent'[p]) = IF p = k THEN Len(sent[p]) + 1 ELSE Len(sent[p])
      <4>1. PICK b \in Seq(Shape) : b = z[p]
        OBVIOUS
      <4>2. sent'[p] = IF p = k THEN Append(b, s) ELSE b
        BY <3>2, <4>1
      <4>3. Len(Append(b, s)) = Len(b) + 1
        OBVIOUS
      <4> QED  BY <3>2, <4>1, <4>2, <4>3
    <3>5. [p \in Producer |-> Len(sent'[p])]
            = [[p \in Producer |-> Len(sent[p])] EXCEPT ![k] = @ + 1]
      BY <3>4
    <3>6. Merged!Send(k)
      BY <3>3, <3>5 DEF Merged!Send
    <3> QED  BY <3>6 DEF Merged!Next
  <2>2. CASE UnpackOne
    <3>1. PICK p \in Producer, q \in Nat \ {0}, y \in Nat \ {0} :
            /\ Around(Stream, sent, 1, 0, p, q, y)
            /\ delivered' = Append(delivered, <<p, q>>) /\ sent' = sent
      BY <2>2, UnpackTakes
    <3>2. q = Done[p] + 1 /\ q \in 1 .. Len(sent[p])
      <4>1. Stream \in Seq(Byte)
        BY StreamType DEF IndInv, TypeOK, Stream
      <4>2. \A k \in Producer : Count(delivered, k) \in Nat
        BY CountType DEF IndInv, TypeOK
      <4>3. PICK s \in Seq(Byte), z \in [Producer -> Seq(Shape)], done \in [Producer -> Nat] :
              s = Stream /\ z = sent /\ done = Done
        BY <4>1, <4>2 DEF IndInv, TypeOK, Done
      <4>4. /\ packed \in [Producer -> Nat] /\ Framed(s, z) /\ Carries(s, done, packed)
            /\ Around(s, z, 1, 0, p, q, y)
        BY <3>1, <4>3 DEF IndInv, TypeOK
      <4>5. /\ q = done[p] + 1
            /\ Carries(Drop(s, y), [done EXCEPT ![p] = @ + 1], packed)
        BY <4>4, CarriesDrop
      <4>6. q \in 1 .. Len(z[p])
        BY <4>4 DEF Around
      <4> QED  BY <4>3, <4>5, <4>6
    <3>3. Merged!Arrived(p) = Done[p] /\ Done[p] \in Nat
      <4>1. Count(delivered, p) \in Nat
        BY CountType DEF IndInv, TypeOK
      <4> QED  BY <4>1, DoneIs DEF Done
    <3>4. Merged!Receive(p)
      <4>1. [k \in Producer |-> Len(sent[k])][p] = Len(sent[p])
        OBVIOUS
      <4>2. Merged!Arrived(p) < [k \in Producer |-> Len(sent[k])][p]
        BY <3>2, <3>3, <4>1
      <4>3. delivered' = Append(delivered, <<p, Merged!Arrived(p) + 1>>)
        BY <3>1, <3>2, <3>3
      <4> QED  BY <3>1, <4>2, <4>3 DEF Merged!Receive
    <3> QED  BY <3>4 DEF Merged!Next
  <2>3. CASE UNCHANGED <<sent, delivered>>
    BY <2>3
  <2> QED  BY <2>1, <2>2, <2>3
        DEF Next, Writer, Reader, vars, producers, writer, reader, OutboxesReady, ReleaseOutbox,
            LockOutbox, PackOne, PackNext, Send, SendNothing, SendFails, Recv, RecvNothing,
            RecvFails, UnpackClose, UnpackEnd, Take
<1> QED  BY <1>1, <1>2, ConnectionInvariance, PTL DEF Spec, RefinesMerged, Merged!Spec

=============================================================================
