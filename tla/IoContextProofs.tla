--------------------------- MODULE IoContextProofs ---------------------------
(***************************************************************************)
(* No loop of IoContext loses, repeats or skips a peer, and none drops one *)
(* whose socket is in order, for every set of peers and connections, every *)
(* capacity and both ways of starting the threads, if no connection is     *)
(* accepted while the user's thread adds a peer.                           *)
(***************************************************************************)
EXTENDS IoContext, Integers, SequenceTheorems, FiniteSetTheorems, TLAPS

-----------------------------------------------------------------------------
(* Sequences and the places of peers.                                      *)
Once(s) == \A m, n \in 1 .. Len(s) : s[m] = s[n] => m = n

(* Those asked for are on their way, queued, polled or dropped, each at    *)
(* one of these places, once.                                              *)
Accounted(asked, way, q, p, gone) ==
  /\ IsFiniteSet(way) /\ IsFiniteSet(gone)
  /\ asked = way \cup ToSet(q) \cup ToSet(p) \cup gone
  /\ Once(q) /\ Once(p)
  /\ way \cap ToSet(q) = {} /\ way \cap ToSet(p) = {} /\ way \cap gone = {}
  /\ ToSet(q) \cap ToSet(p) = {} /\ ToSet(q) \cap gone = {} /\ ToSet(p) \cap gone = {}

LEMMA InToSet ==
  ASSUME NEW S, NEW s \in Seq(S), NEW x
  PROVE  x \in ToSet(s) <=> \E n \in 1 .. Len(s) : s[n] = x
  BY DEF ToSet

LEMMA ToSetType ==
  ASSUME NEW S, NEW s \in Seq(S)
  PROVE  ToSet(s) \subseteq S
  BY DEF ToSet

(* add() names the rings of a peer, each once.                             *)
LEMMA RingsOf ==
  ASSUME NEW p \in Peer
  PROVE  /\ Rings(p) \in Seq(Loop)
         /\ \A m, n \in 1 .. Len(Rings(p)) : Rings(p)[m] = Rings(p)[n] => m = n
         /\ \A l \in Loop : l \in DoesOf(p) <=> \E n \in 1 .. Len(Rings(p)) : Rings(p)[n] = l
<1>1. \A l \in Loop : /\ Ring(l, p) \in Seq(Loop)
                      /\ Len(Ring(l, p)) = IF l \in DoesOf(p) THEN 1 ELSE 0
                      /\ l \in DoesOf(p) => Ring(l, p)[1] = l
  BY DEF Ring
<1>2. PICK a \in Seq(Loop) : /\ a = Ring("accept", p)
                             /\ Len(a) = IF "accept" \in DoesOf(p) THEN 1 ELSE 0
                             /\ "accept" \in DoesOf(p) => a[1] = "accept"
  BY <1>1 DEF Loop
<1>3. PICK b \in Seq(Loop) : /\ b = Ring("read", p)
                             /\ Len(b) = IF "read" \in DoesOf(p) THEN 1 ELSE 0
                             /\ "read" \in DoesOf(p) => b[1] = "read"
  BY <1>1 DEF Loop
<1>4. PICK c \in Seq(Loop) : /\ c = Ring("write", p)
                             /\ Len(c) = IF "write" \in DoesOf(p) THEN 1 ELSE 0
                             /\ "write" \in DoesOf(p) => c[1] = "write"
  BY <1>1 DEF Loop
<1>5. PICK ab \in Seq(Loop) :
        /\ ab = a \o b /\ Len(ab) = Len(a) + Len(b)
        /\ \A n \in 1 .. Len(ab) : ab[n] = IF n <= Len(a) THEN a[n] ELSE b[n - Len(a)]
  <2>1. a \o b \in Seq(Loop) /\ Len(a \o b) = Len(a) + Len(b)
    OBVIOUS
  <2>2. \A n \in 1 .. Len(a \o b) : (a \o b)[n] = IF n <= Len(a) THEN a[n] ELSE b[n - Len(a)]
    OBVIOUS
  <2> QED  BY <2>1, <2>2
<1>6. PICK s \in Seq(Loop) :
        /\ s = Rings(p) /\ Len(s) = Len(ab) + Len(c)
        /\ \A n \in 1 .. Len(s) : s[n] = IF n <= Len(ab) THEN ab[n] ELSE c[n - Len(ab)]
  <2>1. ab \o c \in Seq(Loop) /\ Len(ab \o c) = Len(ab) + Len(c)
    OBVIOUS
  <2>2. \A n \in 1 .. Len(ab \o c) :
          (ab \o c)[n] = IF n <= Len(ab) THEN ab[n] ELSE c[n - Len(ab)]
    OBVIOUS
  <2>3. Rings(p) = ab \o c
    BY <1>2, <1>3, <1>4, <1>5 DEF Rings
  <2> QED  BY <2>1, <2>2, <2>3
<1>7. PICK ka \in 0 .. 1, kb \in 0 .. 1, kc \in 0 .. 1 :
        /\ ka = Len(a) /\ kb = Len(b) /\ kc = Len(c)
        /\ ka = 1 <=> "accept" \in DoesOf(p)
        /\ kb = 1 <=> "read" \in DoesOf(p)
        /\ kc = 1 <=> "write" \in DoesOf(p)
  BY <1>2, <1>3, <1>4
<1>8. Len(ab) = ka + kb /\ Len(s) = ka + kb + kc
  BY <1>5, <1>6, <1>7
<1>9. ASSUME NEW j \in 1 .. ka + kb + kc
      PROVE  \/ ka = 1 /\ j = 1 /\ s[j] = "accept"
             \/ kb = 1 /\ j = ka + 1 /\ s[j] = "read"
             \/ kc = 1 /\ j = ka + kb + 1 /\ s[j] = "write"
  <2>1. CASE j <= ka
    <3>1. ka = 1 /\ j = 1 /\ j <= ka + kb /\ j \in 1 .. ka + kb
      BY <1>9, <2>1
    <3>2. s[j] = a[1]
      BY <1>5, <1>6, <1>7, <1>8, <1>9, <3>1
    <3> QED  BY <1>2, <1>7, <3>1, <3>2
  <2>2. CASE j > ka /\ j <= ka + kb
    <3>1. kb = 1 /\ j = ka + 1 /\ j - ka = 1 /\ j \in 1 .. ka + kb /\ ~(j <= ka)
      BY <1>9, <2>2
    <3>2. s[j] = b[1]
      BY <1>5, <1>6, <1>7, <1>8, <1>9, <2>2, <3>1
    <3> QED  BY <1>3, <1>7, <3>1, <3>2
  <2>3. CASE j > ka + kb
    <3>1. kc = 1 /\ j = ka + kb + 1 /\ j - (ka + kb) = 1 /\ ~(j <= ka + kb)
      BY <1>9, <2>3
    <3>2. s[j] = c[1]
      BY <1>6, <1>8, <1>9, <3>1
    <3> QED  BY <1>4, <1>7, <3>1, <3>2
  <2> QED  BY <1>9, <2>1, <2>2, <2>3
<1>10. \A h, j \in 1 .. ka + kb + kc : s[h] = s[j] => h = j
  BY <1>9
<1>11. \A j \in 1 .. ka + kb + kc : s[j] \in DoesOf(p)
  BY <1>7, <1>9
<1>12. /\ ka = 1 => 1 \in 1 .. ka + kb + kc /\ s[1] = "accept"
       /\ kb = 1 => ka + 1 \in 1 .. ka + kb + kc /\ s[ka + 1] = "read"
       /\ kc = 1 => ka + kb + 1 \in 1 .. ka + kb + kc /\ s[ka + kb + 1] = "write"
  BY <1>9
<1>13. \A l \in Loop : l \in DoesOf(p) <=> \E j \in 1 .. ka + kb + kc : s[j] = l
  BY <1>7, <1>11, <1>12 DEF Loop
<1> QED  BY <1>6, <1>8, <1>10, <1>13

(* What erasing an element leaves.                                         *)
LEMMA RemoveAtProperties ==
  ASSUME NEW S, NEW s \in Seq(S), NEW h \in 1 .. Len(s)
  PROVE  /\ RemoveAt(s, h) \in Seq(S) /\ Len(RemoveAt(s, h)) = Len(s) - 1
         /\ \A j \in 1 .. Len(s) - 1 : RemoveAt(s, h)[j] = IF j < h THEN s[j] ELSE s[j + 1]
<1>1. PICK a \in Seq(S) : /\ a = SubSeq(s, 1, h - 1) /\ Len(a) = h - 1
                          /\ \A j \in 1 .. h - 1 : a[j] = s[j]
  <2>1. SubSeq(s, 1, h - 1) \in Seq(S) /\ Len(SubSeq(s, 1, h - 1)) = h - 1
    OBVIOUS
  <2>2. \A j \in 1 .. h - 1 : SubSeq(s, 1, h - 1)[j] = s[j]
    OBVIOUS
  <2> QED  BY <2>1, <2>2
<1>2. PICK b \in Seq(S) : /\ b = SubSeq(s, h + 1, Len(s)) /\ Len(b) = Len(s) - h
                          /\ \A j \in 1 .. Len(s) - h : b[j] = s[j + h]
  <2>1. SubSeq(s, h + 1, Len(s)) \in Seq(S) /\ Len(SubSeq(s, h + 1, Len(s))) = Len(s) - h
    OBVIOUS
  <2>2. \A j \in 1 .. Len(s) - h : SubSeq(s, h + 1, Len(s))[j] = s[j + h]
    OBVIOUS
  <2> QED  BY <2>1, <2>2
<1>3. PICK r \in Seq(S) :
        /\ r = a \o b /\ Len(r) = Len(a) + Len(b)
        /\ \A n \in 1 .. Len(r) : r[n] = IF n <= Len(a) THEN a[n] ELSE b[n - Len(a)]
  <2>1. a \o b \in Seq(S) /\ Len(a \o b) = Len(a) + Len(b)
    OBVIOUS
  <2>2. \A n \in 1 .. Len(a \o b) : (a \o b)[n] = IF n <= Len(a) THEN a[n] ELSE b[n - Len(a)]
    OBVIOUS
  <2> QED  BY <2>1, <2>2
<1>4. /\ Len(a) = h - 1 /\ Len(b) = Len(s) - h /\ Len(r) = Len(a) + Len(b)
      /\ Len(s) \in Nat /\ h \in Nat
  <2>1. Len(s) \in Nat /\ h \in Nat
    OBVIOUS
  <2> QED  BY <1>1, <1>2, <1>3, <2>1
<1>5. Len(r) = Len(s) - 1
  BY <1>4
<1>6. ASSUME NEW j \in 1 .. Len(s) - 1 PROVE r[j] = IF j < h THEN s[j] ELSE s[j + 1]
  <2>1. CASE j < h
    <3>1. j \in 1 .. h - 1 /\ j \in 1 .. Len(r) /\ j <= Len(a)
      BY <1>4, <2>1
    <3>2. r[j] = a[j] /\ a[j] = s[j]
      BY <1>1, <1>3, <3>1
    <3> QED  BY <2>1, <3>2
  <2>2. CASE ~ (j < h)
    <3>1. j - (h - 1) \in 1 .. Len(s) - h /\ j \in 1 .. Len(r) /\ ~(j <= Len(a))
      BY <1>4, <2>2
    <3>2. r[j] = b[j - (h - 1)]
      BY <1>3, <1>4, <3>1
    <3>3. b[j - (h - 1)] = s[(j - (h - 1)) + h]
      BY <1>2, <3>1
    <3>4. (j - (h - 1)) + h = j + 1
      BY <1>4
    <3> QED  BY <2>2, <3>2, <3>3, <3>4
  <2> QED  BY <2>1, <2>2
<1>7. RemoveAt(s, h) = r
  BY <1>1, <1>2, <1>3 DEF RemoveAt
<1> QED BY <1>3, <1>5, <1>6, <1>7

LEMMA AppendProps ==
  ASSUME NEW S, NEW s \in Seq(S), NEW x \in S
  PROVE  /\ Append(s, x) \in Seq(S)
         /\ ToSet(Append(s, x)) = ToSet(s) \cup {x}
         /\ Once(s) /\ x \notin ToSet(s) => Once(Append(s, x))
<1>1. Append(s, x) \in Seq(S) /\ Len(Append(s, x)) = Len(s) + 1
  OBVIOUS
<1>2. \A n \in 1 .. Len(s) + 1 : Append(s, x)[n] = IF n <= Len(s) THEN s[n] ELSE x
  OBVIOUS
<1>3. PICK k \in Nat : k = Len(s)
  OBVIOUS
<1>4. \A y : y \in ToSet(Append(s, x)) <=> y \in ToSet(s) \/ y = x
  <2>1. \A y : y \in ToSet(Append(s, x)) <=> \E n \in 1 .. k + 1 : Append(s, x)[n] = y
    BY <1>1, <1>3, InToSet
  <2>2. \A y : y \in ToSet(s) <=> \E n \in 1 .. k : s[n] = y
    BY <1>3, InToSet
  <2>3. /\ k + 1 \in 1 .. k + 1 /\ Append(s, x)[k + 1] = x
        /\ \A n \in 1 .. k : n \in 1 .. k + 1 /\ Append(s, x)[n] = s[n]
        /\ \A n \in 1 .. k + 1 : n \in 1 .. k \/ n = k + 1
    BY <1>2, <1>3
  <2> QED  BY <2>1, <2>2, <2>3
<1>5. ASSUME Once(s), x \notin ToSet(s) PROVE Once(Append(s, x))
  <2>1. \A n \in 1 .. k : s[n] # x
    BY <1>3, <1>5, InToSet
  <2>2. /\ Append(s, x)[k + 1] = x
        /\ \A n \in 1 .. k : Append(s, x)[n] = s[n]
        /\ \A n \in 1 .. k + 1 : n \in 1 .. k \/ n = k + 1
    BY <1>2, <1>3
  <2>3. \A m, n \in 1 .. k : s[m] = s[n] => m = n
    BY <1>3, <1>5 DEF Once
  <2>4. \A m, n \in 1 .. k + 1 : Append(s, x)[m] = Append(s, x)[n] => m = n
    BY <2>1, <2>2, <2>3
  <2> QED  BY <1>1, <1>3, <2>4 DEF Once
<1> QED  BY <1>1, <1>4, <1>5

LEMMA TailProps ==
  ASSUME NEW S, NEW s \in Seq(S), s # <<>>, Once(s)
  PROVE  /\ Tail(s) \in Seq(S) /\ Head(s) \in S /\ Once(Tail(s))
         /\ ToSet(s) = ToSet(Tail(s)) \cup {Head(s)}
         /\ Head(s) \notin ToSet(Tail(s))
<1>1. /\ Tail(s) \in Seq(S) /\ Head(s) = s[1] /\ Head(s) \in S
      /\ Len(Tail(s)) = Len(s) - 1 /\ Len(s) \in Nat /\ Len(s) > 0 /\ Len(s) # 0
  OBVIOUS
<1>2. \A n \in 1 .. Len(s) - 1 : Tail(s)[n] = s[n + 1]
  <2>1. \A m \in Nat : m = Len(s) => \A n \in 1 .. m - 1 : Tail(s)[n] = s[n + 1]
    OBVIOUS
  <2> QED  BY <1>1, <2>1
<1>3. PICK k \in Nat \ {0} : k = Len(s)
  BY <1>1
<1>4. \A y : y \in ToSet(Tail(s)) <=> \E n \in 1 .. k - 1 : s[n + 1] = y
  <2>1. PICK t \in Seq(S) : t = Tail(s) /\ Len(t) = k - 1
    BY <1>1, <1>3
  <2>2. \A y : y \in ToSet(t) <=> \E n \in 1 .. k - 1 : t[n] = y
    BY <2>1, InToSet
  <2>3. \A n \in 1 .. k - 1 : t[n] = s[n + 1]
    BY <1>2, <1>3, <2>1
  <2>4. ToSet(Tail(s)) = ToSet(t)
    BY <2>1
  <2> QED  BY <2>2, <2>3, <2>4
<1>5. \A m, n \in 1 .. k : s[m] = s[n] => m = n
  BY <1>3 DEF Once
<1>6. \A y : y \in ToSet(s) <=> \E n \in 1 .. k : s[n] = y
  BY <1>3, InToSet
<1>7. \A y : y \in ToSet(s) <=> y \in ToSet(Tail(s)) \/ y = s[1]
  <2>1. /\ 1 \in 1 .. k /\ (\A n \in 1 .. k - 1 : n + 1 \in 1 .. k)
        /\ \A n \in 1 .. k : n = 1 \/ (n - 1 \in 1 .. k - 1 /\ (n - 1) + 1 = n)
    OBVIOUS
  <2> QED  BY <1>4, <1>6, <2>1
<1>8. s[1] \notin ToSet(Tail(s))
  <2>1. \A n \in 1 .. k - 1 : n + 1 \in 1 .. k /\ n + 1 # 1 /\ 1 \in 1 .. k
    OBVIOUS
  <2> QED  BY <1>4, <1>5, <2>1
<1>9. Once(Tail(s))
  <2>1. \A m, n \in 1 .. k - 1 : s[m + 1] = s[n + 1] => m = n
    <3>1. \A n \in 1 .. k - 1 : n + 1 \in 1 .. k
      OBVIOUS
    <3> QED  BY <1>5, <3>1
  <2> QED  BY <1>1, <1>2, <1>3, <2>1 DEF Once
<1> QED  BY <1>1, <1>7, <1>8, <1>9

LEMMA RemoveProps ==
  ASSUME NEW S, NEW s \in Seq(S), NEW h \in 1 .. Len(s), Once(s)
  PROVE  /\ RemoveAt(s, h) \in Seq(S) /\ Once(RemoveAt(s, h))
         /\ ToSet(s) = ToSet(RemoveAt(s, h)) \cup {s[h]}
         /\ s[h] \notin ToSet(RemoveAt(s, h))
<1>1. /\ RemoveAt(s, h) \in Seq(S) /\ Len(RemoveAt(s, h)) = Len(s) - 1
      /\ \A j \in 1 .. Len(s) - 1 : RemoveAt(s, h)[j] = IF j < h THEN s[j] ELSE s[j + 1]
  BY RemoveAtProperties
<1>2. PICK k \in Nat \ {0} : k = Len(s) /\ h \in 1 .. k
  OBVIOUS
<1>3. \A m, n \in 1 .. k : s[m] = s[n] => m = n
  BY <1>2 DEF Once
<1>4. PICK r \in Seq(S) :
        /\ r = RemoveAt(s, h) /\ Len(r) = k - 1
        /\ \A j \in 1 .. k - 1 : r[j] = IF j < h THEN s[j] ELSE s[j + 1]
  BY <1>1, <1>2
<1>5. \A y : y \in ToSet(r) <=> \E n \in 1 .. k - 1 : r[n] = y
  BY <1>4, InToSet
<1>6. \A y : y \in ToSet(s) <=> \E n \in 1 .. k : s[n] = y
  BY <1>2, InToSet
<1>7. \A n \in 1 .. k - 1 : \E m \in 1 .. k : m # h /\ r[n] = s[m]
  <2> TAKE n \in 1 .. k - 1
  <2>1. CASE n < h
    BY <1>2, <1>4, <2>1
  <2>2. CASE ~ (n < h)
    <3>1. n + 1 \in 1 .. k /\ n + 1 # h /\ r[n] = s[n + 1]
      BY <1>2, <1>4, <2>2
    <3> QED  BY <3>1
  <2> QED  BY <2>1, <2>2
<1>8. \A m \in 1 .. k : m # h => \E n \in 1 .. k - 1 : r[n] = s[m]
  <2> SUFFICES ASSUME NEW m \in 1 .. k, m # h PROVE \E n \in 1 .. k - 1 : r[n] = s[m]
    OBVIOUS
  <2>1. CASE m < h
    BY <1>2, <1>4, <2>1
  <2>2. CASE m > h
    <3>1. m - 1 \in 1 .. k - 1 /\ ~(m - 1 < h) /\ (m - 1) + 1 = m
      BY <1>2, <2>2
    <3> QED  BY <1>4, <3>1
  <2> QED  BY <1>2, <2>1, <2>2
<1>9. \A y : y \in ToSet(s) <=> y \in ToSet(r) \/ y = s[h]
  <2> TAKE y
  <2>1. y \in ToSet(s) => y \in ToSet(r) \/ y = s[h]
    BY <1>5, <1>6, <1>8
  <2>2. y \in ToSet(r) => y \in ToSet(s)
    BY <1>5, <1>6, <1>7
  <2>3. s[h] \in ToSet(s)
    BY <1>2, <1>6
  <2> QED  BY <2>1, <2>2, <2>3
<1>10. s[h] \notin ToSet(r)
  BY <1>2, <1>3, <1>5, <1>7
<1>11. Once(r)
  <2>1. \A m, n \in 1 .. k - 1 : r[m] = r[n] => m = n
    <3> SUFFICES ASSUME NEW m \in 1 .. k - 1, NEW n \in 1 .. k - 1, r[m] = r[n] PROVE m = n
      OBVIOUS
    <3> DEFINE a == IF m < h THEN m ELSE m + 1
               b == IF n < h THEN n ELSE n + 1
    <3>1. a \in 1 .. k /\ b \in 1 .. k /\ (a = b => m = n)
      BY <1>2
    <3>2. r[m] = s[a] /\ r[n] = s[b]
      BY <1>4
    <3> QED  BY <1>3, <3>1, <3>2
  <2> QED  BY <1>4, <2>1 DEF Once
<1> QED  BY <1>4, <1>9, <1>10, <1>11

-----------------------------------------------------------------------------
(* A peer moves from one place to the next.                                *)
LEMMA AccountedAdd ==
  ASSUME NEW asked, NEW q, NEW p, NEW gone, NEW x,
         Accounted(asked, {}, q, p, gone), x \notin asked
  PROVE  Accounted(asked \cup {x}, {x}, q, p, gone)
  BY FS_Singleton DEF Accounted

LEMMA AccountedPublish ==
  ASSUME NEW S, NEW asked, NEW q \in Seq(S), NEW p, NEW gone, NEW x \in S,
         Accounted(asked, {x}, q, p, gone)
  PROVE  Accounted(asked, {}, Append(q, x), p, gone)
<1>1. x \notin ToSet(q) /\ Once(q)
  BY DEF Accounted
<1>2. ToSet(Append(q, x)) = ToSet(q) \cup {x} /\ Once(Append(q, x))
  BY <1>1, AppendProps
<1>3. IsFiniteSet({})
  BY FS_EmptySet
<1> QED  BY <1>2, <1>3 DEF Accounted

LEMMA AccountedTake ==
  ASSUME NEW S, NEW asked, NEW way, NEW q \in Seq(S), NEW p \in Seq(S), NEW gone, q # <<>>,
         Accounted(asked, way, q, p, gone)
  PROVE  Accounted(asked, way, Tail(q), Append(p, Head(q)), gone)
<1>1. /\ ToSet(q) = ToSet(Tail(q)) \cup {Head(q)} /\ Head(q) \notin ToSet(Tail(q))
      /\ Once(Tail(q)) /\ Head(q) \in S
  BY TailProps DEF Accounted
<1>2. ToSet(Append(p, Head(q))) = ToSet(p) \cup {Head(q)} /\ Once(Append(p, Head(q)))
  BY <1>1, AppendProps DEF Accounted
<1> QED  BY <1>1, <1>2 DEF Accounted

LEMMA AccountedDrop ==
  ASSUME NEW S, NEW asked, NEW way, NEW q, NEW p \in Seq(S), NEW gone, NEW h \in 1 .. Len(p),
         Accounted(asked, way, q, p, gone)
  PROVE  Accounted(asked, way, q, RemoveAt(p, h), gone \cup {p[h]})
<1>1. /\ ToSet(p) = ToSet(RemoveAt(p, h)) \cup {p[h]} /\ p[h] \notin ToSet(RemoveAt(p, h))
      /\ Once(RemoveAt(p, h))
  BY RemoveProps DEF Accounted
<1>2. IsFiniteSet(gone \cup {p[h]})
  BY FS_AddElement DEF Accounted
<1> QED  BY <1>1, <1>2 DEF Accounted

(* A list without repetitions has as many members as elements.             *)
LEMMA OnceCount ==
  ASSUME NEW S, NEW s \in Seq(S), Once(s)
  PROVE  IsFiniteSet(ToSet(s)) /\ Cardinality(ToSet(s)) = Len(s)
<1>1. PICK k \in Nat : k = Len(s)
  OBVIOUS
<1>2. s \in Bijection(1 .. k, ToSet(s))
  <2>1. s \in [1 .. k -> ToSet(s)]
    BY <1>1 DEF ToSet
  <2>2. \A m, n \in 1 .. k : s[m] = s[n] => m = n
    BY <1>1 DEF Once
  <2>3. \A y \in ToSet(s) : \E n \in 1 .. k : s[n] = y
    BY <1>1, InToSet
  <2> QED  BY <2>1, <2>2, <2>3 DEF Bijection, Injection, Surjection, IsInjective
<1>3. IsFiniteSet(1 .. k) /\ Cardinality(1 .. k) = k
  BY FS_Interval
<1> QED  BY <1>1, <1>2, <1>3, FS_Bijection DEF ExistsBijection

LEMMA AccountedCount ==
  ASSUME NEW S, NEW asked, NEW way, NEW q \in Seq(S), NEW p \in Seq(S), NEW gone,
         Accounted(asked, way, q, p, gone)
  PROVE  Cardinality(asked) = Cardinality(way) + Len(q) + Len(p) + Cardinality(gone)
<1>1. /\ IsFiniteSet(ToSet(q)) /\ Cardinality(ToSet(q)) = Len(q)
      /\ IsFiniteSet(ToSet(p)) /\ Cardinality(ToSet(p)) = Len(p)
      /\ IsFiniteSet(way) /\ IsFiniteSet(gone)
  BY OnceCount DEF Accounted
<1>2. ASSUME NEW A, NEW B, IsFiniteSet(A), IsFiniteSet(B), A \cap B = {}
      PROVE  IsFiniteSet(A \cup B) /\ Cardinality(A \cup B) = Cardinality(A) + Cardinality(B)
  <2>1. /\ IsFiniteSet(A \cup B)
        /\ Cardinality(A \cup B) = Cardinality(A) + Cardinality(B) - Cardinality(A \cap B)
    BY <1>2, FS_Union
  <2>2. Cardinality(A \cap B) = 0 /\ Cardinality(A) \in Nat /\ Cardinality(B) \in Nat
    BY <1>2, FS_EmptySet, FS_CardinalityType
  <2> QED  BY <2>1, <2>2
<1>3. /\ IsFiniteSet(way \cup ToSet(q))
      /\ Cardinality(way \cup ToSet(q)) = Cardinality(way) + Len(q)
  BY <1>1, <1>2 DEF Accounted
<1>4. /\ IsFiniteSet((way \cup ToSet(q)) \cup ToSet(p))
      /\ Cardinality((way \cup ToSet(q)) \cup ToSet(p)) = (Cardinality(way) + Len(q)) + Len(p)
  <2>1. (way \cup ToSet(q)) \cap ToSet(p) = {}
    BY DEF Accounted
  <2>2. PICK B : B = way \cup ToSet(q)
    OBVIOUS
  <2>3. /\ IsFiniteSet(B \cup ToSet(p))
        /\ Cardinality(B \cup ToSet(p)) = Cardinality(B) + Cardinality(ToSet(p))
    BY <1>1, <1>2, <1>3, <2>1, <2>2
  <2> QED  BY <1>1, <1>3, <2>2, <2>3
<1>5. Cardinality(((way \cup ToSet(q)) \cup ToSet(p)) \cup gone)
        = ((Cardinality(way) + Len(q)) + Len(p)) + Cardinality(gone)
  <2>1. ((way \cup ToSet(q)) \cup ToSet(p)) \cap gone = {}
    BY DEF Accounted
  <2> QED  BY <1>1, <1>2, <1>4, <2>1
<1>6. asked = ((way \cup ToSet(q)) \cup ToSet(p)) \cup gone
  BY DEF Accounted
<1> QED  BY <1>5, <1>6

-----------------------------------------------------------------------------
(* The inductive invariant.  Threads: one thread runs each loop, one at a  *)
(* time adds a peer, and what it wrote behind a ring's back is still there *)
(* when it publishes.                                                      *)
Worker == Thread \cup {"user"}
Busy(w) == ~Idle(w) \/ (w \in Thread /\ pc[w] = "inbox")
InWalk(t) == pc[t] \in {"walk", "inbox", "add"}

Types ==
  /\ TypeOK
  /\ adding \in [Worker -> [peer : Peer \cup {Null}, to : Seq(Loop), wrote : BOOLEAN]]
  /\ queue \in [Loop -> Seq(Peer)]

Threads ==
  /\ \A t \in Thread : phase[t] <= Len(LoopsOf(t))
  /\ \A t \in Thread : pc[t] # "done" => t \in Started
  /\ \A t \in Thread : pc[t] \in {"inbox", "add"} => At(t) = "accept"
  /\ \A t \in Thread : pc[t] = "inbox" => adding[t].peer \in Conn \ away /\ i[t] > 0
  /\ \A t \in Thread : ~Idle(t) => pc[t] = "add"
  /\ \A v, w \in Worker : Busy(v) /\ Busy(w) => v = w
  /\ \A w \in Worker : ~Idle(w) => Once(adding[w].to) /\ adding[w].peer \in Peer
  /\ \A w \in Worker : adding[w].wrote =>
       ~Idle(w) /\ slot[Head(adding[w].to)] = adding[w].peer

(* Peers: each one asked for is at one place.                              *)
Kept == \A l \in Loop :
  Accounted(Asked(l), OnItsWay(l), queue[l], peers[l], dropped[l])

(* Walks: what a walk has polled is what lies behind it, and a loop that   *)
(* is not being walked has polled nothing.                                 *)
Walks ==
  /\ \A t \in Thread : InWalk(t) =>
       /\ i[t] <= Len(peers[At(t)])
       /\ \A j \in 1 .. Len(peers[At(t)]) : peers[At(t)][j] \in visited[At(t)] <=> j > i[t]
  /\ \A t \in Started : \A n \in 1 .. Len(LoopsOf(t)) :
       (n # phase[t] \/ pc[t] = "take") => visited[LoopsOf(t)[n]] = {}

Main == Types /\ Threads /\ Kept /\ Walks

-----------------------------------------------------------------------------
(* Each loop belongs to one thread, once.                                  *)
LEMMA OwnLoops ==
  ASSUME NEW t \in Started, NEW u \in Started,
         NEW m \in 1 .. Len(LoopsOf(t)), NEW n \in 1 .. Len(LoopsOf(u)),
         LoopsOf(t)[m] = LoopsOf(u)[n]
  PROVE  t = u /\ m = n
<1>1. CASE mode = "all"
  <2>1. t = "all" /\ u = "all" /\ LoopsOf(t) = <<"accept", "write", "read">> /\ LoopsOf(u) = LoopsOf(t)
    BY <1>1 DEF Started, LoopsOf
  <2>2. m \in 1 .. 3 /\ n \in 1 .. 3
    BY <2>1
  <2> QED  BY <2>1, <2>2
<1>2. CASE mode # "all"
  <2>1. t \in Loop /\ u \in Loop /\ LoopsOf(t) = <<t>> /\ LoopsOf(u) = <<u>>
    BY <1>2 DEF Started, LoopsOf, Loop
  <2>2. m = 1 /\ n = 1
    BY <2>1
  <2> QED  BY <2>1, <2>2
<1> QED  BY <1>1, <1>2

LEMMA LoopsType ==
  ASSUME NEW t \in Thread
  PROVE  /\ LoopsOf(t) \in Seq(Loop) /\ Len(LoopsOf(t)) \in 1 .. 3
         /\ \A n \in 1 .. Len(LoopsOf(t)) : LoopsOf(t)[n] \in Loop
<1>1. CASE t = "all"
  BY <1>1 DEF LoopsOf, Loop
<1>2. CASE t \in Loop
  <2>1. LoopsOf(t) = <<t>>
    BY <1>2 DEF LoopsOf, Loop
  <2>2. <<t>> \in Seq(Loop) /\ Len(<<t>>) = 1 /\ <<t>>[1] = t
    BY <1>2
  <2> QED  BY <1>2, <2>1, <2>2
<1> QED  BY <1>1, <1>2 DEF Thread, Loop

(* What the proofs use of the types.                                       *)
LEMMA Typed ==
  ASSUME Types, Threads, NEW t \in Thread
  PROVE  /\ phase[t] \in 1 .. Len(LoopsOf(t)) /\ At(t) \in Loop /\ i[t] \in Nat
         /\ peers[At(t)] \in Seq(Peer) /\ queue[At(t)] \in Seq(Peer)
         /\ visited[At(t)] \subseteq Peer /\ dropped[At(t)] \subseteq Peer
<1>1. phase[t] \in 1 .. Len(LoopsOf(t))
  <2>1. phase[t] \in 1 .. 3 /\ phase[t] <= Len(LoopsOf(t))
    BY DEF Types, TypeOK, Threads
  <2> QED  BY <2>1, LoopsType
<1>2. At(t) \in Loop
  BY <1>1, LoopsType DEF At
<1>3. i[t] \in Nat
  BY DEF Types, TypeOK
<1>4. peers[At(t)] \in Seq(Peer) /\ queue[At(t)] \in Seq(Peer)
  BY <1>2 DEF Types, TypeOK
<1>5. visited[At(t)] \subseteq Peer /\ dropped[At(t)] \subseteq Peer
  BY <1>2 DEF Types, TypeOK
<1> QED  BY <1>1, <1>2, <1>3, <1>4, <1>5

(* No two threads that still run are in one loop.                          *)
LEMMA OneThread ==
  ASSUME Types, Threads, NEW t \in Thread, NEW u \in Thread,
         pc[t] # "done", pc[u] # "done", At(t) = At(u)
  PROVE  t = u
<1>1. t \in Started /\ u \in Started
  BY DEF Threads
<1> QED  BY <1>1, Typed, OwnLoops DEF At

(* Where a peer is on its way to.                                          *)
LEMMA WayOfOne ==
  ASSUME NEW a, DOMAIN a = Worker, NEW w \in Worker,
         \A v \in Worker : v # w => a[v].to = <<>>,
         NEW l
  PROVE  {a[v].peer : v \in {u \in DOMAIN a : l \in ToSet(a[u].to)}}
           = IF l \in ToSet(a[w].to) THEN {a[w].peer} ELSE {}
<1>1. \A v \in Worker : v # w => ToSet(a[v].to) = {}
  BY DEF ToSet
<1> QED  BY <1>1

-----------------------------------------------------------------------------
(* Polling a peer.                                                         *)
LEMMA StepTypes ==
  ASSUME Types, Threads, Walks, NEW t \in Thread, NEW b \in BOOLEAN,
         InWalk(t), i[t] > 0, Step(t, b)
  PROVE  /\ i[t] \in 1 .. Len(peers[At(t)]) /\ Here(t) \in Peer
         /\ i' \in [Thread -> Nat] /\ visited' \in [Loop -> SUBSET Peer]
         /\ peers' \in [Loop -> Seq(Peer)] /\ dropped' \in [Loop -> SUBSET Peer]
<1>1. At(t) \in Loop /\ i[t] \in Nat /\ peers[At(t)] \in Seq(Peer)
  BY Typed
<1>2. i[t] \in 1 .. Len(peers[At(t)])
  <2>1. i[t] <= Len(peers[At(t)])
    BY DEF Walks
  <2> QED  BY <1>1, <2>1
<1>3. Here(t) \in Peer
  BY <1>1, <1>2 DEF Here
<1>4. i' \in [Thread -> Nat]
  <2>1. i \in [Thread -> Nat] /\ i' = [i EXCEPT ![t] = i[t] - 1] /\ i[t] - 1 \in Nat
    BY <1>1 DEF Types, TypeOK, Step
  <2> QED  BY <2>1
<1>5. visited' \in [Loop -> SUBSET Peer]
  BY <1>1, <1>3 DEF Types, TypeOK, Step
<1>6. peers' \in [Loop -> Seq(Peer)] /\ dropped' \in [Loop -> SUBSET Peer]
  <2>0. peers \in [Loop -> Seq(Peer)] /\ dropped \in [Loop -> SUBSET Peer]
    BY DEF Types, TypeOK
  <2>1. CASE b
    <3>1. RemoveAt(peers[At(t)], i[t]) \in Seq(Peer)
      BY <1>1, <1>2, RemoveAtProperties
    <3>2. /\ peers' = [peers EXCEPT ![At(t)] = RemoveAt(peers[At(t)], i[t])]
          /\ dropped' = [dropped EXCEPT ![At(t)] = dropped[At(t)] \cup {Here(t)}]
      BY <2>1 DEF Step
    <3> QED  BY <1>1, <1>3, <2>0, <3>1, <3>2
  <2>2. CASE ~b
    BY <2>0, <2>2 DEF Step
  <2> QED  BY <2>1, <2>2
<1> QED  BY <1>2, <1>3, <1>4, <1>5, <1>6

(* It takes a peer from a list only to drop it.                            *)
LEMMA StepKept ==
  ASSUME Types, Threads, Walks, NEW t \in Thread, NEW b \in BOOLEAN,
         InWalk(t), i[t] > 0, Step(t, b),
         NEW l \in Loop, NEW asked, NEW way,
         Accounted(asked, way, queue[l], peers[l], dropped[l])
  PROVE  Accounted(asked, way, queue[l], peers'[l], dropped'[l])
<1>1. At(t) \in Loop /\ i[t] \in 1 .. Len(peers[At(t)]) /\ peers[At(t)] \in Seq(Peer)
  BY Typed, StepTypes
<1>2. peers \in [Loop -> Seq(Peer)] /\ dropped \in [Loop -> SUBSET Peer]
  BY DEF Types, TypeOK
<1>3. CASE b /\ l = At(t)
  <2>1. /\ peers'[l] = RemoveAt(peers[l], i[t])
        /\ dropped'[l] = dropped[l] \cup {peers[l][i[t]]}
    BY <1>1, <1>2, <1>3 DEF Step, Here
  <2> QED  BY <1>1, <1>3, <2>1, AccountedDrop
<1>4. CASE ~(b /\ l = At(t))
  <2>1. peers'[l] = peers[l] /\ dropped'[l] = dropped[l]
    BY <1>1, <1>2, <1>4 DEF Step
  <2> QED  BY <2>1
<1> QED  BY <1>3, <1>4

(* What it has polled stays what lies behind it.                           *)
LEMMA StepWalks ==
  ASSUME Types, Threads, Kept, Walks, NEW t \in Thread, NEW b \in BOOLEAN,
         InWalk(t), i[t] > 0, Step(t, b), phase' = phase, mode' = mode,
         \A u \in Thread : InWalk(u)' = InWalk(u) /\ (pc'[u] = "take" <=> pc[u] = "take")
  PROVE  Walks'
<1>1. /\ At(t) \in Loop /\ i[t] \in 1 .. Len(peers[At(t)]) /\ peers[At(t)] \in Seq(Peer)
      /\ t \in Started /\ phase[t] \in 1 .. Len(LoopsOf(t))
  BY Typed, StepTypes DEF InWalk, Threads
<1>2. /\ i \in [Thread -> Nat] /\ peers \in [Loop -> Seq(Peer)]
      /\ visited \in [Loop -> SUBSET Peer] /\ dropped \in [Loop -> SUBSET Peer]
  BY DEF Types, TypeOK
<1>3. \A u \in Thread : At(u)' = At(u)
  BY DEF At, LoopsOf
<1>4. Started' = Started /\ \A u \in Thread : LoopsOf(u)' = LoopsOf(u)
  BY DEF Started, LoopsOf
<1>5. /\ i'[t] = i[t] - 1 /\ \A u \in Thread : u # t => i'[u] = i[u]
      /\ visited'[At(t)] = visited[At(t)] \cup {peers[At(t)][i[t]]}
      /\ \A l \in Loop : l # At(t) => visited'[l] = visited[l] /\ peers'[l] = peers[l]
  BY <1>1, <1>2 DEF Step, Here
<1>6. /\ i[t] <= Len(peers[At(t)])
      /\ \A j \in 1 .. Len(peers[At(t)]) : peers[At(t)][j] \in visited[At(t)] <=> j > i[t]
  BY DEF Walks
<1>7. /\ i'[t] <= Len(peers'[At(t)])
      /\ \A j \in 1 .. Len(peers'[At(t)]) : peers'[At(t)][j] \in visited'[At(t)] <=> j > i'[t]
  <2>1. PICK s \in Seq(Peer), k \in Nat, h \in Nat, V \in SUBSET Peer :
          s = peers[At(t)] /\ k = Len(s) /\ h = i[t] /\ V = visited[At(t)] /\ h \in 1 .. k
    <3>1. Len(peers[At(t)]) \in Nat /\ i[t] \in Nat /\ visited[At(t)] \in SUBSET Peer
      BY <1>1, <1>2
    <3> QED  BY <1>1, <3>1
  <2>2. \A m, n \in 1 .. k : s[m] = s[n] => m = n
    BY <1>1, <2>1 DEF Kept, Accounted, Once
  <2>3. \A j \in 1 .. k : s[j] \in V <=> j > h
    BY <1>6, <2>1
  <2>4. i'[t] = h - 1 /\ visited'[At(t)] = V \cup {s[h]}
    BY <1>5, <2>1
  <2>5. CASE b
    <3>1. PICK r \in Seq(Peer) : /\ r = peers'[At(t)] /\ Len(r) = k - 1
                                 /\ \A j \in 1 .. k - 1 : r[j] = IF j < h THEN s[j] ELSE s[j + 1]
      <4>1. peers'[At(t)] = RemoveAt(s, h)
        BY <1>1, <1>2, <2>1, <2>5 DEF Step
      <4>2. /\ RemoveAt(s, h) \in Seq(Peer) /\ Len(RemoveAt(s, h)) = Len(s) - 1
            /\ \A j \in 1 .. Len(s) - 1 :
                 RemoveAt(s, h)[j] = IF j < h THEN s[j] ELSE s[j + 1]
        BY <2>1, RemoveAtProperties
      <4> QED  BY <2>1, <4>1, <4>2
    <3>2. ASSUME NEW j \in 1 .. k - 1 PROVE r[j] \in V \cup {s[h]} <=> j > h - 1
      <4>1. CASE j < h
        <5>1. j \in 1 .. k /\ j # h /\ r[j] = s[j] /\ ~(j > h) /\ ~(j > h - 1)
          BY <3>1, <3>2, <4>1
        <5> QED  BY <2>1, <2>2, <2>3, <5>1
      <4>2. CASE ~(j < h)
        <5>1. j + 1 \in 1 .. k /\ r[j] = s[j + 1] /\ j + 1 > h /\ j > h - 1
          BY <3>1, <3>2, <4>2
        <5> QED  BY <2>3, <5>1
      <4> QED  BY <4>1, <4>2
    <3>3. h - 1 <= k - 1
      BY <2>1
    <3> QED  BY <2>4, <3>1, <3>2, <3>3
  <2>6. CASE ~b
    <3>1. peers'[At(t)] = s
      BY <2>1, <2>6 DEF Step
    <3>2. \A j \in 1 .. k : s[j] \in V \cup {s[h]} <=> j > h - 1
      BY <2>1, <2>2, <2>3
    <3> QED  BY <2>1, <2>4, <3>1, <3>2
  <2> QED  BY <2>5, <2>6
<1>8. ASSUME NEW u \in Thread, InWalk(u)'
      PROVE  /\ i'[u] <= Len(peers'[At(u)])
             /\ \A j \in 1 .. Len(peers'[At(u)]) :
                  peers'[At(u)][j] \in visited'[At(u)] <=> j > i'[u]
  <2>1. CASE u = t
    BY <1>7, <2>1
  <2>2. CASE u # t
    <3>1. InWalk(u)
      BY <1>8
    <3>2. At(u) # At(t) /\ At(u) \in Loop
      BY <2>2, <3>1, Typed, OneThread DEF InWalk
    <3>3. /\ i'[u] = i[u] /\ peers'[At(u)] = peers[At(u)]
          /\ visited'[At(u)] = visited[At(u)]
      BY <1>5, <2>2, <3>2
    <3> QED  BY <3>1, <3>3 DEF Walks
  <2> QED  BY <2>1, <2>2
<1>9. ASSUME NEW u \in Started, NEW n \in 1 .. Len(LoopsOf(u)), n # phase[u] \/ pc'[u] = "take"
      PROVE  visited'[LoopsOf(u)[n]] = {}
  <2>1. u \in Thread
    BY DEF Started, Thread
  <2>2. visited[LoopsOf(u)[n]] = {} /\ (n # phase[u] \/ pc[u] = "take")
    BY <1>9, <2>1 DEF Walks
  <2>3. LoopsOf(u)[n] # At(t)
    BY <1>1, <2>2, OwnLoops DEF At, InWalk
  <2> QED  BY <1>5, <2>1, <2>2, <2>3, LoopsType
<1> QED  BY <1>3, <1>4, <1>8, <1>9 DEF Walks

(* While nobody begins or ends to add a peer, the threads stay apart and   *)
(* the same peers are asked for and on their way.                          *)
LEMMA SameWorkers ==
  ASSUME Threads, UNCHANGED <<mode, away, adding, slot>>,
         \A u \in Thread : /\ phase'[u] <= Len(LoopsOf(u))
                           /\ pc'[u] # "done" => pc[u] # "done"
                           /\ {pc[u], pc'[u]} \cap {"inbox", "add"} # {} =>
                                pc'[u] = pc[u] /\ phase'[u] = phase[u] /\ i'[u] = i[u]
  PROVE  Threads'
<1>1. /\ \A u \in Thread : LoopsOf(u)' = LoopsOf(u)
      /\ Started' = Started
      /\ \A w \in Worker : Idle(w)' = Idle(w)
  BY DEF LoopsOf, Started, Idle
<1>2. /\ \A u \in Thread : pc'[u] = "inbox" => pc[u] = "inbox" /\ i'[u] = i[u]
      /\ \A u \in Thread : pc[u] = "add" => pc'[u] = "add"
      /\ \A u \in Thread : pc'[u] \in {"inbox", "add"} =>
           pc[u] \in {"inbox", "add"} /\ phase'[u] = phase[u]
  OBVIOUS
<1>3. /\ \A u \in Thread : phase'[u] <= Len(LoopsOf(u)')
      /\ \A u \in Thread : pc'[u] # "done" => u \in Started'
  BY <1>1 DEF Threads
<1>4. \A u \in Thread : pc'[u] \in {"inbox", "add"} => At(u)' = "accept"
  BY <1>1, <1>2 DEF Threads, At
<1>5. \A u \in Thread : pc'[u] = "inbox" => adding'[u].peer \in Conn \ away' /\ i'[u] > 0
  BY <1>2 DEF Threads
<1>6. \A u \in Thread : ~Idle(u)' => pc'[u] = "add"
  BY <1>1, <1>2 DEF Threads, Worker
<1>7. \A v, w \in Worker : Busy(v)' /\ Busy(w)' => v = w
  <2>1. \A v \in Worker : Busy(v)' => Busy(v)
    BY <1>1, <1>2 DEF Busy
  <2> QED  BY <2>1 DEF Threads
<1>8. \A w \in Worker : ~Idle(w)' => Once(adding'[w].to) /\ adding'[w].peer \in Peer
  BY <1>1 DEF Threads
<1>9. \A w \in Worker : adding'[w].wrote =>
        ~Idle(w)' /\ slot'[Head(adding'[w].to)] = adding'[w].peer
  BY <1>1 DEF Threads
<1> QED  BY <1>3, <1>4, <1>5, <1>6, <1>7, <1>8, <1>9 DEF Threads

LEMMA SamePlaces ==
  ASSUME UNCHANGED <<toAdd, away, adding>>,
         \A u \in Thread : pc'[u] = "inbox" <=> pc[u] = "inbox",
         NEW l
  PROVE  Asked(l)' = Asked(l) /\ OnItsWay(l)' = OnItsWay(l)
  BY DEF Asked, OnItsWay

(* A step that polls a peer and touches sockets only, whatever it finds    *)
(* there.                                                                  *)
LEMMA Polls ==
  ASSUME Main, NEW t \in Thread, NEW b \in BOOLEAN,
         pc[t] = "walk", i[t] > 0, Step(t, b),
         UNCHANGED <<user, away, arrivals, pc, phase>>,
         sock' \in [Peer -> {"open", "reset", "dead", "closed"}], good' \in [Peer -> BOOLEAN]
  PROVE  Main'
<1> USE DEF Main
<1>1. InWalk(t)
  BY DEF InWalk
<1>2. /\ UNCHANGED <<mode, go_on, upc, toAdd, away, adding, slot, queue, inbox, pc, phase>>
      /\ \A u \in Thread : At(u)' = At(u) /\ LoopsOf(u)' = LoopsOf(u)
      /\ Started' = Started
  BY DEF user, arrivals, At, LoopsOf, Started
<1>3. Types'
  <2>1. /\ i' \in [Thread -> Nat] /\ visited' \in [Loop -> SUBSET Peer]
        /\ peers' \in [Loop -> Seq(Peer)] /\ dropped' \in [Loop -> SUBSET Peer]
    BY <1>1, StepTypes
  <2> QED  BY <1>2, <2>1 DEF Types, TypeOK
<1>4. Threads'
  <2>1. \A u \in Thread : u # t => i'[u] = i[u]
    BY DEF Step, Types, TypeOK
  <2>2. \A u \in Thread : phase[u] <= Len(LoopsOf(u))
    BY DEF Threads
  <2> QED  BY <1>2, <2>1, <2>2, SameWorkers
<1>5. Kept'
  <2> SUFFICES ASSUME NEW l \in Loop
               PROVE  Accounted(Asked(l)', OnItsWay(l)', queue'[l], peers'[l], dropped'[l])
    BY DEF Kept
  <2>1. Asked(l)' = Asked(l) /\ OnItsWay(l)' = OnItsWay(l) /\ queue' = queue
    BY <1>2 DEF Asked, OnItsWay
  <2>2. Accounted(Asked(l), OnItsWay(l), queue[l], peers[l], dropped[l])
    BY DEF Kept
  <2> QED  BY <1>1, <2>1, <2>2, StepKept
<1>6. Walks'
  <2>1. \A u \in Thread : InWalk(u)' = InWalk(u) /\ (pc'[u] = "take" <=> pc[u] = "take")
    BY <1>2 DEF InWalk
  <2> QED  BY <1>1, <1>2, <2>1, StepWalks
<1> QED  BY <1>3, <1>4, <1>5, <1>6

(* The peer a worker adds, and where to.                                   *)
LEMMA Pushing ==
  ASSUME Types, Threads, NEW w \in Worker, ~Idle(w)
  PROVE  /\ adding[w].peer \in Peer /\ Head(adding[w].to) \in Loop
         /\ Tail(adding[w].to) \in Seq(Loop) /\ Once(Tail(adding[w].to))
         /\ ToSet(adding[w].to) = ToSet(Tail(adding[w].to)) \cup {Head(adding[w].to)}
         /\ Head(adding[w].to) \notin ToSet(Tail(adding[w].to))
<1>1. /\ adding[w].to \in Seq(Loop) /\ adding[w].to # <<>> /\ Once(adding[w].to)
      /\ adding[w].peer \in Peer
  BY DEF Types, Threads, Idle
<1> QED  BY <1>1, TailProps

(* Workers other than the one that adds a peer are idle.                   *)
LEMMA OthersIdle ==
  ASSUME Types, Threads, NEW w \in Worker, Busy(w)
  PROVE  /\ \A v \in Worker : v # w => ~Busy(v) /\ adding[v].to = <<>>
         /\ \A l : OnItsWay(l) = IF l \in ToSet(adding[w].to) THEN {adding[w].peer} ELSE {}
<1>1. \A v \in Worker : v # w => ~Busy(v)
  BY DEF Threads
<1>2. \A v \in Worker : v # w => adding[v].to = <<>>
  BY <1>1 DEF Busy, Idle
<1>3. DOMAIN adding = Worker
  BY DEF Types
<1> QED  BY <1>1, <1>2, <1>3, WayOfOne DEF OnItsWay

LEMMA AllIdle ==
  ASSUME Types, \A v \in Worker : adding[v].to = <<>>
  PROVE  \A l : OnItsWay(l) = {}
  BY DEF Types, OnItsWay, ToSet

LEMMA PushWriteKeeps ==
  ASSUME Main, NEW w \in Worker, PushWrite(w)
  PROVE  Main'
<1> USE DEF Main
<1> DEFINE head == Head(adding[w].to)
<1>1. /\ ~Idle(w) /\ ~adding[w].wrote /\ slot' = [slot EXCEPT ![head] = adding[w].peer]
      /\ adding' = [adding EXCEPT ![w].wrote = TRUE]
      /\ UNCHANGED <<mode, go_on, upc, toAdd, away, sock, good, queue, inbox, pc, phase, i,
                     peers, dropped, visited>>
  BY DEF PushWrite, user, sockets, loops
<1>2. head \in Loop /\ adding[w].peer \in Peer
  BY <1>1, Pushing
<1>3. /\ adding \in [Worker -> [peer : Peer \cup {Null}, to : Seq(Loop), wrote : BOOLEAN]]
      /\ slot \in [Loop -> Peer \cup {Null}]
  BY DEF Types, TypeOK
<1>4. /\ adding' \in [Worker -> [peer : Peer \cup {Null}, to : Seq(Loop), wrote : BOOLEAN]]
      /\ \A v \in Worker : adding'[v].peer = adding[v].peer /\ adding'[v].to = adding[v].to
      /\ \A v \in Worker : v # w => adding'[v].wrote = adding[v].wrote
      /\ DOMAIN adding' = Worker /\ DOMAIN adding = Worker
  BY <1>1, <1>3
<1>5. Types'
  <2>1. slot' \in [Loop -> Peer \cup {Null}]
    BY <1>1, <1>2, <1>3
  <2> QED  BY <1>1, <1>4, <2>1 DEF Types, TypeOK
<1>6. /\ \A u \in Thread : At(u)' = At(u) /\ LoopsOf(u)' = LoopsOf(u)
      /\ Started' = Started
  BY <1>1 DEF At, LoopsOf, Started
<1>7. \A v \in Worker : Idle(v)' = Idle(v) /\ Busy(v)' = Busy(v)
  BY <1>1, <1>4 DEF Idle, Busy
<1>8. Threads'
  <2>1. \A v \in Worker : adding'[v].wrote =>
          ~Idle(v) /\ slot'[Head(adding'[v].to)] = adding'[v].peer
    <3> TAKE v \in Worker
    <3>1. CASE v = w
      BY <1>1, <1>2, <1>3, <1>4, <3>1
    <3>2. CASE v # w
      <4>1. Busy(w) /\ Idle(v)
        BY <1>1, <3>2 DEF Threads, Busy
      <4>2. ~adding[v].wrote
        BY <4>1 DEF Threads
      <4> QED  BY <1>4, <3>2, <4>2
    <3> QED  BY <3>1, <3>2
  <2>2. \A v \in Worker : ~Idle(v) => Once(adding'[v].to) /\ adding'[v].peer \in Peer
    BY <1>4 DEF Threads
  <2>3. \A t \in Thread : pc[t] = "inbox" => adding'[t].peer \in Conn \ away /\ i[t] > 0
    BY <1>4 DEF Threads, Worker
  <2> QED  BY <1>1, <1>6, <1>7, <2>1, <2>2, <2>3 DEF Threads, Worker
<1>9. Kept'
  <2>1. \A l \in Loop : Asked(l)' = Asked(l)
    BY <1>1, <1>4 DEF Asked, Worker
  <2>2. \A l \in Loop : OnItsWay(l)' = OnItsWay(l)
    BY <1>4 DEF OnItsWay
  <2> QED  BY <1>1, <2>1, <2>2 DEF Kept
<1>10. Walks'
  BY <1>1, <1>6 DEF Walks, InWalk
<1> QED  BY <1>5, <1>8, <1>9, <1>10

LEMMA PushPublishKeeps ==
  ASSUME Main, NEW w \in Worker, PushPublish(w)
  PROVE  Main'
<1> USE DEF Main
<1> DEFINE head == Head(adding[w].to)
           rest == Tail(adding[w].to)
           who  == adding[w].peer
<1>1. /\ ~Idle(w) /\ adding[w].wrote
      /\ queue' = [queue EXCEPT ![head] = Append(queue[head], slot[head])]
      /\ slot' = [slot EXCEPT ![head] = Null]
      /\ adding' = [adding EXCEPT ![w] = IF rest = <<>> THEN Nobody
                                         ELSE [adding[w] EXCEPT !.to = rest, !.wrote = FALSE]]
      /\ UNCHANGED <<mode, go_on, upc, toAdd, away, sock, good, inbox, pc, phase, i,
                     peers, dropped, visited>>
  BY DEF PushPublish, Published, user, sockets, loops
<1>2. /\ head \in Loop /\ who \in Peer /\ rest \in Seq(Loop) /\ Once(rest)
      /\ ToSet(adding[w].to) = ToSet(rest) \cup {head} /\ head \notin ToSet(rest)
  BY <1>1, Pushing
<1>3. slot[head] = who
  BY <1>1 DEF Threads
<1>4. /\ adding \in [Worker -> [peer : Peer \cup {Null}, to : Seq(Loop), wrote : BOOLEAN]]
      /\ slot \in [Loop -> Peer \cup {Null}] /\ queue \in [Loop -> Seq(Peer)]
  BY DEF Types, TypeOK
<1>5. /\ adding' \in [Worker -> [peer : Peer \cup {Null}, to : Seq(Loop), wrote : BOOLEAN]]
      /\ \A v \in Worker : v # w => adding'[v] = adding[v]
      /\ adding'[w].to = rest /\ ~adding'[w].wrote
      /\ rest # <<>> => adding'[w].peer = who
  <2>1. CASE rest = <<>>
    <3>1. adding' = [adding EXCEPT ![w] = Nobody]
      BY <1>1, <2>1
    <3>2. /\ Nobody \in [peer : Peer \cup {Null}, to : Seq(Loop), wrote : BOOLEAN]
          /\ Nobody.to = <<>> /\ ~Nobody.wrote
      BY <1>2, <2>1 DEF Nobody
    <3> QED  BY <1>4, <2>1, <3>1, <3>2
  <2>2. CASE rest # <<>>
    <3>1. adding' = [adding EXCEPT ![w] = [adding[w] EXCEPT !.to = rest, !.wrote = FALSE]]
      BY <1>1, <2>2
    <3> QED  BY <1>2, <1>4, <2>2, <3>1
  <2> QED  BY <2>1, <2>2
<1>6. /\ \A u \in Thread : At(u)' = At(u) /\ LoopsOf(u)' = LoopsOf(u)
      /\ Started' = Started
  BY <1>1 DEF At, LoopsOf, Started
<1>7. Busy(w) /\ \A v \in Worker : v # w => ~Busy(v) /\ adding[v].to = <<>>
  BY <1>1, OthersIdle DEF Busy
<1>8. \A v \in Worker : (Idle(v)' <=> adding'[v].to = <<>>) /\ (Busy(v)' => Busy(v))
  BY <1>1, <1>5, <1>7 DEF Idle, Busy
<1>9. /\ queue' \in [Loop -> Seq(Peer)] /\ queue'[head] = Append(queue[head], who)
      /\ \A l \in Loop : l # head => queue'[l] = queue[l]
  BY <1>1, <1>2, <1>3, <1>4
<1>10. Types'
  <2>1. slot' \in [Loop -> Peer \cup {Null}]
    BY <1>1, <1>2, <1>4
  <2>2. queue' \in [Loop -> Seq(Peer \cup {Null})]
    BY <1>9
  <2>3. \A v \in DOMAIN adding' : /\ adding'[v].peer \in Peer \cup {Null}
                                  /\ adding'[v].to \in Seq(Loop) /\ adding'[v].wrote \in BOOLEAN
    BY <1>5
  <2> QED  BY <1>1, <1>5, <1>9, <2>1, <2>2, <2>3 DEF Types, TypeOK
<1>11. Threads'
  <2>1. /\ \A u \in Thread : phase'[u] <= Len(LoopsOf(u)')
        /\ \A u \in Thread : pc'[u] # "done" => u \in Started'
        /\ \A u \in Thread : pc'[u] \in {"inbox", "add"} => At(u)' = "accept"
    BY <1>1, <1>6 DEF Threads
  <2>2. \A u \in Thread : pc'[u] = "inbox" => adding'[u].peer \in Conn \ away' /\ i'[u] > 0
    <3>1. w \in Thread => pc[w] = "add"
      BY <1>1 DEF Threads
    <3> QED  BY <1>1, <1>5, <3>1 DEF Threads, Worker
  <2>3. \A u \in Thread : ~Idle(u)' => pc'[u] = "add"
    BY <1>1, <1>5, <1>7, <1>8 DEF Threads, Worker
  <2>4. \A u, v \in Worker : Busy(u)' /\ Busy(v)' => u = v
    BY <1>7, <1>8
  <2>5. \A v \in Worker : ~Idle(v)' => Once(adding'[v].to) /\ adding'[v].peer \in Peer
    BY <1>2, <1>5, <1>7, <1>8
  <2>6. \A v \in Worker : ~adding'[v].wrote
    BY <1>5, <1>7 DEF Threads, Busy
  <2> QED  BY <2>1, <2>2, <2>3, <2>4, <2>5, <2>6 DEF Threads
<1>12. Kept'
  <2> SUFFICES ASSUME NEW l \in Loop
               PROVE  Accounted(Asked(l)', OnItsWay(l)', queue'[l], peers'[l], dropped'[l])
    BY DEF Kept
  <2>1. Accounted(Asked(l), OnItsWay(l), queue[l], peers[l], dropped[l])
    BY DEF Kept
  <2>2. Asked(l)' = Asked(l)
    <3>1. \A u \in Thread : pc[u] = "inbox" => adding'[u].peer = adding[u].peer
      BY <1>1, <1>5 DEF Threads, Worker
    <3> QED  BY <1>1, <3>1 DEF Asked
  <2>3. OnItsWay(l) = IF l \in ToSet(adding[w].to) THEN {who} ELSE {}
    BY <1>7, OthersIdle
  <2>4. OnItsWay(l)' = IF l \in ToSet(rest) THEN {adding'[w].peer} ELSE {}
    <3>1. DOMAIN adding' = Worker /\ \A v \in Worker : v # w => adding'[v].to = <<>>
      BY <1>5, <1>7
    <3>2. {adding'[v].peer : v \in {u \in DOMAIN adding' : l \in ToSet(adding'[u].to)}}
            = IF l \in ToSet(adding'[w].to) THEN {adding'[w].peer} ELSE {}
      BY <3>1, WayOfOne
    <3> QED  BY <1>5, <3>2 DEF OnItsWay
  <2>5. CASE l = head
    <3>1. OnItsWay(l) = {who} /\ OnItsWay(l)' = {}
      BY <1>2, <2>3, <2>4, <2>5
    <3>2. Accounted(Asked(l), {}, Append(queue[l], who), peers[l], dropped[l])
      <4>1. queue[l] \in Seq(Peer) /\ Accounted(Asked(l), {who}, queue[l], peers[l], dropped[l])
        BY <1>4, <2>1, <3>1
      <4>2. \A S, asked, p, gone : \A q \in Seq(S), x \in S :
              Accounted(asked, {x}, q, p, gone) => Accounted(asked, {}, Append(q, x), p, gone)
        BY AccountedPublish
      <4> QED  BY <1>2, <4>1, <4>2
    <3> QED  BY <1>1, <1>9, <2>2, <2>5, <3>1, <3>2
  <2>6. CASE l # head
    <3>1. ToSet(<<>>) = {}
      BY DEF ToSet
    <3>2. OnItsWay(l)' = OnItsWay(l)
      BY <1>2, <1>5, <2>3, <2>4, <2>6, <3>1
    <3> QED  BY <1>1, <1>9, <2>1, <2>2, <2>6, <3>2
  <2> QED  BY <2>5, <2>6
<1>13. Walks'
  BY <1>1, <1>6 DEF Walks, InWalk
<1> QED  BY <1>10, <1>11, <1>12, <1>13

LEMMA EndAddKeeps ==
  ASSUME Main, NEW t \in Thread, EndAdd(t)
  PROVE  Main'
<1> USE DEF Main
<1>1. /\ pc[t] = "add" /\ Idle(t) /\ pc' = [pc EXCEPT ![t] = "walk"]
      /\ UNCHANGED <<mode, go_on, upc, toAdd, away, sock, good, adding, slot, queue, inbox,
                     phase, i, peers, dropped, visited>>
  BY DEF EndAdd, user, sockets, arrivals
<1>2. /\ pc \in [Thread -> {"take", "walk", "inbox", "add", "done"}]
      /\ pc'[t] = "walk" /\ \A u \in Thread : u # t => pc'[u] = pc[u]
  BY <1>1 DEF Types, TypeOK
<1>3. /\ \A u \in Thread : At(u)' = At(u) /\ LoopsOf(u)' = LoopsOf(u)
      /\ Started' = Started
      /\ \A w \in Worker : Idle(w)' = Idle(w)
  BY <1>1 DEF At, LoopsOf, Started, Idle
<1>4. Types'
  <2>1. pc' \in [Thread -> {"take", "walk", "inbox", "add", "done"}]
    BY <1>1, <1>2
  <2> QED  BY <1>1, <2>1 DEF Types, TypeOK
<1>5. Threads'
  <2>1. /\ \A u \in Thread : phase'[u] <= Len(LoopsOf(u)')
        /\ \A u \in Thread : pc'[u] # "done" => u \in Started'
        /\ \A u \in Thread : pc'[u] \in {"inbox", "add"} => At(u)' = "accept"
    BY <1>1, <1>2, <1>3 DEF Threads
  <2>2. \A u \in Thread : pc'[u] = "inbox" => adding'[u].peer \in Conn \ away' /\ i'[u] > 0
    BY <1>1, <1>2 DEF Threads
  <2>3. \A u \in Thread : ~Idle(u)' => pc'[u] = "add"
    BY <1>1, <1>2, <1>3 DEF Threads, Worker
  <2>4. \A u, v \in Worker : Busy(u)' /\ Busy(v)' => u = v
    <3>1. \A u \in Worker : Busy(u)' => Busy(u)
      BY <1>2, <1>3 DEF Busy
    <3> QED  BY <3>1 DEF Threads
  <2>5. \A v \in Worker : ~Idle(v)' => Once(adding'[v].to) /\ adding'[v].peer \in Peer
    BY <1>1, <1>3 DEF Threads
  <2>6. \A v \in Worker : adding'[v].wrote =>
          ~Idle(v)' /\ slot'[Head(adding'[v].to)] = adding'[v].peer
    BY <1>1, <1>3 DEF Threads
  <2> QED  BY <2>1, <2>2, <2>3, <2>4, <2>5, <2>6 DEF Threads
<1>6. Kept'
  <2>1. \A l \in Loop : Asked(l)' = Asked(l)
    <3>1. \A u \in Thread : pc'[u] = "inbox" <=> pc[u] = "inbox"
      BY <1>1, <1>2
    <3> QED  BY <1>1, <3>1 DEF Asked
  <2>2. \A l \in Loop : OnItsWay(l)' = OnItsWay(l)
    BY <1>1 DEF OnItsWay
  <2> QED  BY <1>1, <2>1, <2>2 DEF Kept
<1>7. Walks'
  <2>1. \A u \in Thread : (InWalk(u)' => InWalk(u)) /\ (pc'[u] = "take" <=> pc[u] = "take")
    BY <1>1, <1>2 DEF InWalk
  <2>2. Started \subseteq Thread
    BY DEF Started, Thread
  <2>3. \A u \in Thread : InWalk(u)' =>
          /\ i'[u] <= Len(peers'[At(u)])
          /\ \A j \in 1 .. Len(peers'[At(u)]) : peers'[At(u)][j] \in visited'[At(u)] <=> j > i'[u]
    BY <1>1, <2>1 DEF Walks
  <2>4. \A u \in Started : \A n \in 1 .. Len(LoopsOf(u)) :
          (n # phase'[u] \/ pc'[u] = "take") => visited'[LoopsOf(u)[n]] = {}
    BY <1>1, <2>1, <2>2 DEF Walks
  <2> QED  BY <1>3, <2>2, <2>3, <2>4 DEF Walks
<1> QED  BY <1>4, <1>5, <1>6, <1>7

(* A connection is accepted while nobody adds a peer.                      *)
LEMMA AcceptConnKeeps ==
  ASSUME Main, Overlap = FALSE, NEW t \in Thread, NEW c \in Conn, AcceptConn(t, c)
  PROVE  Main'
<1> USE DEF Main
<1>1. /\ pc[t] = "walk" /\ i[t] > 0 /\ At(t) = "accept" /\ c \in away /\ Idle("user")
      /\ away' = away \ {c} /\ adding' = [adding EXCEPT ![t].peer = c]
      /\ pc' = [pc EXCEPT ![t] = "inbox"]
      /\ UNCHANGED <<mode, go_on, upc, toAdd, sock, good, slot, queue, inbox, phase, i,
                     peers, dropped, visited>>
  BY DEF AcceptConn, Walking, user
<1>2. /\ pc \in [Thread -> {"take", "walk", "inbox", "add", "done"}]
      /\ pc'[t] = "inbox" /\ \A u \in Thread : u # t => pc'[u] = pc[u]
      /\ t \in Worker /\ c \in Peer
  BY <1>1 DEF Types, TypeOK, Worker, Peer
<1>3. adding \in [Worker -> [peer : Peer \cup {Null}, to : Seq(Loop), wrote : BOOLEAN]]
  BY DEF Types
<1>4. /\ adding' \in [Worker -> [peer : Peer \cup {Null}, to : Seq(Loop), wrote : BOOLEAN]]
      /\ \A v \in Worker : adding'[v].to = adding[v].to /\ adding'[v].wrote = adding[v].wrote
      /\ adding'[t].peer = c /\ \A v \in Worker : v # t => adding'[v].peer = adding[v].peer
  BY <1>1, <1>2, <1>3
<1>5. /\ \A u \in Thread : At(u)' = At(u) /\ LoopsOf(u)' = LoopsOf(u)
      /\ Started' = Started
      /\ \A w \in Worker : Idle(w)' = Idle(w)
  BY <1>1, <1>4 DEF At, LoopsOf, Started, Idle
<1>6. \A u \in Thread : u # t => pc[u] \notin {"inbox", "add"}
  <2> SUFFICES ASSUME NEW u \in Thread, pc[u] \in {"inbox", "add"} PROVE u = t
    OBVIOUS
  <2>1. At(u) = "accept"
    BY DEF Threads
  <2> QED  BY <1>1, <2>1, OneThread
<1>7. \A v \in Worker : adding[v].to = <<>> /\ ~Busy(v)
  <2>1. \A u \in Thread : Idle(u) /\ pc[u] # "inbox"
    BY <1>1, <1>6 DEF Threads
  <2> QED  BY <1>1, <2>1 DEF Idle, Busy, Worker
<1>8. Types'
  <2>1. pc' \in [Thread -> {"take", "walk", "inbox", "add", "done"}]
    BY <1>1, <1>2
  <2>2. away' \subseteq Conn
    BY <1>1 DEF Types, TypeOK
  <2>3. \A v \in DOMAIN adding' : /\ adding'[v].peer \in Peer \cup {Null}
                                  /\ adding'[v].to \in Seq(Loop) /\ adding'[v].wrote \in BOOLEAN
    BY <1>4
  <2> QED  BY <1>1, <1>4, <2>1, <2>2, <2>3 DEF Types, TypeOK
<1>9. Threads'
  <2>1. /\ \A u \in Thread : phase'[u] <= Len(LoopsOf(u)')
        /\ \A u \in Thread : pc'[u] # "done" => u \in Started'
        /\ \A u \in Thread : pc'[u] \in {"inbox", "add"} => At(u)' = "accept"
    BY <1>1, <1>2, <1>5 DEF Threads
  <2>2. \A u \in Thread : pc'[u] = "inbox" => adding'[u].peer \in Conn \ away' /\ i'[u] > 0
    BY <1>1, <1>2, <1>4, <1>6
  <2>3. \A u \in Worker : Idle(u)' /\ (Busy(u)' => u = t)
    BY <1>2, <1>5, <1>7 DEF Busy, Idle
  <2>4. \A v \in Worker : ~adding'[v].wrote
    BY <1>4, <1>7 DEF Threads, Busy
  <2> QED  BY <2>1, <2>2, <2>3, <2>4 DEF Threads, Worker
<1>10. Kept'
  <2>1. \A l \in Loop : Asked(l)' = Asked(l)
    <3>1. \A u \in Thread : pc[u] # "inbox" /\ (pc'[u] = "inbox" <=> u = t)
      BY <1>1, <1>2, <1>6
    <3>2. {adding[u].peer : u \in {s \in Thread : pc[s] = "inbox"}} = {}
      BY <3>1
    <3>3. {adding'[u].peer : u \in {s \in Thread : pc'[s] = "inbox"}} = {c}
      BY <1>4, <3>1
    <3> QED  BY <1>1, <3>2, <3>3 DEF Asked
  <2>2. \A l \in Loop : OnItsWay(l)' = {}
    <3>1. \A v \in Worker : ToSet(adding'[v].to) = {}
      BY <1>4, <1>7 DEF ToSet
    <3> QED  BY <1>4, <3>1 DEF OnItsWay
  <2>3. \A l \in Loop : OnItsWay(l) = {}
    BY <1>7, AllIdle
  <2> QED  BY <1>1, <2>1, <2>2, <2>3 DEF Kept
<1>11. Walks'
  <2>1. \A u \in Thread : (InWalk(u)' => InWalk(u)) /\ (pc'[u] = "take" <=> pc[u] = "take")
    BY <1>1, <1>2 DEF InWalk
  <2>2. Started \subseteq Thread
    BY DEF Started, Thread
  <2>3. \A u \in Thread : InWalk(u)' =>
          /\ i'[u] <= Len(peers'[At(u)])
          /\ \A j \in 1 .. Len(peers'[At(u)]) : peers'[At(u)][j] \in visited'[At(u)] <=> j > i'[u]
    BY <1>1, <2>1 DEF Walks
  <2>4. \A u \in Started : \A n \in 1 .. Len(LoopsOf(u)) :
          (n # phase'[u] \/ pc'[u] = "take") => visited'[LoopsOf(u)[n]] = {}
    BY <1>1, <2>1, <2>2 DEF Walks
  <2> QED  BY <1>5, <2>2, <2>3, <2>4 DEF Walks
<1> QED  BY <1>8, <1>9, <1>10, <1>11

(* The rings a peer starts out for.                                        *)
LEMMA RingsWay ==
  ASSUME NEW p \in Peer
  PROVE  /\ Rings(p) \in Seq(Loop) /\ Once(Rings(p))
         /\ \A l \in Loop : l \in ToSet(Rings(p)) <=> l \in DoesOf(p)
<1>1. Rings(p) \in Seq(Loop) /\ Once(Rings(p))
  BY RingsOf DEF Once
<1>2. ASSUME NEW l \in Loop PROVE l \in ToSet(Rings(p)) <=> l \in DoesOf(p)
  <2>1. l \in ToSet(Rings(p)) <=> \E n \in 1 .. Len(Rings(p)) : Rings(p)[n] = l
    BY <1>1, InToSet
  <2> QED  BY <2>1, RingsOf
<1> QED  BY <1>1, <1>2

LEMMA PushAcceptedKeeps ==
  ASSUME Main, NEW t \in Thread, PushAccepted(t)
  PROVE  Main'
<1> USE DEF Main
<1> DEFINE c == adding[t].peer
           b == ~good[Here(t)]
<1>1. /\ pc[t] = "inbox" /\ inbox < AcceptCap /\ inbox' = inbox + 1
      /\ adding' = [adding EXCEPT ![t].to = Rings(c)] /\ Step(t, b)
      /\ pc' = [pc EXCEPT ![t] = "add"]
      /\ UNCHANGED <<mode, go_on, upc, toAdd, away, sock, good, slot, queue, phase>>
  BY DEF PushAccepted, user, sockets
<1>2. /\ pc \in [Thread -> {"take", "walk", "inbox", "add", "done"}]
      /\ pc'[t] = "add" /\ \A u \in Thread : u # t => pc'[u] = pc[u]
      /\ t \in Worker
  BY <1>1 DEF Types, TypeOK, Worker
<1>3. /\ adding \in [Worker -> [peer : Peer \cup {Null}, to : Seq(Loop), wrote : BOOLEAN]]
      /\ c \in Conn \ away /\ c \in Peer /\ i[t] > 0 /\ InWalk(t) /\ b \in BOOLEAN
      /\ At(t) = "accept"
  BY <1>1 DEF Types, Threads, Peer, InWalk
<1>4. Rings(c) \in Seq(Loop) /\ Once(Rings(c))
  BY <1>3, RingsWay
<1>5. /\ adding' \in [Worker -> [peer : Peer \cup {Null}, to : Seq(Loop), wrote : BOOLEAN]]
      /\ \A v \in Worker : v # t => adding'[v] = adding[v]
      /\ adding'[t].to = Rings(c) /\ adding'[t].peer = c /\ adding'[t].wrote = adding[t].wrote
  BY <1>1, <1>2, <1>3, <1>4
<1>6. /\ \A u \in Thread : At(u)' = At(u) /\ LoopsOf(u)' = LoopsOf(u)
      /\ Started' = Started
  BY <1>1 DEF At, LoopsOf, Started
<1>7. /\ \A v \in Worker : v # t => ~Busy(v) /\ adding[v].to = <<>>
      /\ adding[t].to = <<>>
  <2>1. Busy(t)
    BY <1>1 DEF Busy
  <2>2. Idle(t)
    BY <1>1 DEF Threads
  <2> QED  BY <1>2, <2>1, <2>2, OthersIdle DEF Idle
<1>8. /\ i' \in [Thread -> Nat] /\ visited' \in [Loop -> SUBSET Peer]
      /\ peers' \in [Loop -> Seq(Peer)] /\ dropped' \in [Loop -> SUBSET Peer]
  BY <1>1, <1>3, StepTypes
<1>9. Types'
  <2>1. pc' \in [Thread -> {"take", "walk", "inbox", "add", "done"}]
    BY <1>1, <1>2
  <2>2. inbox' \in 0 .. AcceptCap
    BY <1>1, ModeAssumption DEF Types, TypeOK
  <2>3. \A v \in DOMAIN adding' : /\ adding'[v].peer \in Peer \cup {Null}
                                  /\ adding'[v].to \in Seq(Loop) /\ adding'[v].wrote \in BOOLEAN
    BY <1>5
  <2> QED  BY <1>1, <1>5, <1>8, <2>1, <2>2, <2>3 DEF Types, TypeOK
<1>10. Threads'
  <2>1. /\ \A u \in Thread : phase'[u] <= Len(LoopsOf(u)')
        /\ \A u \in Thread : pc'[u] # "done" => u \in Started'
        /\ \A u \in Thread : pc'[u] \in {"inbox", "add"} => At(u)' = "accept"
    BY <1>1, <1>2, <1>3, <1>6 DEF Threads
  <2>2. \A u \in Worker : u # t => ~Busy(u)' /\ Idle(u)'
    BY <1>2, <1>5, <1>7 DEF Busy, Idle
  <2>3. \A u \in Thread : pc'[u] # "inbox"
    BY <1>2, <2>2 DEF Busy, Worker
  <2>4. \A u \in Thread : ~Idle(u)' => pc'[u] = "add"
    BY <1>2, <2>2 DEF Worker
  <2>5. \A v \in Worker : ~Idle(v)' => Once(adding'[v].to) /\ adding'[v].peer \in Peer
    BY <1>3, <1>4, <1>5, <2>2
  <2>6. \A v \in Worker : ~adding'[v].wrote
    <3>1. \A v \in Worker : ~adding[v].wrote
      BY <1>7 DEF Threads, Idle
    <3> QED  BY <1>5, <3>1
  <2> QED  BY <2>1, <2>2, <2>3, <2>4, <2>5, <2>6 DEF Threads
<1>11. Kept'
  <2> SUFFICES ASSUME NEW l \in Loop
               PROVE  Accounted(Asked(l)', OnItsWay(l)', queue'[l], peers'[l], dropped'[l])
    BY DEF Kept
  <2>1. Asked(l)' = (IF l \in DoesOf(c) THEN Asked(l) \cup {c} ELSE Asked(l)) /\ c \notin Asked(l)
    <3>1. \A u \in Thread : pc'[u] # "inbox" /\ (pc[u] = "inbox" <=> u = t)
      BY <1>1, <1>2, <1>7 DEF Busy, Worker
    <3>2. {adding[u].peer : u \in {s \in Thread : pc[s] = "inbox"}} = {c}
      BY <3>1
    <3>3. {adding'[u].peer : u \in {s \in Thread : pc'[s] = "inbox"}} = {}
      BY <3>1
    <3>4. c \notin toAdd /\ c \notin away
      BY <1>3, PeerAssumption DEF Types, TypeOK
    <3> QED  BY <1>1, <1>3, <3>2, <3>3, <3>4 DEF Asked
  <2>2. OnItsWay(l) = {}
    BY <1>7, AllIdle
  <2>3. Accounted(Asked(l), {}, queue[l], peers[l], dropped[l])
    BY <2>2 DEF Kept
  <2>4. OnItsWay(l)' = IF l \in DoesOf(c) THEN {c} ELSE {}
    <3>1. DOMAIN adding' = Worker /\ \A v \in Worker : v # t => adding'[v].to = <<>>
      BY <1>5, <1>7
    <3>2. {adding'[v].peer : v \in {u \in DOMAIN adding' : l \in ToSet(adding'[u].to)}}
            = IF l \in DoesOf(c) THEN {c} ELSE {}
      <4>1. {adding'[v].peer : v \in {u \in DOMAIN adding' : l \in ToSet(adding'[u].to)}}
              = IF l \in ToSet(adding'[t].to) THEN {adding'[t].peer} ELSE {}
        BY <1>2, <3>1, WayOfOne
      <4> QED  BY <1>3, <1>5, <4>1, RingsWay
    <3> QED  BY <3>2 DEF OnItsWay
  <2>5. Accounted(Asked(l)', OnItsWay(l)', queue[l], peers[l], dropped[l])
    BY <2>1, <2>3, <2>4, AccountedAdd
  <2> QED  BY <1>1, <1>3, <2>5, StepKept
<1>12. Walks'
  <2>1. \A u \in Thread : InWalk(u)' = InWalk(u) /\ (pc'[u] = "take" <=> pc[u] = "take")
    BY <1>1, <1>2 DEF InWalk
  <2> QED  BY <1>1, <1>3, <2>1, StepWalks
<1> QED  BY <1>9, <1>10, <1>11, <1>12

LEMMA UserAddKeeps ==
  ASSUME Main, Overlap = FALSE, NEW p \in UserPeer, UserAdd(p)
  PROVE  Main'
<1> USE DEF Main
<1>1. /\ p \in toAdd /\ Idle("user") /\ \A t \in Thread : pc[t] # "inbox" /\ Idle(t)
      /\ toAdd' = toAdd \ {p}
      /\ adding' = [adding EXCEPT !["user"] = [peer |-> p, to |-> Rings(p), wrote |-> FALSE]]
      /\ UNCHANGED <<mode, go_on, upc, away, sock, good, slot, queue, inbox, pc, phase, i,
                     peers, dropped, visited>>
  BY DEF UserAdd, sockets, loops
<1>2. "user" \in Worker /\ p \in Peer /\ Rings(p) \in Seq(Loop) /\ Once(Rings(p))
  BY RingsWay DEF Worker, Peer
<1>3. adding \in [Worker -> [peer : Peer \cup {Null}, to : Seq(Loop), wrote : BOOLEAN]]
  BY DEF Types
<1>4. /\ adding' \in [Worker -> [peer : Peer \cup {Null}, to : Seq(Loop), wrote : BOOLEAN]]
      /\ \A v \in Worker : v # "user" => adding'[v] = adding[v]
      /\ adding'["user"].to = Rings(p) /\ adding'["user"].peer = p /\ ~adding'["user"].wrote
  BY <1>1, <1>2, <1>3
<1>5. /\ \A u \in Thread : At(u)' = At(u) /\ LoopsOf(u)' = LoopsOf(u)
      /\ Started' = Started
  BY <1>1 DEF At, LoopsOf, Started
<1>6. \A v \in Worker : adding[v].to = <<>> /\ ~Busy(v)
  BY <1>1 DEF Idle, Busy, Worker
<1>7. \A v \in Worker : v # "user" => ~Busy(v)' /\ Idle(v)'
  BY <1>1, <1>4, <1>6 DEF Busy, Idle
<1>8. Types'
  <2>1. toAdd' \subseteq UserPeer
    BY <1>1 DEF Types, TypeOK
  <2>2. \A v \in DOMAIN adding' : /\ adding'[v].peer \in Peer \cup {Null}
                                  /\ adding'[v].to \in Seq(Loop) /\ adding'[v].wrote \in BOOLEAN
    BY <1>4
  <2> QED  BY <1>1, <1>4, <2>1, <2>2 DEF Types, TypeOK
<1>9. Threads'
  <2>1. /\ \A u \in Thread : phase'[u] <= Len(LoopsOf(u)')
        /\ \A u \in Thread : pc'[u] # "done" => u \in Started'
        /\ \A u \in Thread : pc'[u] \in {"inbox", "add"} => At(u)' = "accept"
        /\ \A u \in Thread : pc'[u] # "inbox"
    BY <1>1, <1>5 DEF Threads
  <2>2. \A u \in Thread : Idle(u)'
    BY <1>7 DEF Thread, Worker
  <2>3. \A v \in Worker : ~Idle(v)' => Once(adding'[v].to) /\ adding'[v].peer \in Peer
    BY <1>2, <1>4, <1>7
  <2>4. \A v \in Worker : ~adding'[v].wrote
    BY <1>4, <1>6 DEF Threads, Idle
  <2> QED  BY <1>7, <2>1, <2>2, <2>3, <2>4 DEF Threads
<1>10. Kept'
  <2> SUFFICES ASSUME NEW l \in Loop
               PROVE  Accounted(Asked(l)', OnItsWay(l)', queue[l], peers[l], dropped[l])
    BY <1>1 DEF Kept
  <2>1. Asked(l)' = (IF l \in DoesOf(p) THEN Asked(l) \cup {p} ELSE Asked(l)) /\ p \notin Asked(l)
    <3>1. p \notin away
      BY PeerAssumption DEF Types, TypeOK
    <3>2. /\ {adding[u].peer : u \in {s \in Thread : pc[s] = "inbox"}} = {}
          /\ {adding'[u].peer : u \in {s \in Thread : pc'[s] = "inbox"}} = {}
      BY <1>1
    <3> QED  BY <1>1, <1>2, <3>1, <3>2 DEF Asked
  <2>2. Accounted(Asked(l), {}, queue[l], peers[l], dropped[l])
    <3>1. OnItsWay(l) = {}
      BY <1>6, AllIdle
    <3> QED  BY <3>1 DEF Kept
  <2>3. DOMAIN adding' = Worker /\ \A v \in Worker : v # "user" => adding'[v].to = <<>>
    BY <1>4, <1>6
  <2>4. {adding'[v].peer : v \in {u \in DOMAIN adding' : l \in ToSet(adding'[u].to)}}
          = IF l \in DoesOf(p) THEN {p} ELSE {}
    <3>1. PICK w : w = "user"
      OBVIOUS
    <3>2. w \in Worker /\ \A v \in Worker : v # w => adding'[v].to = <<>>
      BY <1>2, <2>3, <3>1
    <3>3. DOMAIN adding' = Worker
      BY <2>3
    <3>4. {adding'[v].peer : v \in {u \in DOMAIN adding' : l \in ToSet(adding'[u].to)}}
            = IF l \in ToSet(adding'[w].to) THEN {adding'[w].peer} ELSE {}
      BY <3>2, <3>3, WayOfOne
    <3> QED  BY <1>2, <1>4, <3>1, <3>4, RingsWay
  <2>5. OnItsWay(l)' = IF l \in DoesOf(p) THEN {p} ELSE {}
    BY <2>4 DEF OnItsWay
  <2> QED  BY <2>1, <2>2, <2>5, AccountedAdd
<1>11. Walks'
  BY <1>1, <1>5 DEF Walks, InWalk
<1> QED  BY <1>8, <1>9, <1>10, <1>11

LEMMA TakeNewKeeps ==
  ASSUME Main, NEW t \in Thread, TakeNew(t)
  PROVE  Main'
<1> USE DEF Main
<1> DEFINE here == At(t)
<1>1. /\ pc[t] = "take" /\ queue[here] # <<>>
      /\ peers' = [peers EXCEPT ![here] = Append(peers[here], Head(queue[here]))]
      /\ queue' = [queue EXCEPT ![here] = Tail(queue[here])]
      /\ UNCHANGED <<mode, go_on, upc, toAdd, away, sock, good, adding, slot, inbox, pc, phase, i,
                     dropped, visited>>
  BY DEF TakeNew, user, sockets
<1>2. here \in Loop /\ queue[here] \in Seq(Peer) /\ peers[here] \in Seq(Peer)
  BY Typed
<1>3. queue \in [Loop -> Seq(Peer)] /\ peers \in [Loop -> Seq(Peer)]
  BY DEF Types, TypeOK
<1>4. /\ queue' \in [Loop -> Seq(Peer)] /\ peers' \in [Loop -> Seq(Peer)]
      /\ \A l \in Loop : l # here => queue'[l] = queue[l] /\ peers'[l] = peers[l]
      /\ queue'[here] = Tail(queue[here])
      /\ peers'[here] = Append(peers[here], Head(queue[here]))
  <2>1. Head(queue[here]) \in Peer /\ Tail(queue[here]) \in Seq(Peer)
    BY <1>1, <1>2
  <2>2. Append(peers[here], Head(queue[here])) \in Seq(Peer)
    BY <1>2, <2>1
  <2> QED  BY <1>1, <1>2, <1>3, <2>1, <2>2
<1>5. /\ \A u \in Thread : At(u)' = At(u) /\ LoopsOf(u)' = LoopsOf(u)
      /\ Started' = Started
  BY <1>1 DEF At, LoopsOf, Started
<1>6. Types'
  <2>1. queue' \in [Loop -> Seq(Peer \cup {Null})]
    BY <1>4
  <2> QED  BY <1>1, <1>4, <2>1 DEF Types, TypeOK
<1>7. Threads'
  <2>1. \A u \in Thread : phase[u] <= Len(LoopsOf(u))
    BY DEF Threads
  <2> QED  BY <1>1, <2>1, SameWorkers
<1>8. Kept'
  <2> SUFFICES ASSUME NEW l \in Loop
               PROVE  Accounted(Asked(l)', OnItsWay(l)', queue'[l], peers'[l], dropped'[l])
    BY DEF Kept
  <2>1. Accounted(Asked(l), OnItsWay(l), queue[l], peers[l], dropped[l])
    BY DEF Kept
  <2>2. Asked(l)' = Asked(l) /\ OnItsWay(l)' = OnItsWay(l)
    BY <1>1, SamePlaces
  <2>3. CASE l = here
    <3>1. Accounted(Asked(l), OnItsWay(l), Tail(queue[here]),
                    Append(peers[here], Head(queue[here])), dropped[l])
      BY <1>1, <1>2, <2>1, <2>3, AccountedTake
    <3> QED  BY <1>1, <1>4, <2>2, <2>3, <3>1
  <2>4. CASE l # here
    BY <1>1, <1>4, <2>1, <2>2, <2>4
  <2> QED  BY <2>3, <2>4
<1>9. Walks'
  <2>1. ASSUME NEW u \in Thread, InWalk(u) PROVE peers'[At(u)] = peers[At(u)]
    <3>1. pc[u] # "done" /\ pc[u] # "take" /\ At(u) \in Loop
      BY <2>1, Typed DEF InWalk
    <3>2. At(u) # here
      BY <1>1, <3>1, OneThread
    <3> QED  BY <1>4, <3>1, <3>2
  <2>2. \A u \in Thread : InWalk(u)' = InWalk(u)
    BY <1>1 DEF InWalk
  <2>3. ASSUME NEW u \in Thread, InWalk(u)
        PROVE  /\ i'[u] <= Len(peers'[At(u)])
               /\ \A j \in 1 .. Len(peers'[At(u)]) : peers'[At(u)][j] \in visited'[At(u)] <=> j > i'[u]
    BY <1>1, <2>1, <2>3 DEF Walks
  <2>4. \A u \in Started : \A n \in 1 .. Len(LoopsOf(u)) :
          (n # phase'[u] \/ pc'[u] = "take") => visited'[LoopsOf(u)[n]] = {}
    <3>1. \A u \in Started : u \in Thread
      BY DEF Started, Thread
    <3> QED  BY <1>1, <3>1 DEF Walks
  <2> QED  BY <1>5, <2>2, <2>3, <2>4 DEF Walks
<1> QED  BY <1>6, <1>7, <1>8, <1>9

LEMMA BeginWalkKeeps ==
  ASSUME Main, NEW t \in Thread, BeginWalk(t)
  PROVE  Main'
<1> USE DEF Main
<1>1. /\ pc[t] = "take" /\ pc' = [pc EXCEPT ![t] = "walk"]
      /\ i' = [i EXCEPT ![t] = Len(peers[At(t)])]
      /\ UNCHANGED <<mode, go_on, upc, toAdd, away, sock, good, adding, slot, queue, inbox,
                     phase, peers, dropped, visited>>
  BY DEF BeginWalk, user, sockets, arrivals
<1>2. /\ pc \in [Thread -> {"take", "walk", "inbox", "add", "done"}] /\ i \in [Thread -> Nat]
      /\ peers[At(t)] \in Seq(Peer)
  BY Typed DEF Types, TypeOK
<1>3. /\ pc'[t] = "walk" /\ i'[t] = Len(peers[At(t)]) /\ Len(peers[At(t)]) \in Nat
      /\ \A u \in Thread : u # t => pc'[u] = pc[u] /\ i'[u] = i[u]
  BY <1>1, <1>2
<1>4. /\ \A u \in Thread : At(u)' = At(u) /\ LoopsOf(u)' = LoopsOf(u)
      /\ Started' = Started
  BY <1>1 DEF At, LoopsOf, Started
<1>5. Types'
  <2>1. pc' \in [Thread -> {"take", "walk", "inbox", "add", "done"}] /\ i' \in [Thread -> Nat]
    BY <1>1, <1>2, <1>3
  <2> QED  BY <1>1, <2>1 DEF Types, TypeOK
<1>6. Threads'
  <2>1. \A u \in Thread : phase[u] <= Len(LoopsOf(u))
    BY DEF Threads
  <2> QED  BY <1>1, <1>3, <2>1, SameWorkers
<1>7. Kept'
  <2>1. \A l \in Loop : Asked(l)' = Asked(l) /\ OnItsWay(l)' = OnItsWay(l)
    BY <1>1, <1>3, SamePlaces
  <2> QED  BY <1>1, <2>1 DEF Kept
<1>8. Walks'
  <2>1. visited[At(t)] = {}
    <3>1. t \in Started /\ phase[t] \in 1 .. Len(LoopsOf(t))
      BY <1>1, Typed DEF Threads
    <3> QED  BY <1>1, <3>1 DEF Walks, At
  <2>2. ASSUME NEW u \in Thread, InWalk(u)'
        PROVE  /\ i'[u] <= Len(peers'[At(u)])
               /\ \A j \in 1 .. Len(peers'[At(u)]) : peers'[At(u)][j] \in visited'[At(u)] <=> j > i'[u]
    <3>1. CASE u = t
      BY <1>1, <1>3, <2>1, <3>1
    <3>2. CASE u # t
      <4>1. InWalk(u) /\ i'[u] = i[u]
        BY <1>3, <2>2, <3>2 DEF InWalk
      <4> QED  BY <1>1, <4>1 DEF Walks
    <3> QED  BY <3>1, <3>2
  <2>3. \A u \in Started : \A n \in 1 .. Len(LoopsOf(u)) :
          (n # phase'[u] \/ pc'[u] = "take") => visited'[LoopsOf(u)[n]] = {}
    <3>1. \A u \in Started : u \in Thread
      BY DEF Started, Thread
    <3>2. \A u \in Thread : pc'[u] = "take" => pc[u] = "take"
      BY <1>3
    <3> QED  BY <1>1, <3>1, <3>2 DEF Walks
  <2> QED  BY <1>4, <2>2, <2>3 DEF Walks
<1> QED  BY <1>5, <1>6, <1>7, <1>8

LEMMA EndWalkKeeps ==
  ASSUME Main, NEW t \in Thread, EndWalk(t)
  PROVE  Main'
<1> USE DEF Main
<1>1. /\ pc[t] = "walk" /\ visited' = [visited EXCEPT ![At(t)] = {}]
      /\ UNCHANGED <<mode, go_on, upc, toAdd, away, sock, good, adding, slot, queue, inbox,
                     i, peers, dropped>>
  BY DEF EndWalk, user, sockets, arrivals
<1>2. /\ pc \in [Thread -> {"take", "walk", "inbox", "add", "done"}]
      /\ phase \in [Thread -> 1 .. 3] /\ visited \in [Loop -> SUBSET Peer]
      /\ At(t) \in Loop /\ phase[t] \in 1 .. Len(LoopsOf(t)) /\ Len(LoopsOf(t)) \in 1 .. 3
      /\ t \in Started
  BY <1>1, Typed, LoopsType DEF Types, TypeOK, Threads
<1>3. PICK x \in {"take", "done"}, n \in 1 .. 3 :
        /\ pc' = [pc EXCEPT ![t] = x] /\ phase' = [phase EXCEPT ![t] = n]
        /\ n \in 1 .. Len(LoopsOf(t))
  <2>1. CASE phase[t] < Len(LoopsOf(t))
    <3>1. pc' = [pc EXCEPT ![t] = "take"] /\ phase' = [phase EXCEPT ![t] = phase[t] + 1]
      BY <2>1 DEF EndWalk
    <3>2. phase[t] + 1 \in 1 .. Len(LoopsOf(t)) /\ phase[t] + 1 \in 1 .. 3
      <4>1. PICK k \in 1 .. 3, h \in 1 .. 3 : k = Len(LoopsOf(t)) /\ h = phase[t]
        BY <1>2
      <4> QED  BY <1>2, <2>1, <4>1
    <3> QED  BY <3>1, <3>2
  <2>2. CASE ~(phase[t] < Len(LoopsOf(t)))
    <3>1. /\ pc' = [pc EXCEPT ![t] = IF go_on THEN "take" ELSE "done"]
          /\ phase' = [phase EXCEPT ![t] = 1]
      BY <2>2 DEF EndWalk
    <3>2. 1 \in 1 .. Len(LoopsOf(t)) /\ 1 \in 1 .. 3
      BY <1>2
    <3>3. CASE go_on
      BY <3>1, <3>2, <3>3
    <3>4. CASE ~go_on
      BY <3>1, <3>2, <3>4
    <3> QED  BY <3>3, <3>4
  <2> QED  BY <2>1, <2>2
<1>4. /\ pc'[t] = x /\ phase'[t] = n
      /\ \A u \in Thread : u # t => pc'[u] = pc[u] /\ phase'[u] = phase[u]
  BY <1>2, <1>3
<1>5. /\ \A u \in Thread : LoopsOf(u)' = LoopsOf(u)
      /\ \A u \in Thread : u # t => At(u)' = At(u)
      /\ Started' = Started
  BY <1>1, <1>4 DEF At, LoopsOf, Started
<1>6. Types'
  <2>1. /\ pc' \in [Thread -> {"take", "walk", "inbox", "add", "done"}]
        /\ phase' \in [Thread -> 1 .. 3] /\ visited' \in [Loop -> SUBSET Peer]
    BY <1>1, <1>2, <1>3
  <2> QED  BY <1>1, <2>1 DEF Types, TypeOK
<1>7. Threads'
  <2>1. \A u \in Thread : phase'[u] <= Len(LoopsOf(u))
    <3>1. n <= Len(LoopsOf(t))
      BY <1>2, <1>3
    <3> QED  BY <1>4, <3>1 DEF Threads
  <2>2. \A u \in Thread : /\ pc'[u] # "done" => pc[u] # "done"
                          /\ {pc[u], pc'[u]} \cap {"inbox", "add"} # {} =>
                               pc'[u] = pc[u] /\ phase'[u] = phase[u] /\ i'[u] = i[u]
    BY <1>1, <1>3, <1>4
  <2> QED  BY <1>1, <2>1, <2>2, SameWorkers
<1>8. Kept'
  <2>1. \A l \in Loop : Asked(l)' = Asked(l) /\ OnItsWay(l)' = OnItsWay(l)
    BY <1>1, <1>3, <1>4, SamePlaces
  <2> QED  BY <1>1, <2>1 DEF Kept
<1>9. Walks'
  <2>1. visited'[At(t)] = {} /\ \A l \in Loop : l # At(t) => visited'[l] = visited[l]
    BY <1>1, <1>2
  <2>2. ASSUME NEW u \in Thread, InWalk(u)'
        PROVE  /\ i'[u] <= Len(peers'[At(u)'])
               /\ \A j \in 1 .. Len(peers'[At(u)']) : peers'[At(u)'][j] \in visited'[At(u)'] <=> j > i'[u]
    <3>1. u # t /\ InWalk(u)
      BY <1>3, <1>4, <2>2 DEF InWalk
    <3>2. At(u) \in Loop /\ At(u) # At(t) /\ At(u)' = At(u)
      BY <1>1, <1>5, <3>1, Typed, OneThread DEF InWalk
    <3>3. visited'[At(u)] = visited[At(u)]
      BY <2>1, <3>2
    <3> QED  BY <1>1, <3>1, <3>2, <3>3 DEF Walks
  <2>3. ASSUME NEW u \in Started, NEW m \in 1 .. Len(LoopsOf(u)), m # phase'[u] \/ pc'[u] = "take"
        PROVE  visited'[LoopsOf(u)[m]] = {}
    <3>1. u \in Thread /\ LoopsOf(u)[m] \in Loop
      BY LoopsType DEF Started, Thread
    <3>2. CASE LoopsOf(u)[m] = At(t)
      BY <2>1, <3>2
    <3>3. CASE LoopsOf(u)[m] # At(t)
      <4>1. m # phase[u] \/ pc[u] = "take"
        BY <1>4, <2>3, <3>1, <3>3 DEF At
      <4>2. visited[LoopsOf(u)[m]] = {}
        BY <4>1 DEF Walks
      <4> QED  BY <2>1, <3>1, <3>3, <4>2
    <3> QED  BY <3>2, <3>3
  <2> QED  BY <1>5, <2>2, <2>3 DEF Walks
<1> QED  BY <1>6, <1>7, <1>8, <1>9

-----------------------------------------------------------------------------
(* The user's other steps, and the network's.                              *)
LEMMA OthersKeep ==
  ASSUME Main, TakeAccepted \/ Stop \/ Join \/ \E p \in Peer : Reset(p)
  PROVE  Main'
<1> USE DEF Main
<1>1. /\ UNCHANGED <<mode, toAdd, away, good, adding, slot, queue, pc, phase, i, peers,
                     dropped, visited>>
      /\ inbox' \in 0 .. AcceptCap /\ sock' \in [Peer -> {"open", "reset", "dead", "closed"}]
      /\ go_on' \in BOOLEAN /\ upc' \in {"run", "stopping", "joined"}
  <2>0. /\ inbox \in 0 .. AcceptCap /\ sock \in [Peer -> {"open", "reset", "dead", "closed"}]
        /\ go_on \in BOOLEAN /\ upc \in {"run", "stopping", "joined"} /\ AcceptCap \in Nat
    BY ModeAssumption DEF Types, TypeOK
  <2>1. CASE TakeAccepted
    BY <2>0, <2>1 DEF TakeAccepted, user, sockets, loops
  <2>2. CASE Stop
    BY <2>0, <2>2 DEF Stop, sockets, arrivals, loops
  <2>3. CASE Join
    BY <2>0, <2>3 DEF Join, sockets, arrivals, loops
  <2>4. CASE \E p \in Peer : Reset(p)
    BY <2>0, <2>4 DEF Reset, user, arrivals, loops
  <2> QED  BY <2>1, <2>2, <2>3, <2>4
<1>2. /\ \A u \in Thread : At(u)' = At(u) /\ LoopsOf(u)' = LoopsOf(u)
      /\ Started' = Started
  BY <1>1 DEF At, LoopsOf, Started
<1>3. Types'
  BY <1>1 DEF Types, TypeOK
<1>4. Threads'
  <2>1. \A u \in Thread : phase[u] <= Len(LoopsOf(u))
    BY DEF Threads
  <2> QED  BY <1>1, <2>1, SameWorkers
<1>5. Kept'
  <2>1. \A l \in Loop : Asked(l)' = Asked(l) /\ OnItsWay(l)' = OnItsWay(l)
    BY <1>1, SamePlaces
  <2> QED  BY <1>1, <2>1 DEF Kept
<1>6. Walks'
  BY <1>1, <1>2 DEF Walks, InWalk
<1> QED  BY <1>3, <1>4, <1>5, <1>6

(* A peer polled by any of the three loops.                                *)
PollsPeer(t) ==
  \/ AcceptNothing(t) \/ AcceptError(t)
  \/ ReadSome(t) \/ ReadCloses(t) \/ ReadFails(t)
  \/ WriteSome(t) \/ WriteAgain(t) \/ WriteFails(t)

LEMMA PollsPeerKeeps ==
  ASSUME Main, NEW t \in Thread, PollsPeer(t)
  PROVE  Main'
<1> DEFINE Socks == [Peer -> {"open", "reset", "dead", "closed"}]
<1>1. sock \in Socks /\ good \in [Peer -> BOOLEAN]
  BY DEF Main, Types, TypeOK
<1>2. \E b \in BOOLEAN :
        /\ pc[t] = "walk" /\ i[t] > 0 /\ Step(t, b)
        /\ UNCHANGED <<user, away, arrivals, pc, phase>>
        /\ sock' \in Socks /\ good' \in [Peer -> BOOLEAN]
  <2>1. CASE AcceptNothing(t) \/ ReadSome(t) \/ WriteSome(t)
    BY <1>1, <2>1 DEF AcceptNothing, ReadSome, WriteSome, Walking, sockets
  <2>2. CASE AcceptError(t)
    BY <1>1, <2>2 DEF AcceptError, Walking
  <2>3. CASE ReadCloses(t)
    BY <1>1, <2>3 DEF ReadCloses, Walking
  <2>4. CASE ReadFails(t)
    <3>1. /\ sock' = [sock EXCEPT ![Here(t)] = IF sock[Here(t)] = "reset" THEN "dead"
                                               ELSE sock[Here(t)]]
          /\ good' = [good EXCEPT ![Here(t)] = FALSE]
      BY <2>4 DEF ReadFails
    <3>2. sock' \in Socks /\ good' \in [Peer -> BOOLEAN]
      BY <1>1, <3>1
    <3> QED  BY <2>4, <3>2 DEF ReadFails, Walking
  <2>5. CASE WriteAgain(t)
    <3>1. (~good[Here(t)]) \in BOOLEAN
      OBVIOUS
    <3> QED  BY <1>1, <2>5, <3>1 DEF WriteAgain, Walking, sockets
  <2>6. CASE WriteFails(t)
    <3>1. /\ sock' = [sock EXCEPT ![Here(t)] = IF sock[Here(t)] = "reset" THEN "dead"
                                               ELSE sock[Here(t)]]
          /\ good' = [good EXCEPT ![Here(t)] = FALSE]
      BY <2>6 DEF WriteFails
    <3>2. sock' \in Socks /\ good' \in [Peer -> BOOLEAN]
      BY <1>1, <3>1
    <3> QED  BY <2>6, <3>2 DEF WriteFails, Walking
  <2> QED  BY <2>1, <2>2, <2>3, <2>4, <2>5, <2>6 DEF PollsPeer
<1> QED  BY <1>2, Polls

LEMMA NextKeeps ==
  ASSUME Main, Overlap = FALSE, [Next]_vars
  PROVE  Main'
<1>1. CASE \E p \in Peer : Reset(p)
  BY <1>1, OthersKeep
<1>2. CASE User
  <2>1. ASSUME NEW p \in UserPeer, UserAdd(p) PROVE Main'
    BY <2>1, UserAddKeeps
  <2>2. CASE Push("user")
    <3>1. "user" \in Worker
      BY DEF Worker
    <3> QED  BY <2>2, <3>1, PushWriteKeeps, PushPublishKeeps DEF Push
  <2>3. CASE TakeAccepted \/ Stop \/ Join
    BY <2>3, OthersKeep
  <2> QED  BY <1>2, <2>1, <2>2, <2>3 DEF User
<1>3. ASSUME NEW t \in Thread, RunLoop(t) PROVE Main'
  <2>1. CASE TakeNew(t) \/ BeginWalk(t) \/ EndWalk(t)
    BY <2>1, TakeNewKeeps, BeginWalkKeeps, EndWalkKeeps
  <2>2. CASE \E c \in Conn : AcceptConn(t, c)
    BY <2>2, AcceptConnKeeps
  <2>3. CASE PushAccepted(t) \/ EndAdd(t)
    BY <2>3, PushAcceptedKeeps, EndAddKeeps
  <2>4. CASE Push(t)
    BY <2>4, PushWriteKeeps, PushPublishKeeps DEF Push, Worker
  <2>5. CASE PollsPeer(t)
    BY <2>5, PollsPeerKeeps
  <2> QED  BY <1>3, <2>1, <2>2, <2>3, <2>4, <2>5 DEF RunLoop, PollsPeer
<1>4. CASE UNCHANGED vars
  <2>1. UNCHANGED <<mode, go_on, upc, toAdd, away, sock, good, adding, slot, queue, inbox, pc,
                    phase, i, peers, dropped, visited>>
    BY <1>4 DEF vars, user, sockets, arrivals, loops
  <2>2. Types'
    BY <2>1 DEF Main, Types, TypeOK
  <2>3. Threads'
    <3>1. \A u \in Thread : phase[u] <= Len(LoopsOf(u))
      BY DEF Main, Threads
    <3> QED  BY <2>1, <3>1, SameWorkers DEF Main
  <2>4. Kept'
    <3>1. \A l \in Loop : Asked(l)' = Asked(l) /\ OnItsWay(l)' = OnItsWay(l)
      BY <2>1, SamePlaces
    <3> QED  BY <2>1, <3>1 DEF Main, Kept
  <2>5. Walks'
    BY <2>1 DEF Main, Walks, InWalk, At, LoopsOf, Started
  <2> QED  BY <2>2, <2>3, <2>4, <2>5 DEF Main
<1> QED  BY <1>1, <1>2, <1>3, <1>4 DEF Next

LEMMA InitMain == Init => Main
<1> SUFFICES ASSUME Init PROVE Main
  OBVIOUS
<1>1. \A t \in Thread : Len(LoopsOf(t)) \in 1 .. 3
  BY LoopsType
<1>2. Nobody \in [peer : Peer \cup {Null}, to : Seq(Loop), wrote : BOOLEAN] /\ Nobody.to = <<>>
  BY DEF Nobody
<1>3. /\ adding \in [Worker -> [peer : Peer \cup {Null}, to : Seq(Loop), wrote : BOOLEAN]]
      /\ \A w \in Worker : adding[w] = Nobody /\ adding[w].to = <<>> /\ ~adding[w].wrote
  BY <1>2 DEF Init, Nobody, Worker
<1>4. Types
  <2>1. /\ mode \in Modes /\ go_on \in BOOLEAN /\ upc \in {"run", "stopping", "joined"}
        /\ toAdd \subseteq UserPeer /\ away \subseteq Conn
        /\ sock \in [Peer -> {"open", "reset", "dead", "closed"}] /\ good \in [Peer -> BOOLEAN]
    BY DEF Init
  <2>2. /\ slot \in [Loop -> Peer \cup {Null}] /\ inbox \in 0 .. AcceptCap
        /\ queue \in [Loop -> Seq(Peer)] /\ queue \in [Loop -> Seq(Peer \cup {Null})]
    BY ModeAssumption DEF Init
  <2>3. /\ pc \in [Thread -> {"take", "walk", "inbox", "add", "done"}]
        /\ phase \in [Thread -> 1 .. 3] /\ i \in [Thread -> Nat]
    BY <1>1 DEF Init
  <2>4. /\ peers \in [Loop -> Seq(Peer)]
        /\ dropped \in [Loop -> SUBSET Peer] /\ visited \in [Loop -> SUBSET Peer]
    BY DEF Init
  <2>5. \A w \in DOMAIN adding : /\ adding[w].peer \in Peer \cup {Null}
                                 /\ adding[w].to \in Seq(Loop) /\ adding[w].wrote \in BOOLEAN
    BY <1>3
  <2> QED  BY <1>3, <2>1, <2>2, <2>3, <2>4, <2>5 DEF Types, TypeOK
<1>5. Threads
  <2>1. \A t \in Thread : phase[t] <= Len(LoopsOf(t))
    BY <1>1 DEF Init
  <2>2. \A t \in Thread : /\ pc[t] # "done" => t \in Started
                          /\ pc[t] \notin {"inbox", "add"}
    BY DEF Init
  <2>3. \A w \in Worker : Idle(w) /\ ~Busy(w)
    BY <1>3, <2>2 DEF Idle, Busy
  <2> QED  BY <1>3, <2>1, <2>2, <2>3 DEF Threads, Worker
<1>6. Kept
  <2> SUFFICES ASSUME NEW l \in Loop
               PROVE  Accounted(Asked(l), OnItsWay(l), queue[l], peers[l], dropped[l])
    BY DEF Kept
  <2>1. Asked(l) = {}
    BY DEF Init, Asked, Peer
  <2>2. OnItsWay(l) = {}
    BY <1>3, <1>4, AllIdle
  <2>3. queue[l] = <<>> /\ peers[l] = <<>> /\ dropped[l] = {}
    BY DEF Init
  <2>4. ToSet(<<>>) = {} /\ Once(<<>>) /\ IsFiniteSet({})
    BY FS_EmptySet DEF ToSet, Once
  <2> QED  BY <2>1, <2>2, <2>3, <2>4 DEF Accounted
<1>7. Walks
  <2>1. \A l \in Loop : visited[l] = {} /\ peers[l] = <<>>
    BY DEF Init
  <2>2. \A t \in Thread : i[t] = 0 /\ peers[At(t)] = <<>>
    BY <1>4, <1>5, <2>1, Typed DEF Init
  <2>3. Len(<<>>) = 0 /\ 1 .. 0 = {}
    OBVIOUS
  <2>4. \A t \in Started : \A n \in 1 .. Len(LoopsOf(t)) : LoopsOf(t)[n] \in Loop
    BY LoopsType DEF Started, Thread
  <2> QED  BY <2>1, <2>2, <2>3, <2>4 DEF Walks
<1> QED  BY <1>4, <1>5, <1>6, <1>7 DEF Main

(* The inductive invariant of the loops: Types, Threads, Kept and Walks.   *)
THEOREM LoopsInvariance ==
  ASSUME Overlap = FALSE
  PROVE  Spec => []Main
<1>1. Init => Main
  BY InitMain
<1>2. Main /\ [Next]_vars => Main'
  BY NextKeeps
<1> QED  BY <1>1, <1>2, PTL DEF Spec

LEMMA MainPeersKept == Main => PeersKept
<1> SUFFICES ASSUME Main PROVE PeersKept
  OBVIOUS
<1>1. TypeOK
  BY DEF Main, Types
<1>2. ASSUME NEW l \in Loop
      PROVE  /\ Asked(l) = OnItsWay(l) \cup ToSet(queue[l]) \cup ToSet(peers[l]) \cup dropped[l]
             /\ Cardinality(Asked(l)) = Cardinality(OnItsWay(l)) + Len(queue[l])
                                          + Len(peers[l]) + Cardinality(dropped[l])
  <2>1. Accounted(Asked(l), OnItsWay(l), queue[l], peers[l], dropped[l])
    BY DEF Main, Kept
  <2>2. queue[l] \in Seq(Peer) /\ peers[l] \in Seq(Peer)
    BY DEF Main, Types, TypeOK
  <2>3. Cardinality(Asked(l)) = Cardinality(OnItsWay(l)) + Len(queue[l])
                                  + Len(peers[l]) + Cardinality(dropped[l])
    BY <2>1, <2>2, AccountedCount
  <2> QED  BY <2>1, <2>3 DEF Accounted
<1> QED  BY <1>1, <1>2 DEF PeersKept

(* A peer that is bound, connected or accepted comes to each loop it is    *)
(* meant for once, and stays with it until the loop drops it: add(), the   *)
(* rings of new peers and the erasures of the loops lose none and repeat   *)
(* none, whatever the interleaving of the threads and wherever stop() cuts *)
(* in, as long as one thread at a time adds.                               *)
THEOREM PeersKeptAlways ==
  ASSUME Overlap = FALSE
  PROVE  Spec => []PeersKept
<1>1. Spec => []Main
  BY LoopsInvariance
<1> QED  BY <1>1, MainPeersKept, PTL

(* A round of a loop polls every peer of its list once, whichever of them  *)
(* it erases on the way.                                                   *)
THEOREM NoneSkippedAlways ==
  ASSUME Overlap = FALSE
  PROVE  Spec => []NoneSkipped
<1>1. Main => NoneSkipped
  BY DEF Main, Walks, NoneSkipped, InWalk
<1>2. Spec => []Main
  BY LoopsInvariance
<1> QED  BY <1>1, <1>2, PTL

-----------------------------------------------------------------------------
(* An acceptor whose socket may fail does nothing but accept, as the tcp   *)
(* servers do: good_ is cleared by every loop, and a write loop drops a    *)
(* peer for it.                                                            *)
AcceptorsAccept ==
  \A p \in UserPeer \cap Fragile : "accept" \in Does[p] => Does[p] = {"accept"}

Broken ==
  /\ \A p \in Peer : ~good[p] => sock[p] # "open" \/ (p \in Fragile /\ "accept" \in DoesOf(p))
  /\ DroppedForCause

(* A peer is with a loop only if it is meant for it.                       *)
LEMMA Meant ==
  ASSUME Main, NEW t \in Thread, pc[t] = "walk", i[t] > 0
  PROVE  At(t) \in DoesOf(Here(t)) /\ Here(t) \in Peer
<1>1. At(t) \in Loop /\ i[t] \in Nat /\ peers[At(t)] \in Seq(Peer)
  BY Typed DEF Main
<1>2. i[t] \in 1 .. Len(peers[At(t)])
  <2>1. i[t] <= Len(peers[At(t)])
    BY DEF Main, Walks, InWalk
  <2> QED  BY <1>1, <2>1
<1>3. Here(t) \in ToSet(peers[At(t)])
  BY <1>1, <1>2, InToSet DEF Here
<1>4. Here(t) \in Asked(At(t))
  BY <1>1, <1>3 DEF Main, Kept, Accounted
<1> QED  BY <1>4 DEF Asked

LEMMA BrokenStep ==
  ASSUME Main, Broken, AcceptorsAccept, [Next]_vars
  PROVE  Broken'
<1>0. /\ sock \in [Peer -> {"open", "reset", "dead", "closed"}] /\ good \in [Peer -> BOOLEAN]
      /\ dropped \in [Loop -> SUBSET Peer]
  BY DEF Main, Types, TypeOK
<1>1. CASE \E p \in Peer : Reset(p)
  BY <1>0, <1>1 DEF Reset, Broken, DroppedForCause, loops, Loop
<1>2. CASE User
  BY <1>2 DEF User, UserAdd, Push, PushWrite, PushPublish, TakeAccepted, Stop, Join, sockets,
               loops, Broken, DroppedForCause
<1>3. ASSUME NEW t \in Thread, RunLoop(t) PROVE Broken'
  <2>1. CASE sock' = sock /\ good' = good /\ dropped' = dropped
    BY <2>1 DEF Broken, DroppedForCause
  <2>2. CASE AcceptError(t)
    BY <1>0, <2>2, Meant DEF AcceptError, Walking, Step, Broken, DroppedForCause
  <2>3. CASE PushAccepted(t)
    BY <1>0, <2>3 DEF PushAccepted, Step, Broken, DroppedForCause, sockets, Main, Threads, Loop
  <2>4. CASE ReadCloses(t)
    BY <1>0, <2>4, Meant DEF ReadCloses, Walking, Step, Broken, DroppedForCause, Loop
  <2>5. CASE ReadFails(t)
    BY <1>0, <2>5, Meant DEF ReadFails, Walking, Step, Broken, DroppedForCause, Loop
  <2>6. CASE WriteFails(t)
    BY <1>0, <2>6, Meant DEF WriteFails, Walking, Step, Broken, DroppedForCause, Loop
  <2>7. CASE WriteAgain(t)
    <3>1. /\ pc[t] = "walk" /\ i[t] > 0 /\ At(t) = "write" /\ sock[Here(t)] = "open"
          /\ Step(t, ~good[Here(t)]) /\ sock' = sock /\ good' = good
      BY <2>7 DEF WriteAgain, Walking, sockets
    <3>2. "write" \in DoesOf(Here(t)) /\ Here(t) \in Peer
      BY <3>1, Meant
    <3>3. good[Here(t)]
      <4> SUFFICES ASSUME ~good[Here(t)] PROVE FALSE
        OBVIOUS
      <4>1. Here(t) \in Fragile /\ "accept" \in DoesOf(Here(t))
        BY <3>1, <3>2 DEF Broken
      <4>2. Here(t) \notin Conn
        BY <4>1 DEF DoesOf
      <4> QED  BY <3>2, <4>1, <4>2 DEF AcceptorsAccept, DoesOf, Peer
    <3>4. dropped' = dropped
      BY <3>1, <3>3 DEF Step
    <3> QED  BY <2>1, <3>1, <3>4
  <2>8. CASE \/ AcceptNothing(t) \/ ReadSome(t) \/ WriteSome(t) \/ Push(t) \/ EndAdd(t)
             \/ TakeNew(t) \/ BeginWalk(t) \/ EndWalk(t) \/ \E c \in Conn : AcceptConn(t, c)
    <3>1. sock' = sock /\ good' = good /\ dropped' = dropped
      BY <2>8 DEF AcceptNothing, ReadSome, WriteSome, Step, Push, PushWrite, PushPublish, EndAdd,
                   TakeNew, BeginWalk, EndWalk, AcceptConn, sockets, loops
    <3> QED  BY <2>1, <3>1
  <2> QED  BY <1>3, <2>2, <2>3, <2>4, <2>5, <2>6, <2>7, <2>8 DEF RunLoop
<1>4. CASE UNCHANGED vars
  BY <1>4 DEF vars, sockets, loops, Broken, DroppedForCause
<1> QED  BY <1>1, <1>2, <1>3, <1>4 DEF Next

(* The read and write loops drop a peer only when its socket failed: that  *)
(* it has nothing to read or no room to write never costs it its place,    *)
(* although write() returns -1 for want of room as it does for an error.   *)
(* The accept loop drops an acceptor only after an error from accept().    *)
THEOREM DroppedForCauseAlways ==
  ASSUME Overlap = FALSE, AcceptorsAccept
  PROVE  Spec => []DroppedForCause
<1>1. Init => Broken
  BY DEF Init, Broken, DroppedForCause, Loop
<1>2. Main /\ Broken /\ [Next]_vars => Broken'
  BY BrokenStep
<1>3. Broken => DroppedForCause
  BY DEF Broken
<1>4. Spec => []Main
  BY LoopsInvariance
<1> QED  BY <1>1, <1>2, <1>3, <1>4, PTL DEF Spec

=============================================================================
