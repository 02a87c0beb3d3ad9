------------------------------ MODULE PoolProofs ------------------------------
(***************************************************************************)
(* Proofs about FixedPool, for every capacity, index type and object set,  *)
(* whether or not constructors throw, and about SeqDictPool on top of it,  *)
(* as long as it has not handed out every value of its key type.           *)
(***************************************************************************)
EXTENDS SeqDictPool, Integers, FiniteSetTheorems, TLAPS

(* The constructor leaves a free list through every cell, in order: the    *)
(* initial state of fixed_pool satisfies the invariant.                    *)
LEMMA InitInv == Init => IndInv
<1> SUFFICES ASSUME Init PROVE IndInv
  OBVIOUS
<1> USE PoolAssumption
<1>1. TypeOK
  BY DEF Init, TypeOK, Cell
<1>2. Objects
  BY DEF Init, Objects
<1>3. Linked
  <2> DEFINE s == [j \in 1 .. FreeCount |-> j - 1]
  <2>1. FreeCount = Capacity
    BY DEF Init, FreeCount
  <2>2. s \in [1 .. FreeCount -> Cell]
    BY <2>1 DEF Cell
  <2>3. \A c \in Cell \ Taken : \E i \in 1 .. FreeCount : s[i] = c
    <3>1. ASSUME NEW c \in Cell PROVE c + 1 \in 1 .. FreeCount /\ s[c + 1] = c
      BY <2>1 DEF Cell
    <3> QED  BY <3>1
  <2>4. FreeList(s)
    BY <2>1, <2>2, <2>3 DEF Init, FreeList, Taken, Cell
  <2> QED  BY <2>2, <2>4 DEF Linked
<1>4. Counted
  BY FS_EmptySet DEF Init, Counted, Taken
<1> QED  BY <1>1, <1>2, <1>3, <1>4 DEF IndInv

(* The head of the free list is a cell nobody holds, as long as the pool   *)
(* is not full: what alloc relies on.                                      *)
LEMMA HeadFree ==
  ASSUME TypeOK, Linked, ~Full
  PROVE  first_free \in Cell \ Taken
BY PoolAssumption DEF TypeOK, Linked, FreeList, FreeCount, Full

(* alloc advances first_free to the rest of the free list, whatever the    *)
(* constructor writes over the link of the cell it takes.                  *)
LEMMA PopLinked ==
  ASSUME TypeOK, Linked, Pop, NEW x \in Value \cup Index,
         collection' = [collection EXCEPT ![first_free] = x],
         Taken' = Taken \cup {first_free}
  PROVE  Linked' /\ first_free' \in Index /\ size_' \in 0 .. Capacity
<1> USE PoolAssumption
<1>1. first_free \in Cell \ Taken
  BY HeadFree DEF Pop
<1>2. PICK s \in [1 .. FreeCount -> Cell] : FreeList(s)
  BY DEF Linked
<1>3. FreeCount \in Nat /\ FreeCount > 0 /\ FreeCount' = FreeCount - 1
  BY DEF TypeOK, Pop, Full, FreeCount
<1>4. s[1] = first_free
  BY <1>2, <1>3 DEF FreeList
<1>5. size_' \in 0 .. Capacity
  BY DEF TypeOK, Pop, Full
<1>6. collection[first_free] \in Value \cup Index
  BY <1>1 DEF TypeOK
<1>7. first_free' \in Index
  BY <1>6 DEF Pop, NextIndex
<1>8. ASSUME FreeCount > 1 PROVE first_free' = s[2]
  <2>1. collection[s[1]] = s[2] /\ s[2] \in Cell
    BY <1>2, <1>3, <1>8 DEF FreeList
  <2>2. collection[first_free] \in Index
    BY <2>1, <1>4 DEF Cell
  <2> QED  BY <2>1, <2>2, <1>4 DEF Pop, NextIndex
<1>9. PICK t \in [1 .. FreeCount' -> Cell] : \A j \in 1 .. FreeCount' : t[j] = s[j + 1]
  <2> DEFINE r == [j \in 1 .. FreeCount' |-> s[j + 1]]
  <2>1. r \in [1 .. FreeCount' -> Cell]
    BY <1>2, <1>3
  <2> QED  BY <2>1
<1>10. ASSUME NEW j \in 1 .. FreeCount'
       PROVE  t[j] = s[j + 1] /\ j + 1 \in 1 .. FreeCount /\ t[j] # first_free
  BY <1>2, <1>3, <1>4, <1>9 DEF FreeList
<1>11. (FreeList(t))'
  <2>1. \A i \in 1 .. FreeCount' : t[i] \notin Taken'
    BY <1>2, <1>10 DEF FreeList
  <2>2. ASSUME NEW c \in Cell \ Taken' PROVE \E i \in 1 .. FreeCount' : t[i] = c
    <3>1. PICK i \in 1 .. FreeCount : s[i] = c
      BY <1>2 DEF FreeList
    <3>2. i # 1
      BY <3>1, <1>4
    <3>3. i - 1 \in 1 .. FreeCount' /\ t[i - 1] = c
      BY <3>1, <3>2, <1>3, <1>9
    <3> QED  BY <3>3
  <2>3. \A i, j \in 1 .. FreeCount' : t[i] = t[j] => i = j
    <3> TAKE i \in 1 .. FreeCount', j \in 1 .. FreeCount'
    <3>1. HAVE t[i] = t[j]
    <3>2. s[i + 1] = s[j + 1] /\ i + 1 \in 1 .. FreeCount /\ j + 1 \in 1 .. FreeCount
      BY <3>1, <1>10
    <3>3. i + 1 = j + 1
      BY <3>2, <1>2 DEF FreeList
    <3> QED  BY <3>3, <1>3
  <2>4. FreeCount' > 0 => t[1] = first_free'
    BY <1>3, <1>8, <1>9
  <2>5. ASSUME NEW i \in 1 .. FreeCount', i < FreeCount'
        PROVE  collection'[t[i]] = t[i + 1]
    <3>1. i + 1 \in 1 .. FreeCount /\ i + 1 < FreeCount /\ i + 1 \in 1 .. FreeCount'
      BY <2>5, <1>3
    <3>2. collection[s[i + 1]] = s[i + 1 + 1]
      BY <3>1, <1>2 DEF FreeList
    <3>3. t[i] = s[i + 1] /\ t[i] # first_free /\ t[i + 1] = s[i + 1 + 1]
      BY <3>1, <1>10
    <3>4. t[i] \in Cell
      BY <1>9
    <3> QED  BY <3>2, <3>3, <3>4 DEF TypeOK
  <2> QED
    <3>1. Cell' = Cell
      BY DEF Cell
    <3> QED  BY <2>1, <2>2, <2>3, <2>4, <2>5, <3>1 DEF FreeList
<1>12. Linked'
  <2>1. Cell' = Cell
    BY DEF Cell
  <2> QED  BY <1>11, <2>1 DEF Linked
<1> QED  BY <1>5, <1>7, <1>12

(* There are finitely many cells, so those taken can be counted.           *)
LEMMA TakenFinite == TypeOK => IsFiniteSet(Taken)
<1> SUFFICES ASSUME TypeOK PROVE IsFiniteSet(Taken)
  OBVIOUS
<1>1. IsFiniteSet(Cell)
  BY PoolAssumption, FS_Interval DEF Cell
<1> QED  BY <1>1, FS_Subset DEF TypeOK, Taken

(* A caller that holds a cell is counted: free never takes size_ below 0.  *)
LEMMA FreeCounted ==
  ASSUME TypeOK, Objects, Counted, NEW i \in owned, Free(i)
  PROVE  size_ > 0 /\ size_' \in 0 .. Capacity /\ Taken' = Taken \ {i} /\ Counted'
<1>1. IsFiniteSet(Taken) /\ i \in Taken
  BY TakenFinite DEF Taken
<1>2. Cardinality(Taken \ {i}) = Cardinality(Taken) - 1 /\ Cardinality(Taken) \in Nat
  BY <1>1, FS_RemoveElement, FS_CardinalityType
<1>3. Taken' = Taken \ {i}
  BY DEF Objects, Taken, Free
<1>4. Cardinality(Taken) # 0
  BY <1>1, FS_EmptySet
<1>5. Counted'
  BY <1>2, <1>3 DEF Counted, Free
<1> QED  BY <1>2, <1>3, <1>4, <1>5, PoolAssumption DEF TypeOK, Counted, Free

(* free makes the freed cell the head of the free list.                    *)
LEMMA FreeLinked ==
  ASSUME TypeOK, Objects, Counted, Linked, NEW i \in owned, Free(i)
  PROVE  Linked'
<1> USE PoolAssumption
<1>1. PICK s \in [1 .. FreeCount -> Cell] : FreeList(s)
  BY DEF Linked
<1>2. i \in Cell /\ i \in Taken /\ Taken' = Taken \ {i}
  BY FreeCounted DEF TypeOK, Taken
<1>3. FreeCount \in Nat /\ FreeCount' = FreeCount + 1
  BY FreeCounted DEF TypeOK, Free, FreeCount
<1>4. PICK t \in [1 .. FreeCount' -> Cell] :
        \A j \in 1 .. FreeCount' : t[j] = IF j = 1 THEN i ELSE s[j - 1]
  <2> DEFINE r == [j \in 1 .. FreeCount' |-> IF j = 1 THEN i ELSE s[j - 1]]
  <2>1. r \in [1 .. FreeCount' -> Cell]
    BY <1>1, <1>2, <1>3
  <2> QED  BY <2>1
<1>5. t[1] = i
  BY <1>3, <1>4
<1>6. ASSUME NEW j \in 1 .. FreeCount', j # 1
      PROVE  t[j] = s[j - 1] /\ j - 1 \in 1 .. FreeCount /\ t[j] \notin Taken
  BY <1>1, <1>3, <1>4, <1>6 DEF FreeList
<1>7. (FreeList(t))'
  <2>1. \A j \in 1 .. FreeCount' : t[j] \notin Taken'
    BY <1>2, <1>5, <1>6
  <2>2. ASSUME NEW c \in Cell \ Taken' PROVE \E j \in 1 .. FreeCount' : t[j] = c
    <3>1. CASE c = i
      BY <3>1, <1>3, <1>5
    <3>2. CASE c # i
      <4>1. PICK j \in 1 .. FreeCount : s[j] = c
        BY <3>2, <1>1, <1>2 DEF FreeList
      <4>2. j + 1 \in 1 .. FreeCount' /\ t[j + 1] = c
        BY <4>1, <1>3, <1>4
      <4> QED  BY <4>2
    <3> QED  BY <3>1, <3>2
  <2>3. \A j, k \in 1 .. FreeCount' : t[j] = t[k] => j = k
    <3> TAKE j \in 1 .. FreeCount', k \in 1 .. FreeCount'
    <3>1. HAVE t[j] = t[k]
    <3>2. j = 1 <=> k = 1
      BY <3>1, <1>2, <1>5, <1>6
    <3>3. CASE j # 1
      <4>1. s[j - 1] = s[k - 1] /\ j - 1 \in 1 .. FreeCount /\ k - 1 \in 1 .. FreeCount
        BY <3>1, <3>2, <3>3, <1>6
      <4>2. j - 1 = k - 1
        BY <4>1, <1>1 DEF FreeList
      <4> QED  BY <4>2, <1>3
    <3> QED  BY <3>2, <3>3
  <2>4. FreeCount' > 0 => t[1] = first_free'
    BY <1>5 DEF Free
  <2>5. ASSUME NEW j \in 1 .. FreeCount', j < FreeCount'
        PROVE  collection'[t[j]] = t[j + 1]
    <3>1. j + 1 \in 1 .. FreeCount' /\ j + 1 # 1 /\ t[j + 1] = s[j]
      BY <2>5, <1>3, <1>4
    <3>2. CASE j = 1
      <4>1. s[1] = first_free
        BY <3>2, <2>5, <1>1, <1>3 DEF FreeList
      <4> QED  BY <3>1, <3>2, <4>1, <1>2, <1>5 DEF Free, TypeOK
    <3>3. CASE j # 1
      <4>1. j - 1 \in 1 .. FreeCount /\ j - 1 < FreeCount /\ j - 1 + 1 = j
        BY <3>3, <2>5, <1>3
      <4>2. collection[s[j - 1]] = s[j]
        BY <4>1, <1>1 DEF FreeList
      <4>3. t[j] = s[j - 1] /\ t[j] # i /\ t[j] \in Cell
        BY <3>3, <1>2, <1>4, <1>6
      <4> QED  BY <3>1, <4>2, <4>3 DEF Free, TypeOK
    <3> QED  BY <3>2, <3>3
  <2> QED
    <3>1. Cell' = Cell
      BY DEF Cell
    <3> QED  BY <2>1, <2>2, <2>3, <2>4, <2>5, <3>1 DEF FreeList
<1> QED
  <2>1. Cell' = Cell
    BY DEF Cell
  <2> QED  BY <1>7, <2>1 DEF Linked

(* alloc takes a cell nobody holds, so it counts one more.                 *)
LEMMA AllocCounted ==
  ASSUME TypeOK, Linked, Counted, Pop, Taken' = Taken \cup {first_free}
  PROVE  Counted'
<1>1. first_free \notin Taken
  BY HeadFree DEF Pop
<1>2. Cardinality(Taken \cup {first_free}) = Cardinality(Taken) + 1
  BY <1>1, TakenFinite, FS_AddElement
<1> QED  BY <1>2 DEF Counted, Pop

(* Every operation of the pool preserves the invariant.                    *)
LEMMA NextInv == IndInv /\ [Next]_vars => IndInv'
<1> SUFFICES ASSUME IndInv, [Next]_vars PROVE IndInv'
  OBVIOUS
<1> USE PoolAssumption
<1>1. TypeOK /\ Objects /\ Counted /\ Linked
  BY DEF IndInv
<1>2. ASSUME NEW v \in Value, Alloc(v) PROVE IndInv'
  <2>1. Pop /\ v \in Value \cup Index /\ Taken' = Taken \cup {first_free}
    BY <1>2 DEF Alloc, Taken
  <2>2. first_free \in Cell \ Taken
    BY <1>1, <2>1, HeadFree DEF Pop
  <2>3. Linked' /\ first_free' \in Index /\ size_' \in 0 .. Capacity
    BY <1>1, <1>2, <2>1, PopLinked DEF Alloc
  <2>4. TypeOK'
    BY <1>1, <1>2, <2>2, <2>3 DEF TypeOK, Alloc, Cell
  <2>5. Objects'
    BY <1>1, <1>2, <2>2 DEF TypeOK, Objects, Alloc, Taken
  <2>6. Counted'
    BY <1>1, <2>1, AllocCounted
  <2> QED  BY <2>3, <2>4, <2>5, <2>6 DEF IndInv
<1>3. ASSUME NEW x \in Value \cup Index, AllocThrows(x) PROVE IndInv'
  <2>1. Pop /\ Taken' = Taken \cup {first_free}
    BY <1>3 DEF AllocThrows, Taken
  <2>2. first_free \in Cell \ Taken
    BY <1>1, <2>1, HeadFree DEF Pop
  <2>3. Linked' /\ first_free' \in Index /\ size_' \in 0 .. Capacity
    BY <1>1, <1>3, <2>1, PopLinked DEF AllocThrows
  <2>4. TypeOK'
    BY <1>1, <1>3, <2>2, <2>3 DEF TypeOK, AllocThrows, Cell
  <2>5. Objects'
    BY <1>1, <1>3, <2>2 DEF TypeOK, Objects, AllocThrows, Taken
  <2>6. Counted'
    BY <1>1, <2>1, AllocCounted
  <2> QED  BY <2>3, <2>4, <2>5, <2>6 DEF IndInv
<1>4. ASSUME NEW i \in owned, Free(i) PROVE IndInv'
  <2>1. Linked'
    BY <1>1, <1>4, FreeLinked
  <2>2. size_' \in 0 .. Capacity /\ Counted'
    BY <1>1, <1>4, FreeCounted
  <2>3. TypeOK'
    BY <1>1, <1>4, <2>2 DEF TypeOK, Free, Cell
  <2>4. Objects'
    BY <1>1, <1>4 DEF TypeOK, Objects, Free
  <2> QED  BY <2>1, <2>2, <2>3, <2>4 DEF IndInv
<1>5. ASSUME UNCHANGED vars PROVE IndInv'
  <2>1. Cell' = Cell /\ Taken' = Taken /\ FreeCount' = FreeCount
    BY <1>5 DEF vars, Cell, Taken, FreeCount
  <2>2. Linked'
    <3>1. first_free' = first_free /\ collection' = collection /\ owned' = owned
      BY <1>5 DEF vars
    <3>2. PICK p \in [1 .. FreeCount -> Cell] : FreeList(p)
      BY <1>1 DEF Linked
    <3>3. (FreeList(p))'
      BY <2>1, <3>1, <3>2 DEF FreeList
    <3> QED
      BY <2>1, <3>2, <3>3 DEF Linked
  <2> QED
    BY <1>1, <1>5, <2>1, <2>2 DEF IndInv, TypeOK, Objects, Counted, vars
<1> QED  BY <1>2, <1>3, <1>4, <1>5 DEF Next

(* The free list goes once through every cell that is not taken, in every  *)
(* reachable state of the pool.                                            *)
THEOREM PoolInvariance == Spec => []IndInv
<1> QED  BY InitInv, NextInv, PTL DEF Spec

(* No caller is ever given a cell another one holds.                       *)
THEOREM NeverTwiceAlways == Spec => []NeverTwice
<1>1. IndInv => NeverTwice
  BY HeadFree DEF IndInv, NeverTwice, Taken
<1> QED  BY <1>1, PoolInvariance, PTL

(* An object stays as it was made until its caller frees it: the links the *)
(* pool writes into cells never overwrite it.                              *)
THEOREM ObjectsKeptAlways == Spec => ObjectsKept
<1> DEFINE Kept == \A i \in owned \cap owned' :
                     collection[i] \in Value /\ collection'[i] = collection[i]
<1>1. IndInv /\ [Next]_vars => [Kept]_vars
  <2> SUFFICES ASSUME IndInv, Next, NEW c \in owned \cap owned'
               PROVE  collection[c] \in Value /\ collection'[c] = collection[c]
    BY DEF Kept
  <2>1. TypeOK /\ Linked /\ collection[c] \in Value /\ c \in Cell /\ c \in Taken
    BY DEF IndInv, Objects, TypeOK, Taken
  <2>2. ASSUME NEW v \in Value, Alloc(v) PROVE collection'[c] = collection[c]
    BY <2>1, <2>2, HeadFree DEF Alloc, Pop, TypeOK
  <2>3. ASSUME NEW x \in Value \cup Index, AllocThrows(x)
        PROVE  collection'[c] = collection[c]
    BY <2>1, <2>3, HeadFree DEF AllocThrows, Pop, TypeOK
  <2>4. ASSUME NEW i \in owned, Free(i) PROVE collection'[c] = collection[c]
    BY <2>1, <2>4 DEF Free, TypeOK
  <2> QED  BY <2>1, <2>2, <2>3, <2>4 DEF Next
<1> QED  BY <1>1, PoolInvariance, PTL DEF Spec, ObjectsKept

-----------------------------------------------------------------------------
(* A set of natural numbers has a least one.                               *)
LEMMA LeastNumber ==
  ASSUME NEW T \in SUBSET Nat, T # {}
  PROVE  \E m \in T : \A k \in T : m <= k
<1> DEFINE R == {p \in Nat \X Nat : p[1] < p[2]}
<1>1. IsWellFoundedOn(R, Nat)
  BY NatLessThanWellFounded DEF OpToRel
<1>2. PICK m \in T : \A k \in T : ~ (<<k, m>> \in R)
  BY <1>1, WFMin
<1>3. ASSUME NEW k \in T PROVE m <= k
  <2>1. ~ (<<k, m>> \in R) /\ k \in Nat /\ m \in Nat
    BY <1>2
  <2> QED  BY <2>1
<1> QED  BY <1>2, <1>3

(* The walk of for_each goes along the free list: were it to leave it, it  *)
(* would do so at some first step.                                         *)
LEMMA WalkFollowsList ==
  ASSUME TypeOK, NEW s \in [1 .. FreeCount -> Cell], FreeList(s)
  PROVE  \A n \in 1 .. FreeCount : FreeWalk[n] = s[n]
<1>1. FreeCount \in Nat /\ Capacity - size_ = FreeCount
  BY PoolAssumption DEF TypeOK, FreeCount
<1>2. s = [n \in 1 .. FreeCount |-> IF n = 1 THEN first_free ELSE collection[s[n - 1]]]
  <2>1. ASSUME NEW n \in 1 .. FreeCount, n # 1 PROVE s[n] = collection[s[n - 1]]
    <3>1. n - 1 \in 1 .. FreeCount /\ n - 1 < FreeCount /\ n - 1 + 1 = n
      BY <1>1, <2>1
    <3> QED  BY <3>1 DEF FreeList
  <2>2. FreeCount > 0 => s[1] = first_free
    BY DEF FreeList
  <2> QED  BY <1>1, <2>1, <2>2
<1>3. FreeWalk = [n \in 1 .. FreeCount |->
                    IF n = 1 THEN first_free ELSE collection[FreeWalk[n - 1]]]
  BY <1>1, <1>2 DEF FreeWalk
<1> DEFINE Astray == {n \in 1 .. FreeCount : FreeWalk[n] # s[n]}
<1> SUFFICES ASSUME Astray # {} PROVE FALSE
  OBVIOUS
<1>4. PICK n \in Astray : \A k \in Astray : n <= k
  <2>1. Astray \in SUBSET Nat
    OBVIOUS
  <2> QED  BY <2>1, LeastNumber
<1>5. n # 1
  BY <1>1, <1>3 DEF FreeList
<1>6. n - 1 \in 1 .. FreeCount /\ n - 1 \notin Astray
  BY <1>1, <1>4, <1>5
<1>7. FreeWalk[n] = collection[s[n - 1]]
  BY <1>3, <1>5, <1>6
<1>8. s[n] = collection[s[n - 1]]
  BY <1>2, <1>5
<1> QED  BY <1>7, <1>8

(* for_each, and the destructor, visits exactly the cells alloc took and   *)
(* free did not give back, in every reachable state: the objects callers   *)
(* hold, and the cells whose constructor threw, where no object is.        *)
THEOREM ForEachExactAlways == Spec => []ForEachExact
<1>1. IndInv => ForEachExact
  <2> SUFFICES ASSUME IndInv PROVE Visited = Taken
    BY DEF ForEachExact, Taken
  <2>1. PICK s \in [1 .. FreeCount -> Cell] : FreeList(s)
    BY DEF IndInv, Linked
  <2>2. \A n \in 1 .. FreeCount : FreeWalk[n] = s[n]
    BY <2>1, WalkFollowsList DEF IndInv
  <2>3. Visited = {c \in Cell : \A n \in 1 .. FreeCount : s[n] # c}
    BY <2>2 DEF Visited, FreeCount
  <2> QED  BY <2>1, <2>3 DEF FreeList, IndInv, TypeOK, Taken
<1> QED  BY <1>1, PoolInvariance, PTL

-----------------------------------------------------------------------------
(* The dictionary keeps the pool's invariant, and its map leads from the   *)
(* keys handed out, all below next_seq, one to one to the cells held.      *)
KeysOnto ==
  /\ key_map \in [DOMAIN key_map -> owned]
  /\ \A c \in owned : \E k \in DOMAIN key_map : key_map[k] = c
  /\ \A j, k \in DOMAIN key_map : key_map[j] = key_map[k] => j = k
KeysInOrder ==
  /\ next_seq \in Nat /\ pushed \in Nat /\ next_seq <= pushed /\ pushed <= PushMax
  /\ DOMAIN key_map \subseteq 0 .. next_seq - 1
DictInv == IndInv /\ KeysOnto /\ KeysInOrder

LEMMA DictInitInv == DictInit => DictInv
<1> SUFFICES ASSUME DictInit PROVE DictInv
  OBVIOUS
<1>1. IndInv
  BY InitInv DEF DictInit
<1>2. KeysOnto
  BY DEF DictInit, Init, KeysOnto
<1>3. KeysInOrder
  BY KeyAssumption DEF DictInit, KeysInOrder
<1> QED  BY <1>1, <1>2, <1>3 DEF DictInv

(* push_back maps a key no object has to a cell no key leads to.           *)
LEMMA PushBackMaps ==
  ASSUME PushMax < KeySpace, DictInv, NEW v \in Value, PushBack(v)
  PROVE  /\ next_seq' = next_seq + 1 /\ next_seq \notin DOMAIN key_map
         /\ first_free \in Cell /\ first_free \notin Taken
         /\ DOMAIN key_map' = DOMAIN key_map \cup {next_seq}
         /\ key_map'[next_seq] = first_free
         /\ \A k \in DOMAIN key_map : key_map'[k] = key_map[k] /\ k # next_seq
         /\ key_map' = [k \in DOMAIN key_map' |-> key_map'[k]]
<1>1. first_free \in Cell /\ first_free \notin Taken
  BY HeadFree DEF DictInv, IndInv, PushBack, Alloc, Pop
<1>2. next_seq' = next_seq + 1
  BY KeyAssumption DEF DictInv, KeysInOrder, PushBack
<1>3. next_seq \notin DOMAIN key_map /\ \A k \in DOMAIN key_map : k # next_seq
  BY DEF DictInv, KeysInOrder
<1>4. key_map' = [k \in DOMAIN key_map \cup {next_seq} |->
                    IF k \in DOMAIN key_map THEN key_map[k] ELSE first_free]
  BY DEF PushBack, Insert
<1> QED  BY <1>1, <1>2, <1>3, <1>4

LEMMA DictNextInv ==
  ASSUME PushMax < KeySpace, DictInv, [DictNext]_dictVars
  PROVE  DictInv'
<1> USE DEF DictInv
<1>1. ASSUME NEW v \in Value, PushBack(v) PROVE DictInv'
  <2>1. IndInv'
    BY <1>1, NextInv DEF PushBack, Next
  <2>2. owned' = owned \cup {first_free} /\ first_free \notin owned
    BY <1>1, PushBackMaps DEF PushBack, Alloc, Taken
  <2>3. KeysInOrder'
    BY <1>1, PushBackMaps, KeyAssumption DEF KeysInOrder, PushBack
  <2>4. KeysOnto'
    <3>1. /\ DOMAIN key_map' = DOMAIN key_map \cup {next_seq}
          /\ key_map'[next_seq] = first_free
          /\ \A k \in DOMAIN key_map : key_map'[k] = key_map[k] /\ k # next_seq
          /\ key_map' = [k \in DOMAIN key_map' |-> key_map'[k]]
      BY <1>1, PushBackMaps
    <3> QED  BY <2>2, <3>1 DEF KeysOnto
  <2> QED  BY <2>1, <2>3, <2>4
<1>2. ASSUME NEW x \in Value \cup Index, PushBackThrows(x) PROVE DictInv'
  <2>1. IndInv'
    BY <1>2, NextInv DEF PushBackThrows, Next
  <2>2. KeysInOrder'
    BY <1>2, KeyAssumption DEF KeysInOrder, PushBackThrows
  <2>3. KeysOnto'
    BY <1>2 DEF KeysOnto, PushBackThrows, AllocThrows
  <2> QED  BY <2>1, <2>2, <2>3
<1>3. ASSUME NEW k \in DOMAIN key_map, Erase(k) PROVE DictInv'
  <2>1. key_map[k] \in owned
    BY DEF KeysOnto
  <2>2. IndInv'
    BY <1>3, <2>1, NextInv DEF Erase, Next
  <2>3. KeysInOrder'
    BY <1>3 DEF KeysInOrder, Erase
  <2>4. KeysOnto'
    BY <1>3, <2>1 DEF KeysOnto, Erase, Free
  <2> QED  BY <2>2, <2>3, <2>4
<1>4. CASE UNCHANGED dictVars
  <2>1. IndInv'
    BY <1>4, NextInv DEF dictVars
  <2> QED  BY <1>4, <2>1 DEF KeysOnto, KeysInOrder, dictVars, vars
<1> QED  BY <1>1, <1>2, <1>3, <1>4 DEF DictNext

THEOREM DictInvariance ==
  ASSUME PushMax < KeySpace
  PROVE  DictSpec => []DictInv
<1>1. DictInv /\ [DictNext]_dictVars => DictInv'
  BY DictNextInv
<1> QED  BY <1>1, DictInitInv, PTL DEF DictSpec

(* As long as keys are left, keys and objects correspond one to one.       *)
THEOREM KeysMatchObjectsAlways ==
  ASSUME PushMax < KeySpace
  PROVE  DictSpec => []KeysMatchObjects
<1>1. DictInv => KeysMatchObjects
  BY KeyAssumption DEF DictInv, KeysInOrder, KeysOnto, KeysMatchObjects
<1> QED  BY <1>1, DictInvariance, PTL

(* The dictionary never holds more values than the pool has cells.         *)
LEMMA KeysCounted ==
  ASSUME DictInv, ~Full
  PROVE  Cardinality(DOMAIN key_map) < Capacity
<1>1. key_map \in Injection(DOMAIN key_map, Taken)
  BY DEF DictInv, KeysOnto, Injection, IsInjective, Taken
<1>2. IsFiniteSet(Taken) /\ IsFiniteSet(DOMAIN key_map)
  BY <1>1, TakenFinite, FS_Injection DEF DictInv, IndInv
<1>3. /\ Cardinality(DOMAIN key_map) <= Cardinality(Taken)
      /\ Cardinality(DOMAIN key_map) \in Nat /\ Cardinality(Taken) \in Nat
  BY <1>1, <1>2, FS_Injection, FS_CardinalityType
<1> QED
  BY <1>3, PoolAssumption DEF DictInv, IndInv, Counted, TypeOK, Full

(* Every step of the dictionary is one of the abstract map: an object is   *)
(* the value its key was given until the key is erased.                    *)
LEMMA MapStep ==
  ASSUME PushMax < KeySpace, DictInv, [DictNext]_dictVars
  PROVE  [Map!Next]_<<[k \in DOMAIN key_map |-> Find(k)], next_seq>>
<1> DEFINE m == [k \in DOMAIN key_map |-> Find(k)]
<1>1. /\ collection \in [Cell -> Value \cup Index]
      /\ \A k \in DOMAIN key_map : key_map[k] \in owned /\ key_map[k] \in Cell
      /\ owned \subseteq Taken
  BY DEF DictInv, KeysOnto, IndInv, TypeOK, Taken
<1>2. ASSUME NEW v \in Value, PushBack(v) PROVE Map!PushBack(v)
  <2>1. Cardinality(DOMAIN m) < Capacity
    BY <1>2, KeysCounted DEF PushBack, Alloc, Pop
  <2>2. m' = [k \in DOMAIN m \cup {next_seq} |-> IF k = next_seq THEN v ELSE m[k]]
    <3>1. /\ DOMAIN key_map' = DOMAIN key_map \cup {next_seq}
          /\ key_map'[next_seq] = first_free /\ first_free \in Cell /\ first_free \notin Taken
          /\ \A k \in DOMAIN key_map : key_map'[k] = key_map[k] /\ k # next_seq
      BY <1>2, PushBackMaps
    <3>2. collection' = [collection EXCEPT ![first_free] = v]
      BY <1>2 DEF PushBack, Alloc
    <3>3. \A k \in DOMAIN key_map : collection'[key_map'[k]] = collection[key_map[k]]
      BY <1>1, <3>1, <3>2
    <3>4. collection'[key_map'[next_seq]] = v
      BY <1>1, <3>1, <3>2
    <3> QED  BY <3>1, <3>3, <3>4 DEF Find
  <2>3. next_seq' = next_seq + 1
    BY <1>2, PushBackMaps
  <2>4. Map!Cardinality(DOMAIN m) = Cardinality(DOMAIN m)
    BY DEF Map!Cardinality, Cardinality
  <2> QED  BY <2>1, <2>2, <2>3, <2>4 DEF Map!PushBack
<1>3. ASSUME NEW x \in Value \cup Index, PushBackThrows(x) PROVE UNCHANGED <<m, next_seq>>
  <2>1. first_free \notin Taken /\ collection' = [collection EXCEPT ![first_free] = x]
    BY <1>3, HeadFree DEF DictInv, IndInv, PushBackThrows, AllocThrows, Pop
  <2>2. key_map' = key_map /\ next_seq' = next_seq
    BY <1>3 DEF PushBackThrows
  <2>3. \A k \in DOMAIN key_map : collection'[key_map[k]] = collection[key_map[k]]
    BY <1>1, <2>1
  <2> QED  BY <2>2, <2>3 DEF Find
<1>4. ASSUME NEW k \in DOMAIN key_map, Erase(k) PROVE Map!Erase(k)
  <2>1. /\ key_map' = [j \in DOMAIN key_map \ {k} |-> key_map[j]]
        /\ collection' = [collection EXCEPT ![key_map[k]] = first_free]
        /\ next_seq' = next_seq
    BY <1>4 DEF Erase, Free
  <2>2. \A j \in DOMAIN key_map \ {k} : key_map[j] # key_map[k]
    BY DEF DictInv, KeysOnto
  <2>3. \A j \in DOMAIN key_map \ {k} : collection'[key_map'[j]] = collection[key_map[j]]
    BY <1>1, <2>1, <2>2
  <2>4. m' = [j \in DOMAIN m \ {k} |-> m[j]]
    BY <2>1, <2>3 DEF Find
  <2> QED  BY <2>1, <2>4 DEF Map!Erase
<1>5. CASE UNCHANGED dictVars
  BY <1>5 DEF dictVars, vars, Find
<1>6. DOMAIN m = DOMAIN key_map
  OBVIOUS
<1> HIDE DEF m
<1> QED  BY <1>2, <1>3, <1>4, <1>5, <1>6 DEF DictNext, Map!Next, m

(* seqdict_pool is a map from ever new keys to their values.               *)
THEOREM MapImplemented ==
  ASSUME PushMax < KeySpace
  PROVE  DictSpec => RefinesMap
<1>1. DictInit => Map!Init
  BY DEF DictInit, Map!Init
<1>2. DictInv /\ [DictNext]_dictVars
        => [Map!Next]_<<[k \in DOMAIN key_map |-> Find(k)], next_seq>>
  BY MapStep
<1> QED  BY <1>1, <1>2, DictInvariance, PTL DEF DictSpec, RefinesMap, Map!Spec
=============================================================================
