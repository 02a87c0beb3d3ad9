------------------------------ MODULE FixedPool ------------------------------
(***************************************************************************)
(* fixed_pool<T, Index>: an array of cells, each either an object or, while*)
(* free, the index of the next free cell.  Nothing marks which: the pool   *)
(* relies on first_free and size_ alone.  The last cell of the free list   *)
(* holds whatever the memory held.                                         *)
(***************************************************************************)
EXTENDS Naturals, Sequences, FiniteSets

CONSTANTS Capacity,   \* number of cells
          Value,      \* objects
          Index,      \* values of index_t, any of which may be in fresh memory
          MayThrow    \* whether constructors of T may throw

ASSUME PoolAssumption ==
  /\ Capacity \in Nat \ {0}
  /\ Index \subseteq Nat /\ 0 .. Capacity - 1 \subseteq Index
  /\ Value # {} /\ Value \cap Index = {}
  /\ MayThrow \in BOOLEAN

VARIABLES
  collection,   \* the cells, each an object or an index
  first_free,
  size_,
  owned,        \* the cells whose objects the callers hold
  lost          \* cells taken for objects whose constructor threw

vars == <<collection, first_free, size_, owned, lost>>

Cell == 0 .. Capacity - 1

\* What collection[i].next_index reads: anything, over an object.
NextIndex(i) == IF collection[i] \in Index THEN {collection[i]} ELSE Index

Full == size_ = Capacity

\* The constructor links every cell to the next and leaves the last alone.
Init ==
  /\ collection \in [Cell -> Index]
  /\ \A i \in Cell : i + 1 < Capacity => collection[i] = i + 1
  /\ first_free = 0 /\ size_ = 0 /\ owned = {} /\ lost = {}

\* Takes the cell at the head of the free list.
Pop ==
  /\ ~Full
  /\ first_free' \in NextIndex(first_free)
  /\ size_' = size_ + 1

\* reads the link after constructing the object over it
Alloc_linkLost(v) ==
  /\ ~Full
  /\ first_free' \in Index
  /\ size_' = size_ + 1
  /\ collection' = [collection EXCEPT ![first_free] = v]
  /\ owned' = owned \cup {first_free}
  /\ UNCHANGED lost
\* alloc(args...); a full pool returns nullptr and changes nothing.
Alloc(v) ==
  /\ Pop
  /\ collection' = [collection EXCEPT ![first_free] = v]
  /\ owned' = owned \cup {first_free}
  /\ UNCHANGED lost

\* The constructor throws, with the cell already taken and partly written.
AllocThrows(x) ==
  /\ MayThrow /\ Pop
  /\ collection' = [collection EXCEPT ![first_free] = x]
  /\ lost' = lost \cup {first_free}
  /\ UNCHANGED owned

\* links the freed cell without making it the head
Free_headKept(i) ==
  /\ i \in owned
  /\ collection' = [collection EXCEPT ![i] = first_free]
  /\ size_' = size_ - 1
  /\ owned' = owned \ {i}
  /\ UNCHANGED <<first_free, lost>>
\* links the head to the freed cell instead
Free_backwards(i) ==
  /\ i \in owned
  /\ collection' = [c \in Cell |-> IF c = first_free THEN i ELSE collection[c]]
  /\ first_free' = i
  /\ size_' = size_ - 1
  /\ owned' = owned \ {i}
  /\ UNCHANGED lost
\* forgets the count
Free_uncounted(i) ==
  /\ i \in owned
  /\ collection' = [collection EXCEPT ![i] = first_free]
  /\ first_free' = i
  /\ owned' = owned \ {i}
  /\ UNCHANGED <<size_, lost>>
\* free(ptr), of a pointer alloc returned and nobody freed since.
Free(i) ==
  /\ i \in owned
  /\ collection' = [collection EXCEPT ![i] = first_free]
  /\ first_free' = i
  /\ size_' = size_ - 1
  /\ owned' = owned \ {i}
  /\ UNCHANGED lost

Next ==
  \/ \E v \in Value : Alloc(v)
  \/ \E x \in Value \cup Index : AllocThrows(x)
  \/ \E i \in owned : Free(i)
Spec == Init /\ [][Next]_vars

-----------------------------------------------------------------------------
(* for_each walks the free list for as many steps as there are free cells, *)
(* and visits every other cell.                                            *)
FreeWalk[n \in 1 .. Capacity - size_] ==
  IF n = 1 THEN first_free ELSE collection[FreeWalk[n - 1]]
Visited == {i \in Cell : \A n \in 1 .. Capacity - size_ : FreeWalk[n] # i}

-----------------------------------------------------------------------------
(* Type invariant.                                                         *)
TypeOK ==
  /\ collection \in [Cell -> Value \cup Index]
  /\ first_free \in Index /\ size_ \in 0 .. Capacity
  /\ owned \in SUBSET Cell /\ lost \in SUBSET Cell

(* No caller is given a cell another one holds, in whatever order cells    *)
(* were freed: test_pool.cpp's fuzz looks for it at random.                *)
NeverTwice == ~Full => first_free \in Cell \ (owned \cup lost)

(* for_each, and so the destructor, visits every object a caller holds and *)
(* no free cell.  Besides those it visits the lost cells, and only those:  *)
(* the ones alloc counted before the constructor threw, where no object    *)
(* was ever made.                                                          *)
ForEachExact == Visited = owned \cup lost

(* An object stays as it was made until its caller frees it: the links of  *)
(* the free list never overwrite it.                                       *)
ObjectsKept == [][\A i \in owned \cap owned' :
                    collection[i] \in Value /\ collection'[i] = collection[i]]_vars

-----------------------------------------------------------------------------
(* The inductive invariant: the free list starts at first_free and goes    *)
(* once through every cell that is not taken.                              *)
Taken == owned \cup lost
FreeCount == Capacity - size_

FreeList(s) ==
  /\ \A i \in 1 .. FreeCount : s[i] \notin Taken
  /\ \A c \in Cell \ Taken : \E i \in 1 .. FreeCount : s[i] = c
  /\ \A i, j \in 1 .. FreeCount : s[i] = s[j] => i = j
  /\ FreeCount > 0 => s[1] = first_free
  /\ \A i \in 1 .. FreeCount : i < FreeCount => collection[s[i]] = s[i + 1]
Linked == \E s \in [1 .. FreeCount -> Cell] : FreeList(s)

Objects == owned \cap lost = {} /\ \A i \in owned : collection[i] \in Value

Counted == size_ = Cardinality(Taken)

IndInv == TypeOK /\ Objects /\ Counted /\ Linked
=============================================================================
