----------------------------- MODULE SeqDictPool -----------------------------
(***************************************************************************)
(* seqdict_pool<K, V>: a fixed_pool of values and a hash map from the keys *)
(* it hands out to their cells.                                            *)
(***************************************************************************)
EXTENDS FixedPool

CONSTANTS KeySpace,   \* number of values of the key type
          PushMax     \* bound: how many values are pushed

ASSUME KeyAssumption == KeySpace \in Nat \ {0} /\ PushMax \in Nat

VARIABLES next_seq, key_map,
          pushed      \* how many values have been pushed

dictVars == <<vars, next_seq, key_map, pushed>>

DictInit == Init /\ next_seq = 0 /\ key_map = <<>> /\ pushed = 0

\* absl::flat_hash_map::insert does not replace what a key is mapped to.
Insert(m, k, i) ==
  [j \in DOMAIN m \cup {k} |-> IF j \in DOMAIN m THEN m[j] ELSE i]

\* maps the key to the head of the free list after the allocation
PushBack_stale(v) ==
  /\ pushed < PushMax
  /\ Alloc(v)
  /\ key_map' = Insert(key_map, next_seq, first_free')
  /\ next_seq' = (next_seq + 1) % KeySpace
  /\ pushed' = pushed + 1
\* A full pool returns {0, false} and changes nothing.
PushBack(v) ==
  /\ pushed < PushMax
  /\ Alloc(v)
  /\ key_map' = Insert(key_map, next_seq, first_free)
  /\ next_seq' = (next_seq + 1) % KeySpace
  /\ pushed' = pushed + 1

\* The constructor of the value throws inside alloc: no key is handed out.
PushBackThrows(x) ==
  /\ pushed < PushMax
  /\ AllocThrows(x)
  /\ pushed' = pushed + 1
  /\ UNCHANGED <<next_seq, key_map>>

\* frees the cell and keeps the key
Erase_keyKept(k) ==
  /\ k \in DOMAIN key_map
  /\ Free(key_map[k])
  /\ UNCHANGED <<next_seq, key_map, pushed>>
Erase(k) ==
  /\ k \in DOMAIN key_map
  /\ Free(key_map[k])
  /\ key_map' = [j \in DOMAIN key_map \ {k} |-> key_map[j]]
  /\ UNCHANGED <<next_seq, pushed>>

\* What a key leads to; contains is key's being there.
Find(k) == collection[key_map[k]]

DictNext ==
  \/ \E v \in Value : PushBack(v)
  \/ \E x \in Value \cup Index : PushBackThrows(x)
  \/ \E k \in DOMAIN key_map : Erase(k)
DictSpec == DictInit /\ [][DictNext]_dictVars

-----------------------------------------------------------------------------
(* Keys and objects correspond one to one: every object the pool holds can *)
(* be found and erased, and no key leads to a freed cell or to another     *)
(* key's object.                                                           *)
KeysMatchObjects ==
  /\ next_seq \in 0 .. KeySpace - 1 /\ DOMAIN key_map \subseteq 0 .. KeySpace - 1
  /\ {key_map[k] : k \in DOMAIN key_map} = owned
  /\ \A j, k \in DOMAIN key_map : key_map[j] = key_map[k] => j = k

(* The dictionary is a map from ever new keys to their values.             *)
Map == INSTANCE SeqMap WITH Bound <- Capacity, next <- next_seq,
         map <- [k \in DOMAIN key_map |-> Find(k)]
RefinesMap == Map!Spec
=============================================================================
