------------------------------ MODULE CacheDict ------------------------------
(***************************************************************************)
(* What the object cache of src/src/mcache.c promises its users, without  *)
(* buckets, lists, counters or threads: a dictionary from keys to items.  *)
(* mc_item_insert adds an item under a key that is absent and never       *)
(* replaces the item a key has; mc_item_delete removes a key; a user's    *)
(* found callback takes a reference on an item of the dictionary and      *)
(* drops it later; and eviction, by the sweeper or by an allocation,      *)
(* removes any keys whose items nobody holds a reference to.  An item is  *)
(* under at most one key.  MCache is shown to implement this module       *)
(* (MCache!CacheContract).                                                *)
(***************************************************************************)
EXTENDS FiniteSets

CONSTANTS
  DKeys,     \* the keys users set
  DItems,    \* the item blocks
  NoItem     \* a key with no item

VARIABLES
  dict,      \* dict[k]: the item stored under k, or NoItem
  held       \* the items users hold a reference to

dvars == << dict, held >>

Stored == {dict[k] : k \in DKeys} \ {NoItem}

DInit ==
  /\ dict = [k \in DKeys |-> NoItem]
  /\ held = {}

\* An item nobody stores is put under an absent key.
Put(k, i) ==
  /\ dict[k] = NoItem /\ i \notin Stored
  /\ dict' = [dict EXCEPT ![k] = i]
  /\ UNCHANGED held

\* A key is removed, whether or not its item is referenced.
Drop(k) ==
  /\ dict[k] # NoItem
  /\ dict' = [dict EXCEPT ![k] = NoItem]
  /\ UNCHANGED held

\* A set of keys whose items nobody references is removed at once.
Evict(ks) ==
  /\ ks # {}
  /\ \A k \in ks : dict[k] # NoItem /\ dict[k] \notin held
  /\ dict' = [k \in DKeys |-> IF k \in ks THEN NoItem ELSE dict[k]]
  /\ UNCHANGED held

\* A user takes a reference on a stored item, or drops one it holds.
Hold(i) ==
  /\ i \in Stored /\ i \notin held
  /\ held' = held \cup {i}
  /\ UNCHANGED dict

Release(i) ==
  /\ i \in held
  /\ held' = held \ {i}
  /\ UNCHANGED dict

DNext ==
  \/ \E k \in DKeys : Drop(k) \/ \E i \in DItems : Put(k, i)
  \/ \E ks \in SUBSET DKeys : Evict(ks)
  \/ \E i \in DItems : Hold(i) \/ Release(i)

DSpec == DInit /\ [][DNext]_dvars
=============================================================================
