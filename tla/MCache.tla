------------------------------- MODULE MCache -------------------------------
(***************************************************************************)
(* The bounded object cache of src/src/mcache.c: items allocated by       *)
(* callers (_alloc_item with its synchronous eviction behind the wait     *)
(* gate), inserted into and deleted from the hash map (HashMap), routed   *)
(* by the user's freeable test to the free or the in-use list, and the    *)
(* background sweeper thread (_sweeper_main) with its halving depth.      *)
(*                                                                         *)
(* An item is a model value of Items; "live" are those calloc'ed and not  *)
(* yet freed.  freeable(item) is the user's reference test: a user pins   *)
(* an item it found in the map and unpins it later.  Each lock-protected  *)
(* region is one step; the unlocked updates (total_keys after insert and  *)
(* delete, free_out after insert, alloc_count after calloc) are steps of  *)
(* their own, since other threads run between them.                       *)
(***************************************************************************)
EXTENDS Integers, Sequences, SequencesExt, FiniteSets, HashMap, Sema

CONSTANTS
  Items,      \* item memory blocks the process allocator can hand out
  Keys,       \* keys a caller may setkey
  Scale,      \* mc->item.scale
  MC_RETRY,   \* synchronous eviction attempts per allocation
  Callers,    \* threads calling the mc_item_* API
  Sweeper,    \* the sweeper thread
  MaxPinned   \* bound on the items users hold a reference to at once

ASSUME Scale \in Nat \ {0} /\ MC_RETRY \in Nat
ASSUME Sweeper \notin Callers

\* M_LIMIT(scale): the soft limit above which the sweeper is woken.
Limit == (Scale * 65) \div 100
None  == "none"
NoKey == "nokey"  \* the NULL key of a calloc'ed item
Actors == Callers \cup {Sweeper}

VARIABLES
  buckets,    \* map->buckets[b].list
  keyOf,      \* item->hash.key; the key of an item out of the map is never
              \*   read again (setkey precedes insert) and is reset to NoKey
  totalKeys,  \* map->total_keys (negative: wrapped below zero)
  freeList,   \* mc->mempool.free.list
  inuse,      \* mc->mempool.inuse.list
  allocCount, \* mc->item.alloc_count
  live,       \* items calloc'ed and not yet free'd
  freeOut,    \* item->free_out
  pinned,     \* the user holds a reference: freeable() is false
  evicting,   \* mc->wait.evicting
  waiters,    \* mc->wait.list of blocked _evict_begin callers
  pc,         \* where each actor is in its current operation
  hand,       \* the item a caller holds (allocated or being deleted)
  retry,      \* _alloc_item's retry counter (0 out of the retry loop)
  evKeep,     \* an eviction pass in progress: its keep count ...
  evB,        \* ... and the next bucket it visits
  sdepth,     \* _sweeper_main's depth
  sem,        \* each caller's stack _waiter_t.sem (Sema record)
  upTo,       \* the waiter whose sema_up an evictor is in the middle of
  semFault    \* sema_up aborted ("up again") or used a destroyed sem_t

vars == << buckets, keyOf, totalKeys, freeList, inuse, allocCount, live,
           freeOut, pinned, evicting, waiters, pc, hand, retry, evKeep, evB,
           sdepth, sem, upTo, semFault >>
semVars == << sem, upTo, semFault >>

Freeable(i) == ~pinned[i]
FreeableSet == {i \in Items : Freeable(i)}
InMap == UNION { ToSet(buckets[b]) : b \in BucketIds }

\* _evict_enable: holds = total_keys + inuse.count, compared with limit
\* (a wrapped total_keys exceeds every limit).
EvictEnable(limit) == totalKeys < 0 \/ totalKeys + Len(inuse) > limit

\* _sweeper_inuse: every freeable in-use item is cleaned and list_add'ed
\* (at the head) to the free list.
SweepInuse ==
  /\ inuse' = SelectSeq(inuse, LAMBDA i : ~Freeable(i))
  /\ freeList' = Reverse(SelectSeq(inuse, Freeable)) \o freeList

\* _free_item: a freeable item goes to the head of the free list, any
\* other to the tail of the in-use list.
FreeItem(i) ==
  IF Freeable(i)
    THEN /\ freeList' = << i >> \o freeList /\ UNCHANGED inuse
    ELSE /\ inuse' = Append(inuse, i) /\ UNCHANGED freeList

Init ==
  /\ buckets = [b \in BucketIds |-> << >>]
  /\ keyOf = [i \in Items |-> NoKey]
  /\ totalKeys = 0
  /\ freeList = << >>
  /\ inuse = << >>
  /\ allocCount = 0
  /\ live = {}
  /\ freeOut = [i \in Items |-> FALSE]
  /\ pinned = [i \in Items |-> FALSE]
  /\ evicting = FALSE
  /\ waiters = << >>
  /\ pc = [a \in Actors |-> "idle"]
  /\ hand = [c \in Callers |-> None]
  /\ retry = [c \in Callers |-> 0]
  /\ evKeep = [a \in Actors |-> 0]
  /\ evB = [a \in Actors |-> 0]
  /\ sdepth = 0
  /\ sem = [c \in Callers |-> SemaFini(SemaInit)]
  /\ upTo = [c \in Callers |-> None]
  /\ semFault = FALSE

-----------------------------------------------------------------------------
\* Mutation: the evicted items are not subtracted from total_keys.
EvictStepNoDec(a, next) ==
  LET b  == evB[a]
      ev == Evicted(buckets[b], evKeep[a], FreeableSet)
  IN
  /\ buckets' = [buckets EXCEPT ![b] = Kept(@, evKeep[a], FreeableSet)]
  /\ freeList' = Reverse(ev) \o freeList
  /\ keyOf' = [i \in Items |-> IF i \in ToSet(ev) THEN NoKey ELSE keyOf[i]]
  /\ IF b + 1 = NB
       THEN /\ pc' = [pc EXCEPT ![a] = next]
            /\ evB' = [evB EXCEPT ![a] = 0]
            /\ evKeep' = [evKeep EXCEPT ![a] = 0]
       ELSE /\ evB' = [evB EXCEPT ![a] = b + 1]
            /\ UNCHANGED << semVars, pc, evKeep >>
  /\ UNCHANGED << semVars, inuse, allocCount, live, freeOut, pinned, evicting,
                  waiters, hand, retry, sdepth, totalKeys >>

(* One bucket of a hashmap_eviction pass of actor a, under the bucket     *)
(* lock; _sweeper_item routes each freed item to the free list.  After    *)
(* the last bucket the actor goes on at "next".                           *)
EvictStep(a, next) ==
  LET b  == evB[a]
      ev == Evicted(buckets[b], evKeep[a], FreeableSet)
  IN
  /\ buckets' = [buckets EXCEPT ![b] = Kept(@, evKeep[a], FreeableSet)]
  /\ freeList' = Reverse(ev) \o freeList
  /\ totalKeys' = totalKeys - Len(ev)
  /\ keyOf' = [i \in Items |-> IF i \in ToSet(ev) THEN NoKey ELSE keyOf[i]]
  /\ IF b + 1 = NB
       THEN /\ pc' = [pc EXCEPT ![a] = next]
            /\ evB' = [evB EXCEPT ![a] = 0]
            /\ evKeep' = [evKeep EXCEPT ![a] = 0]
       ELSE /\ evB' = [evB EXCEPT ![a] = b + 1]
            /\ UNCHANGED << semVars, pc, evKeep >>
  /\ UNCHANGED << semVars, inuse, allocCount, live, freeOut, pinned, evicting,
                  waiters, hand, retry, sdepth >>

StartEviction(a, depth) ==
  /\ evKeep' = [evKeep EXCEPT ![a] = EvictKeep(totalKeys, depth)]
  /\ evB' = [evB EXCEPT ![a] = 0]

-----------------------------------------------------------------------------
(* mc_item_alloc -> _alloc_item, by caller c.                              *)

AllocBegin(c) ==
  /\ pc[c] = "idle" /\ hand[c] = None
  /\ pc' = [pc EXCEPT ![c] = "a_chk"]
  /\ retry' = [retry EXCEPT ![c] = 0]
  /\ UNCHANGED << semVars, buckets, keyOf, totalKeys, freeList, inuse, allocCount, live,
                  freeOut, pinned, evicting, waiters, hand, evKeep, evB, sdepth >>

\* mc->wait.lock is free: no evictor is inside _evict_end's loop.
WaitLockFree == \A d \in Callers : pc[d] \notin {"a_loop", "a_up"}

\* Mutation: off-by-one in the retry test (retry++ > MC_RETRY).
AllocCheckRetryOff(c) ==
  /\ pc[c] = "a_chk"
  /\ \/ /\ ~EvictEnable(Scale)
        /\ pc' = [pc EXCEPT ![c] = "a_free"]
        /\ retry' = [retry EXCEPT ![c] = 0]
        /\ UNCHANGED << evicting, waiters, sem >>
     \/ /\ EvictEnable(Scale) /\ retry[c] = MC_RETRY + 1
        /\ pc' = [pc EXCEPT ![c] = "idle"]
        /\ retry' = [retry EXCEPT ![c] = 0]
        /\ UNCHANGED << evicting, waiters, sem >>
     \/ /\ EvictEnable(Scale) /\ retry[c] <= MC_RETRY /\ WaitLockFree /\ evicting
        /\ retry' = [retry EXCEPT ![c] = @ + 1]
        /\ sem' = [sem EXCEPT ![c] = SemaInit]
        /\ waiters' = Append(waiters, c)
        /\ pc' = [pc EXCEPT ![c] = "a_wait"]
        /\ UNCHANGED evicting
     \/ /\ EvictEnable(Scale) /\ retry[c] <= MC_RETRY /\ WaitLockFree /\ ~evicting
        /\ retry' = [retry EXCEPT ![c] = @ + 1]
        /\ evicting' = TRUE
        /\ pc' = [pc EXCEPT ![c] = "a_inuse"]
        /\ UNCHANGED << waiters, sem >>
  /\ UNCHANGED << buckets, keyOf, totalKeys, freeList, inuse, allocCount, live,
                  freeOut, pinned, hand, evKeep, evB, sdepth, upTo, semFault >>

\* Mutation: _evict_begin does not test the evicting flag.
AllocCheckNoGate(c) ==
  /\ pc[c] = "a_chk"
  /\ \/ /\ ~EvictEnable(Scale)
        /\ pc' = [pc EXCEPT ![c] = "a_free"]
        /\ retry' = [retry EXCEPT ![c] = 0]
        /\ UNCHANGED << evicting, waiters >>
     \/ /\ EvictEnable(Scale) /\ retry[c] = MC_RETRY
        /\ pc' = [pc EXCEPT ![c] = "idle"]
        /\ retry' = [retry EXCEPT ![c] = 0]
        /\ UNCHANGED << evicting, waiters >>
     \/ /\ EvictEnable(Scale) /\ retry[c] < MC_RETRY /\ WaitLockFree
        /\ retry' = [retry EXCEPT ![c] = @ + 1]
        /\ evicting' = TRUE
        /\ pc' = [pc EXCEPT ![c] = "a_inuse"]
        /\ UNCHANGED waiters
  /\ UNCHANGED << buckets, keyOf, totalKeys, freeList, inuse, allocCount, live,
                  freeOut, pinned, hand, evKeep, evB, sdepth, semVars >>

(* Step 1: while holds > scale, give up after MC_RETRY passes, else try   *)
(* _evict_begin: under the wait lock, queue on the gate (sema_init of the *)
(* waiter's stack semaphore, list_add_tail) if another caller is          *)
(* evicting, or become the evictor.                                       *)
AllocCheck(c) ==
  /\ pc[c] = "a_chk"
  /\ \/ /\ ~EvictEnable(Scale)
        /\ pc' = [pc EXCEPT ![c] = "a_free"]
        /\ retry' = [retry EXCEPT ![c] = 0]
        /\ UNCHANGED << evicting, waiters, sem >>
     \/ /\ EvictEnable(Scale) /\ retry[c] = MC_RETRY
        /\ pc' = [pc EXCEPT ![c] = "idle"]
        /\ retry' = [retry EXCEPT ![c] = 0]
        /\ UNCHANGED << evicting, waiters, sem >>
     \/ /\ EvictEnable(Scale) /\ retry[c] < MC_RETRY /\ WaitLockFree /\ evicting
        /\ retry' = [retry EXCEPT ![c] = @ + 1]
        /\ sem' = [sem EXCEPT ![c] = SemaInit]
        /\ waiters' = Append(waiters, c)
        /\ pc' = [pc EXCEPT ![c] = "a_wait"]
        /\ UNCHANGED evicting
     \/ /\ EvictEnable(Scale) /\ retry[c] < MC_RETRY /\ WaitLockFree /\ ~evicting
        /\ retry' = [retry EXCEPT ![c] = @ + 1]
        /\ evicting' = TRUE
        /\ pc' = [pc EXCEPT ![c] = "a_inuse"]
        /\ UNCHANGED << waiters, sem >>
  /\ UNCHANGED << buckets, keyOf, totalKeys, freeList, inuse, allocCount, live,
                  freeOut, pinned, hand, evKeep, evB, sdepth, upTo, semFault >>

\* Mutation: sema_down returns after sem_wait without the cond CAS loop.
AllocWaitNoSpin(c) ==
  /\ pc[c] = "a_wait" /\ SemaWaitEnabled(sem[c])
  /\ sem' = [sem EXCEPT ![c] = SemaWait(@)]
  /\ pc' = [pc EXCEPT ![c] = "a_fini"]
  /\ UNCHANGED << buckets, keyOf, totalKeys, freeList, inuse, allocCount, live,
                  freeOut, pinned, evicting, waiters, hand, retry, evKeep, evB,
                  sdepth, upTo, semFault >>

(* The queued caller's sema_down: sem_wait returns once _evict_end has    *)
(* posted it ...                                                          *)
AllocWait(c) ==
  /\ pc[c] = "a_wait" /\ SemaWaitEnabled(sem[c])
  /\ sem' = [sem EXCEPT ![c] = SemaWait(@)]
  /\ pc' = [pc EXCEPT ![c] = "a_spin"]
  /\ UNCHANGED << buckets, keyOf, totalKeys, freeList, inuse, allocCount, live,
                  freeOut, pinned, evicting, waiters, hand, retry, evKeep, evB,
                  sdepth, upTo, semFault >>

(* ... then it spins until its CAS of cond from DONE to WAIT succeeds,    *)
(* that is until the poster's sema_up has finished with the semaphore.    *)
AllocSpin(c) ==
  /\ pc[c] = "a_spin" /\ SemaDownCasEnabled(sem[c])
  /\ sem' = [sem EXCEPT ![c] = SemaDownCas(@)]
  /\ pc' = [pc EXCEPT ![c] = "a_fini"]
  /\ UNCHANGED << buckets, keyOf, totalKeys, freeList, inuse, allocCount, live,
                  freeOut, pinned, evicting, waiters, hand, retry, evKeep, evB,
                  sdepth, upTo, semFault >>

(* sema_fini destroys the stack semaphore; _evict_begin returns -1 and    *)
(* _alloc_item re-checks.                                                 *)
AllocSemFini(c) ==
  /\ pc[c] = "a_fini"
  /\ sem' = [sem EXCEPT ![c] = SemaFini(@)]
  /\ pc' = [pc EXCEPT ![c] = "a_chk"]
  /\ UNCHANGED << buckets, keyOf, totalKeys, freeList, inuse, allocCount, live,
                  freeOut, pinned, evicting, waiters, hand, retry, evKeep, evB,
                  sdepth, upTo, semFault >>

(* The evictor: _sweeper_inuse, then hashmap_eviction(depth 0).           *)
AllocSweepInuse(c) ==
  /\ pc[c] = "a_inuse"
  /\ SweepInuse
  /\ StartEviction(c, 0)
  /\ pc' = [pc EXCEPT ![c] = "a_evict"]
  /\ UNCHANGED << semVars, buckets, keyOf, totalKeys, allocCount, live, freeOut, pinned,
                  evicting, waiters, hand, retry, sdepth >>

AllocEvict(c) == pc[c] = "a_evict" /\ EvictStep(c, "a_end")

\* Mutation: _evict_end opens the gate without posting the waiters.
AllocEvictEndNoPost(c) ==
  /\ pc[c] \in {"a_end", "a_loop"}
  /\ evicting' = FALSE
  /\ pc' = [pc EXCEPT ![c] = "a_chk"]
  /\ UNCHANGED << semVars, waiters, buckets, keyOf, totalKeys, freeList, inuse,
                  allocCount, live, freeOut, pinned, hand, retry, evKeep, evB,
                  sdepth >>

(* _evict_end, under mc->wait.lock ("a_loop" once taken): unlink the     *)
(* first waiter (list_del, wait.count--) and sema_up it: sem_post, whose *)
(* failure on a destroyed semaphore aborts; or, with the list empty,     *)
(* clear evicting and unlock.                                             *)
AllocEvictEnd(c) ==
  /\ pc[c] \in {"a_end", "a_loop"}
  /\ \/ LET w == Head(waiters) IN
        /\ waiters # << >>
        /\ waiters' = Tail(waiters)
        /\ sem' = [sem EXCEPT ![w] = SemaPost(@)]
        /\ semFault' = (semFault \/ ~sem[w].live)
        /\ upTo' = [upTo EXCEPT ![c] = w]
        /\ pc' = [pc EXCEPT ![c] = "a_up"]
        /\ UNCHANGED evicting
     \/ /\ waiters = << >>
        /\ evicting' = FALSE
        /\ pc' = [pc EXCEPT ![c] = "a_chk"]
        /\ UNCHANGED << waiters, semVars >>
  /\ UNCHANGED << buckets, keyOf, totalKeys, freeList, inuse, allocCount, live,
                  freeOut, pinned, hand, retry, evKeep, evB, sdepth >>

(* sema_up's second half: the CAS of the waiter's cond from WAIT to DONE; *)
(* its failure ("up again") or a destroyed semaphore aborts.              *)
AllocEvictUp(c) ==
  LET w == upTo[c] IN
  /\ pc[c] = "a_up"
  /\ sem' = IF SemaUpCasOk(sem[w]) THEN [sem EXCEPT ![w] = SemaUpCas(@)] ELSE sem
  /\ semFault' = (semFault \/ ~SemaUpCasOk(sem[w]) \/ ~sem[w].live)
  /\ upTo' = [upTo EXCEPT ![c] = None]
  /\ pc' = [pc EXCEPT ![c] = "a_loop"]
  /\ UNCHANGED << buckets, keyOf, totalKeys, freeList, inuse, allocCount, live,
                  freeOut, pinned, evicting, waiters, hand, retry, evKeep, evB,
                  sdepth >>

\* Mutation: the head of the free list is not list_del'ed.
AllocFromFreeNoDel(c) ==
  /\ pc[c] = "a_free"
  /\ \/ /\ freeList # << >>
        /\ hand' = [hand EXCEPT ![c] = Head(freeList)]
        /\ freeOut' = [freeOut EXCEPT ![Head(freeList)] = TRUE]
        /\ pc' = [pc EXCEPT ![c] = "idle"]
     \/ /\ freeList = << >>
        /\ pc' = [pc EXCEPT ![c] = "a_walk"]
        /\ UNCHANGED << semVars, hand, freeOut >>
  /\ UNCHANGED << semVars, freeList, buckets, keyOf, totalKeys, inuse, allocCount, live, pinned,
                  evicting, waiters, retry, evKeep, evB, sdepth >>

(* Step 3, under the free lock: pop the head of the free list.  The       *)
(* threadraw_wakeup of step 2 is left out: the sweeper's need_sleep test  *)
(* sees the same condition.  mc_item_alloc then sets free_out.            *)
AllocFromFree(c) ==
  /\ pc[c] = "a_free"
  /\ \/ /\ freeList # << >>
        /\ hand' = [hand EXCEPT ![c] = Head(freeList)]
        /\ freeOut' = [freeOut EXCEPT ![Head(freeList)] = TRUE]
        /\ freeList' = Tail(freeList)
        /\ pc' = [pc EXCEPT ![c] = "idle"]
     \/ /\ freeList = << >>
        /\ pc' = [pc EXCEPT ![c] = "a_walk"]
        /\ UNCHANGED << semVars, hand, freeOut, freeList >>
  /\ UNCHANGED << semVars, buckets, keyOf, totalKeys, inuse, allocCount, live, pinned,
                  evicting, waiters, retry, evKeep, evB, sdepth >>

(* Step 3, under the in-use lock: recycle the first freeable item. *)
AllocFromInuse(c) ==
  LET fr == SelectSeq(inuse, Freeable) IN
  /\ pc[c] = "a_walk"
  /\ \/ /\ fr # << >>
        /\ hand' = [hand EXCEPT ![c] = Head(fr)]
        /\ freeOut' = [freeOut EXCEPT ![Head(fr)] = TRUE]
        /\ inuse' = Remove(inuse, Head(fr))
        /\ pc' = [pc EXCEPT ![c] = "idle"]
     \/ /\ fr = << >>
        /\ pc' = [pc EXCEPT ![c] = "a_calloc"]
        /\ UNCHANGED << semVars, hand, freeOut, inuse >>
  /\ UNCHANGED << semVars, buckets, keyOf, totalKeys, freeList, allocCount, live, pinned,
                  evicting, waiters, retry, evKeep, evB, sdepth >>

(* Step 4: if alloc_count < scale, calloc (which fails when the process   *)
(* has no memory left); alloc_count is incremented in the next step.      *)
AllocCalloc(c) ==
  /\ pc[c] = "a_calloc"
  /\ \/ \E i \in Items \ live :
          /\ allocCount < Scale
          /\ hand' = [hand EXCEPT ![c] = i]
          /\ live' = live \cup {i}
          /\ pc' = [pc EXCEPT ![c] = "a_inc"]
     \/ /\ allocCount >= Scale \/ live = Items
        /\ pc' = [pc EXCEPT ![c] = "idle"]
        /\ UNCHANGED << semVars, hand, live >>
  /\ UNCHANGED << semVars, buckets, keyOf, totalKeys, freeList, inuse, allocCount,
                  freeOut, pinned, evicting, waiters, retry, evKeep, evB, sdepth >>

AllocInc(c) ==
  /\ pc[c] = "a_inc"
  /\ allocCount' = allocCount + 1
  /\ freeOut' = [freeOut EXCEPT ![hand[c]] = TRUE]
  /\ pc' = [pc EXCEPT ![c] = "idle"]
  /\ UNCHANGED << semVars, buckets, keyOf, totalKeys, freeList, inuse, live, pinned,
                  evicting, waiters, hand, retry, evKeep, evB, sdepth >>

-----------------------------------------------------------------------------
(* mc_item_setkey + mc_item_insert -> hashmap_insert, by caller c holding *)
(* an item: on a duplicate key EEXIST and the caller keeps its item;      *)
(* otherwise the item is linked at the bucket head, and after the unlock  *)
(* total_keys is incremented and then free_out cleared.                   *)
Insert(c) ==
  LET i == hand[c] IN
  /\ pc[c] = "idle" /\ i # None
  /\ \E k \in Keys :
       LET b == BucketOf(k) IN
       /\ keyOf' = [keyOf EXCEPT ![i] = k]
       /\ \/ /\ KeyIn(buckets[b], keyOf, k)
             /\ UNCHANGED << semVars, buckets, pc >>
          \/ /\ ~KeyIn(buckets[b], keyOf, k)
             /\ buckets' = [buckets EXCEPT ![b] = HmInsert(@, i)]
             /\ pc' = [pc EXCEPT ![c] = "i_inc"]
  /\ UNCHANGED << semVars, totalKeys, freeList, inuse, allocCount, live, freeOut, pinned,
                  evicting, waiters, hand, retry, evKeep, evB, sdepth >>

InsertInc(c) ==
  /\ pc[c] = "i_inc"
  /\ totalKeys' = totalKeys + 1
  /\ pc' = [pc EXCEPT ![c] = "i_fo"]
  /\ UNCHANGED << semVars, buckets, keyOf, freeList, inuse, allocCount, live, freeOut,
                  pinned, evicting, waiters, hand, retry, evKeep, evB, sdepth >>

InsertFreeOut(c) ==
  /\ pc[c] = "i_fo"
  /\ freeOut' = [freeOut EXCEPT ![hand[c]] = FALSE]
  /\ hand' = [hand EXCEPT ![c] = None]
  /\ pc' = [pc EXCEPT ![c] = "idle"]
  /\ UNCHANGED << semVars, buckets, keyOf, totalKeys, freeList, inuse, allocCount, live,
                  pinned, evicting, waiters, retry, evKeep, evB, sdepth >>

(* mc_item_delete -> hashmap_delete (condition returns 0): the item is    *)
(* unlinked under the bucket lock, total_keys decremented after it, then  *)
(* _free_item routes it.                                                   *)
Delete(c) ==
  /\ pc[c] = "idle" /\ hand[c] = None
  /\ \E k \in Keys :
       LET b == BucketOf(k) IN
       /\ KeyIn(buckets[b], keyOf, k)
       /\ hand' = [hand EXCEPT ![c] = Head(Matches(buckets[b], keyOf, k))]
       /\ buckets' = [buckets EXCEPT ![b] = HmDelete(@, keyOf, k)]
       /\ keyOf' = [keyOf EXCEPT ![Head(Matches(buckets[b], keyOf, k))] = NoKey]
  /\ pc' = [pc EXCEPT ![c] = "d_dec"]
  /\ UNCHANGED << semVars, totalKeys, freeList, inuse, allocCount, live, freeOut,
                  pinned, evicting, waiters, retry, evKeep, evB, sdepth >>

DeleteDec(c) ==
  /\ pc[c] = "d_dec"
  /\ totalKeys' = totalKeys - 1
  /\ pc' = [pc EXCEPT ![c] = "d_free"]
  /\ UNCHANGED << semVars, buckets, keyOf, freeList, inuse, allocCount, live, freeOut,
                  pinned, evicting, waiters, hand, retry, evKeep, evB, sdepth >>

DeleteFree(c) ==
  /\ pc[c] = "d_free"
  /\ FreeItem(hand[c])
  /\ hand' = [hand EXCEPT ![c] = None]
  /\ pc' = [pc EXCEPT ![c] = "idle"]
  /\ UNCHANGED << semVars, buckets, keyOf, totalKeys, allocCount, live, freeOut, pinned,
                  evicting, waiters, retry, evKeep, evB, sdepth >>

(* mc_item_free of the caller's item: silently ignored unless free_out;   *)
(* either way the caller is done with the pointer.                        *)
ItemFree(c) ==
  LET i == hand[c] IN
  /\ pc[c] = "idle" /\ i # None
  /\ hand' = [hand EXCEPT ![c] = None]
  /\ \/ /\ freeOut[i]
        /\ allocCount' = allocCount - 1
        /\ live' = live \ {i}
        /\ freeOut' = [freeOut EXCEPT ![i] = FALSE]
     \/ /\ ~freeOut[i]
        /\ UNCHANGED << semVars, allocCount, live, freeOut >>
  /\ UNCHANGED << semVars, buckets, keyOf, totalKeys, freeList, inuse, pinned, evicting,
                  waiters, pc, retry, evKeep, evB, sdepth >>

(* A user's found callback (search / protect) takes a reference on the    *)
(* item the lookup of a key finds in the map; the user drops it later.    *)
Pin(i) ==
  /\ \E k \in Keys : /\ KeyIn(buckets[BucketOf(k)], keyOf, k)
                    /\ HmSearch(buckets[BucketOf(k)], keyOf, k) = i
  /\ ~pinned[i]
  /\ Cardinality({j \in Items : pinned[j]}) < MaxPinned
  /\ pinned' = [pinned EXCEPT ![i] = TRUE]
  /\ UNCHANGED << semVars, buckets, keyOf, totalKeys, freeList, inuse, allocCount, live,
                  freeOut, evicting, waiters, pc, hand, retry, evKeep, evB, sdepth >>

Unpin(i) ==
  /\ pinned[i]
  /\ pinned' = [pinned EXCEPT ![i] = FALSE]
  /\ UNCHANGED << semVars, buckets, keyOf, totalKeys, freeList, inuse, allocCount, live,
                  freeOut, evicting, waiters, pc, hand, retry, evKeep, evB, sdepth >>

-----------------------------------------------------------------------------
(* The sweeper thread: the thread-raw loop calls _sweeper_main whenever   *)
(* _sweeper_needsleep finds holds above the soft limit.                   *)

SweeperRun ==
  /\ pc[Sweeper] = "idle"
  /\ EvictEnable(Limit)
  /\ SweepInuse
  /\ sdepth' = Scale
  /\ pc' = [pc EXCEPT ![Sweeper] = "s_loop"]
  /\ UNCHANGED << semVars, buckets, keyOf, totalKeys, allocCount, live, freeOut, pinned,
                  evicting, waiters, hand, retry, evKeep, evB >>

(* _sweeper_main's loop: while holds is above the soft limit and depth is *)
(* positive, clamp depth to the average bucket depth, halve it and run    *)
(* hashmap_eviction(depth).                                               *)
SweeperLoop ==
  LET avg == AvgDepth(totalKeys, Scale)
      d   == (IF sdepth > avg THEN avg ELSE sdepth) \div 2
  IN
  /\ pc[Sweeper] = "s_loop"
  /\ \/ /\ EvictEnable(Limit) /\ sdepth > 0
        /\ sdepth' = d
        /\ StartEviction(Sweeper, d)
        /\ pc' = [pc EXCEPT ![Sweeper] = "s_evict"]
     \/ /\ ~(EvictEnable(Limit) /\ sdepth > 0)
        /\ pc' = [pc EXCEPT ![Sweeper] = "idle"]
        /\ sdepth' = 0
        /\ UNCHANGED << semVars, evKeep, evB >>
  /\ UNCHANGED << semVars, buckets, keyOf, totalKeys, freeList, inuse, allocCount, live,
                  freeOut, pinned, evicting, waiters, hand, retry >>

SweeperEvict == pc[Sweeper] = "s_evict" /\ EvictStep(Sweeper, "s_loop")

-----------------------------------------------------------------------------
\* The steps of an operation a caller has started.
CallerStep(c) ==
  \/ AllocCheck(c) \/ AllocWait(c) \/ AllocSpin(c) \/ AllocSemFini(c)
  \/ AllocSweepInuse(c) \/ AllocEvict(c) \/ AllocEvictEnd(c) \/ AllocEvictUp(c)
  \/ AllocFromFree(c) \/ AllocFromInuse(c)
  \/ AllocCalloc(c) \/ AllocInc(c)
  \/ InsertInc(c) \/ InsertFreeOut(c) \/ DeleteDec(c) \/ DeleteFree(c)

\* The calls a caller may start.
CallerCall(c) == AllocBegin(c) \/ Insert(c) \/ Delete(c) \/ ItemFree(c)

SweeperStep == SweeperRun \/ SweeperLoop \/ SweeperEvict

Next ==
  \/ \E c \in Callers : CallerCall(c) \/ CallerStep(c)
  \/ SweeperStep
  \/ \E i \in Items : Pin(i) \/ Unpin(i)

(* A thread inside an mc call keeps running; the sweeper re-checks at     *)
(* least every 100 ms; users eventually drop their references.            *)
Fairness ==
  /\ \A c \in Callers : WF_vars(CallerStep(c))
  /\ WF_vars(SweeperStep)
  /\ \A i \in Items : WF_vars(Unpin(i))

Spec == Init /\ [][Next]_vars
FairSpec == Spec /\ Fairness

-----------------------------------------------------------------------------
(* Properties.                                                             *)

TypeOK ==
  /\ buckets \in [BucketIds -> Seq(Items)]
  /\ keyOf \in [Items -> Keys \cup {NoKey}]
  /\ totalKeys \in Int
  /\ freeList \in Seq(Items) /\ inuse \in Seq(Items)
  /\ allocCount \in Nat
  /\ live \subseteq Items
  /\ freeOut \in [Items -> BOOLEAN] /\ pinned \in [Items -> BOOLEAN]
  /\ evicting \in BOOLEAN /\ waiters \in Seq(Callers)
  /\ hand \in [Callers -> Items \cup {None}]
  /\ retry \in [Callers -> 0 .. MC_RETRY]
  /\ sdepth \in 0 .. Scale
  /\ sem \in [Callers -> SemaStates]
  /\ upTo \in [Callers -> Callers \cup {None}] /\ semFault \in BOOLEAN

\* The number of places an item is linked or held: a bucket, the free or
\* in-use list, a caller's hand (an inserting caller's item is in the map).
Places(i) ==
  LET occ(s) == Len(SelectSeq(s, LAMBDA x : x = i)) IN
  SumFunction([b \in BucketIds |-> occ(buckets[b])])
  + occ(freeList) + occ(inuse)
  + Cardinality({c \in Callers : hand[c] = i /\ pc[c] \notin {"i_inc", "i_fo"}})

(* No item is ever in two places at once (two buckets, a list and the     *)
(* map, two callers' hands), and memory given back to the process is      *)
(* nowhere: the map, free/in-use routing, eviction and reuse hand every   *)
(* item on rather than copy it.                                           *)
ItemExclusive ==
  \A i \in Items : Places(i) <= 1 /\ (i \notin live => Places(i) = 0)

(* Every item still allocated from the process is reachable: in the map,  *)
(* on the free or in-use list, or held by a caller; none is leaked.       *)
ItemNotLeaked == \A i \in live : Places(i) = 1

(* total_keys agrees with the bucket lists once the insert and delete     *)
(* calls that are between their unlock and their atomic update are        *)
(* counted (spec: total_keys equals the sum of bucket depths at rest).    *)
TotalKeysAccounting ==
  totalKeys + Cardinality({c \in Callers : pc[c] = "i_inc"})
            - Cardinality({c \in Callers : pc[c] = "d_dec"})
    = SumFunction([b \in BucketIds |-> Len(buckets[b])])

(* mcache never holds more than scale items (spec property 5).           *)
AllocBound == allocCount <= Scale

(* The eviction gate: at most one caller evicts at a time, the gate is    *)
(* closed exactly while it does, and only blocked callers are queued.     *)
GateExclusive ==
  LET ev == {c \in Callers :
               pc[c] \in {"a_inuse", "a_evict", "a_end", "a_loop", "a_up"}} IN
  /\ Cardinality(ev) <= 1
  /\ evicting <=> ev # {}
  /\ \A j \in DOMAIN waiters : pc[waiters[j]] = "a_wait" /\ sem[waiters[j]].val = 0

(* The waiter's stack semaphore outlives the evictor's use of it: while   *)
(* an evictor is between sem_post and its cond CAS in sema_up, the posted *)
(* waiter is still inside sema_down (it has not run sema_fini, returned   *)
(* and re-initialised the semaphore), and no sema_up ever aborts on a     *)
(* failed CAS ("up again") or a destroyed semaphore.                      *)
WakeupSafe ==
  /\ ~semFault
  /\ \A c \in Callers : pc[c] = "a_up" => pc[upTo[c]] \in {"a_wait", "a_spin"}

(* Every mc call a caller starts returns: an allocation gets through its  *)
(* retries, the eviction gate (posted by whoever holds it, then           *)
(* sema_down's CAS spin and sema_fini) and the free/in-use/calloc paths;  *)
(* an insert or delete through its unlocked counter updates.  It needs    *)
(* the gate holder to post every waiter and the poster to finish its CAS, *)
(* whatever the sweeper and the users' references do meanwhile.           *)
CallsReturn == \A c \in Callers : pc[c] # "idle" ~> pc[c] = "idle"

(* hashmap_eviction spares the first avg entries of a bucket because new  *)
(* entries are linked at the head (its comment, hashmap.c:459), so what   *)
(* it frees is never newer than what it spares.  That holds only while    *)
(* no step reorders a bucket: hashmap_insert links at the head, delete    *)
(* and a freed entry are unlinked, and an entry the user's freeable test  *)
(* refuses is relinked where it was (list_add_tail before next, 476).     *)
(* Every step either puts one entry in front of a bucket or keeps the     *)
(* entries that stay in their order.                                      *)
BucketNewestFirst ==
  [][\A b \in BucketIds :
       LET old == buckets[b]
           new == buckets'[b]
       IN \/ new = SelectSeq(old, LAMBDA x : x \in ToSet(new))
          \/ new # << >> /\ Tail(new) = old]_vars

\* The item hashmap_search would find under each key, as CacheDict sees it.
DictOf ==
  [k \in Keys |-> IF KeyIn(buckets[BucketOf(k)], keyOf, k)
                    THEN HmSearch(buckets[BucketOf(k)], keyOf, k) ELSE None]

CD == INSTANCE CacheDict WITH
        DKeys <- Keys, DItems <- Items, NoItem <- None,
        dict <- DictOf, held <- {i \in Items : pinned[i]}

(* The cache's promise to its users (CacheDict): a key is only added when *)
(* absent and keeps its item until a delete or an eviction removes it;    *)
(* no item is under two keys; and eviction (hashmap_eviction with         *)
(* _sweeper_item, from the sweeper or from _alloc_item) only removes      *)
(* entries whose item the user's freeable test calls free, however the    *)
(* callers, the sweeper and the users' references interleave.             *)
CacheContract == CD!DSpec
=============================================================================
