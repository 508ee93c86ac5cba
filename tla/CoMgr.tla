------------------------------- MODULE CoMgr -------------------------------
(***************************************************************************)
(* The coroutine manager of src/src/coroutine.c: light-weight tasks (LWTs) *)
(* bound round-robin to worker threads, each worker draining its ready     *)
(* queue in batches (_worker_svc), the three suspension points             *)
(* coroutine_yield, cosem_sleep and cosem_down, the wake-up paths          *)
(* cosem_up and the 1 ms timer tick (_timer_svc) over the delta-encoded    *)
(* sleeper list, and the shutdown sequence of comgr_destroy.               *)
(*                                                                         *)
(* An LWT slot of the manager's memory pool is a model value of Lwts.  A   *)
(* running LWT has the control of its worker thread; the step between     *)
(* putting itself on a queue and swapcontext back to the worker is kept,  *)
(* because the wake-up paths of other threads can run inside it.          *)
(***************************************************************************)
EXTENDS Integers, Sequences, SequencesExt, FiniteSets

CONSTANTS
  NW,           \* number of workers (mgr->worker.count)
  Lwts,         \* LWT slots of the memory pool (max_lwt)
  Durations,    \* the values of ms a coroutine may pass to cosem_sleep
  WithDestroy   \* whether comgr_destroy may be called

ASSUME NW \in Nat \ {0}
ASSUME Durations \subseteq Nat /\ Durations # {}
ASSUME WithDestroy \in BOOLEAN

Workers == 0 .. NW - 1
NoLwt   == "none"

VARIABLES
  lpc,        \* per LWT slot: "free", "susp" (context saved, on a queue),
              \*   "run", "yield" / "sleep" / "down" (queued itself, not yet
              \*   swapped out), "gone" (returned inside _worker_cleanup)
  owner,      \* lwt->worker
  rr,         \* mgr->worker.idx modulo the worker count
  readyQ,     \* worker->lwt.head
  wait,       \* worker->lwt.wait
  batch,      \* the local list lwt_head of a running _worker_svc
  cur,        \* the LWT a worker's host context has switched to
  swapped,    \* worker->swapped
  sleepers,   \* mgr->sleeper.list: << [lwt, d] >> with d the delta timeout
  rem,        \* ghost: ticks left until each sleeper's deadline (an
              \*   overdue sleeper stays at -1, which keeps the model finite)
  semQ,       \* worker->sem.head: the cosems (named by their LWT) blocked
  semval,     \* cosem->val of the cosem each LWT owns
  semret,     \* cosem->ret
  rv,         \* the LWT's use of its cosem: init'ed, up posted, down state
  returned,   \* ghost: the LWT's entry function has returned
  finalized,  \* ghost: its finalizer has been called
  phase,      \* progress of comgr_destroy / _comgr_cleanup
  wphase,     \* progress of threadraw_destroy per worker
  tpc,        \* where the stimer thread (stimer.c _timer_svc) is
  isRun,      \* timer->is_run
  enable,     \* timer->sleeper.enable
  idle,       \* timer->sleeper.idle
  sfini,      \* _sleeper_fini has destroyed the sleeper's mutex and cond
  tfault      \* the timer thread used the destroyed mutex or cond

vars == << lpc, owner, rr, readyQ, wait, batch, cur, swapped, sleepers, rem,
           semQ, semval, semret, rv, returned, finalized, phase, wphase,
           tpc, isRun, enable, idle, sfini, tfault >>
timerVars == << tpc, isRun, enable, idle, sfini, tfault >>

RvIdle == [open |-> FALSE, up |-> FALSE, down |-> "no", done |-> FALSE]

-----------------------------------------------------------------------------
(* Sleeper list helpers.                                                   *)

\* Mutation: the successor keeps its full delta instead of losing the
\* inserter's residual.
RECURSIVE InsertSleeperNoSub(_, _, _)
InsertSleeperNoSub(s, l, t) ==
  IF s = << >> THEN << [lwt |-> l, d |-> t] >>
  ELSE IF Head(s).d > t
       THEN << [lwt |-> l, d |-> t] >> \o s
       ELSE << Head(s) >> \o InsertSleeperNoSub(Tail(s), l, t - Head(s).d)

\* cosem_sleep's walk: subtract the deltas of the entries it passes, insert
\* before the first entry with a larger delta (which loses the residual),
\* or append the residual at the tail.
RECURSIVE InsertSleeper(_, _, _)
InsertSleeper(s, l, t) ==
  IF s = << >> THEN << [lwt |-> l, d |-> t] >>
  ELSE IF Head(s).d > t
       THEN << [lwt |-> l, d |-> t], [Head(s) EXCEPT !.d = @ - t] >> \o Tail(s)
       ELSE << Head(s) >> \o InsertSleeper(Tail(s), l, t - Head(s).d)

\* Number of leading entries whose delta is zero.
RECURSIVE ZeroPrefix(_)
ZeroPrefix(s) == IF s # << >> /\ Head(s).d = 0 THEN 1 + ZeroPrefix(Tail(s)) ELSE 0

\* list_add of each popped sleeper, in list order, at the head of its
\* owner's ready queue: the last one popped ends up first.
LwtsOf(s) == [i \in DOMAIN s |-> s[i].lwt]
\* Mutation: the sleeper node itself is linked into the ready queue.
RequeueNode(q, popped) ==
  [w \in Workers |->
     Reverse(SelectSeq(popped, LAMBDA e : owner[e.lwt] = w)) \o q[w]]
\* Mutation: only the head of the popped run is linked into a ready queue.
RequeueHeadOnly(q, popped) ==
  [w \in Workers |->
     Reverse(SelectSeq(LwtsOf(SubSeq(popped, 1, 1)), LAMBDA l : owner[l] = w)) \o q[w]]
Requeue(q, popped) ==
  [w \in Workers |->
     Reverse(SelectSeq(LwtsOf(popped), LAMBDA l : owner[l] = w)) \o q[w]]

Sleeping == { sleepers[i].lwt : i \in DOMAIN sleepers }
Popped(popped, w) == Len(SelectSeq(popped, LAMBDA e : owner[e.lwt] = w))

-----------------------------------------------------------------------------
(* stimer_create, called by comgr_create with a cycle of 1 ms: is_run set, *)
(* _sleeper_init's enable and idle set, the thread started at its loop.   *)
TimerInit ==
  /\ tpc = "lock" /\ isRun = TRUE /\ enable = TRUE /\ idle = TRUE
  /\ sfini = FALSE /\ tfault = FALSE

Init ==
  /\ lpc = [l \in Lwts |-> "free"]
  /\ owner = [l \in Lwts |-> 0]
  /\ rr = 0
  /\ readyQ = [w \in Workers |-> << >>]
  /\ wait = [w \in Workers |-> 0]
  /\ batch = [w \in Workers |-> << >>]
  /\ cur = [w \in Workers |-> NoLwt]
  /\ swapped = [w \in Workers |-> FALSE]
  /\ sleepers = << >>
  /\ rem = [l \in Lwts |-> 0]
  /\ semQ = [w \in Workers |-> << >>]
  /\ semval = [l \in Lwts |-> 0]
  /\ semret = [l \in Lwts |-> 0]
  /\ rv = [l \in Lwts |-> RvIdle]
  /\ returned = [l \in Lwts |-> FALSE]
  /\ finalized = [l \in Lwts |-> FALSE]
  /\ phase = "run"
  /\ wphase = [w \in Workers |-> "on"]
  /\ TimerInit

-----------------------------------------------------------------------------
(* coroutine_run: take a slot, bind it to the next worker round-robin     *)
(* (_choose_worker), append it to that worker's ready queue.  When the    *)
(* pool is empty mempool_alloc backs off and the call fails with no       *)
(* change of state.                                                        *)
CoroutineRun(l) ==
  LET w == (rr + 1) % NW IN
  /\ phase = "run"
  /\ lpc[l] = "free"
  /\ rr' = w
  /\ owner' = [owner EXCEPT ![l] = w]
  /\ lpc' = [lpc EXCEPT ![l] = "susp"]
  /\ readyQ' = [readyQ EXCEPT ![w] = Append(@, l)]
  /\ wait' = [wait EXCEPT ![w] = @ + 1]
  /\ rv' = [rv EXCEPT ![l] = RvIdle]
  /\ semval' = [semval EXCEPT ![l] = 0]
  /\ semret' = [semret EXCEPT ![l] = 0]
  /\ returned' = [returned EXCEPT ![l] = FALSE]
  /\ finalized' = [finalized EXCEPT ![l] = FALSE]
  /\ UNCHANGED << timerVars, batch, cur, swapped, sleepers, rem, semQ, phase, wphase >>

(* _worker_svc, entry: the thread-raw loop calls it once _worker_need_sleep *)
(* sees wait > 0 and the thread is still running; it splices the ready     *)
(* queue into its local list and zeroes wait under the worker lock.  A    *)
(* thread that passed its is_run test just before _thread_stop cleared it *)
(* still finds wait > 0 and runs this one more batch ("last").             *)
WorkerSplice(w) ==
  /\ wphase[w] \in {"on", "stopping"}
  /\ wait[w] > 0
  /\ batch[w] = << >>
  /\ cur[w] = NoLwt
  /\ batch' = [batch EXCEPT ![w] = readyQ[w]]
  /\ readyQ' = [readyQ EXCEPT ![w] = << >>]
  /\ wait' = [wait EXCEPT ![w] = 0]
  /\ wphase' = [wphase EXCEPT ![w] = IF @ = "stopping" THEN "last" ELSE @]
  /\ UNCHANGED << timerVars, lpc, owner, rr, cur, swapped, sleepers, rem, semQ, semval,
                  semret, rv, returned, finalized, phase >>

(* _worker_svc loop body: take the next LWT, clear swapped, swapcontext    *)
(* into it.  A cosem_down that blocked returns when its LWT is resumed.    *)
WorkerRunNext(w) ==
  LET l == Head(batch[w]) IN
  /\ batch[w] # << >>
  /\ cur[w] = NoLwt
  /\ batch' = [batch EXCEPT ![w] = Tail(@)]
  /\ cur' = [cur EXCEPT ![w] = l]
  /\ swapped' = [swapped EXCEPT ![w] = FALSE]
  /\ lpc' = [lpc EXCEPT ![l] = "run"]
  /\ rv' = IF rv[l].down = "wait" THEN [rv EXCEPT ![l].down = "ret"] ELSE rv
  /\ UNCHANGED << timerVars, owner, rr, readyQ, wait, sleepers, rem, semQ, semval, semret,
                  returned, finalized, phase, wphase >>

-----------------------------------------------------------------------------
(* Steps of the running LWT l on worker w.                                 *)

Running(l, w) == cur[w] = l /\ lpc[l] = "run" /\ semret[l] = 0

(* coroutine_yield: under the worker lock set swapped and append itself to *)
(* the ready queue; the swapcontext is the next step.                     *)
Yield(l, w) ==
  /\ Running(l, w)
  /\ swapped' = [swapped EXCEPT ![w] = TRUE]
  /\ readyQ' = [readyQ EXCEPT ![w] = Append(@, l)]
  /\ wait' = [wait EXCEPT ![w] = @ + 1]
  /\ lpc' = [lpc EXCEPT ![l] = "yield"]
  /\ UNCHANGED << timerVars, owner, rr, batch, cur, sleepers, rem, semQ, semval, semret,
                  rv, returned, finalized, phase, wphase >>

(* cosem_sleep(ms): insert into the sleeper list under the sleeper lock;  *)
(* swapped is set and the swapcontext made in the next step.              *)
Sleep(l, w, ms) ==
  /\ Running(l, w)
  /\ sleepers' = InsertSleeper(sleepers, l, ms)
  /\ rem' = [rem EXCEPT ![l] = ms]
  /\ lpc' = [lpc EXCEPT ![l] = "sleep"]
  /\ UNCHANGED << timerVars, owner, rr, readyQ, wait, batch, cur, swapped, semQ, semval,
                  semret, rv, returned, finalized, phase, wphase >>

(* cosem_init on the LWT's own cosem.  An entry function is a finite      *)
(* program: it runs one init/down/fini cycle per life of its slot.        *)
CosemInit(l, w) ==
  /\ Running(l, w)
  /\ ~rv[l].open /\ ~rv[l].done
  /\ rv' = [rv EXCEPT ![l] = [RvIdle EXCEPT !.open = TRUE]]
  /\ semval' = [semval EXCEPT ![l] = 0]
  /\ semret' = [semret EXCEPT ![l] = 0]
  /\ UNCHANGED << timerVars, lpc, owner, rr, readyQ, wait, batch, cur, swapped, sleepers,
                  rem, semQ, returned, finalized, phase, wphase >>

\* Mutation: off-by-one in the test of val after the increment.
CosemDownOffByOne(l, w) ==
  /\ Running(l, w)
  /\ rv[l].open /\ rv[l].down = "no"
  /\ semval' = [semval EXCEPT ![l] = @ + 1]
  /\ IF semval[l] + 1 <= 1
       THEN /\ rv' = [rv EXCEPT ![l].down = "ret"]
            /\ UNCHANGED << timerVars, swapped, semQ, lpc >>
       ELSE /\ rv' = [rv EXCEPT ![l].down = "wait"]
            /\ swapped' = [swapped EXCEPT ![w] = TRUE]
            /\ semQ' = [semQ EXCEPT ![w] = Append(@, l)]
            /\ lpc' = [lpc EXCEPT ![l] = "down"]
  /\ UNCHANGED << timerVars, owner, rr, readyQ, wait, batch, cur, sleepers, rem, semret,
                  returned, finalized, phase, wphase >>

(* cosem_down: under the worker lock increment val; if it is <= 0 the up  *)
(* came first and down returns at once; else set swapped and queue the    *)
(* cosem on the worker, then swap out in the next step.                   *)
CosemDown(l, w) ==
  /\ Running(l, w)
  /\ rv[l].open /\ rv[l].down = "no"
  /\ semval' = [semval EXCEPT ![l] = @ + 1]
  /\ IF semval[l] + 1 <= 0
       THEN /\ rv' = [rv EXCEPT ![l].down = "ret"]
            /\ UNCHANGED << timerVars, swapped, semQ, lpc >>
       ELSE /\ rv' = [rv EXCEPT ![l].down = "wait"]
            /\ swapped' = [swapped EXCEPT ![w] = TRUE]
            /\ semQ' = [semQ EXCEPT ![w] = Append(@, l)]
            /\ lpc' = [lpc EXCEPT ![l] = "down"]
  /\ UNCHANGED << timerVars, owner, rr, readyQ, wait, batch, cur, sleepers, rem, semret,
                  returned, finalized, phase, wphase >>

(* cosem_fini: fails, changing nothing, while the cosem is still linked or *)
(* val is not zero.                                                        *)
CosemFini(l, w) ==
  /\ Running(l, w)
  /\ rv[l].open /\ rv[l].up /\ rv[l].down = "ret"
  /\ rv' = IF l \notin ToSet(semQ[w]) /\ semval[l] = 0
             THEN [rv EXCEPT ![l] = [RvIdle EXCEPT !.done = TRUE]] ELSE rv
  /\ UNCHANGED << timerVars, lpc, owner, rr, readyQ, wait, batch, cur, swapped, sleepers,
                  rem, semQ, semval, semret, returned, finalized, phase, wphase >>

(* The swapcontext from the LWT back to its worker's host context, and    *)
(* the worker's test of swapped right after it: a swapped LWT is left to  *)
(* whoever queued it; otherwise the worker treats it as finished.         *)
SwapOut(l, w) ==
  /\ cur[w] = l
  /\ lpc[l] \in {"yield", "sleep", "down"}
  /\ cur' = [cur EXCEPT ![w] = NoLwt]
  /\ swapped' = [swapped EXCEPT ![w] = TRUE]
  /\ lpc' = [lpc EXCEPT ![l] = "susp"]
  /\ UNCHANGED << timerVars, owner, rr, readyQ, wait, batch, sleepers, rem, semQ, semval,
                  semret, rv, returned, finalized, phase, wphase >>

(* The entry function returns through uc_link into the worker's context.  *)
(* In _worker_svc (swapped is false) the slot goes back to the pool and   *)
(* the finalizer is called.  In _worker_cleanup, which resumed the LWT    *)
(* with ret -1, the swapcontext simply returns and the loop goes on.      *)
Return(l, w) ==
  /\ cur[w] = l /\ lpc[l] = "run"
  /\ cur' = [cur EXCEPT ![w] = NoLwt]
  /\ returned' = [returned EXCEPT ![l] = TRUE]
  /\ IF wphase[w] \in {"on", "stopping", "last"}
       THEN /\ lpc' = [lpc EXCEPT ![l] = "free"]
            /\ finalized' = [finalized EXCEPT ![l] = TRUE]
       ELSE /\ lpc' = [lpc EXCEPT ![l] = "gone"]
            /\ UNCHANGED finalized
  /\ UNCHANGED << timerVars, owner, rr, readyQ, wait, batch, swapped, sleepers, rem, semQ,
                  semval, semret, rv, phase, wphase >>

-----------------------------------------------------------------------------
(* Wake-up paths run by other threads.                                     *)

\* Mutation: the cosem is not list_del'ed from the worker's wait queue.
CosemUpNoUnlink(l) ==
  LET w == owner[l] IN
  /\ phase = "run"
  /\ lpc[l] # "free"
  /\ rv[l].open /\ ~rv[l].up
  /\ rv' = [rv EXCEPT ![l].up = TRUE]
  /\ semval' = [semval EXCEPT ![l] = @ - 1]
  /\ IF semval[l] - 1 # 0
       THEN UNCHANGED << timerVars, semQ, readyQ, wait >>
       ELSE /\ readyQ' = [readyQ EXCEPT ![w] = << l >> \o @]
            /\ wait' = [wait EXCEPT ![w] = @ + 1]
            /\ UNCHANGED semQ
  /\ UNCHANGED << timerVars, lpc, owner, rr, batch, cur, swapped, sleepers, rem, semret,
                  returned, finalized, phase, wphase >>

\* Mutation: the woken LWT is queued but worker->lwt.wait not incremented.
(* cosem_up, by any thread, on an initialised cosem: under the owner's    *)
(* worker lock decrement val; at zero unlink the cosem and list_add its   *)
(* LWT at the head of the ready queue.                                    *)
CosemUp(l) ==
  LET w == owner[l] IN
  /\ phase = "run"
  /\ lpc[l] # "free"
  /\ rv[l].open /\ ~rv[l].up
  /\ rv' = [rv EXCEPT ![l].up = TRUE]
  /\ semval' = [semval EXCEPT ![l] = @ - 1]
  /\ IF semval[l] - 1 # 0
       THEN UNCHANGED << timerVars, semQ, readyQ, wait >>
       ELSE /\ semQ' = [semQ EXCEPT ![w] = Remove(@, l)]
            /\ readyQ' = [readyQ EXCEPT ![w] = << l >> \o @]
            /\ wait' = [wait EXCEPT ![w] = @ + 1]
  /\ UNCHANGED << timerVars, lpc, owner, rr, batch, cur, swapped, sleepers, rem, semret,
                  returned, finalized, phase, wphase >>

\* Mutation: the head's timeout is tested before it is decremented, so a
\* sleeper whose timeout runs out at this tick is woken one tick late.
TickTestFirst ==
  LET h0 == Head(sleepers).d
      k  == ZeroPrefix(sleepers)
  IN
  \/ /\ sleepers = << >>
     /\ UNCHANGED << sleepers, rem, readyQ, wait >>
  \/ /\ sleepers # << >>
     /\ rem' = [l \in Lwts |-> IF l \in Sleeping /\ rem[l] >= 0 THEN rem[l] - 1
                               ELSE rem[l]]
     /\ IF h0 > 0
          THEN /\ sleepers' = [sleepers EXCEPT ![1].d = h0 - 1]
               /\ UNCHANGED << readyQ, wait >>
          ELSE /\ sleepers' = SubSeq(sleepers, k + 1, Len(sleepers))
               /\ readyQ' = Requeue(readyQ, SubSeq(sleepers, 1, k))
               /\ wait' = [w \in Workers |-> wait[w] + Popped(SubSeq(sleepers, 1, k), w)]

(* The callback, coroutine.c _timer_svc, under the sleeper lock: decrement *)
(* a non-zero head delta; if it is then zero, pop the head and every      *)
(* following zero entry onto their owners' ready queues.  An empty list  *)
(* is left alone.                                                          *)
Tick ==
  LET h  == IF Head(sleepers).d # 0 THEN Head(sleepers).d - 1 ELSE 0
      s1 == [sleepers EXCEPT ![1].d = h]
      k  == ZeroPrefix(s1)
      popped == SubSeq(s1, 1, k)
  IN
  \/ /\ sleepers = << >>
     /\ UNCHANGED << sleepers, rem, readyQ, wait >>
  \/ /\ sleepers # << >>
     /\ rem' = [l \in Lwts |-> IF l \in Sleeping /\ rem[l] >= 0 THEN rem[l] - 1
                               ELSE rem[l]]
     /\ IF h > 0
          THEN /\ sleepers' = s1
               /\ UNCHANGED << readyQ, wait >>
          ELSE /\ sleepers' = SubSeq(s1, k + 1, Len(s1))
               /\ readyQ' = Requeue(readyQ, popped)
               /\ wait' = [w \in Workers |-> wait[w] + Popped(popped, w)]

(* The stimer thread's loop (stimer.c _timer_svc).  "lock": it has seen  *)
(* is_run true and enters _sleeper_wait, whose mutex_lock, cond_timedwait *)
(* and unlock use the sleeper.  With enable already cleared the wait loop *)
(* is skipped: idle is set back, enable = true (unlocked), and the is_run *)
(* check ends the thread (enable is cleared only by stimer_destroy, after *)
(* its CAS of is_run).  Using a destroyed sleeper is undefined (glibc      *)
(* returns EINVAL, which sys_assert turns into abort); tfault records it  *)
(* and the model goes on as if the call had worked.                       *)
TimerLock ==
  /\ tpc = "lock"
  /\ tfault' = (tfault \/ sfini)
  /\ \/ /\ enable
        /\ idle' = FALSE
        /\ tpc' = "wait"
        /\ UNCHANGED << enable, isRun >>
     \/ /\ ~enable /\ ~isRun
        /\ enable' = TRUE
        /\ tpc' = "gone"
        /\ UNCHANGED << idle, isRun >>
  /\ UNCHANGED << sfini, lpc, owner, rr, readyQ, wait, batch, cur, swapped,
                  sleepers, rem, semQ, semval, semret, rv, returned, finalized,
                  phase, wphase >>

TimerWake ==
  /\ tpc = "wait"
  /\ tfault' = (tfault \/ sfini)
  /\ idle' = TRUE
  /\ enable' = TRUE
  /\ \/ /\ isRun
        /\ Tick
        /\ tpc' = "lock"
     \/ /\ ~isRun
        /\ tpc' = "gone"
        /\ UNCHANGED << sleepers, rem, readyQ, wait >>
  /\ UNCHANGED << isRun, sfini, lpc, owner, rr, batch, cur, swapped, semQ,
                  semval, semret, rv, returned, finalized, phase, wphase >>

-----------------------------------------------------------------------------
(* comgr_destroy -> _comgr_cleanup.                                        *)

(* _timer_cleanup: every sleeper is moved to its owner's ready queue; the  *)
(* workers and the timer are still running.                               *)
TimerCleanup ==
  /\ WithDestroy
  /\ phase = "run"
  /\ phase' = "tcleaned"
  /\ sleepers' = << >>
  /\ readyQ' = Requeue(readyQ, sleepers)
  /\ wait' = [w \in Workers |-> wait[w] + Popped(sleepers, w)]
  /\ UNCHANGED << timerVars, lpc, owner, rr, batch, cur, swapped, rem, semQ, semval,
                  semret, rv, returned, finalized, wphase >>

(* stimer_destroy, from _comgr_cleanup: CAS is_run from true to false,   *)
(* then _sleeper_wakeup (enable = false and a signal, under the mutex).  *)
StimerStop ==
  /\ phase = "tcleaned"
  /\ phase' = "tfini"
  /\ isRun' = FALSE
  /\ enable' = FALSE
  /\ UNCHANGED << tpc, idle, sfini, tfault, lpc, owner, rr, readyQ, wait,
                  batch, cur, swapped, sleepers, rem, semQ, semval, semret, rv,
                  returned, finalized, wphase >>

\* Mutation: _sleeper_fini destroys without waiting for idle.
StimerFiniNoIdleWait ==
  /\ phase = "tfini"
  /\ sfini' = TRUE
  /\ phase' = "tjoin"
  /\ UNCHANGED << enable, tpc, isRun, idle, tfault, lpc, owner, rr, readyQ,
                  wait, batch, cur, swapped, sleepers, rem, semQ, semval,
                  semret, rv, returned, finalized, wphase >>

(* _sleeper_fini: while the unlocked idle flag is false, wake again and   *)
(* usleep; once it reads true, destroy the mutex and cond.                 *)
StimerFini ==
  /\ phase = "tfini"
  /\ \/ /\ ~idle
        /\ enable' = FALSE
        /\ UNCHANGED << phase, sfini >>
     \/ /\ idle
        /\ sfini' = TRUE
        /\ phase' = "tjoin"
        /\ UNCHANGED enable
  /\ UNCHANGED << tpc, isRun, idle, tfault, lpc, owner, rr, readyQ, wait,
                  batch, cur, swapped, sleepers, rem, semQ, semval, semret, rv,
                  returned, finalized, wphase >>

(* _worker_fini, worker by worker, once stimer_destroy's pthread_join has  *)
(* returned (the timer thread is gone): _thread_stop clears is_run; the   *)
(* thread finishes the batch it is running, perhaps one more (see         *)
(* WorkerSplice), and exits.                                              *)
WorkerStop(w) ==
  /\ phase = "tjoin" /\ tpc = "gone"
  /\ wphase[w] = "on"
  /\ \A v \in 0 .. w - 1 : wphase[v] = "off"
  /\ wphase' = [wphase EXCEPT ![w] = "stopping"]
  /\ UNCHANGED << timerVars, lpc, owner, rr, readyQ, wait, batch, cur, swapped, sleepers,
                  rem, semQ, semval, semret, rv, returned, finalized, phase >>

WorkerExit(w) ==
  /\ wphase[w] \in {"stopping", "last"}
  /\ cur[w] = NoLwt /\ batch[w] = << >>
  /\ wphase' = [wphase EXCEPT ![w] = "cleanup"]
  /\ UNCHANGED << timerVars, lpc, owner, rr, readyQ, wait, batch, cur, swapped, sleepers,
                  rem, semQ, semval, semret, rv, returned, finalized, phase >>

CleanupReady(w) ==
  /\ wphase[w] = "cleanup"
  /\ wphase' = [wphase EXCEPT ![w] = "semwake"]
  /\ lpc' = [l \in Lwts |-> IF l \in ToSet(readyQ[w]) THEN "free" ELSE lpc[l]]
  /\ readyQ' = [readyQ EXCEPT ![w] = << >>]
  /\ wait' = [wait EXCEPT ![w] = 0]
  /\ UNCHANGED << timerVars, owner, rr, batch, cur, swapped, sleepers, rem, semQ, semval,
                  semret, rv, returned, finalized, phase >>

\* Mutation: the blocked LWT is resumed without cosem->ret = -1.
CleanupSemNoRet(w) ==
  LET l == Head(semQ[w]) IN
  /\ wphase[w] = "semwake"
  /\ cur[w] = NoLwt
  /\ semQ[w] # << >>
  /\ semQ' = [semQ EXCEPT ![w] = Tail(@)]
  /\ cur' = [cur EXCEPT ![w] = l]
  /\ lpc' = [lpc EXCEPT ![l] = "run"]
  /\ rv' = [rv EXCEPT ![l].down = "ret"]
  /\ UNCHANGED << timerVars, owner, rr, readyQ, wait, batch, swapped, sleepers, rem,
                  semval, semret, returned, finalized, phase, wphase >>

(* _worker_cleanup step 2: each blocked cosem is unlinked, given ret -1   *)
(* and its LWT resumed on the destroying thread.                           *)
CleanupSem(w) ==
  LET l == Head(semQ[w]) IN
  /\ wphase[w] = "semwake"
  /\ cur[w] = NoLwt
  /\ semQ[w] # << >>
  /\ semQ' = [semQ EXCEPT ![w] = Tail(@)]
  /\ semret' = [semret EXCEPT ![l] = -1]
  /\ cur' = [cur EXCEPT ![w] = l]
  /\ lpc' = [lpc EXCEPT ![l] = "run"]
  /\ rv' = [rv EXCEPT ![l].down = "ret"]
  /\ UNCHANGED << timerVars, owner, rr, readyQ, wait, batch, swapped, sleepers, rem,
                  semval, returned, finalized, phase, wphase >>

CleanupDone(w) ==
  /\ wphase[w] = "semwake"
  /\ cur[w] = NoLwt /\ semQ[w] = << >>
  /\ wphase' = [wphase EXCEPT ![w] = "off"]
  /\ UNCHANGED << timerVars, lpc, owner, rr, readyQ, wait, batch, cur, swapped, sleepers,
                  rem, semQ, semval, semret, rv, returned, finalized, phase >>

(* A coroutine whose cosem_down failed (ret -1) unwinds: it returns. *)
Unwind(l, w) ==
  /\ cur[w] = l /\ lpc[l] = "run" /\ semret[l] = -1
  /\ Return(l, w)

-----------------------------------------------------------------------------
LwtStep(l) ==
  \E w \in Workers :
    \/ Yield(l, w)
    \/ \E ms \in Durations : Sleep(l, w, ms)
    \/ CosemInit(l, w)
    \/ CosemDown(l, w)
    \/ CosemFini(l, w)
    \/ SwapOut(l, w)
    \/ Running(l, w) /\ Return(l, w)
    \/ Unwind(l, w)

WorkerStep(w) ==
  \/ WorkerSplice(w)
  \/ WorkerRunNext(w)

TimerStep == TimerLock \/ TimerWake

Destroy ==
  \/ TimerCleanup
  \/ StimerStop
  \/ StimerFini
  \/ \E w \in Workers :
       \/ WorkerStop(w) \/ WorkerExit(w) \/ CleanupReady(w)
       \/ CleanupSem(w) \/ CleanupDone(w)

Next ==
  \/ \E l \in Lwts : CoroutineRun(l)
  \/ \E l \in Lwts : LwtStep(l)
  \/ \E w \in Workers : WorkerStep(w)
  \/ \E l \in Lwts : CosemUp(l)
  \/ TimerStep
  \/ Destroy

(* The worker threads poll need_sleep every 100 ms and the timer fires    *)
(* every millisecond, so their steps are weakly fair; a running coroutine *)
(* eventually reaches a suspension point or returns; every cosem_down is  *)
(* paired with a cosem_up that its poster eventually makes; the thread in *)
(* comgr_destroy keeps going, and a stopped worker leaves its loop.       *)
Fairness ==
  /\ \A w \in Workers : WF_vars(WorkerStep(w))
  /\ WF_vars(TimerStep)
  /\ \A l \in Lwts : WF_vars(LwtStep(l))
  /\ \A l \in Lwts : WF_vars(CosemUp(l))
  /\ WF_vars(Destroy)

Spec == Init /\ [][Next]_vars
FairSpec == Spec /\ Fairness

-----------------------------------------------------------------------------
(* Properties.                                                             *)

TypeOK ==
  /\ lpc \in [Lwts -> {"free", "susp", "run", "yield", "sleep", "down", "gone"}]
  /\ owner \in [Lwts -> Workers]
  /\ rr \in Workers
  /\ readyQ \in [Workers -> Seq(Lwts)]
  /\ batch \in [Workers -> Seq(Lwts)]
  /\ wait \in [Workers -> Nat]
  /\ cur \in [Workers -> Lwts \cup {NoLwt}]
  /\ swapped \in [Workers -> BOOLEAN]
  /\ sleepers \in Seq([lwt : Lwts, d : Nat])
  /\ semQ \in [Workers -> Seq(Lwts)]
  /\ semval \in [Lwts -> -1 .. 1]
  /\ rem \in [Lwts -> Int]
  /\ semret \in [Lwts -> {0, -1}]
  /\ rv \in [Lwts -> [open : BOOLEAN, up : BOOLEAN, down : {"no", "wait", "ret"},
                          done : BOOLEAN]]
  /\ phase \in {"run", "tcleaned", "tfini", "tjoin"}
  /\ tpc \in {"lock", "wait", "gone"}
  /\ isRun \in BOOLEAN /\ enable \in BOOLEAN /\ idle \in BOOLEAN
  /\ sfini \in BOOLEAN /\ tfault \in BOOLEAN
  /\ wphase \in [Workers -> {"on", "stopping", "last", "cleanup", "semwake", "off"}]

\* How many times l sits on the queues of worker w, and on the sleeper list.
Occ(s, l) == Len(SelectSeq(s, LAMBDA x : x = l))
OnWorker(l, w) == Occ(readyQ[w], l) + Occ(batch[w], l) + Occ(semQ[w], l)
Queued(l) == Len(SelectSeq(sleepers, LAMBDA e : e.lwt = l))
             + SumFunction([w \in Workers |-> OnWorker(l, w)])

(* Every LWT is where the scheduler can find it exactly once: a suspended *)
(* one sits on exactly one of its own worker's ready queue, batch or cosem *)
(* queue, or on the sleeper list; a running one is its worker's current   *)
(* LWT and is on at most one queue (it may have queued itself, or been    *)
(* woken, before its swapcontext); a free slot is nowhere; no LWT is ever *)
(* on another worker's queues or current on another worker.               *)
LwtPlacement ==
  \A l \in Lwts :
    /\ \A w \in Workers \ {owner[l]} : OnWorker(l, w) = 0 /\ cur[w] # l
    /\ lpc[l] \in {"free", "gone"} => Queued(l) = 0 /\ cur[owner[l]] # l
    /\ lpc[l] = "susp" => Queued(l) = 1 /\ cur[owner[l]] # l
    /\ lpc[l] = "run" => Queued(l) = 0 /\ cur[owner[l]] = l
    /\ lpc[l] \in {"yield", "sleep", "down"} => Queued(l) <= 1 /\ cur[owner[l]] = l

(* The sleeper list's delta encoding matches the deadlines the sleeping   *)
(* LWTs asked for: the sum of the deltas up to and including an entry is  *)
(* the number of ticks left until that LWT's cosem_sleep(ms) expires.     *)
SleeperDeltaEncoding ==
  \A i \in 1 .. Len(sleepers) :
    rem[sleepers[i].lwt] = SumFunction([j \in 1 .. i |-> sleepers[j].d])

(* cosem_up and cosem_down on one cosem, in either order and against any *)
(* interleaving with the worker: a down that has returned 0 was matched   *)
(* by the up, and once both are done val is back to 0 and the cosem is    *)
(* unlinked, so cosem_fini succeeds.                                       *)
CosemRendezvous ==
  \A l \in Lwts :
    /\ (rv[l].open /\ rv[l].down = "ret" /\ semret[l] = 0) => rv[l].up
    /\ (rv[l].open /\ rv[l].up /\ rv[l].down = "ret")
         => semval[l] = 0 /\ \A w \in Workers : Occ(semQ[w], l) = 0

(* Every suspended LWT is eventually resumed: a yielded one by its worker, *)
(* a sleeping one by the timer, a blocked one by the matching cosem_up.   *)
SuspendedResumes ==
  \A l \in Lwts : (lpc[l] = "susp") ~> (lpc[l] = "run")

(* Every coroutine whose entry function returned has had its finalizer    *)
(* called (spec: blocked coroutines resumed at shutdown unwind through    *)
(* their finalizer).                                                       *)
FinalizerRuns ==
  \A l \in Lwts : returned[l] => finalized[l]

(* Once comgr_destroy has stopped every worker no coroutine is left      *)
(* suspended on the sleeper list, where nothing will ever resume it.     *)
DestroyLeavesNoSleeper ==
  (\A w \in Workers : wphase[w] = "off") => sleepers = << >>

(* stimer_destroy tears the timer's sleeper down only once the timer     *)
(* thread is done with it: the thread never locks, waits on or unlocks    *)
(* the sleeper's mutex and cond after _sleeper_fini has destroyed them.   *)
TimerNoUseAfterFini == ~tfault

(* The half of that hand-off the idle flag does protect: _sleeper_fini   *)
(* never destroys the mutex and cond while the timer thread is blocked in *)
(* pthread_cond_timedwait on them, and once destroyed the thread is never *)
(* found waiting on them.                                                 *)
FiniNotWhileWaiting == sfini => tpc # "wait"

\* Where an LWT is, as the abstract scheduler CoSched sees it.
AbsState(l) ==
  CASE lpc[l] \in {"free", "gone"}               -> "free"
    [] lpc[l] = "run"                            -> "running"
    [] l \in Sleeping                            -> "sleeping"
    [] \E w \in Workers : Occ(semQ[w], l) > 0    -> "blocked"
    [] OTHER                                     -> "ready"

CoS == INSTANCE CoSched WITH
         st <- [l \in Lwts |-> AbsState(l)],
         wk <- owner,
         left <- [l \in Lwts |-> IF l \in Sleeping THEN rem[l] ELSE 0]

(* The scheduler's promise (module CoSched): seen through which queue or  *)
(* list an LWT is on, every step of the manager is a step of the abstract *)
(* scheduler.  In particular a worker runs one bound LWT at a time, a     *)
(* blocked LWT is made ready only by cosem_up, and the tick of _timer_svc *)
(* makes a cosem_sleep(ms) sleeper ready at exactly the ms-th tick after  *)
(* it went to sleep: the delta list's decrement, zero test and pop of     *)
(* the zero run must agree with the deadlines, even with the sleeper not *)
(* yet swapped out or woken with others at the same tick.                 *)
SchedulerContract == CoS!ASpec

=============================================================================
