----------------------------- MODULE Threadpool -----------------------------
(***************************************************************************)
(* The worker-thread pool of src/src/threadpool.c: NT threads, each with  *)
(* a wait list guarded by its spinlock, a semaphore, an is_run flag and a *)
(* local list of jobs it has taken off the wait list.  threadpool_submit *)
(* picks thread pool->index++ % count and _thread_submit appends the job  *)
(* to its wait list; the thread (_thread_svc) splices the whole wait list *)
(* onto its local list and runs the jobs in order; threadpool_destroy     *)
(* stops and joins the threads one after the other.                       *)
(*                                                                         *)
(* The module holds the pool's state and its steps as actions; the job's *)
(* func is not a step of the pool: a module composing the pool with the   *)
(* code that submits to it supplies the steps of func (PoolPop starts     *)
(* one, the composing module says when it has returned).                  *)
(*                                                                         *)
(* The semaphore is not state of the model: sem_post only cuts short a  *)
(* sem_timedwait that ends within 100 ms anyway, so a thread finding its *)
(* wait list empty takes one step into the wait and one back out of it.  *)
(* The jobs counter only feeds threadpool_get_info and is left out.      *)
(* pool->index is kept modulo NT: the pools composed here have a power   *)
(* of two threads, which divides 2^32, so the wrap of the uint32_t index *)
(* changes nothing.                                                       *)
(***************************************************************************)
EXTENDS Integers, Sequences

CONSTANTS
  NT      \* pool->count: threadpool_create's thread count after its clamp

\* MIN_THREADS and MAX_THREADS, the clamp of threadpool_create.
MIN_THREADS == 1
MAX_THREADS == 64
PoolCount(n) == IF n < MIN_THREADS THEN MIN_THREADS
                ELSE IF n > MAX_THREADS THEN MAX_THREADS ELSE n

ASSUME NT = PoolCount(NT)

Threads == 0 .. NT - 1
NotDestroying == -1

VARIABLES
  pwait,  \* threads[t].wait.list (wait.count is its length)
  pque,   \* the local list que of _thread_svc on thread t
  pidx,   \* pool->index, modulo NT
  prun,   \* threads[t].is_run
  ppc,    \* where thread t is: "chk" (the wait-list test), "slp" (in
          \*   sem_timedwait), "run" (its local list), "exit" (returned)
  pdown,  \* the thread threadpool_destroy is stopping (NotDestroying
          \*   before it is called, NT once it has stopped them all)
  pord    \* ghost: the jobs submitted to thread t and not yet taken off
          \*   its local list, in the order they were submitted

poolVars == << pwait, pque, pidx, prun, ppc, pdown, pord >>

(* threadpool_create: every thread started with an empty wait list and    *)
(* is_run set, index 0.                                                   *)
PoolInit ==
  /\ pwait = [t \in Threads |-> << >>]
  /\ pque = [t \in Threads |-> << >>]
  /\ pidx = 0
  /\ prun = [t \in Threads |-> TRUE]
  /\ ppc = [t \in Threads |-> "chk"]
  /\ pdown = NotDestroying
  /\ pord = [t \in Threads |-> << >>]

\* Mutation: _thread_submit links the job at the head (list_add).
PoolSubmitAtHead(j) ==
  /\ pwait' = [pwait EXCEPT ![pidx] = << j >> \o @]
  /\ pord' = [pord EXCEPT ![pidx] = Append(@, j)]
  /\ pidx' = (pidx + 1) % NT
  /\ UNCHANGED << pque, prun, ppc, pdown >>

(* threadpool_submit: index = pool->index++ % count; _thread_submit gets *)
(* a _job_t (_job_malloc), appends it at the tail of that thread's wait  *)
(* list under wait.lock, and posts the semaphore.                        *)
PoolSubmit(j) ==
  /\ pwait' = [pwait EXCEPT ![pidx] = Append(@, j)]
  /\ pord' = [pord EXCEPT ![pidx] = Append(@, j)]
  /\ pidx' = (pidx + 1) % NT
  /\ UNCHANGED << pque, prun, ppc, pdown >>

(* The same call when _job_malloc fails all RETRY times: the index has    *)
(* advanced, and _thread_submit calls func(args) on the submitting        *)
(* thread instead of queueing it.                                         *)
PoolSubmitNoMem ==
  /\ pidx' = (pidx + 1) % NT
  /\ UNCHANGED << pwait, pque, prun, ppc, pdown, pord >>

(* _thread_svc with wait.lock held: a non-empty wait list is spliced onto *)
(* the empty local list and count zeroed.  Whether is_run is still set is *)
(* not looked at here: a thread that passed its is_run test runs the      *)
(* jobs it finds.                                                         *)
PoolSplice(t) ==
  /\ ppc[t] = "chk"
  /\ pwait[t] # << >>
  /\ pque' = [pque EXCEPT ![t] = pwait[t]]
  /\ pwait' = [pwait EXCEPT ![t] = << >>]
  /\ ppc' = [ppc EXCEPT ![t] = "run"]
  /\ UNCHANGED << pidx, prun, pdown, pord >>

(* The empty wait list: the thread unlocks and waits on its semaphore,   *)
(* for at most 100 ms ...                                                 *)
PoolSleep(t) ==
  /\ ppc[t] = "chk"
  /\ pwait[t] = << >>
  /\ ppc' = [ppc EXCEPT ![t] = "slp"]
  /\ UNCHANGED << pwait, pque, pidx, prun, pdown, pord >>

\* Mutation: the thread goes back to the wait-list test without reading
\* is_run after its timed wait.
PoolWakeNoRunCheck(t) ==
  /\ ppc[t] = "slp"
  /\ ppc' = [ppc EXCEPT ![t] = "chk"]
  /\ UNCHANGED << pwait, pque, pidx, prun, pdown, pord >>

(* ... then returns if is_run reads false, whatever the wait list holds   *)
(* by now, or re-locks and tests the list again.                          *)
PoolWake(t) ==
  /\ ppc[t] = "slp"
  /\ ppc' = [ppc EXCEPT ![t] = IF prun[t] THEN "chk" ELSE "exit"]
  /\ UNCHANGED << pwait, pque, pidx, prun, pdown, pord >>

\* Mutation: the job is taken from the local list without list_del.
PoolPopNoDel(t) ==
  /\ ppc[t] = "run"
  /\ pque[t] # << >>
  /\ UNCHANGED << pwait, pque, pidx, prun, ppc, pdown, pord >>

(* The local list's head is unlinked and its _job_t freed; func(arg) is  *)
(* then called (its steps belong to the composing module).               *)
PoolPop(t) ==
  /\ ppc[t] = "run"
  /\ pque[t] # << >>
  /\ pque' = [pque EXCEPT ![t] = Tail(@)]
  /\ pord' = [pord EXCEPT ![t] = Tail(@)]
  /\ UNCHANGED << pwait, pidx, prun, ppc, pdown >>

(* The local list is empty: back to the top of the loop, where the is_run *)
(* test either leads to the wait-list test again or ends the thread.      *)
PoolLoop(t) ==
  /\ ppc[t] = "run"
  /\ pque[t] = << >>
  /\ ppc' = [ppc EXCEPT ![t] = IF prun[t] THEN "chk" ELSE "exit"]
  /\ UNCHANGED << pwait, pque, pidx, prun, pdown, pord >>

-----------------------------------------------------------------------------
(* threadpool_destroy: _thread_stop on each thread in index order.        *)

PoolDestroyBegin ==
  /\ pdown = NotDestroying
  /\ pdown' = 0
  /\ UNCHANGED << pwait, pque, pidx, prun, ppc, pord >>

(* _thread_stop, first half: the CAS of is_run from true to false and the *)
(* sem_post that cuts the thread's timed wait short.                      *)
PoolStop ==
  /\ pdown \in Threads
  /\ prun[pdown]
  /\ prun' = [prun EXCEPT ![pdown] = FALSE]
  /\ UNCHANGED << pwait, pque, pidx, ppc, pdown, pord >>

(* pthread_join returns once the thread has left _thread_svc; then       *)
(* _joblist_cleanup frees whatever is still on its wait list, unrun.     *)
PoolJoin ==
  /\ pdown \in Threads
  /\ ~prun[pdown]
  /\ ppc[pdown] = "exit"
  /\ pwait' = [pwait EXCEPT ![pdown] = << >>]
  /\ pord' = [pord EXCEPT ![pdown] = << >>]
  /\ pdown' = pdown + 1
  /\ UNCHANGED << pque, pidx, prun, ppc >>

PoolTypeOK(Jobs) ==
  /\ pwait \in [Threads -> Seq(Jobs)]
  /\ pque \in [Threads -> Seq(Jobs)]
  /\ pidx \in Threads
  /\ prun \in [Threads -> BOOLEAN]
  /\ ppc \in [Threads -> {"chk", "slp", "run", "exit"}]
  /\ pdown \in {NotDestroying} \cup 0 .. NT
  /\ pord \in [Threads -> Seq(Jobs)]
=============================================================================
