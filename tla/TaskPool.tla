------------------------------ MODULE TaskPool ------------------------------
(***************************************************************************)
(* A taskset_process call whose job_handle hands each tjob to a thread    *)
(* pool: job_handle(tjob) is threadpool_submit(pool, tjob, handler), and  *)
(* handler(tjob) calls taskjob_fini(tjob, ret).  The pool's threads are    *)
(* TaskSet's Workers: a pool thread takes the head of its local list      *)
(* (PoolPop) and runs taskjob_fini on it (FiniBeginJob) in one step, and  *)
(* goes on with its list only when taskjob_fini has returned (its TaskSet *)
(* pc is "idle" again).  When _thread_submit cannot allocate its _job_t   *)
(* it runs the handler on the submitting thread: TaskSet's JobInline.     *)
(* The user destroys the pool once task_done has been called.            *)
(***************************************************************************)
EXTENDS TaskSet, Threadpool

ASSUME Workers = Threads

tpVars == << vars, poolVars >>

TPInit == Init /\ PoolInit

(* The INIT case of _taskset_process's switch with job_handle submitting  *)
(* to the pool; the DONE and FAIL cases do not touch the pool.            *)
JobCasePool(a) ==
  \/ JobInit(a) /\ UNCHANGED << jobList, failed >> /\ PoolSubmit(cur[a])
  \/ JobInline(a) /\ PoolSubmitNoMem
  \/ /\ \/ JobDone(a) /\ UNCHANGED failed
        \/ JobFail(a) /\ UNCHANGED << jobList, failed >>
     /\ UNCHANGED poolVars

ProcessJobPool(a) ==
  /\ pc[a] = "p_job"
  /\ JobCasePool(a)
  /\ cur' = [cur EXCEPT ![a] = None]
  /\ pc' = [pc EXCEPT ![a] = "p_loop"]
  /\ UNCHANGED << fi, ref, run, done, destroyed, doneCalls, doneRet >>

(* _thread_svc pops the head of its local list and calls handler on it,  *)
(* which starts taskjob_fini.                                             *)
RunJob(t) ==
  /\ pc[t] = "idle"
  /\ PoolPop(t)
  /\ FiniBeginJob(t, Head(pque[t]))

(* The rest of the job loop of _thread_svc waits for handler to return.  *)
PoolThreadStep(t) ==
  \/ RunJob(t)
  \/ pc[t] = "idle" /\ PoolLoop(t) /\ UNCHANGED vars
  \/ PoolSplice(t) /\ UNCHANGED vars
  \/ PoolSleep(t) /\ UNCHANGED vars
  \/ PoolWake(t) /\ UNCHANGED vars

(* A thread inside _taskset_process or taskjob_fini, the pool untouched.  *)
ThreadStepPool(a) ==
  \/ ProcessEnter(a) /\ UNCHANGED poolVars
  \/ ProcessLoop(a) /\ UNCHANGED poolVars
  \/ ProcessJobPool(a)
  \/ Dec(a) /\ UNCHANGED poolVars
  \/ a \in Threads /\ FiniAdd(a) /\ UNCHANGED poolVars

(* threadpool_destroy, called by the user after task_done.               *)
DestroyStep ==
  \/ doneCalls = 1 /\ PoolDestroyBegin /\ UNCHANGED vars
  \/ PoolStop /\ UNCHANGED vars
  \/ PoolJoin /\ UNCHANGED vars

\* A finished call with the pool destroyed is a final state.
TPNext ==
  \/ MainStep /\ UNCHANGED poolVars
  \/ \E a \in Actors : ThreadStepPool(a)
  \/ \E t \in Threads : PoolThreadStep(t)
  \/ DestroyStep

TPSpec == TPInit /\ [][TPNext]_tpVars

(* Every thread is scheduled: Main, each pool thread both in _thread_svc  *)
(* and inside the handler, and the destroying thread.  A sem_timedwait    *)
(* ends within 100 ms whether or not it is posted, so PoolWake is weakly  *)
(* fair too.                                                              *)
TPFairSpec ==
  /\ TPSpec
  /\ WF_tpVars(MainStep /\ UNCHANGED poolVars)
  /\ \A a \in Actors : WF_tpVars(ThreadStepPool(a))
  /\ \A t \in Threads : WF_tpVars(PoolThreadStep(t))
  /\ WF_tpVars(DestroyStep)

-----------------------------------------------------------------------------
TPTypeOK == TypeOK /\ PoolTypeOK(Slots)

\* The jobs queued for thread t, in the order it will run them.
Queue(t) == pque[t] \o pwait[t]

\* The places of tjob s in the pool's lists.
Copies(s) ==
  UNION {{<< t, i >> : i \in {k \in DOMAIN Queue(t) : Queue(t)[k] = s}} :
           t \in Threads}

(* Each tjob job_handle has dispatched and taskjob_fini has not yet seen  *)
(* is held by the pool exactly once, on one thread's wait or local list,  *)
(* and no other tjob is: the pool neither loses, duplicates nor invents a *)
(* job between threadpool_submit and the handler call of _thread_svc.    *)
DispatchedQueuedOnce ==
  \A s \in Slots : Cardinality(Copies(s)) = IF s \in pending THEN 1 ELSE 0

(* Per-thread FIFO: a thread runs the jobs submitted to it in submission *)
(* order, across the splice of its wait list onto its local list.         *)
PoolFifo == \A t \in Threads : Queue(t) = pord[t]

(* threadpool_destroy returns: every thread, wherever it is in its loop,  *)
(* sees is_run cleared and leaves _thread_svc, so each pthread_join       *)
(* returns.                                                               *)
PoolDestroyReturns == <>(pdown = NT)
=============================================================================
