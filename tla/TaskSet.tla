------------------------------ MODULE TaskSet ------------------------------
(***************************************************************************)
(* The task set of src/src/task.c: one taskset_process call orchestrating *)
(* the sub-jobs of a task under a depth cap.  The calling thread (Main)   *)
(* creates the set, fetches up to max_depth jobs and drives               *)
(* _taskset_process; job_handle dispatches a job to a thread-pool thread  *)
(* (a Worker) that later calls taskjob_fini, which enqueues the finished  *)
(* job and drives _taskset_process itself unless another thread is        *)
(* already running it (the run flag).  The reference count decides which *)
(* thread destroys the set and calls task_done.  job_handle may also     *)
(* finish the job itself before it returns (a pool that cannot queue it   *)
(* runs it on the caller).  TaskPool composes this module with the pool.  *)
(*                                                                         *)
(* A tjob is a model value of Slots (the depth tjobs carved out of the    *)
(* set's allocation); the user's job_fetch hands out NJobs jobs and then  *)
(* returns NULL.  A job's return code is abstracted to 0 or non-zero (1). *)
(* Each region under set->lock is one step; the switch on a popped job    *)
(* runs unlocked but touches only state no other thread reads, so each    *)
(* case is one step as well.                                              *)
(***************************************************************************)
EXTENDS Integers, Sequences, FiniteSets

CONSTANTS
  Depth,     \* the depth argument of taskset_process
  Slots,     \* the tjob_t array of the set
  NJobs,     \* jobs the user's job_fetch hands out before returning NULL
  Workers,   \* thread-pool threads completing dispatched jobs
  Main       \* the thread calling taskset_process

\* _MIN_DEPTH and _MAX_DEPTH, the clamp of taskset_process.
MIN_DEPTH == 4
MAX_DEPTH == 128
MaxDepth == IF Depth < MIN_DEPTH THEN MIN_DEPTH
            ELSE IF Depth > MAX_DEPTH THEN MAX_DEPTH ELSE Depth

ASSUME Cardinality(Slots) = MaxDepth /\ NJobs \in Nat /\ Main \notin Workers

Actors == {Main} \cup Workers
None == "none"
JobStates == {"INIT", "DONE", "FAIL"}

VARIABLES
  pc,         \* where each thread is
  fi,         \* the loop counter i of taskset_process's initial fetch
  cur,        \* the tjob a thread holds (popped, or being fini'd)
  ref,        \* set->ref
  run,        \* set->run
  done,       \* set->done
  noJobs,     \* set->no_jobs
  retcode,    \* set->retcode (0 or non-zero)
  curDepth,   \* set->cur_depth
  jobList,    \* set->job_list
  freeSlots,  \* set->mem.free_list (taken from its head; order irrelevant)
  jstate,     \* tjob->state
  pending,    \* tjobs dispatched by job_handle, not yet taskjob_fini'd
  fetched,    \* jobs job_fetch has handed out
  destroyed,  \* _taskset_destroy has freed the set
  doneCalls,  \* task_done invocations
  doneRet,    \* the ret of the last task_done
  failed,     \* some job was reported with a non-zero ret
  aborted     \* the process aborted (sys_assert or ref < 0)

vars == << pc, fi, cur, ref, run, done, noJobs, retcode, curDepth, jobList,
           freeSlots, jstate, pending, fetched, destroyed, doneCalls,
           doneRet, failed, aborted >>

Init ==
  /\ pc = [a \in Actors |-> IF a = Main THEN "create" ELSE "idle"]
  /\ fi = 0
  /\ cur = [a \in Actors |-> None]
  /\ ref = 0 /\ run = FALSE /\ done = FALSE /\ noJobs = FALSE
  /\ retcode = 0 /\ curDepth = 0 /\ jobList = << >>
  /\ freeSlots = {} /\ jstate = [s \in Slots |-> "INIT"]
  /\ pending = {} /\ fetched = 0
  /\ destroyed = FALSE /\ doneCalls = 0 /\ doneRet = 0
  /\ failed = FALSE /\ aborted = FALSE

-----------------------------------------------------------------------------
(* taskset_process: _taskset_create succeeds (ref 1, every tjob on the    *)
(* free list) or its calloc fails and task_done(ENOMEM) is called.        *)
Create ==
  /\ pc[Main] = "create"
  /\ \/ /\ ref' = 1 /\ freeSlots' = Slots /\ pc' = [pc EXCEPT ![Main] = "fetch"]
        /\ UNCHANGED << doneCalls, doneRet >>
     \/ /\ doneCalls' = doneCalls + 1 /\ doneRet' = 1
        /\ pc' = [pc EXCEPT ![Main] = "exit"]
        /\ UNCHANGED << ref, freeSlots >>
  /\ UNCHANGED << fi, cur, run, done, noJobs, retcode, curDepth, jobList,
                  jstate, pending, fetched, destroyed, failed, aborted >>

(* _fetch_job, with the free list fs and cur_depth d it finds: nothing   *)
(* is fetched once the set failed or job_fetch returns NULL (no_jobs is   *)
(* set); otherwise job_fetch's taskjob_init takes a tjob from the free    *)
(* list (sys_assert aborts on an empty one), and the job is appended to   *)
(* job_list with cur_depth incremented.                                   *)
FetchJob(fs, d) ==
  \/ /\ \/ retcode # 0
        \/ fetched = NJobs
     /\ noJobs' = TRUE /\ freeSlots' = fs /\ curDepth' = d
     /\ UNCHANGED << jobList, jstate, fetched, aborted >>
  \/ /\ retcode = 0 /\ fetched < NJobs /\ fs = {}
     /\ aborted' = TRUE /\ freeSlots' = fs /\ curDepth' = d
     /\ UNCHANGED << noJobs, jobList, jstate, fetched >>
  \/ /\ retcode = 0 /\ fetched < NJobs
     /\ \E s \in fs :
          /\ freeSlots' = fs \ {s}
          /\ jstate' = [jstate EXCEPT ![s] = "INIT"]
          /\ jobList' = Append(jobList, s)
     /\ curDepth' = d + 1 /\ fetched' = fetched + 1
     /\ UNCHANGED << noJobs, aborted >>

\* Mutant: the initial loop runs to i <= max_depth.
InitialFetchOffByOne ==
  /\ pc[Main] = "fetch"
  /\ \/ /\ fi <= MaxDepth
        /\ FetchJob(freeSlots, curDepth)
        /\ IF noJobs' THEN /\ fi' = 0 /\ pc' = [pc EXCEPT ![Main] = "inc"]
                      ELSE /\ fi' = fi + 1 /\ UNCHANGED pc
     \/ /\ fi > MaxDepth /\ fi' = 0
        /\ pc' = [pc EXCEPT ![Main] = "inc"]
        /\ UNCHANGED << noJobs, curDepth, jobList, freeSlots, jstate,
                        fetched, aborted >>
  /\ UNCHANGED << cur, ref, run, done, retcode, pending, destroyed,
                  doneCalls, doneRet, failed >>

(* The initial loop: for (i = 0; i < max_depth; i++) fetch, breaking on   *)
(* no_jobs; then _taskset_inc before _taskset_process.                    *)
InitialFetch ==
  /\ pc[Main] = "fetch"
  /\ \/ /\ fi < MaxDepth
        /\ FetchJob(freeSlots, curDepth)
        /\ IF noJobs' THEN /\ fi' = 0 /\ pc' = [pc EXCEPT ![Main] = "inc"]
                      ELSE /\ fi' = fi + 1 /\ UNCHANGED pc
     \/ /\ fi >= MaxDepth /\ fi' = 0
        /\ pc' = [pc EXCEPT ![Main] = "inc"]
        /\ UNCHANGED << noJobs, curDepth, jobList, freeSlots, jstate,
                        fetched, aborted >>
  /\ UNCHANGED << cur, ref, run, done, retcode, pending, destroyed,
                  doneCalls, doneRet, failed >>

MainInc ==
  /\ pc[Main] = "inc"
  /\ ref' = ref + 1 /\ pc' = [pc EXCEPT ![Main] = "p_enter"]
  /\ UNCHANGED << fi, cur, run, done, noJobs, retcode, curDepth, jobList,
                  freeSlots, jstate, pending, fetched, destroyed, doneCalls,
                  doneRet, failed, aborted >>

\* Mutant: taskjob_fini does not take a reference.
FiniBeginJobNoInc(w, s) ==
  /\ pc[w] = "idle"
  /\ \E r \in {0, 1} :
       /\ jstate' = [jstate EXCEPT ![s] = IF r = 0 THEN "DONE" ELSE "FAIL"]
       /\ failed' = (failed \/ r # 0)
  /\ pending' = pending \ {s}
  /\ cur' = [cur EXCEPT ![w] = s]
  /\ pc' = [pc EXCEPT ![w] = "f_add"]
  /\ UNCHANGED << ref, fi, run, done, noJobs, retcode, curDepth, jobList,
                  freeSlots, fetched, destroyed, doneCalls, doneRet, aborted >>

-----------------------------------------------------------------------------
(* taskjob_fini(s, r) on worker w: the job's state is set from ret r, a  *)
(* reference taken, and the job enqueued under set->lock (FiniAdd).       *)
FiniBeginJob(w, s) ==
  /\ pc[w] = "idle"
  /\ \E r \in {0, 1} :
       /\ jstate' = [jstate EXCEPT ![s] = IF r = 0 THEN "DONE" ELSE "FAIL"]
       /\ failed' = (failed \/ r # 0)
  /\ pending' = pending \ {s}
  /\ cur' = [cur EXCEPT ![w] = s]
  /\ ref' = ref + 1 /\ pc' = [pc EXCEPT ![w] = "f_add"]
  /\ UNCHANGED << fi, run, done, noJobs, retcode, curDepth, jobList,
                  freeSlots, fetched, destroyed, doneCalls, doneRet, aborted >>

FiniAdd(w) ==
  /\ pc[w] = "f_add"
  /\ jobList' = Append(jobList, cur[w])
  /\ cur' = [cur EXCEPT ![w] = None]
  /\ pc' = [pc EXCEPT ![w] = "p_enter"]
  /\ UNCHANGED << fi, ref, run, done, noJobs, retcode, curDepth, freeSlots,
                  jstate, pending, fetched, destroyed, doneCalls, doneRet,
                  failed, aborted >>

-----------------------------------------------------------------------------
(* _taskset_process, with set->lock held at the while test: pop the head  *)
(* of job_list and unlock, or, on an empty list, complete the set if      *)
(* no_jobs and cur_depth is 0 (the CAS on done dropping the initial       *)
(* reference once), clear run and unlock.  run is held set in the loop.  *)
LoopCheck(a) ==
  \/ /\ jobList # << >>
     /\ cur' = [cur EXCEPT ![a] = Head(jobList)]
     /\ jobList' = Tail(jobList)
     /\ pc' = [pc EXCEPT ![a] = "p_job"]
     /\ run' = TRUE
     /\ UNCHANGED << ref, done >>
  \/ /\ jobList = << >>
     /\ IF noJobs /\ curDepth = 0 /\ ~done
          THEN done' = TRUE /\ ref' = ref - 1
          ELSE UNCHANGED << done, ref >>
     /\ run' = FALSE
     /\ pc' = [pc EXCEPT ![a] = "dec"]
     /\ UNCHANGED << cur, jobList >>

\* Mutant: the run test is missing; every caller enters the loop.
ProcessEnterNoRunCheck(a) ==
  /\ pc[a] = "p_enter"
  /\ LoopCheck(a)
  /\ UNCHANGED << fi, noJobs, retcode, curDepth, freeSlots, jstate, pending,
                  fetched, destroyed, doneCalls, doneRet, failed, aborted >>

(* Entry: lock; a thread finding run set unlocks and returns; otherwise   *)
(* it sets run and enters the while loop under the same lock.             *)
ProcessEnter(a) ==
  /\ pc[a] = "p_enter"
  /\ \/ /\ run
        /\ pc' = [pc EXCEPT ![a] = "dec"]
        /\ UNCHANGED << cur, ref, run, done, jobList >>
     \/ /\ ~run
        /\ LoopCheck(a)
  /\ UNCHANGED << fi, noJobs, retcode, curDepth, freeSlots, jstate, pending,
                  fetched, destroyed, doneCalls, doneRet, failed, aborted >>

(* The lock re-taken at the bottom of the while loop, and the test.       *)
ProcessLoop(a) ==
  /\ pc[a] = "p_loop"
  /\ LoopCheck(a)
  /\ UNCHANGED << fi, noJobs, retcode, curDepth, freeSlots, jstate, pending,
                  fetched, destroyed, doneCalls, doneRet, failed, aborted >>

\* Mutant: cur_depth is decremented when a job is dispatched.
JobInitDec(a) ==
  /\ jstate[cur[a]] = "INIT"
  /\ pending' = pending \cup {cur[a]}
  /\ curDepth' = curDepth - 1
  /\ UNCHANGED << noJobs, retcode, freeSlots, jstate, fetched, aborted >>

\* Mutant: the DONE case copies the job's retcode to the set.
JobDoneSetsRetcode(a) ==
  /\ jstate[cur[a]] = "DONE"
  /\ FetchJob(freeSlots \cup {cur[a]}, curDepth - 1)
  /\ retcode' = 0
  /\ UNCHANGED pending

\* Mutant: the DONE case frees the job but fetches no replacement.
JobDoneNoFetch(a) ==
  /\ jstate[cur[a]] = "DONE"
  /\ freeSlots' = freeSlots \cup {cur[a]} /\ curDepth' = curDepth - 1
  /\ UNCHANGED << retcode, pending, noJobs, jobList, jstate, fetched, aborted >>

(* The switch on the popped job's state, unlocked.  INIT: job_handle      *)
(* dispatches it, or finishes it before returning (JobInline).  DONE:     *)
(* job_release, _job_free, cur_depth--, and _fetch_job.  FAIL: retcode latched, no_jobs set, job_release,          *)
(* _job_free, cur_depth--.                                                *)
JobInit(a) ==
  /\ jstate[cur[a]] = "INIT"
  /\ pending' = pending \cup {cur[a]}
  /\ UNCHANGED << noJobs, retcode, curDepth, freeSlots, jstate, fetched,
                  aborted >>

(* job_handle may call taskjob_fini itself before it returns: a thread     *)
(* inside _taskset_process then runs the whole of taskjob_fini (ret r):   *)
(* its reference and _taskset_dec cancel out, the job is appended to      *)
(* job_list, and its own _taskset_process returns at once on the run flag *)
(* this thread holds.                                                      *)
JobInline(a) ==
  /\ jstate[cur[a]] = "INIT"
  /\ \E r \in {0, 1} :
       /\ jstate' = [jstate EXCEPT ![cur[a]] = IF r = 0 THEN "DONE" ELSE "FAIL"]
       /\ failed' = (failed \/ r # 0)
  /\ jobList' = Append(jobList, cur[a])
  /\ UNCHANGED << noJobs, retcode, curDepth, freeSlots, pending, fetched,
                  aborted >>

JobDone(a) ==
  /\ jstate[cur[a]] = "DONE"
  /\ FetchJob(freeSlots \cup {cur[a]}, curDepth - 1)
  /\ UNCHANGED << retcode, pending >>

JobFail(a) ==
  /\ jstate[cur[a]] = "FAIL"
  /\ retcode' = 1 /\ noJobs' = TRUE
  /\ freeSlots' = freeSlots \cup {cur[a]}
  /\ curDepth' = curDepth - 1
  /\ UNCHANGED << jstate, pending, fetched, aborted >>

ProcessJob(a) ==
  /\ pc[a] = "p_job"
  /\ \/ JobInit(a) /\ UNCHANGED << jobList, failed >>
     \/ JobInline(a)
     \/ JobDone(a) /\ UNCHANGED failed
     \/ JobFail(a) /\ UNCHANGED << jobList, failed >>
  /\ cur' = [cur EXCEPT ![a] = None]
  /\ pc' = [pc EXCEPT ![a] = "p_loop"]
  /\ UNCHANGED << fi, ref, run, done, destroyed, doneCalls, doneRet >>

(* _taskset_dec after _taskset_process: the thread dropping the last      *)
(* reference destroys the set and calls task_done(retcode); a negative    *)
(* count aborts.                                                          *)
Dec(a) ==
  /\ pc[a] = "dec"
  /\ ref' = ref - 1
  /\ IF ref - 1 = 0
       THEN /\ destroyed' = TRUE /\ doneCalls' = doneCalls + 1
            /\ doneRet' = retcode
       ELSE UNCHANGED << destroyed, doneCalls, doneRet >>
  /\ aborted' = (ref - 1 < 0)
  /\ pc' = [pc EXCEPT ![a] = IF a = Main THEN "exit" ELSE "idle"]
  /\ UNCHANGED << fi, cur, run, done, noJobs, retcode, curDepth, jobList,
                  freeSlots, jstate, pending, fetched, failed >>

-----------------------------------------------------------------------------
MainStep == Create \/ InitialFetch \/ MainInc
ThreadStep(a) == ProcessEnter(a) \/ ProcessLoop(a) \/ ProcessJob(a) \/ Dec(a)
(* job_handle's contract: a dispatched job is finished later, by any      *)
(* thread that is not inside taskjob_fini.                                *)
FiniBegin(w) == \E s \in pending : FiniBeginJob(w, s)

WorkerStep(w) == FiniBegin(w) \/ FiniAdd(w)

\* An abort (aborted) ends the process; DepthCap reports it.  A call that
\* has returned with every job finished is a final state: nothing is
\* left to do.
Next ==
  \/ MainStep
  \/ \E a \in Actors : ThreadStep(a)
  \/ \E w \in Workers : WorkerStep(w)

Spec == Init /\ [][Next]_vars


-----------------------------------------------------------------------------
PCs == {"create", "fetch", "inc", "idle", "f_add", "p_enter", "p_loop",
        "p_job", "dec", "exit"}

TypeOK ==
  /\ pc \in [Actors -> PCs]
  /\ fi \in 0 .. MaxDepth
  /\ cur \in [Actors -> Slots \cup {None}]
  /\ ref \in Int /\ curDepth \in 0 .. MaxDepth
  /\ run \in BOOLEAN /\ done \in BOOLEAN /\ noJobs \in BOOLEAN
  /\ retcode \in {0, 1} /\ doneRet \in {0, 1}
  /\ jobList \in Seq(Slots) /\ freeSlots \subseteq Slots
  /\ jstate \in [Slots -> JobStates] /\ pending \subseteq Slots
  /\ fetched \in 0 .. NJobs /\ doneCalls \in Nat
  /\ destroyed \in BOOLEAN /\ failed \in BOOLEAN /\ aborted \in BOOLEAN

\* The tjobs out of the free list: queued, popped, dispatched or being
\* fini'd.
Outstanding ==
  ({jobList[i] : i \in DOMAIN jobList} \cup pending)
    \cup ({cur[a] : a \in Actors} \ {None})

(* Depth cap (spec section 4.6 and scenario S6): the process never aborts *)
(* on an empty tjob free list or a negative reference count, and the jobs *)
(* outstanding are exactly cur_depth many, never more than max_depth.     *)
(* It needs _fetch_job, taskjob_fini and the DONE/FAIL cases of           *)
(* _taskset_process to return and count every tjob consistently.          *)
DepthCap ==
  /\ ~aborted
  /\ Cardinality(Outstanding) = curDepth
  /\ curDepth <= MaxDepth

(* The run flag (task.c:196-202, 252) makes job processing serial: at     *)
(* most one thread is between the while test and the switch of           *)
(* _taskset_process at a time, while late arrivals only enqueue.          *)
SingleRunner ==
  \A a, b \in Actors :
    (a # b /\ pc[a] \in {"p_loop", "p_job"}) => pc[b] \notin {"p_loop", "p_job"}

(* Safe teardown: once the last _taskset_dec has destroyed the set, no    *)
(* thread is still inside taskjob_fini or _taskset_process, and no job is *)
(* queued or dispatched that could call taskjob_fini on the freed set.    *)
NoUseAfterDestroy ==
  destroyed =>
    /\ \A a \in Actors : pc[a] \in {"idle", "exit"}
    /\ Outstanding = {}

(* Spec property 8: task_done is invoked at most once, and its ret is 0   *)
(* exactly when every fetched job reported success (the set was created). *)
TaskDoneOnce ==
  /\ doneCalls <= 1
  /\ (doneCalls = 1 /\ destroyed) => (doneRet = 0 <=> ~failed)

(* Spec property 8, the liveness half: every taskset_process call ends    *)
(* in task_done, under fair threads and job_handle's contract that a      *)
(* dispatched job is eventually finished.                                 *)
TaskDoneEventually == <>(doneCalls = 1)
=============================================================================
