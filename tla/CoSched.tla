------------------------------ MODULE CoSched ------------------------------
(***************************************************************************)
(* What the coroutine manager of src/src/coroutine.c promises its LWTs,   *)
(* without its queues, batches, locks and delta list: a slot is free,     *)
(* ready, running, sleeping or blocked on its cosem; coroutine_run binds  *)
(* it to one worker for its whole life; a worker runs one LWT at a time;  *)
(* a running LWT yields, sleeps, blocks or returns; cosem_up makes a      *)
(* blocked LWT ready; and the 1 ms tick makes a sleeping LWT ready at     *)
(* exactly the tick its timeout runs out, never earlier and never later.  *)
(* CoMgr is shown to implement this module (CoMgr!SchedulerContract).     *)
(***************************************************************************)
EXTENDS Integers

CONSTANTS
  Workers,    \* the worker threads
  Lwts,       \* the LWT slots
  Durations   \* the timeouts a sleeping LWT may ask for, in ticks

VARIABLES
  st,         \* st[l]: "free", "ready", "running", "sleeping", "blocked"
  wk,         \* the worker l is bound to
  left        \* ticks left until a sleeping LWT is due (0 otherwise)

avars == << st, wk, left >>

AInit ==
  /\ st = [l \in Lwts |-> "free"]
  /\ wk \in [Lwts -> Workers]
  /\ left = [l \in Lwts |-> 0]

\* A free slot is bound to some worker and becomes ready.
Spawn(l) ==
  /\ st[l] = "free"
  /\ st' = [st EXCEPT ![l] = "ready"]
  /\ \E w \in Workers : wk' = [wk EXCEPT ![l] = w]
  /\ UNCHANGED left

\* A ready LWT starts running on its worker if no other LWT runs there.
Dispatch(l) ==
  /\ st[l] = "ready"
  /\ \A m \in Lwts : wk[m] = wk[l] => st[m] # "running"
  /\ st' = [st EXCEPT ![l] = "running"]
  /\ UNCHANGED << wk, left >>

\* A running LWT stops running: ready again, blocked, or finished.
Leave(l, to) ==
  /\ st[l] = "running"
  /\ st' = [st EXCEPT ![l] = to]
  /\ UNCHANGED << wk, left >>

\* A running LWT goes to sleep for d ticks.
SleepFor(l) ==
  /\ st[l] = "running"
  /\ \E d \in Durations : left' = [left EXCEPT ![l] = d]
  /\ st' = [st EXCEPT ![l] = "sleeping"]
  /\ UNCHANGED wk

\* cosem_up makes a blocked LWT ready.
Unblock(l) ==
  /\ st[l] = "blocked"
  /\ st' = [st EXCEPT ![l] = "ready"]
  /\ UNCHANGED << wk, left >>

\* One tick: every sleeper comes one tick closer to its deadline (an
\* overdue count stops at -1), and exactly those now due become ready.
ATick ==
  LET dec == [l \in Lwts |-> IF st[l] = "sleeping" /\ left[l] >= 0
                               THEN left[l] - 1 ELSE left[l]]
      due == {l \in Lwts : st[l] = "sleeping" /\ dec[l] <= 0}
  IN
  /\ st' = [l \in Lwts |-> IF l \in due THEN "ready" ELSE st[l]]
  /\ left' = [l \in Lwts |-> IF l \in due THEN 0 ELSE dec[l]]
  /\ UNCHANGED wk

ANext ==
  \/ \E l \in Lwts :
       \/ Spawn(l)
       \/ Dispatch(l)
       \/ \E to \in {"ready", "blocked", "free"} : Leave(l, to)
       \/ SleepFor(l)
       \/ Unblock(l)
  \/ ATick

ASpec == AInit /\ [][ANext]_avars
=============================================================================
