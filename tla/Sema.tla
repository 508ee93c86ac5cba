-------------------------------- MODULE Sema --------------------------------
(***************************************************************************)
(* The OS back end of src/src/semaphore.c, as operators on one sema_t:   *)
(* the POSIX semaphore's value, the cond flag that sema_up sets with a    *)
(* CAS after sem_post and sema_down clears with a CAS after sem_wait, and *)
(* whether sema_fini has destroyed it.  A component that blocks on a      *)
(* sema_t keeps one such record per semaphore and takes these steps; each *)
(* operator is one atomic step of the code (a sem_* call or one CAS).     *)
(*                                                                         *)
(* sema_init's dispatch takes a back end registered with sema_register   *)
(* when its special() says so; nothing in the repository registers one,  *)
(* so g_sem_ops.special is NULL, flag is 0 and the OS path is the only    *)
(* one the library's own users (mcache, mempool) take.                    *)
(***************************************************************************)
EXTENDS Naturals

COND_WAIT == 0
COND_DONE == 1

SemaStates == [val : Nat, cond : {COND_WAIT, COND_DONE}, live : BOOLEAN]

\* sema_init on the OS path: sem_init(.., 0, 0) and cond = COND_WAIT.
SemaInit == [val |-> 0, cond |-> COND_WAIT, live |-> TRUE]

\* sema_up, first half: sem_post.
SemaPost(s) == [s EXCEPT !.val = @ + 1]

\* sema_up, second half: the CAS of cond from COND_WAIT to COND_DONE; its
\* failure is "up again" and aborts.
SemaUpCasOk(s) == s.cond = COND_WAIT
SemaUpCas(s) == [s EXCEPT !.cond = COND_DONE]

\* sema_down, first half: sem_wait returns once the value is positive
\* (an EINTR return is retried, so it is the same step).
SemaWaitEnabled(s) == s.val > 0
SemaWait(s) == [s EXCEPT !.val = @ - 1]

\* sema_down, second half: spin (sched_yield) until the CAS of cond from
\* COND_DONE back to COND_WAIT succeeds.
SemaDownCasEnabled(s) == s.cond = COND_DONE
SemaDownCas(s) == [s EXCEPT !.cond = COND_WAIT]

\* sema_fini: sem_destroy.
SemaFini(s) == [s EXCEPT !.live = FALSE]
=============================================================================
