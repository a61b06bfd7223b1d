----------------------------- MODULE ThreadPool -----------------------------
(***************************************************************************)
(* The thread pool of src/thread-pool/thread_pool.c.                       *)
(*                                                                         *)
(* Every access to the pool is made with pool->mutex held, so one action   *)
(* is one critical section: from the acquisition of the mutex (or the      *)
(* return from a condition wait) to the next unlock or condition wait.     *)
(* A thread id is one OS thread; an id is reused once its thread is gone.  *)
(***************************************************************************)
EXTENDS Integers, Sequences, FiniteSets

CONSTANTS Thread,      \* ids for worker threads
          Job,         \* calls of thread_pool_execute
          NoJob,       \* not a job
          Waiter,      \* callers of thread_pool_wait
          minthreads, maxthreads,
          keepalive    \* seconds; 0 makes a surplus thread leave at once

ASSUME PoolAssumption ==
    /\ IsFiniteSet(Thread)
    /\ minthreads \in Nat /\ maxthreads \in Nat /\ minthreads <= maxthreads
    /\ keepalive \in Nat
    /\ NoJob \notin Job

VARIABLES nthreads, idlethreads, flags,
          job_head,            \* queued jobs, oldest first
          active_thread_head,  \* threads running a job
          pc,                  \* where each worker thread is
          timedout,            \* the local variable of thread_task
          cancelled,           \* threads with a pending pthread_cancel
          running,             \* the job an active thread runs
          jobst,               \* history: what became of each job
          waiter, destroyer    \* where the callers of wait and destroy are

vars == <<nthreads, idlethreads, flags, job_head, active_thread_head, pc,
          timedout, cancelled, running, jobst, waiter, destroyer>>

\* Threads blocked on work_cond, with and without a deadline.
Asleep == {t \in Thread : pc[t] \in {"wait", "timedwait"}}
Woken  == {t \in Thread : pc[t] = "woken"}
Live   == {t \in Thread : pc[t] # "none"}
Destroying == "DESTROY" \in flags

Init ==
    /\ nthreads = 0 /\ idlethreads = 0 /\ flags = {}
    /\ job_head = <<>> /\ active_thread_head = {}
    /\ pc = [t \in Thread |-> "none"]
    /\ timedout = [t \in Thread |-> FALSE]
    /\ cancelled = {}
    /\ running = [t \in Thread |-> NoJob]
    /\ jobst = [j \in Job |-> "new"]
    /\ waiter = [w \in Waiter |-> "out"]
    /\ destroyer = "out"

-----------------------------------------------------------------------------
(* Callers. *)

\* pthread_cond_signal(&pool->work_cond): lost when nobody is blocked, although
\* idlethreads still counts the threads that are on their way out of a wait.
SignalNobody == UNCHANGED pc

SignalWork ==
    IF Asleep = {} THEN UNCHANGED pc
    ELSE \E t \in Asleep : pc' = [pc EXCEPT ![t] = "woken"]

\* thread_pool_execute: queue the job, then signal an idle thread or start a
\* new one.  pthread_create may fail, and the call returns 0 all the same.
thread_pool_execute(j) ==
    /\ destroyer # "done"
    /\ jobst[j] = "new"
    /\ jobst' = [jobst EXCEPT ![j] = "queued"]
    /\ job_head' = Append(job_head, j)
    /\ \/ /\ idlethreads > 0
          /\ SignalWork
          /\ UNCHANGED <<nthreads, timedout>>
       \/ /\ idlethreads = 0 /\ nthreads < maxthreads
          /\ \E t \in Thread \ Live :
                /\ pc' = [pc EXCEPT ![t] = "start"]
                /\ timedout' = [timedout EXCEPT ![t] = FALSE]
          /\ nthreads' = nthreads + 1
       \/ /\ idlethreads = 0
          /\ UNCHANGED <<nthreads, pc, timedout>>
    /\ UNCHANGED <<idlethreads, flags, active_thread_head, cancelled, running,
                   waiter, destroyer>>

PoolIdle(jobs, active) == jobs = <<>> /\ active = {}

\* thread_pool_wait: the loop of the caller, entered by a call or by a wakeup.
thread_pool_wait(w) ==
    /\ destroyer # "done"
    /\ waiter[w] \in {"out", "woken"}
    /\ IF PoolIdle(job_head, active_thread_head)
       THEN /\ waiter' = [waiter EXCEPT ![w] = "out"]
            /\ UNCHANGED flags
       ELSE /\ waiter' = [waiter EXCEPT ![w] = "blocked"]
            /\ flags' = flags \cup {"WAIT"}
    /\ UNCHANGED <<nthreads, idlethreads, job_head, active_thread_head, pc,
                   timedout, cancelled, running, jobst, destroyer>>

\* The tail of thread_pool_destroy: wait for the last thread, then free what
\* is still queued.
AwaitThreads(n) ==
    IF n > 0
    THEN /\ destroyer' = "blocked"
         /\ UNCHANGED <<job_head, jobst>>
    ELSE /\ destroyer' = "done"
         /\ job_head' = <<>>
         /\ jobst' = [j \in Job |->
                        IF jobst[j] = "queued" THEN "freed" ELSE jobst[j]]

\* thread_pool_destroy, up to its first wait.  Without defer it cancels every
\* thread of the active list.
thread_pool_destroy(defer) ==
    /\ destroyer = "out"
    /\ flags' = flags \cup {"DESTROY"}
    /\ pc' = IF idlethreads > 0
             THEN [t \in Thread |-> IF t \in Asleep THEN "woken" ELSE pc[t]]
             ELSE pc
    /\ cancelled' = IF defer THEN cancelled
                    ELSE cancelled \cup active_thread_head
    /\ AwaitThreads(nthreads)
    /\ UNCHANGED <<nthreads, idlethreads, active_thread_head, timedout,
                   running, waiter>>

\* thread_pool_destroy, back from pthread_cond_wait(&pool->exit_cond).
DestroyResume ==
    /\ destroyer = "woken"
    /\ AwaitThreads(nthreads)
    /\ UNCHANGED <<nthreads, idlethreads, flags, active_thread_head, pc,
                   timedout, cancelled, running, waiter>>

-----------------------------------------------------------------------------
(* Worker threads. *)

\* Mutant: the last thread is recognised before the decrement.
CleanupTestsEarly(t) ==
    /\ pc' = [pc EXCEPT ![t] = "none"]
    /\ nthreads' = nthreads - 1
    /\ cancelled' = cancelled \ {t}
    /\ destroyer' = IF Destroying /\ nthreads = 0 /\ destroyer = "blocked"
                    THEN "woken" ELSE destroyer

\* thread_task_cleanup: the thread leaves the pool; the last one out tells
\* thread_pool_destroy.
thread_task_cleanup(t) ==
    /\ pc' = [pc EXCEPT ![t] = "none"]
    /\ nthreads' = nthreads - 1
    /\ cancelled' = cancelled \ {t}
    /\ destroyer' = IF Destroying /\ nthreads' = 0 /\ destroyer = "blocked"
                    THEN "woken" ELSE destroyer

\* One pass of the loop of thread_task from the point where the thread is
\* counted idle: it sleeps, takes the oldest job, or leaves.  idle and active
\* are the counter and the list without t; mayWait says whether a surplus
\* thread waits (keepalive > 0, no deadline has passed in this pass).
\* Sleep without idlethreads++ and TakeJob without list_delete are mutants.
SleepUncounted(t, idle, active) ==
    /\ job_head = <<>> /\ ~Destroying
    /\ idlethreads' = idle
    /\ pc' = [pc EXCEPT ![t] = IF nthreads <= minthreads THEN "wait"
                               ELSE "timedwait"]
    /\ active_thread_head' = active
    /\ running' = [running EXCEPT ![t] = NoJob]
    /\ UNCHANGED <<job_head, nthreads, cancelled, destroyer>>

TakeJobTwice(t, idle, active) ==
    /\ job_head # <<>> /\ ~Destroying
    /\ idlethreads' = idle
    /\ pc' = [pc EXCEPT ![t] = "run"]
    /\ running' = [running EXCEPT ![t] = Head(job_head)]
    /\ job_head' = job_head
    /\ active_thread_head' = active \cup {t}
    /\ UNCHANGED <<nthreads, cancelled, destroyer>>

Sleep(t, idle, active) ==
    /\ job_head = <<>> /\ ~Destroying
    /\ idlethreads' = idle + 1
    /\ pc' = [pc EXCEPT ![t] = IF nthreads <= minthreads THEN "wait"
                               ELSE "timedwait"]
    /\ active_thread_head' = active
    /\ running' = [running EXCEPT ![t] = NoJob]
    /\ UNCHANGED <<job_head, nthreads, cancelled, destroyer>>

TakeJob(t, idle, active) ==
    /\ job_head # <<>> /\ ~Destroying
    /\ idlethreads' = idle
    /\ pc' = [pc EXCEPT ![t] = "run"]
    /\ running' = [running EXCEPT ![t] = Head(job_head)]
    /\ job_head' = Tail(job_head)
    /\ active_thread_head' = active \cup {t}
    /\ UNCHANGED <<nthreads, cancelled, destroyer>>

Leave(t, idle, active) ==
    /\ thread_task_cleanup(t)
    /\ idlethreads' = idle
    /\ active_thread_head' = active
    /\ running' = [running EXCEPT ![t] = NoJob]
    /\ UNCHANGED job_head

Iterate(t, idle, active, mayWait) ==
    \/ /\ mayWait \/ nthreads <= minthreads
       /\ Sleep(t, idle, active)
    \/ TakeJob(t, idle, active)
    \/ /\ Destroying \/ (job_head = <<>> /\ ~mayWait /\ nthreads > minthreads)
       /\ Leave(t, idle, active)

\* The job history moves with the queue: a job taken from it runs.
Started(js) == IF job_head' = job_head THEN js
               ELSE [js EXCEPT ![Head(job_head)] = "running"]

\* A new thread acquires the mutex for the first time.
TaskStart(t) ==
    /\ pc[t] = "start"
    /\ Iterate(t, idlethreads, active_thread_head, keepalive > 0)
    /\ jobst' = Started(jobst)
    /\ UNCHANGED <<flags, timedout, waiter>>

\* Mutant: the idle cleanup handler also runs on the normal path.
TaskWokenCountsTwice(t) ==
    /\ pc[t] = "woken"
    /\ Iterate(t, idlethreads - 2, active_thread_head, keepalive > 0)
    /\ jobst' = Started(jobst)
    /\ UNCHANGED <<flags, timedout, waiter>>

\* Back from pthread_cond_wait, or from pthread_cond_timedwait before the
\* deadline.
TaskWoken(t) ==
    /\ pc[t] = "woken"
    /\ Iterate(t, idlethreads - 1, active_thread_head, keepalive > 0)
    /\ jobst' = Started(jobst)
    /\ UNCHANGED <<flags, timedout, waiter>>

\* pthread_cond_timedwait returned ETIMEDOUT.  timedout is never reset.
TaskTimedOut(t) ==
    /\ pc[t] = "expired"
    /\ timedout' = [timedout EXCEPT ![t] = TRUE]
    /\ Iterate(t, idlethreads - 1, active_thread_head, FALSE)
    /\ jobst' = Started(jobst)
    /\ UNCHANGED <<flags, waiter>>

\* Mutant: the idle test comes before the thread is off the active list.
WakeupBeforeDelete(t) ==
    IF "WAIT" \in flags /\ PoolIdle(job_head, active_thread_head)
    THEN /\ flags' = flags \ {"WAIT"}
         /\ waiter' = [w \in Waiter |-> IF waiter[w] = "blocked" THEN "woken"
                                        ELSE waiter[w]]
    ELSE UNCHANGED <<flags, waiter>>

\* thread_job_cleanup, with thread_pool_wakeup: off the active list, and the
\* callers of thread_pool_wait are woken when nothing is left.
thread_job_cleanup(t) ==
    IF "WAIT" \in flags /\ PoolIdle(job_head, active_thread_head \ {t})
    THEN /\ flags' = flags \ {"WAIT"}
         /\ waiter' = [w \in Waiter |-> IF waiter[w] = "blocked" THEN "woken"
                                        ELSE waiter[w]]
    ELSE UNCHANGED <<flags, waiter>>

\* The job function returned; a thread that timed out before leaves when it
\* is surplus, whatever is queued.
JobReturns(t) ==
    /\ pc[t] = "run"
    /\ thread_job_cleanup(t)
    /\ IF timedout[t] /\ nthreads > minthreads
       THEN Leave(t, idlethreads, active_thread_head \ {t})
       ELSE Iterate(t, idlethreads, active_thread_head \ {t}, keepalive > 0)
    /\ jobst' = Started([jobst EXCEPT ![running[t]] = "done"])
    /\ UNCHANGED timedout

\* The job function reaches a cancellation point with a cancel pending: the
\* cleanup handlers run and the thread is gone.
JobCancelled(t) ==
    /\ pc[t] = "run" /\ t \in cancelled
    /\ thread_job_cleanup(t)
    /\ Leave(t, idlethreads, active_thread_head \ {t})
    /\ jobst' = [jobst EXCEPT ![running[t]] = "cancelled"]
    /\ UNCHANGED timedout

-----------------------------------------------------------------------------
(* The condition variables: deadlines and spurious wakeups. *)

Deadline(t) ==
    /\ pc[t] = "timedwait"
    /\ pc' = [pc EXCEPT ![t] = "expired"]
    /\ UNCHANGED <<nthreads, idlethreads, flags, job_head, active_thread_head,
                   timedout, cancelled, running, jobst, waiter, destroyer>>

SpuriousWakeup ==
    /\ \/ \E t \in Asleep : /\ pc' = [pc EXCEPT ![t] = "woken"]
                            /\ UNCHANGED <<waiter, destroyer>>
       \/ \E w \in Waiter : /\ waiter[w] = "blocked" /\ destroyer # "done"
                            /\ waiter' = [waiter EXCEPT ![w] = "woken"]
                            /\ UNCHANGED <<pc, destroyer>>
       \/ /\ destroyer = "blocked" /\ destroyer' = "woken"
          /\ UNCHANGED <<pc, waiter>>
    /\ UNCHANGED <<nthreads, idlethreads, flags, job_head, active_thread_head,
                   timedout, cancelled, running, jobst>>

thread_task(t) ==
    \/ TaskStart(t) \/ TaskWoken(t) \/ TaskTimedOut(t)
    \/ JobReturns(t) \/ JobCancelled(t)

Next ==
    \/ \E j \in Job : thread_pool_execute(j)
    \/ \E w \in Waiter : thread_pool_wait(w)
    \/ \E defer \in BOOLEAN : thread_pool_destroy(defer)
    \/ DestroyResume
    \/ \E t \in Thread : thread_task(t)
    \/ \E t \in Thread : Deadline(t)
    \/ SpuriousWakeup

Spec == Init /\ [][Next]_vars

\* A thread that has the mutex in reach runs; jobs end (or are cancelled);
\* mutexes do not starve anybody.  Deadlines, spurious wakeups and callers
\* are not assumed to come.
Fairness ==
    /\ \A t \in Thread : WF_vars(thread_task(t))
    /\ \A w \in Waiter : WF_vars(waiter[w] = "woken" /\ thread_pool_wait(w))
    /\ WF_vars(DestroyResume)

FairSpec == Spec /\ Fairness

-----------------------------------------------------------------------------
(* Properties. *)

TypeOK ==
    /\ nthreads \in Nat /\ idlethreads \in Nat
    /\ flags \subseteq {"DESTROY", "WAIT"}
    /\ job_head \in Seq(Job)
    /\ active_thread_head \subseteq Thread
    /\ pc \in [Thread -> {"none", "start", "wait", "timedwait", "woken",
                          "expired", "run"}]
    /\ timedout \in [Thread -> BOOLEAN]
    /\ cancelled \subseteq Thread
    /\ running \in [Thread -> Job \cup {NoJob}]
    /\ jobst \in [Job -> {"new", "queued", "running", "done", "cancelled",
                          "freed"}]
    /\ waiter \in [Waiter -> {"out", "blocked", "woken"}]
    /\ destroyer \in {"out", "blocked", "woken", "done"}

Counted == {t \in Thread : pc[t] \in {"wait", "timedwait", "woken", "expired"}}

\* The counters of the pool agree with its threads at every unlock: nthreads
\* counts the threads that exist, idlethreads those inside the idle loop, and
\* the active list holds exactly the threads that run a job; the pool never
\* grows past maxthreads.
ThreadAccounting ==
    /\ nthreads = Cardinality(Live)
    /\ idlethreads = Cardinality(Counted)
    /\ active_thread_head = {t \in Thread : pc[t] = "run"}
    /\ nthreads <= maxthreads

\* No job is lost or run twice: a job waits in the queue exactly once from
\* thread_pool_execute until one thread takes it, and is run by that thread
\* alone until it ends, is cancelled, or is freed by thread_pool_destroy.
JobConservation ==
    /\ \A j \in Job : jobst[j] = "queued" <=>
         \E i \in DOMAIN job_head : job_head[i] = j
    /\ \A i, k \in DOMAIN job_head : job_head[i] = job_head[k] => i = k
    /\ \A j \in Job : jobst[j] = "running" <=> \E t \in Thread : running[t] = j
    /\ \A t, u \in Thread : running[t] = running[u] /\ running[t] # NoJob => t = u
    /\ \A t \in Thread : running[t] # NoJob <=> pc[t] = "run"

\* No wakeup is lost: while some thread sleeps on work_cond, every queued job
\* has a thread of its own that was woken for it and has not reached the
\* mutex yet, whatever signals went to threads that timed out meanwhile.
NoLostWakeup == Asleep # {} => Len(job_head) <= Cardinality(Woken)

\* A caller of thread_pool_wait never sleeps while the pool has nothing
\* queued and nothing running.
WaitNotMissed ==
    PoolIdle(job_head, active_thread_head) /\ destroyer # "done" =>
        \A w \in Waiter : waiter[w] # "blocked"

\* With at least one permanent thread, a queued job is eventually taken (or
\* freed by destroy), even if pthread_create failed for it.
JobServed ==
    \A j \in Job : (jobst[j] = "queued" /\ nthreads > 0) ~> (jobst[j] # "queued")

\* thread_pool_destroy returns once every running job has ended.
DestroyReturns == Destroying ~> (destroyer = "done")
=============================================================================

