------------------------------- MODULE Timer -------------------------------
(***************************************************************************)
(* The timer runtime of src/timer/timer.c: one inspector thread that waits *)
(* for the first timer of the table, a pool of executor threads for timers *)
(* with TMR_OPT_THREAD, and callers of the API, which are application      *)
(* threads and the timer functions themselves.                             *)
(*                                                                         *)
(* Everything happens under base->mutex.  An action is a critical section  *)
(* or, where a thread loops without releasing the mutex, a part of one:    *)
(* mutex then names the thread and nobody else moves.  The red-black tree  *)
(* is the sequence of its nodes in order (expire, then order of insertion, *)
(* which is what timerid gives).                                           *)
(***************************************************************************)
EXTENDS Integers, Sequences, FiniteSets

CONSTANTS Timer, Executor, Inspector, App,
          None,
          Option,      \* the sets of TMR_OPT_* in use
          Interval,    \* the values of msec in use
          UserOpt,     \* the argument of timer_setup, [linger, thread_min, thread_max]
          Usage,       \* what callers do, see below
          MaxTime, MaxSetup

(* Usage may contain                                                       *)
(*   "mod"      timer_mod on timers that are in the table,                 *)
(*   "rearm"    timer_mod on one-shot timers that have fired,              *)
(*   "readd"    timer_add on a timer whose deletion has not finished,      *)
(*   "cross"    timer functions that delete other timers,                  *)
(*   "nothread" pthread_create may fail for an executor,                   *)
(*   "destroy"  timer_destroy.                                             *)

Thread == Executor \cup {Inspector}
Caller == App \cup Thread

VARIABLES state, nthreads, idlethreads, expired_timer, table, running_timer,
          opt, setups, mutex,
          flags, option, interval, expire,  \* of each timer
          executor,     \* the thread that last executed each timer
          pc,           \* where each thread is
          timer,        \* the timer whose function a thread is in
          timedout,     \* the local variable of timer_executor
          deleting,     \* the timer a caller waits for in timer_exit
          dwait,        \* whether that caller is blocked or woken
          destroyer, now,
          gone          \* history: timers whose deletion is complete

base    == <<state, nthreads, idlethreads, expired_timer, table, running_timer>>
config  == <<opt, setups>>
timers  == <<flags, option, interval, expire, executor>>
threads == <<pc, timer, timedout>>
callers == <<deleting, dwait, destroyer>>
vars    == <<base, config, mutex, timers, threads, callers, now, gone>>

DefaultOpt == [linger |-> 0, thread_min |-> 2, thread_max |-> 2]
Busy == {"PENDING", "EXECUTING"}
Free == mutex = None
Live == {t \in Thread : pc[t] # "none"}
working_base == nthreads > 0 /\ state # "DESTROY"
InTable(x) == \E i \in 1..Len(table) : table[i] = x
InExpired(x) == \E i \in 1..Len(expired_timer) : expired_timer[i] = x

Init ==
    /\ state = "INITIAL" /\ nthreads = 0 /\ idlethreads = 0
    /\ expired_timer = <<>> /\ table = <<>> /\ running_timer = None
    /\ opt = DefaultOpt /\ setups = 0 /\ mutex = None
    /\ flags = [x \in Timer |-> {}] /\ option = [x \in Timer |-> {}]
    /\ interval = [x \in Timer |-> 0] /\ expire = [x \in Timer |-> 0]
    /\ executor = [x \in Timer |-> None]
    /\ pc = [t \in Thread |-> "none"] /\ timer = [t \in Thread |-> None]
    /\ timedout = [e \in Executor |-> FALSE]
    /\ deleting = [c \in Caller |-> None] /\ dwait = [c \in Caller |-> "none"]
    /\ destroyer = "out" /\ now = 0 /\ gone = {}

-----------------------------------------------------------------------------
(* The table. *)

Removed(tab, x) == SelectSeq(tab, LAMBDA y : y # x)

\* timer_insert, with the new expiry e of x: behind all that expire no later.
Inserted(tab, x, e) ==
    SelectSeq(tab, LAMBDA y : expire[y] <= e) \o <<x>>
      \o SelectSeq(tab, LAMBDA y : expire[y] > e)

\* pthread_cond_signal(&base->work_cond), where only the inspector waits.
SignalWork == pc' = IF pc[Inspector] \in {"wait", "timedwait"}
                    THEN [pc EXCEPT ![Inspector] = "woken"] ELSE pc

-----------------------------------------------------------------------------
(* Setting up and tearing down. *)

\* timer_init_once: the user's options, the inspector being one thread more.
UserOptions ==
    LET max == UserOpt.thread_max + 1
        min == UserOpt.thread_min + 1
    IN  [linger |-> UserOpt.linger, thread_max |-> max,
         thread_min |-> IF min > max THEN max ELSE min]

\* timer_setup: pthread_once takes the options the first time only.  The
\* inspector's creation succeeds; when it fails the call changes nothing else.
timer_setup ==
    /\ Free /\ nthreads = 0 /\ destroyer = "out" /\ setups < MaxSetup
    /\ opt' = IF setups = 0 THEN UserOptions ELSE opt
    /\ setups' = setups + 1
    /\ running_timer' = None /\ nthreads' = 1 /\ idlethreads' = 0
    /\ pc' = [pc EXCEPT ![Inspector] = "start"]
    /\ UNCHANGED <<state, expired_timer, table, mutex, timers, timer, timedout,
                   callers, now, gone>>

\* timer_destroy up to its wait for the threads.
timer_destroy ==
    /\ "destroy" \in Usage /\ Free /\ destroyer = "out" /\ working_base
    /\ pc' = [t \in Thread |->
                IF \/ t = Inspector /\ state \in {"WAITING", "TIMING"}
                                    /\ pc[t] \in {"wait", "timedwait"}
                   \/ t # Inspector /\ idlethreads > 0
                                    /\ pc[t] \in {"wait", "timedwait"}
                THEN "woken" ELSE pc[t]]
    /\ state' = "DESTROY"
    /\ destroyer' = "blocked"
    /\ UNCHANGED <<nthreads, idlethreads, expired_timer, table, running_timer,
                   config, mutex, timers, timer, timedout, deleting, dwait, now, gone>>

\* The loop around the wait on exit_cond, then timer_destroy_cleanup.
DestroyResume ==
    /\ Free /\ destroyer = "woken"
    /\ IF nthreads > 0
       THEN /\ destroyer' = "blocked"
            /\ UNCHANGED <<state, table, opt>>
       ELSE /\ destroyer' = "out"
            /\ state' = "INITIAL" /\ table' = <<>> /\ opt' = DefaultOpt
    /\ UNCHANGED <<nthreads, idlethreads, expired_timer, running_timer, setups,
                   mutex, timers, threads, deleting, dwait, now, gone>>

\* thread_cleanup, with the mutex held.
thread_cleanup(t) ==
    /\ nthreads' = nthreads - 1
    /\ pc' = [pc EXCEPT ![t] = "none"]
    /\ mutex' = None
    /\ destroyer' = IF nthreads = 1 /\ state = "DESTROY" /\ destroyer = "blocked"
                    THEN "woken" ELSE destroyer

-----------------------------------------------------------------------------
(* The API. *)

\* A caller that is not inside a call: an application thread, or a thread that
\* is executing a timer function.
Calls(c) ==
    /\ Free /\ working_base /\ deleting[c] = None
    /\ c \in App \cup {t \in Thread : timer[t] # None}


\* The inspector has to look again when a timer with expiry e is added.
MustSignal(e) ==
    \/ state = "WAITING"
    \/ running_timer # None /\ e < expire[running_timer]

\* timer_add.  A refused call changes nothing.
timer_add(c, x, o, msec) ==
    /\ Calls(c)
    /\ "ACTIVE" \notin flags[x]
    /\ ~ ("MOUNTED" \in flags[x] /\ InTable(x))
    /\ \/ "readd" \in Usage
       \/ flags[x] \cap Busy = {} /\ \A d \in Caller : deleting[d] # x
    /\ option' = [option EXCEPT ![x] = o]
    /\ flags' = [flags EXCEPT ![x] = {"MOUNTED", "ACTIVE"}]
    /\ interval' = [interval EXCEPT ![x] = msec]
    /\ expire' = [expire EXCEPT ![x] = now + msec]
    /\ table' = Inserted(table, x, now + msec)
    /\ IF MustSignal(now + msec) THEN SignalWork ELSE UNCHANGED pc
    /\ gone' = gone \ {x}
    /\ UNCHANGED <<state, nthreads, idlethreads, expired_timer, running_timer,
                   config, mutex, executor, timer, timedout, callers, now>>


SignalRemoving == running_timer' = None /\ SignalWork

\* timer_del and timer_exit.  A function that deletes its own timer leaves the
\* rest to timer_cleanup; anybody else waits until the timer is not in use.
timer_del(c, x) ==
    /\ Calls(c)
    /\ "ACTIVE" \in flags[x]
    /\ "MOUNTED" \in flags[x] => InTable(x)
    /\ c \in Thread /\ "cross" \notin Usage => timer[c] = x
    /\ table' = Removed(table, x)
    /\ IF "MOUNTED" \in flags[x] /\ running_timer = x
       THEN SignalRemoving ELSE UNCHANGED <<running_timer, pc>>
    /\ LET left == flags[x] \ {"MOUNTED", "ACTIVE"}
           self == "EXECUTING" \in left /\ executor[x] = c
           wait == ~ self /\ left \cap Busy # {}
       IN  /\ flags' = [flags EXCEPT ![x] =
                 IF self THEN left \cup {"DETACH"}
                 ELSE IF wait THEN left \cup {"WAITING"} ELSE left]
           /\ deleting' = IF wait THEN [deleting EXCEPT ![c] = x] ELSE deleting
           /\ dwait' = IF wait THEN [dwait EXCEPT ![c] = "blocked"] ELSE dwait
           /\ gone' = IF self \/ wait THEN gone ELSE gone \cup {x}
    /\ UNCHANGED <<state, nthreads, idlethreads, expired_timer, config, mutex,
                   option, interval, expire, executor, timer, timedout,
                   destroyer, now>>

\* Mutant: the flags are not looked at again after the wait.
NotRechecked(x) == FALSE

StillInUse(x) == flags[x] \cap Busy # {}

\* The do-while loop of timer_exit after a wakeup.
DelResume(c) ==
    LET x == deleting[c]
    IN  /\ Free /\ dwait[c] = "woken"
        /\ IF StillInUse(x)
           THEN /\ flags' = [flags EXCEPT ![x] = @ \cup {"WAITING"}]
                /\ dwait' = [dwait EXCEPT ![c] = "blocked"]
                /\ UNCHANGED <<deleting, gone>>
           ELSE /\ dwait' = [dwait EXCEPT ![c] = "none"]
                /\ deleting' = [deleting EXCEPT ![c] = None]
                /\ gone' = gone \cup {x}
                /\ UNCHANGED flags
        /\ UNCHANGED <<base, config, mutex, option, interval, expire, executor,
                       threads, destroyer, now>>

\* timer_mod: out of the table if it is in, and in again from now on.
timer_mod(c, x, msec) ==
    /\ Calls(c)
    /\ "ACTIVE" \in flags[x]
    /\ "MOUNTED" \in flags[x] => InTable(x)
    /\ IF "MOUNTED" \in flags[x] THEN "mod" \in Usage ELSE "rearm" \in Usage
    /\ interval' = [interval EXCEPT ![x] = msec]
    /\ expire' = [expire EXCEPT ![x] = now + msec]
    /\ table' = Inserted(Removed(table, x), x, now + msec)
    /\ flags' = [flags EXCEPT ![x] = @ \cup {"MOUNTED"}]
    /\ IF \/ running_timer = x
          \/ running_timer # None /\ now + msec < expire[running_timer]
       THEN SignalWork ELSE UNCHANGED pc
    /\ UNCHANGED <<state, nthreads, idlethreads, expired_timer, running_timer,
                   config, mutex, option, executor, timer, timedout, callers,
                   now, gone>>

-----------------------------------------------------------------------------
(* Executing a timer function, in the inspector or in an executor. *)

\* timer_execute with the mutex held, which it releases; fl are the flags of x.
timer_execute(t, x, fl) ==
    /\ timer' = [timer EXCEPT ![t] = x]
    /\ executor' = [executor EXCEPT ![x] = t]
    /\ flags' = [flags EXCEPT ![x] = fl \cup {"EXECUTING"}]
    /\ pc' = [pc EXCEPT ![t] = "run"]
    /\ mutex' = None

\* Mutant: nobody is woken.
BroadcastNobody(x) == dwait

\* pthread_cond_broadcast(&timer->cond)
Broadcast(x) ==
    [c \in Caller |-> IF deleting[c] = x /\ dwait[c] = "blocked"
                      THEN "woken" ELSE dwait[c]]

\* The function returns; timer_cleanup, which keeps the mutex.
timer_cleanup(t) ==
    LET x    == timer[t]
        left == flags[x] \ {"EXECUTING"}
    IN  /\ Free /\ pc[t] = "run" /\ deleting[t] = None
        /\ mutex' = t
        /\ timer' = [timer EXCEPT ![t] = None]
        /\ pc' = [pc EXCEPT ![t] = IF t = Inspector THEN "loop" ELSE "drain"]
        /\ dwait' = IF "WAITING" \in left THEN Broadcast(x) ELSE dwait
        /\ flags' = [flags EXCEPT ![x] =
              IF "DETACH" \in left THEN left \ {"WAITING", "ACTIVE"}
                                   ELSE left \ {"WAITING"}]
        /\ gone' = IF "DETACH" \in left THEN gone \cup {x} ELSE gone
        /\ UNCHANGED <<base, config, option, interval, expire, executor,
                       timedout, deleting, destroyer, now>>

-----------------------------------------------------------------------------
(* timer_inspector. *)

\* Back from a wait, or started: the loop begins.  Only a wait that timed out
\* with its timer still there goes on to shoot.
InspectorResume ==
    /\ Free
    /\ \/ pc[Inspector] \in {"start", "woken"}
       \/ pc[Inspector] = "timedout" /\ running_timer = None
    /\ mutex' = Inspector
    /\ running_timer' = None
    /\ pc' = [pc EXCEPT ![Inspector] = "loop"]
    /\ UNCHANGED <<state, nthreads, idlethreads, expired_timer, table, config,
                   timers, timer, timedout, callers, now, gone>>

InspectorExit ==
    /\ pc[Inspector] = "loop" /\ state = "DESTROY"
    /\ thread_cleanup(Inspector)
    /\ UNCHANGED <<state, idlethreads, expired_timer, table, running_timer,
                   config, timers, timer, timedout, deleting, dwait, now, gone>>

\* The table is empty, or its first timer is still to come.
InspectorWait ==
    /\ pc[Inspector] = "loop" /\ state # "DESTROY"
    /\ \/ /\ table = <<>>
          /\ state' = "WAITING"
          /\ pc' = [pc EXCEPT ![Inspector] = "wait"]
          /\ UNCHANGED running_timer
       \/ /\ table # <<>> /\ now < expire[Head(table)]
          /\ state' = "TIMING"
          /\ running_timer' = Head(table)
          /\ pc' = [pc EXCEPT ![Inspector] = "timedwait"]
    /\ mutex' = None
    /\ UNCHANGED <<nthreads, idlethreads, expired_timer, table, config, timers,
                   timer, timedout, callers, now, gone>>

\* timer_thread_execute: queue x, then signal an idle executor or start one.
timer_thread_execute(x, fl) ==
    /\ flags' = [flags EXCEPT ![x] = fl \cup {"PENDING"}]
    /\ expired_timer' = Append(expired_timer, x)
    /\ LET asleep == {e \in Executor : pc[e] \in {"wait", "timedwait"}}
           at     == [pc EXCEPT ![Inspector] = "loop"]
       IN  \/ /\ idlethreads > 0 /\ asleep # {}
              /\ \E e \in asleep : pc' = [at EXCEPT ![e] = "woken"]
              /\ UNCHANGED <<nthreads, timedout>>
           \/ /\ idlethreads = 0 /\ nthreads < opt.thread_max
              /\ \E e \in Executor \ Live :
                    /\ pc' = [at EXCEPT ![e] = "start"]
                    /\ timedout' = [timedout EXCEPT ![e] = FALSE]
              /\ nthreads' = nthreads + 1
           \/ /\ \/ idlethreads > 0 /\ asleep = {}
                 \/ idlethreads = 0 /\ nthreads >= opt.thread_max
                 \/ idlethreads = 0 /\ "nothread" \in Usage
              /\ pc' = at
              /\ UNCHANGED <<nthreads, timedout>>

\* Mutant: a timer that is still in use is not skipped.
SkipsNone(fl) == FALSE

Skipped(fl) == fl \cap Busy # {}

\* The rest of the loop for an expired timer x: a cyclic one goes back into the
\* table, one that is still in use is skipped, the others are executed.
Shoot(x) ==
    LET cyclic == "CYCLE" \in option[x]
        next   == expire[x] + interval[x]
        fl     == IF cyclic THEN flags[x] ELSE flags[x] \ {"MOUNTED"}
    IN  /\ state' = "SHOOTING"
        /\ running_timer' = None
        /\ IF cyclic
           THEN /\ table' = Inserted(Removed(table, x), x, next)
                /\ expire' = [expire EXCEPT ![x] = next]
           ELSE /\ table' = Removed(table, x)
                /\ UNCHANGED expire
        /\ \/ /\ Skipped(fl)
              /\ flags' = [flags EXCEPT ![x] = fl]
              /\ pc' = [pc EXCEPT ![Inspector] = "loop"]
              /\ mutex' = Inspector
              /\ UNCHANGED <<nthreads, expired_timer, timer, timedout, executor>>
           \/ /\ ~ Skipped(fl) /\ "THREAD" \in option[x]
              /\ timer_thread_execute(x, fl)
              /\ mutex' = Inspector
              /\ UNCHANGED <<timer, executor>>
           \/ /\ ~ Skipped(fl) /\ "THREAD" \notin option[x]
              /\ timer_execute(Inspector, x, fl)
              /\ UNCHANGED <<nthreads, expired_timer, timedout>>
        /\ UNCHANGED <<idlethreads, config, option, interval, callers, now, gone>>

\* The first timer has expired already ...
InspectorShoots ==
    /\ pc[Inspector] = "loop" /\ state # "DESTROY"
    /\ table # <<>> /\ now >= expire[Head(table)]
    /\ Shoot(Head(table))

\* ... or the wait for it timed out: then nothing is looked at again.
InspectorTimedOut ==
    /\ Free /\ pc[Inspector] = "timedout" /\ running_timer # None
    /\ Shoot(running_timer)

-----------------------------------------------------------------------------
(* timer_executor. *)

ExecutorStart(e) ==
    /\ Free /\ pc[e] = "start"
    /\ mutex' = e
    /\ pc' = [pc EXCEPT ![e] = "loop"]
    /\ UNCHANGED <<base, config, timers, timer, timedout, callers, now, gone>>

\* The head of the for loop, when the thread leaves: the base is being
\* destroyed, or it is a surplus thread that does not linger.
ExecutorLeaves(e) ==
    /\ \/ pc[e] = "loop" /\ state = "DESTROY"
       \/ /\ pc[e] = "loop" /\ expired_timer = <<>>
          /\ nthreads > opt.thread_min /\ opt.linger = 0
       \/ /\ pc[e] = "drain" /\ expired_timer = <<>>
          /\ timedout[e] /\ nthreads > opt.thread_min
    /\ thread_cleanup(e)
    /\ UNCHANGED <<state, idlethreads, expired_timer, table, running_timer,
                   config, timers, timer, timedout, deleting, dwait, now, gone>>

\* Mutant: the list is not looked at before the wait.
NotLookedAt == TRUE

NothingToDo == expired_timer = <<>>

\* The head of the loop, when there is nothing to do.
ExecutorWaits(e) ==
    /\ pc[e] = "loop" /\ state # "DESTROY" /\ NothingToDo
    /\ nthreads <= opt.thread_min \/ opt.linger > 0
    /\ idlethreads' = idlethreads + 1
    /\ pc' = [pc EXCEPT ![e] = IF nthreads <= opt.thread_min THEN "wait"
                               ELSE "timedwait"]
    /\ mutex' = None
    /\ UNCHANGED <<state, nthreads, expired_timer, table, running_timer, config,
                   timers, timer, timedout, callers, now, gone>>

ExecutorResume(e) ==
    /\ Free /\ pc[e] \in {"woken", "timedout"}
    /\ mutex' = e
    /\ idlethreads' = idlethreads - 1
    /\ timedout' = [timedout EXCEPT ![e] = @ \/ pc[e] = "timedout"]
    /\ pc' = [pc EXCEPT ![e] = "drain"]
    /\ UNCHANGED <<state, nthreads, expired_timer, table, running_timer, config,
                   timers, timer, callers, now, gone>>

\* The inner while loop takes the first expired timer.
ExecutorTakes(e) ==
    /\ \/ pc[e] = "drain"
       \/ pc[e] = "loop" /\ state # "DESTROY"
    /\ expired_timer # <<>>
    /\ LET x == Head(expired_timer)
       IN  timer_execute(e, x, flags[x] \ {"PENDING"})
    /\ expired_timer' = Tail(expired_timer)
    /\ UNCHANGED <<state, nthreads, idlethreads, table, running_timer, config,
                   option, interval, expire, timedout, callers, now, gone>>

\* Nothing left and no reason to leave: round the loop.
ExecutorLoops(e) ==
    /\ pc[e] = "drain" /\ expired_timer = <<>>
    /\ ~ (timedout[e] /\ nthreads > opt.thread_min)
    /\ pc' = [pc EXCEPT ![e] = "loop"]
    /\ UNCHANGED <<base, config, mutex, timers, timer, timedout, callers, now, gone>>

-----------------------------------------------------------------------------
(* Time, deadlines, spurious wakeups (external). *)

Tick ==
    /\ now < MaxTime
    /\ now' = now + 1
    /\ UNCHANGED <<base, config, mutex, timers, threads, callers, gone>>

\* The deadline of a timed wait: the running timer's expiry for the inspector,
\* the linger time for an executor.
Deadline(t) ==
    /\ pc[t] = "timedwait"
    /\ t = Inspector => running_timer # None /\ now >= expire[running_timer]
    /\ pc' = [pc EXCEPT ![t] = "timedout"]
    /\ UNCHANGED <<base, config, mutex, timers, timer, timedout, callers, now, gone>>

SpuriousWakeup ==
    /\ \/ \E t \in Thread :
             /\ pc[t] \in {"wait", "timedwait"}
             /\ pc' = [pc EXCEPT ![t] = "woken"]
             /\ UNCHANGED <<dwait, destroyer>>
       \/ \E c \in Caller :
             /\ dwait[c] = "blocked"
             /\ dwait' = [dwait EXCEPT ![c] = "woken"]
             /\ UNCHANGED <<pc, destroyer>>
       \/ /\ destroyer = "blocked"
          /\ destroyer' = "woken"
          /\ UNCHANGED <<pc, dwait>>
    /\ UNCHANGED <<base, config, mutex, timers, timer, timedout, deleting, now, gone>>

timer_inspector == InspectorResume \/ InspectorExit \/ InspectorWait
                   \/ InspectorShoots \/ InspectorTimedOut

timer_executor(e) == \/ ExecutorStart(e) \/ ExecutorLeaves(e) \/ ExecutorWaits(e)
                     \/ ExecutorResume(e) \/ ExecutorTakes(e) \/ ExecutorLoops(e)

ApiCall ==
    \/ timer_setup \/ timer_destroy
    \/ \E c \in Caller, x \in Timer :
          \/ \E o \in Option, msec \in Interval : timer_add(c, x, o, msec)
          \/ timer_del(c, x)
          \/ \E msec \in Interval : timer_mod(c, x, msec)

Next ==
    \/ ApiCall
    \/ DestroyResume
    \/ \E c \in Caller : DelResume(c)
    \/ \E t \in Thread : timer_cleanup(t) \/ Deadline(t)
    \/ timer_inspector
    \/ \E e \in Executor : timer_executor(e)
    \/ Tick
    \/ SpuriousWakeup

Spec == Init /\ [][Next]_vars

\* Threads that want the mutex get it, timer functions return, time passes.
Fairness ==
    /\ WF_vars(Tick)
    /\ SF_vars(timer_inspector)
    /\ \A e \in Executor : SF_vars(timer_executor(e))
    /\ \A t \in Thread : SF_vars(timer_cleanup(t)) /\ WF_vars(Deadline(t))
    /\ \A c \in Caller : SF_vars(DelResume(c))
    /\ SF_vars(DestroyResume)

FairSpec == Spec /\ Fairness

-----------------------------------------------------------------------------
(* Properties. *)

\* The variables have the types of struct timer_base and struct timer_struct.
TypeOK ==
    /\ state \in {"INITIAL", "WAITING", "TIMING", "SHOOTING", "DESTROY"}
    /\ nthreads \in Nat /\ idlethreads \in Nat
    /\ expired_timer \in Seq(Timer) /\ table \in Seq(Timer)
    /\ running_timer \in Timer \cup {None}
    /\ mutex \in Thread \cup {None}
    /\ flags \in [Timer -> SUBSET {"ACTIVE", "MOUNTED", "PENDING", "EXECUTING",
                                   "WAITING", "DETACH"}]
    /\ option \in [Timer -> SUBSET {"CYCLE", "THREAD"}]
    /\ expire \in [Timer -> Nat] /\ interval \in [Timer -> Nat]
    /\ executor \in [Timer -> Thread \cup {None}]
    /\ pc \in [Thread -> {"none", "start", "wait", "timedwait", "woken",
                          "timedout", "loop", "drain", "run"}]
    /\ timer \in [Thread -> Timer \cup {None}]
    /\ timedout \in [Executor -> BOOLEAN]
    /\ deleting \in [Caller -> Timer \cup {None}]
    /\ dwait \in [Caller -> {"none", "blocked", "woken"}]
    /\ destroyer \in {"out", "blocked", "woken"}

\* The flags of a timer tell the truth about where it is: it is in the table,
\* once, iff MOUNTED (until timer_destroy drops the table); queued, once, iff
\* PENDING; its function is being executed, by one thread only, iff EXECUTING.
FlagsAgree ==
    TypeOK /\ \A x \in Timer :
      /\ nthreads > 0 /\ setups = 1 => ("MOUNTED" \in flags[x] <=> InTable(x))
      /\ "PENDING" \in flags[x] <=> InExpired(x)
      /\ "EXECUTING" \in flags[x] <=> \E t \in Thread : timer[t] = x
      /\ Cardinality({i \in 1..Len(table) : table[i] = x}) <= 1
      /\ Cardinality({i \in 1..Len(expired_timer) : expired_timer[i] = x}) <= 1
      /\ Cardinality({t \in Thread : timer[t] = x}) <= 1
      /\ ~ (Busy \subseteq flags[x])

\* Once timer_del has returned, or the function that deleted its own timer has,
\* the runtime does not touch the timer again: the caller may free it.
QuietAfterDel ==
    \A x \in gone : /\ ~ InTable(x) /\ ~ InExpired(x) /\ running_timer # x
                    /\ \A t \in Thread : timer[t] # x
                    /\ \A c \in Caller : deleting[c] # x

\* While an expired timer is queued some executor is awake to take it.  (A base
\* that is being destroyed leaves the queue as it is, and timer_setup does not
\* empty it.)
NoLostExpiry ==
    Free /\ nthreads > 0 /\ destroyer = "out" /\ setups = 1 /\ expired_timer # <<>> =>
      \E e \in Executor : pc[e] \in {"start", "woken", "timedout", "run"}



\* timer_del returns.
DelReturns == \A c \in Caller : deleting[c] # None ~> deleting[c] = None

\* timer_destroy returns.
DestroyReturns == destroyer # "out" ~> destroyer = "out"
=============================================================================
