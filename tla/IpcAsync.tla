------------------------------ MODULE IpcAsync ------------------------------
(***************************************************************************)
(* Asynchronous requests of the IPC server, src/ipc/ipc_server.c.          *)
(*                                                                         *)
(* The core thread accepts clients, binds an async cookie to each of them, *)
(* queues a request on the cookie and releases the client when its socket  *)
(* closes, whatever the cookie is doing.  The tasks of a pool execute the  *)
(* queued requests and send the replies.  Everything shared is protected   *)
(* by the mutex of the pool, so one action is one critical section.        *)
(*                                                                         *)
(* A slot is the memory of a client handle together with its socket        *)
(* descriptor: both are reused by a later client once the handle is        *)
(* released.  conn tells which client owns the slot now.                   *)
(***************************************************************************)
EXTENDS Integers, Sequences, FiniteSets

CONSTANTS Task, Slot, Cookie, NoCookie, NoSlot, NoMsg,
          Class,               \* classes of the clients that are bound
          mintasks, maxtasks, linger,
          MaxConn, MaxReq      \* bounds on clients and on queued requests

ASSUME AsyncAssumption ==
    /\ IsFiniteSet(Task) /\ IsFiniteSet(Cookie)
    /\ NoCookie \notin Cookie /\ NoSlot \notin Slot
    /\ Class \subseteq {"REQUESTER", "SUBSCRIBER"}
    /\ mintasks \in Nat \ {0} /\ maxtasks \in Nat /\ mintasks <= maxtasks
    /\ linger \in Nat /\ MaxConn \in Nat /\ MaxReq \in Nat
    /\ NoMsg \notin 1..MaxReq

VARIABLES running,          \* IPC_CORE_F_RUN
          nconn, conn,      \* clients so far; the client that owns each slot
          clazz, cookie,    \* class and cookie of the handle in each slot
          async,            \* the struct ipc_async of each cookie
          async_head,       \* queued cookies, oldest first
          origin,           \* history: the client that sent each request
          replies,          \* history: <<request, client that got its reply>>
          ntasks, idletasks, flags, active_task_head,
          pc, timedout, cancelled, task_async,
          exiter            \* where ipc_async_exit is

core == <<running, nconn, conn, clazz, cookie>>
pool == <<ntasks, idletasks, active_task_head, pc, timedout, cancelled,
          task_async>>
vars == <<core, async, async_head, origin, replies, pool, flags, exiter>>

FreeAsync == [state |-> "free", sevr |-> NoSlot, msg |-> NoMsg, reply |-> FALSE]

Asleep == {t \in Task : pc[t] \in {"wait", "timedwait"}}
Live   == {t \in Task : pc[t] # "none"}
Destroying == "DESTROY" \in flags

Init ==
    /\ running = TRUE /\ nconn = 0
    /\ conn = [h \in Slot |-> 0]
    /\ clazz = [h \in Slot |-> "DUMMY"]
    /\ cookie = [h \in Slot |-> NoCookie]
    /\ async = [k \in Cookie |-> FreeAsync]
    /\ async_head = <<>> /\ origin = <<>> /\ replies = {}
    /\ ntasks = 0 /\ idletasks = 0 /\ flags = {} /\ active_task_head = {}
    /\ pc = [t \in Task |-> "none"]
    /\ timedout = [t \in Task |-> FALSE]
    /\ cancelled = {}
    /\ task_async = [t \in Task |-> NoCookie]
    /\ exiter = "out"

-----------------------------------------------------------------------------
(* The core thread. *)

\* ipc_server_bind with IPC_COOKIE_ASYNC: a zeroed cookie in state ASYNC_IDLE.
\* Without memory the handle stays without a cookie.
ipc_server_bind(h) ==
    \/ \E k \in Cookie :
         /\ async[k].state = "free"
         /\ cookie' = [cookie EXCEPT ![h] = k]
         /\ async' = [async EXCEPT
                ![k] = [state |-> "IDLE", sevr |-> h, msg |-> NoMsg,
                        reply |-> FALSE]]
    \/ UNCHANGED <<cookie, async>>

\* A client connects (ipc_server_connect) or registers (ipc_server_register)
\* and the manager binds a cookie to its handle.
Accept(h) ==
    /\ running /\ conn[h] = 0 /\ nconn < MaxConn
    /\ nconn' = nconn + 1
    /\ conn' = [conn EXCEPT ![h] = nconn + 1]
    /\ \E c \in Class : clazz' = [clazz EXCEPT ![h] = c]
    /\ ipc_server_bind(h)
    /\ UNCHANGED <<running, async_head, origin, replies, pool, flags, exiter>>

\* Mutant: the new request is queued and nobody is signalled.
SignalNobody == UNCHANGED pc

\* pthread_cond_signal(&pool->work_cond).
SignalWork ==
    IF Asleep = {} THEN UNCHANGED pc
    ELSE \E t \in Asleep : pc' = [pc EXCEPT ![t] = "woken"]

\* Signal an idle task or create one; pthread_create may fail.
Dispatch ==
    \/ /\ idletasks > 0
       /\ SignalWork
       /\ UNCHANGED <<ntasks, timedout>>
    \/ /\ idletasks = 0 /\ ntasks < maxtasks
       /\ \E t \in Task \ Live :
             /\ pc' = [pc EXCEPT ![t] = "start"]
             /\ timedout' = [timedout EXCEPT ![t] = FALSE]
       /\ ntasks' = ntasks + 1
    \/ /\ idletasks = 0
       /\ UNCHANGED <<ntasks, pc, timedout>>

\* ipc_async_execute, called by the handler of a request: refused unless the
\* cookie is idle.  When the message cannot be cloned the cookie is left
\* PENDING without being queued.  Subscribers report without a response.
ipc_async_execute(h) ==
    LET k == cookie[h]
        r == Len(origin) + 1
    IN  /\ running /\ conn[h] # 0 /\ k # NoCookie /\ r <= MaxReq
        /\ async[k].state = "IDLE"
        /\ origin' = Append(origin, conn[h])
        /\ \/ /\ \E reply \in IF clazz[h] = "SUBSCRIBER" THEN {FALSE} ELSE BOOLEAN :
                    async' = [async EXCEPT ![k].state = "PENDING", ![k].msg = r,
                                           ![k].reply = reply]
              /\ async_head' = Append(async_head, k)
              /\ Dispatch
           \/ /\ async' = [async EXCEPT ![k].state = "PENDING"]
              /\ UNCHANGED <<async_head, ntasks, pc, timedout>>
        /\ UNCHANGED <<core, replies, idletasks, flags, active_task_head,
                       cancelled, task_async, exiter>>

\* Mutants of ipc_async_release: an executing cookie is freed at once; it is
\* left to the task without a mark; a queued one stays in the queue.
ReleaseFreesExecuting(k) ==
    /\ async' = [async EXCEPT ![k] = FreeAsync]
    /\ async_head' = SelectSeq(async_head, LAMBDA x : x # k)

ReleaseUnmarked(k) ==
    /\ async' = [async EXCEPT
          ![k] = IF async[k].state \in {"IDLE", "PENDING"} THEN FreeAsync ELSE @]
    /\ async_head' = SelectSeq(async_head, LAMBDA x : x # k)


\* ipc_async_release: a queued or idle cookie is freed, an executing one is
\* orphaned and left to its task.
ipc_async_release(k) ==
    /\ async' = [async EXCEPT
          ![k] = IF async[k].state \in {"IDLE", "PENDING"} THEN FreeAsync
                 ELSE [@ EXCEPT !.state = "EXITED", !.sevr = NoSlot]]
    /\ async_head' = SelectSeq(async_head, LAMBDA x : x # k)

\* ipc_release of a client: its socket was closed, or the server exits.  The
\* cookie of a subscriber is not released.
ipc_release(h) ==
    /\ conn[h] # 0
    /\ IF clazz[h] = "REQUESTER" /\ cookie[h] # NoCookie
       THEN ipc_async_release(cookie[h])
       ELSE UNCHANGED <<async, async_head>>
    /\ conn' = [conn EXCEPT ![h] = 0]
    /\ clazz' = [clazz EXCEPT ![h] = "DUMMY"]
    /\ cookie' = [cookie EXCEPT ![h] = NoCookie]
    /\ UNCHANGED <<running, nconn, origin, replies, pool, flags, exiter>>

\* ipc_server_exit clears IPC_CORE_F_RUN, releases every client, and then
\* calls ipc_async_exit.
ipc_server_exit ==
    /\ running
    /\ running' = FALSE
    /\ UNCHANGED <<nconn, conn, clazz, cookie, async, async_head, origin,
                   replies, pool, flags, exiter>>

\* ipc_async_exit up to pthread_cond_timedwait.
ipc_async_exit ==
    /\ ~running /\ exiter = "out"
    /\ \A h \in Slot : conn[h] = 0
    /\ flags' = flags \cup {"DESTROY"}
    /\ pc' = IF idletasks > 0
             THEN [t \in Task |-> IF t \in Asleep THEN "woken" ELSE pc[t]]
             ELSE pc
    /\ exiter' = IF ntasks > 0 THEN "grace" ELSE "done"
    /\ UNCHANGED <<core, async, async_head, origin, replies, ntasks, idletasks,
                   active_task_head, timedout, cancelled, task_async>>

\* Its timed wait ended, by a broadcast, the deadline or a spurious wakeup:
\* every task that still executes is cancelled.
ExitCancel ==
    /\ exiter = "grace"
    /\ cancelled' = cancelled \cup active_task_head
    /\ exiter' = IF ntasks > 0 THEN "blocked" ELSE "done"
    /\ UNCHANGED <<core, async, async_head, origin, replies, ntasks, idletasks,
                   flags, active_task_head, pc, timedout, task_async>>

\* Back from pthread_cond_wait(&pool->exit_cond).
ExitResume ==
    /\ exiter = "woken"
    /\ exiter' = IF ntasks > 0 THEN "blocked" ELSE "done"
    /\ UNCHANGED <<core, async, async_head, origin, replies, pool, flags>>

-----------------------------------------------------------------------------
(* The tasks. *)

\* ipc_async_task_cleanup.
ipc_async_task_cleanup(t) ==
    /\ pc' = [pc EXCEPT ![t] = "none"]
    /\ ntasks' = ntasks - 1
    /\ cancelled' = cancelled \ {t}
    /\ exiter' = IF Destroying /\ ntasks' = 0 /\ exiter = "blocked"
                 THEN "woken" ELSE exiter

Sleep(t, as, idle, active) ==
    /\ async_head = <<>> /\ ~Destroying
    /\ idletasks' = idle + 1
    /\ pc' = [pc EXCEPT ![t] = IF ntasks <= mintasks THEN "wait" ELSE "timedwait"]
    /\ active_task_head' = active
    /\ task_async' = [task_async EXCEPT ![t] = NoCookie]
    /\ async' = as
    /\ UNCHANGED <<async_head, ntasks, cancelled, exiter>>

TakeAsync(t, as, idle, active) ==
    /\ async_head # <<>> /\ ~Destroying
    /\ idletasks' = idle
    /\ pc' = [pc EXCEPT ![t] = "run"]
    /\ task_async' = [task_async EXCEPT ![t] = Head(async_head)]
    /\ async' = [as EXCEPT ![Head(async_head)].state = "EXECUTING"]
    /\ async_head' = Tail(async_head)
    /\ active_task_head' = active \cup {t}
    /\ UNCHANGED <<ntasks, cancelled, exiter>>

Leave(t, as, idle, active) ==
    /\ ipc_async_task_cleanup(t)
    /\ idletasks' = idle
    /\ active_task_head' = active
    /\ task_async' = [task_async EXCEPT ![t] = NoCookie]
    /\ async' = as
    /\ UNCHANGED async_head

Iterate(t, as, idle, active, mayWait) ==
    \/ /\ mayWait \/ ntasks <= mintasks
       /\ Sleep(t, as, idle, active)
    \/ TakeAsync(t, as, idle, active)
    \/ /\ Destroying \/ (async_head = <<>> /\ ~mayWait /\ ntasks > mintasks)
       /\ Leave(t, as, idle, active)

\* A new task acquires the mutex for the first time.
TaskStart(t) ==
    /\ pc[t] = "start"
    /\ Iterate(t, async, idletasks, active_task_head, linger > 0)
    /\ UNCHANGED <<core, origin, replies, flags, timedout>>

\* Back from pthread_cond_wait, or from the timed wait before its deadline.
TaskWoken(t) ==
    /\ pc[t] = "woken"
    /\ Iterate(t, async, idletasks - 1, active_task_head, linger > 0)
    /\ UNCHANGED <<core, origin, replies, flags, timedout>>

\* pthread_cond_timedwait returned ETIMEDOUT; timedout is never reset.
TaskTimedOut(t) ==
    /\ pc[t] = "expired"
    /\ timedout' = [timedout EXCEPT ![t] = TRUE]
    /\ Iterate(t, async, idletasks - 1, active_task_head, FALSE)
    /\ UNCHANGED <<core, origin, replies, flags>>

\* ipc_async_cleanup: what it leaves of the cookie...
Cleaned(k) ==
    IF async[k].state = "EXITED" THEN FreeAsync
    ELSE [async[k] EXCEPT !.state = "IDLE", !.msg = NoMsg, !.reply = FALSE]

\* ... and the reply, which send() may fail to deliver.
Reply(k) ==
    \/ /\ async[k].state # "EXITED" /\ async[k].reply
       /\ replies' = replies \cup {<<async[k].msg, conn[async[k].sevr]>>}
    \/ UNCHANGED replies

\* The function of the request returned: ipc_async_cleanup, then on round the
\* loop with the mutex held.
FuncReturns(t) ==
    LET k == task_async[t]
        as == [async EXCEPT ![k] = Cleaned(k)]
    IN  /\ pc[t] = "run"
        /\ Reply(k)
        /\ IF timedout[t] /\ ntasks > mintasks
           THEN Leave(t, as, idletasks, active_task_head \ {t})
           ELSE Iterate(t, as, idletasks, active_task_head \ {t}, linger > 0)
        /\ UNCHANGED <<core, origin, flags, timedout>>

\* The function is cancelled: both cleanup handlers run.
FuncCancelled(t) ==
    LET k == task_async[t]
        as == [async EXCEPT ![k] = Cleaned(k)]
    IN  /\ pc[t] = "run" /\ t \in cancelled
        /\ Reply(k)
        /\ Leave(t, as, idletasks, active_task_head \ {t})
        /\ UNCHANGED <<core, origin, flags, timedout>>

ipc_async_task(t) ==
    \/ TaskStart(t) \/ TaskWoken(t) \/ TaskTimedOut(t)
    \/ FuncReturns(t) \/ FuncCancelled(t)

-----------------------------------------------------------------------------
(* The condition variables: deadlines and spurious wakeups. *)

Deadline(t) ==
    /\ pc[t] = "timedwait"
    /\ pc' = [pc EXCEPT ![t] = "expired"]
    /\ UNCHANGED <<core, async, async_head, origin, replies, ntasks, idletasks,
                   flags, active_task_head, timedout, cancelled, task_async,
                   exiter>>

SpuriousWakeup ==
    /\ \/ \E t \in Asleep : /\ pc' = [pc EXCEPT ![t] = "woken"]
                            /\ UNCHANGED exiter
       \/ /\ exiter = "blocked" /\ exiter' = "woken"
          /\ UNCHANGED pc
    /\ UNCHANGED <<core, async, async_head, origin, replies, ntasks, idletasks,
                   flags, active_task_head, timedout, cancelled, task_async>>

Next ==
    \/ \E h \in Slot : Accept(h) \/ ipc_async_execute(h) \/ ipc_release(h)
    \/ ipc_server_exit \/ ipc_async_exit \/ ExitCancel \/ ExitResume
    \/ \E t \in Task : ipc_async_task(t) \/ Deadline(t)
    \/ SpuriousWakeup

Spec == Init /\ [][Next]_vars

\* Tasks that can run do, requests end, and a server that began to exit goes
\* on; clients, deadlines of idle tasks and spurious wakeups need not come.
Fairness ==
    /\ \A t \in Task : WF_vars(ipc_async_task(t))
    /\ \A h \in Slot : WF_vars(~running /\ ipc_release(h))
    /\ WF_vars(ipc_async_exit) /\ WF_vars(ExitCancel) /\ WF_vars(ExitResume)

FairSpec == Spec /\ Fairness

-----------------------------------------------------------------------------
(* Properties. *)

TypeOK ==
    /\ running \in BOOLEAN /\ nconn \in 0..MaxConn
    /\ conn \in [Slot -> 0..MaxConn]
    /\ clazz \in [Slot -> {"DUMMY", "REQUESTER", "SUBSCRIBER"}]
    /\ cookie \in [Slot -> Cookie \cup {NoCookie}]
    /\ async \in [Cookie ->
         [state : {"free", "IDLE", "PENDING", "EXECUTING", "EXITED"},
          sevr : Slot \cup {NoSlot}, msg : (1..MaxReq) \cup {NoMsg},
          reply : BOOLEAN]]
    /\ async_head \in Seq(Cookie) /\ origin \in Seq(1..MaxConn)
    /\ replies \subseteq (1..MaxReq) \X (0..MaxConn)
    /\ ntasks \in Nat /\ idletasks \in Nat /\ flags \subseteq {"DESTROY"}
    /\ active_task_head \subseteq Task
    /\ pc \in [Task -> {"none", "start", "wait", "timedwait", "woken",
                        "expired", "run"}]
    /\ timedout \in [Task -> BOOLEAN] /\ cancelled \subseteq Task
    /\ task_async \in [Task -> Cookie \cup {NoCookie}]
    /\ exiter \in {"out", "grace", "blocked", "woken", "done"}

Executes(t, k) == pc[t] = "run" /\ task_async[t] = k

\* A cookie has one owner at a time, whatever moment its client goes away at:
\* it is in the queue exactly while it is PENDING with a message, one task
\* executes it exactly while it is EXECUTING or EXITED, a handle owns it unless
\* it is freed or EXITED, and it is freed only when nobody can reach it.
CookieOwnership ==
    /\ TypeOK
    /\ \A k \in Cookie :
         /\ async[k].state = "PENDING" /\ async[k].msg # NoMsg
              <=> \E i \in DOMAIN async_head : async_head[i] = k
         /\ async[k].state \in {"EXECUTING", "EXITED"}
              <=> \E t \in Task : Executes(t, k)
         /\ async[k].state \in {"IDLE", "PENDING", "EXECUTING"}
              => async[k].sevr \in Slot /\ cookie[async[k].sevr] = k
    /\ \A h \in Slot : cookie[h] # NoCookie =>
         async[cookie[h]].state \in {"IDLE", "PENDING", "EXECUTING"}
    /\ \A k \in Cookie : \A t, u \in Task :
         Executes(t, k) /\ Executes(u, k) => t = u
    /\ \A i, j \in DOMAIN async_head : async_head[i] = async_head[j] => i = j

\* A reply goes to the client that sent the request and to nobody who got the
\* same socket or handle after it, and a request has at most one reply.
ReplyToSender ==
    /\ \A p \in replies : origin[p[1]] = p[2]
    /\ \A p, q \in replies : p[1] = q[1] => p = q


\* A queued request is eventually taken by a task, or dropped because its
\* client went away.
RequestServed ==
    \A k \in Cookie :
        (async[k].state = "PENDING" /\ async[k].msg # NoMsg /\ ntasks > 0)
            ~> (async[k].state # "PENDING")
=============================================================================
