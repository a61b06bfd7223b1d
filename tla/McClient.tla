------------------------------ MODULE McClient ------------------------------
(* How the daemon mcd (src/sample/mc-daemon) keeps processes alive: clients  *)
(* that registered are probed and beat, those that fall silent are told to   *)
(* exit, killed and started again; processes of the guard table that did not *)
(* register are looked for and started.  A client has one task, of strategy  *)
(* MC_STRATEGY_RESTART.  Every handler runs in the loop of the ipc server.   *)
(* Time is relative: missed counts the probes since the last one answered,   *)
(* left the seconds until a task's heartbeat is overdue.                     *)
EXTENDS Integers, FiniteSets, SequencesExt

CONSTANTS Name,         \* the processes
          Table,        \* those in the guard table
          Failing,      \* those that may hang or end by themselves
          MaxClient,    \* bounds the clients there is memory for
          None,
          loss_max,
          interval(_),  \* seconds between the heartbeats of a process
          MaxRequest    \* bounds what users ask for: detach, attach, start...

ASSUME McAssumption == Table \subseteq Name /\ Failing \subseteq Name
                       /\ loss_max \in Nat \ {0} /\ MaxRequest \in Nat /\ MaxClient \in Nat

\* The structures allocated for a name: which address malloc returns does not
\* matter.
Client == Name \X (1..MaxClient)

VARIABLES client,     \* struct mc_client; name None: not allocated
          deadq, lossq, runningq, detachdq,
          task_head,  \* the watched tasks, by the client they belong to
          guard,      \* state and pid of the guards; state "off": off the list
          proc,       \* the processes, and the client each registered as
          guarding,   \* MC_F_GUARD_RUN
          going,      \* MC_F_REBOOT or MC_F_SHUTDOWN
          requests    \* what the users asked for so far

queues == <<deadq, lossq, runningq, detachdq, task_head>>
mode == <<guarding, going, requests>>
vars == <<client, queues, guard, proc, mode>>

Init ==
  /\ client = [c \in Client |-> [name |-> None, state |-> {}, flags |-> {}, missed |-> 0,
                                 left |-> 0, timing |-> "none", conn |-> "none"]]
  /\ deadq = <<>> /\ lossq = <<>> /\ runningq = <<>> /\ detachdq = <<>> /\ task_head = <<>>
  /\ guard = [n \in Name |-> [state |-> IF n \in Table THEN "NEW" ELSE "off", pid |-> "zero"]]
  /\ proc \in [Name -> [run : {"none", "up"}, owner : {None}]]
  /\ guarding = FALSE /\ going = "no" /\ requests = 0

-----------------------------------------------------------------------------
In(s, c) == \E i \in DOMAIN s : s[i] = c
Without(s, t) == SelectSeq(s, LAMBDA c : ~ In(t, c))

\* c before the first element of s that is in T, else at the end.
Before(s, c, T) ==
  LET i == SelectInSeq(s, LAMBDA d : d \in T) IN InsertAt(s, IF i = 0 THEN Len(s) + 1 ELSE i, c)

\* The first client of that name in a list, or None.
Find(s, n) == LET i == SelectInSeq(s, LAMBDA c : client[c].name = n)
              IN IF i = 0 THEN None ELSE s[i]

\* The elements a reverse walk sees before it breaks at one outside T, in the
\* order it sees them.
Overdue(s, T) ==
  LET good == {i \in DOMAIN s : s[i] \notin T}
      from == CHOOSE i \in good \cup {0} : \A j \in good : j <= i
  IN Reverse(SubSeq(s, from + 1, Len(s)))

\* mc_task_active and mcd_client_active: where the lists take c in.
Full(n) == loss_max * interval(n)
ByBeat(c, n) == Before(Remove(task_head, c), c, {d \in Client : client[d].left <= Full(n)})
ByProbe(s, c, m) == Before(Remove(s, c), c, {d \in Client : client[d].missed >= m})

\* Processes.  One that ends leaves its connection, if it has one, closed.
Off == [run |-> "none", owner |-> None]
Latched == [run |-> "up", owner |-> None]
Orphaned(cl, n) == IF proc[n].owner = None THEN cl ELSE [cl EXCEPT ![proc[n].owner].conn = "closed"]
Forgotten(n) == [guard EXCEPT ![n].pid = IF @ = "live" THEN "stale" ELSE @]

Ended(n) ==
  /\ proc' = [proc EXCEPT ![n] = Off]
  /\ client' = Orphaned(client, n)
  /\ guard' = Forgotten(n)

\* client_restart kills what runs under the name and starts it again.
client_restart(cl, c) ==
  LET n == client[c].name
  IN /\ proc' = [proc EXCEPT ![n] = Latched]
     /\ client' = Orphaned([cl EXCEPT ![c].state = {"STARTING"}, ![c].timing = "review"], n)
     /\ guard' = Forgotten(n)

\* A client younger than its latch time is restarted after a delay.
mcd_client_restart(cl, c, young) ==
  \/ /\ young
     /\ client' = [cl EXCEPT ![c].state = {"PRESTART"}, ![c].timing = "delay"]
     /\ UNCHANGED <<guard, proc>>
  \/ ~ young /\ client_restart(cl, c)

-----------------------------------------------------------------------------
\* Plausible slips: the restart timing outlives the registration; the guard of
\* a new client stays on the list.
TimingKept(t) == t
GuardKept(g) == g

\* What registration does to the restart timing and to the guard, whose pid is
\* not looked at again.
TimingCancelled(t) == "none"
GuardTaken(g) == [state |-> "off", pid |-> "zero"]

\* The client a process registers as: the dead one of its name, or a new one.
Registrant(n) ==
  LET c == Find(deadq, n)
      used == {d \in Client : client[d].name # None}
  IN CASE c # None -> c
       [] c = None /\ Cardinality(used) = MaxClient -> None
       [] OTHER -> <<n, Min({i \in 1..MaxClient : <<n, i>> \notin used})>>

\* mc_ipc_register_process and mcd_client_construct; without memory, or while
\* the system goes down, it refuses.  The end of a connection that was closed
\* before this one was accepted is served first.
Register(n) ==
  LET c == Registrant(n)
      new == client[c].name = None
  IN /\ \A d \in Client : client[d].name = n => client[d].conn # "closed"
     /\ proc[n].run = "up" /\ proc[n].owner = None /\ going = "no" /\ c # None
     /\ client' = [client EXCEPT ![c] =
          [name |-> n, state |-> {"RUNNING"}, flags |-> {}, missed |-> 0, left |-> Full(n),
           timing |-> TimingCancelled(client[c].timing), conn |-> "open"]]
     /\ deadq' = Remove(deadq, c)
     /\ runningq' = ByProbe(runningq, c, 0) /\ task_head' = ByBeat(c, n)
     /\ guard' = IF new THEN [guard EXCEPT ![n] = GuardTaken(@)] ELSE guard
     /\ proc' = [proc EXCEPT ![n].owner = c]
     /\ UNCHANGED <<lossq, detachdq, mode>>

\* mc_ipc_shutdown_process with mcd_client_destroy, and the release that
\* follows; missed and left mean nothing until the next registration.
Shutdown(c, young) ==
  LET detached == "DETACHED" \in client[c].state
      gone == [client EXCEPT ![c].flags = {}, ![c].missed = 0, ![c].left = 0, ![c].conn = "none",
                             ![c].state = IF detached THEN {"DEAD", "DETACHED"} ELSE {"DEAD"}]
  IN /\ client[c].conn = "closed"
     /\ IF detached \/ going # "no" THEN client' = gone /\ UNCHANGED <<guard, proc>>
                                    ELSE mcd_client_restart(gone, c, young)
     /\ deadq' = IF detached THEN deadq ELSE Append(deadq, c)
     /\ runningq' = Remove(runningq, c) /\ lossq' = Remove(lossq, c)
     /\ task_head' = Remove(task_head, c)
     /\ UNCHANGED <<detachdq, mode>>

\* What has been sent is read even when the sender has ended.
Heard(c) == /\ "DETACHED" \notin client[c].state
            /\ \/ client[c].conn = "closed"
               \/ client[c].conn = "open" /\ proc[client[c].name].run = "up"

mcd_client_heartbeat_msg(c) ==
  /\ Heard(c)
  /\ client' = [client EXCEPT ![c].left = Full(client[c].name), ![c].flags = @ \ {"RESTART"}]
  /\ task_head' = ByBeat(c, client[c].name)
  /\ UNCHANGED <<deadq, lossq, runningq, detachdq, guard, proc, mode>>

\* The answer to the probe sent m probes ago; answers come in order.
mcd_client_probe_msg(c, m) ==
  /\ Heard(c)
  /\ m < client[c].missed \/ (m = loss_max /\ client[c].missed = loss_max)
  /\ client' = [client EXCEPT ![c].missed = m]
  /\ runningq' = ByProbe(runningq, c, m) /\ lossq' = Remove(lossq, c)
  /\ UNCHANGED <<deadq, detachdq, task_head, guard, proc, mode>>

\* Beyond loss_max the age of a probe makes no difference.
mcd_probe ==
  /\ client' = [c \in Client |->
       IF (In(runningq, c) \/ In(lossq, c)) /\ client[c].missed < loss_max
       THEN [client[c] EXCEPT !.missed = @ + 1] ELSE client[c]]
  /\ UNCHANGED <<queues, guard, proc, mode>>

Second ==
  /\ client' = [c \in Client |->
       IF client[c].left > 0 THEN [client[c] EXCEPT !.left = @ - 1] ELSE client[c]]
  /\ UNCHANGED <<queues, guard, proc, mode>>

Silent == {c \in Client : client[c].missed >= loss_max}

\* A client on the loss list is told to exit, then killed, then given up.
Exiting(k) == IF "RUNNING" \in k.state THEN [k EXCEPT !.flags = @ \cup {"EXIT"}] ELSE k


Escalate(k) == CASE "EXIT" \notin k.flags -> Exiting(k)
                 [] "EXIT" \in k.flags /\ "KILL" \notin k.flags -> [k EXCEPT !.flags = @ \cup {"KILL"}]
                 [] OTHER -> [k EXCEPT !.state = {"BLOCKED"}]

\* mcd_inspect: overdue tasks, overdue answers, then one more step against
\* every client on the loss list.
mcd_inspect ==
  LET beatless == SelectSeq(Overdue(task_head, {c \in Client : client[c].left = 0}),
                            LAMBDA c : "RESTART" \notin client[c].flags)
      silent == Overdue(Without(runningq, beatless), Silent)
      next == [c \in Client |->
                 IF ~ In(lossq \o beatless \o silent, c) THEN client[c]
                 ELSE Escalate(IF ~ In(beatless \o silent, c) THEN client[c]
                               ELSE [client[c] EXCEPT !.flags = @ \cup {"RESTART"}])]
      killed == {n \in Name : /\ proc[n].owner # None
                              /\ "KILL" \in next[proc[n].owner].flags \ client[proc[n].owner].flags}
  IN /\ going # "SHUTDOWN"
     /\ runningq' = Without(runningq, beatless \o silent)
     /\ lossq' = Without(lossq, beatless) \o beatless \o silent
     /\ client' = [c \in Client |-> IF \E n \in killed : proc[n].owner = c
                                    THEN [next[c] EXCEPT !.conn = "closed"] ELSE next[c]]
     /\ proc' = [n \in Name |-> IF n \in killed THEN Off ELSE proc[n]]
     /\ UNCHANGED <<deadq, detachdq, task_head, guard, mode>>

\* The restart timing of a client expires.
client_restart_delay(c) ==
  /\ client[c].timing = "delay"
  /\ client_restart(client, c)
  /\ UNCHANGED <<queues, mode>>

client_restart_review(c) ==
  LET n == client[c].name
  IN /\ client[c].timing = "review"
     /\ client' = [client EXCEPT ![c].timing = IF client[c].state = {"RUNNING"} THEN "none" ELSE @]
     /\ proc' = IF client[c].state = {"STARTING"} /\ proc[n].run = "none"
                THEN [proc EXCEPT ![n] = Latched] ELSE proc
     /\ UNCHANGED <<queues, guard, mode>>

-----------------------------------------------------------------------------
\* What users ask for.
Asked == /\ requests < MaxRequest /\ requests' = requests + 1
         /\ UNCHANGED <<guarding, going>>
Listed(n) == guard[n].state \notin {"off", "DETACH"}

\* The client is put where its answers belong and then, by list_move, at the end.
mcd_client_attach(n, young) ==
  LET c == Find(detachdq, n)
      attached == [client EXCEPT ![c].state = @ \ {"DETACHED"}]
  IN /\ Asked
     /\ \/ /\ c # None /\ "RUNNING" \in client[c].state
           /\ client' = [attached EXCEPT ![c].left = Full(n), ![c].missed = 0]
           /\ task_head' = ByBeat(c, n) /\ runningq' = Append(runningq, c)
           /\ detachdq' = Remove(detachdq, c)
           /\ UNCHANGED <<deadq, lossq, guard, proc>>
        \/ /\ c # None /\ "DEAD" \in client[c].state
           /\ mcd_client_restart(attached, c, young)
           /\ deadq' = Append(deadq, c) /\ detachdq' = Remove(detachdq, c)
           /\ UNCHANGED <<lossq, runningq, task_head>>
        \/ /\ c = None /\ guard[n].state = "DETACH"
           /\ guard' = [guard EXCEPT ![n].state = "NEW"]
           /\ UNCHANGED <<client, queues, proc>>

\* A guard is only killed when its pid has been found.  Attaching sets missed
\* and left anew.
mcd_client_detach(n, exit) ==
  LET c == Find(runningq, n)
      k == [client[c] EXCEPT !.state = @ \cup {"DETACHED"}, !.left = 0, !.missed = 0]
  IN /\ Asked
     /\ \/ /\ c # None
           /\ client' = [client EXCEPT ![c] = IF exit THEN Exiting(k) ELSE k]
           /\ runningq' = Remove(runningq, c) /\ detachdq' = Append(detachdq, c)
           /\ task_head' = Remove(task_head, c)
           /\ UNCHANGED <<deadq, lossq, guard, proc>>
        \/ /\ c = None /\ Listed(n) /\ (exit => guard[n].pid # "zero")
           /\ LET killed == exit /\ guard[n].pid = "live"
              IN /\ guard' = [guard EXCEPT ![n].state = "DETACH", ![n].pid = IF killed THEN "stale" ELSE @]
                 /\ client' = IF killed THEN Orphaned(client, n) ELSE client
                 /\ proc' = IF killed THEN [proc EXCEPT ![n] = Off] ELSE proc
           /\ UNCHANGED queues

mcd_client_restart_msg(n) ==
  LET c == Find(runningq, n)
  IN /\ Asked
     /\ \/ /\ c # None
           /\ client' = [client EXCEPT ![c] = Exiting(@)]
           /\ UNCHANGED <<guard, proc>>
        \/ /\ c = None /\ Listed(n)
           /\ client' = Orphaned(client, n)
           /\ proc' = [proc EXCEPT ![n] = Latched]
           /\ guard' = [guard EXCEPT ![n] = [state |-> "NEW", pid |-> "live"]]
     /\ UNCHANGED queues

\* A process is started by hand, when there is a client for it to register as.
StartByHand(n) ==
  /\ Asked
  /\ proc[n].run = "none" /\ Registrant(n) # None
  /\ proc' = [proc EXCEPT ![n] = Latched]
  /\ UNCHANGED <<client, queues, guard>>

\* mc_event_handler on MC_EVENT_REBOOT.
RebootEvent ==
  /\ going = "no" /\ going' = "REBOOT"
  /\ requests < MaxRequest /\ requests' = requests + 1
  /\ UNCHANGED <<client, queues, guard, proc, guarding>>

\* Kills the guards; mc_shutdown_fn then ends the daemon.
mc_shutdown ==
  LET killed == {n \in Name : guard[n].state # "off" /\ guard[n].pid = "live"}
  IN /\ going # "SHUTDOWN" /\ going' = "SHUTDOWN"
     /\ requests < MaxRequest /\ requests' = requests + 1
     /\ proc' = [n \in Name |-> IF n \in killed THEN Off ELSE proc[n]]
     /\ client' = [c \in Client |-> IF \E n \in killed : proc[n].owner = c
                                    THEN [client[c] EXCEPT !.conn = "closed"] ELSE client[c]]
     /\ guard' = [n \in Name |-> IF n \in killed THEN [guard[n] EXCEPT !.pid = "stale"] ELSE guard[n]]
     /\ UNCHANGED <<queues, guarding>>

-----------------------------------------------------------------------------
\* Guards that did not register: src/sample/mc-daemon/mc_guard.c.  The pid of
\* a guard that is off the list is not looked at.
mcd_guard_run ==
  /\ ~ guarding /\ guarding' = TRUE
  /\ guard' = [n \in Name |-> IF /\ guard[n].state # "off"
                                 /\ guard[n].pid = "zero" /\ proc[n].run # "none"
                              THEN [state |-> "RUN", pid |-> "live"] ELSE guard[n]]
  /\ UNCHANGED <<client, queues, proc, going, requests>>

\* mcd_guard starts what it does not find, and starts again what it lost.
Missing(n) == guard[n].state = "NEW" /\ guard[n].pid # "live" /\ proc[n].run = "none"
Vanished(n) == guard[n].state = "RUN" /\ guard[n].pid # "live"

mcd_guard ==
  LET started == {n \in Name : Missing(n) \/ Vanished(n)}
  IN /\ guarding /\ going = "no"
     /\ guard' = [n \in Name |->
          CASE guard[n].state = "NEW" /\ guard[n].pid = "live" -> [guard[n] EXCEPT !.state = "RUN"]
            [] guard[n].state \in {"NEW", "RUN"} /\ guard[n].pid # "live" -> [state |-> "NEW", pid |-> "live"]
            [] OTHER -> guard[n]]
     /\ proc' = [n \in Name |-> IF n \in started THEN Latched ELSE proc[n]]
     /\ client' = [c \in Client |-> IF \E n \in started : proc[n].owner = c
                                    THEN [client[c] EXCEPT !.conn = "closed"] ELSE client[c]]
     /\ UNCHANGED <<queues, mode>>

-----------------------------------------------------------------------------
\* The processes: they hang, end, and exit when they read MC_IND_EXIT.
Hang(n) ==
  /\ proc[n].run = "up" /\ proc' = [proc EXCEPT ![n].run = "hung"]
  /\ UNCHANGED <<client, queues, guard, mode>>

End(n) == proc[n].run # "none" /\ Ended(n) /\ UNCHANGED <<queues, mode>>

mc_client_exit(n) ==
  /\ proc[n].run = "up" /\ proc[n].owner # None /\ "EXIT" \in client[proc[n].owner].flags
  /\ Ended(n) /\ UNCHANGED <<queues, mode>>

Next ==
  \/ \E n \in Name : Register(n) \/ mc_client_exit(n) \/ StartByHand(n)
  \/ \E n \in Failing : Hang(n) \/ End(n)
  \/ \E c \in Client : \/ \E young \in BOOLEAN : Shutdown(c, young)
                       \/ mcd_client_heartbeat_msg(c)
                       \/ \E m \in 0..loss_max : mcd_client_probe_msg(c, m)
                       \/ client_restart_delay(c) \/ client_restart_review(c)
  \/ mcd_probe \/ Second \/ mcd_inspect \/ mcd_guard_run \/ mcd_guard
  \/ \E n \in Name : \/ \E young \in BOOLEAN : mcd_client_attach(n, young)
                     \/ \E exit \in BOOLEAN : mcd_client_detach(n, exit)
                     \/ mcd_client_restart_msg(n)
  \/ RebootEvent \/ mc_shutdown

\* The loop of the server serves every timing and every readable connection; a
\* process that works reads its notifications and, told to, exits.
Fairness ==
  /\ WF_vars(mcd_probe) /\ WF_vars(Second) /\ WF_vars(mcd_inspect)
  /\ WF_vars(mcd_guard_run) /\ WF_vars(mcd_guard)
  /\ \A c \in Client : /\ WF_vars(\E young \in BOOLEAN : Shutdown(c, young))
                       /\ WF_vars(client_restart_delay(c)) /\ WF_vars(client_restart_review(c))
  /\ \A n \in Name : WF_vars(mc_client_exit(n))

Spec == Init /\ [][Next]_vars /\ Fairness

-----------------------------------------------------------------------------
\* The lists and the flags agree (mcd_client_construct, _destroy, _attach,
\* _detach, _restart): every client is on one list, the one its state says.
\* Dead clients have no connection and, unless the system goes down, a restart
\* timing of the kind their state announces; running and lost ones have a
\* connection and a task that is watched; detached ones are not watched.
QueueAgree ==
  \A c \in Client : client[c].name # None =>
    LET k == client[c]
        on == <<In(deadq, c), In(runningq, c), In(lossq, c), In(detachdq, c)>>
        watched == on[2] \/ on[3]
    IN /\ Cardinality({i \in 1..4 : on[i]}) = 1
       /\ on[1] => /\ k.conn = "none"
                   /\ \/ k.state = {"PRESTART"} /\ k.timing = "delay"
                      \/ k.state = {"STARTING"} /\ k.timing = "review"
                      \/ k.state = {"DEAD"} /\ going # "no"
       /\ ~ on[1] => k.timing = "none"
       /\ on[4] <=> "DETACHED" \in k.state
       /\ watched <=> In(task_head, c)
       /\ watched => k.conn # "none" /\ k.state \in {{"RUNNING"}, {"BLOCKED"}}

\* A process of the guard table is in the care of the guard list or of a
\* client, never of both, as both would start it (mcd_guard and
\* mcd_client_restart).
OneGuardian == \A n \in Name : guard[n].state # "off" <=> n \in Table /\ \A c \in Client : client[c].name # n

\* The daemon is to keep the process running.
Cared(n) == \/ guard[n].state \in {"NEW", "RUN"}
            \/ guard[n].state = "off" /\ Find(detachdq, n) = None /\ \E c \in Client : client[c].name = n

=============================================================================
