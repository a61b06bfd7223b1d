------------------------------- MODULE CoSched -------------------------------
(* The coroutine scheduler (src/co/co_core.c) with the epoll loop that drives *)
(* it (co_epoll.c) and the sockets on top (co_socket.c): coroutines run one   *)
(* at a time until they sleep, wait for their descriptor or exit.  Times are  *)
(* relative, in units of 250 us: left is what remains until a sleeper's       *)
(* sleep_expired_time, -1 when it has passed.  expt_compare never answers     *)
(* less, so a node can only be inserted beyond the last one and the tree,     *)
(* whose own algorithms RbTree models, is a sequence.                         *)
EXTENDS Integers, SequencesExt

CONSTANTS Co,      \* struct co_sock: the coroutines there is memory for
          Naps     \* the sleeping times they use, greater than zero

ASSUME CoAssumption == Naps \subseteq Nat \ {0}

VARIABLES costate,  \* co->state; "free": no coroutine
          readyq, waitsq,
          sleepers, \* sleep_tree, in order: coroutine and left
          due,      \* what remains until the time each sleeper asked for
          fired,    \* descriptors with an event
          cpc,      \* the scheduler: "top", "schedule", "run", "poll" or "done"
          tmo       \* what remains of the timeout of epoll_wait; -1 for ever

coVars == <<costate, readyq, waitsq, sleepers, due, fired, cpc, tmo>>

\* main executes one coroutine before it runs the scheduler.
CoInit ==
  /\ \E c \in Co : costate = [d \in Co |-> IF d = c THEN "READY" ELSE "free"] /\ readyq = <<c>>
  /\ waitsq = <<>> /\ sleepers = <<>> /\ due = [c \in Co |-> 0] /\ fired = {}
  /\ cpc = "top" /\ tmo = -1

-----------------------------------------------------------------------------

\* One list of co_transfer: c leaves it, and joins it at the end when its new
\* state s is one the list is for.
Queued(q, c, s, on) == IF s \in on THEN Append(Remove(q, c), c) ELSE Remove(q, c)

\* co_transfer for one coroutine after the other.
Transferred(q, cs, s, on) == FoldLeft(LAMBDA p, c : Queued(p, c, s, on), q, cs)
co_transfer(cs, s) ==
  /\ readyq' = Transferred(readyq, cs, s, {"READY"})
  /\ waitsq' = Transferred(waitsq, cs, s, {"WAITING"})
  /\ costate' = [c \in Co |-> IF Contains(cs, c) THEN s ELSE costate[c]]

\* A plausible slip: sleepers are woken a unit early.
ExpiredSoon(left) == left <= 1
Expired(left) == left <= 0

\* expire, at the top of the loop of co_scheduler_run.
Expire ==
  LET gone == SelectSeq(sleepers, LAMBDA r : Expired(r.left))
  IN /\ cpc = "top" /\ (waitsq # <<>> \/ readyq # <<>> \/ sleepers # <<>>)
     /\ sleepers' = SelectSeq(sleepers, LAMBDA r : ~ Expired(r.left))
     /\ co_transfer([i \in DOMAIN gone |-> gone[i].co], "READY")
     /\ cpc' = "schedule"
     /\ UNCHANGED <<due, fired, tmo>>

Finish == /\ cpc = "top" /\ waitsq = <<>> /\ readyq = <<>> /\ sleepers = <<>>
          /\ cpc' = "done"
          /\ UNCHANGED <<costate, readyq, waitsq, sleepers, due, fired, tmo>>

\* schedule resumes the ready coroutines.
Resume == /\ cpc = "schedule" /\ readyq # <<>>
          /\ co_transfer(<<Head(readyq)>>, "RUNNING")
          /\ cpc' = "run"
          /\ UNCHANGED <<sleepers, due, fired, tmo>>

\* co_epoll_nexttmo, rounded to milliseconds; a time that has passed gives -1.
co_epoll_nexttmo == CASE sleepers = <<>> -> -1
                      [] sleepers # <<>> /\ sleepers[1].left > 0 -> 4 * ((sleepers[1].left + 2) \div 4)
                      [] OTHER -> sleepers[1].left

Poll == /\ cpc = "schedule" /\ readyq = <<>>
        /\ tmo' = co_epoll_nexttmo /\ cpc' = "poll"
        /\ UNCHANGED <<costate, readyq, waitsq, sleepers, due, fired>>

\* co_epoll_schedule: epoll_wait returns events, in any order, or times out.
PollReturns ==
  /\ cpc = "poll" /\ (fired # {} \/ tmo = 0)
  /\ \E cs \in SetToSeqs(fired) : co_transfer(cs, "READY")
  /\ fired' = {} /\ tmo' = -1 /\ cpc' = "top"
  /\ UNCHANGED <<sleepers, due>>

-----------------------------------------------------------------------------
\* The coroutine that runs.
Running(c) == cpc = "run" /\ costate[c] = "RUNNING"

\* co_sleep; rb_insert refuses times that are not beyond the last one.
co_sleep(c, usec) ==
  LET last == IF sleepers = <<>> THEN usec - 1 ELSE Last(sleepers).left
  IN /\ Running(c)
     /\ sleepers' = Append(sleepers, [co |-> c, left |-> IF usec > last THEN usec ELSE last + 1])
     /\ due' = [due EXCEPT ![c] = usec]
     /\ co_transfer(<<c>>, "SLEEPING") /\ cpc' = "schedule"
     /\ UNCHANGED <<fired, tmo>>

\* co_epoll without a timeout, as co_accept, co_connect, co_send and co_recv
\* use it.
co_epoll(c) ==
  /\ Running(c)
  /\ co_transfer(<<c>>, "WAITING") /\ cpc' = "schedule"
  /\ UNCHANGED <<sleepers, due, fired, tmo>>

\* co_socket_exec with co_init.
co_socket_exec(d) ==
  /\ cpc = "run" /\ costate[d] = "free"
  /\ co_transfer(<<d>>, "READY")
  /\ UNCHANGED <<sleepers, due, fired, cpc, tmo>>

\* co_entry after the routine returned, and release.
co_entry(c) ==
  /\ Running(c)
  /\ co_transfer(<<c>>, "free") /\ cpc' = "schedule"
  /\ UNCHANGED <<sleepers, due, fired, tmo>>

\* A descriptor gets ready; time passes.
Fire(c) == /\ costate[c] = "WAITING" /\ c \notin fired /\ fired' = fired \cup {c}
           /\ UNCHANGED <<costate, readyq, waitsq, sleepers, due, cpc, tmo>>

Less(t) == IF t > -1 THEN t - 1 ELSE -1
Tick ==
  /\ sleepers' = [i \in DOMAIN sleepers |-> [sleepers[i] EXCEPT !.left = Less(@)]]
  /\ due' = [c \in Co |-> IF due[c] > 0 THEN due[c] - 1 ELSE 0]
  /\ tmo' = IF tmo > 0 THEN tmo - 1 ELSE tmo
  /\ UNCHANGED <<costate, readyq, waitsq, fired, cpc>>

Yield == \E c \in Co : co_epoll(c) \/ co_entry(c) \/ \E usec \in Naps : co_sleep(c, usec)
Loop == Expire \/ Finish \/ Resume \/ Poll \/ PollReturns
CoNext == Loop \/ Yield \/ Tick \/ \E c \in Co : co_socket_exec(c) \/ Fire(c)

\* The scheduler runs, coroutines yield, time passes; descriptors may stay idle.
CoSpec == CoInit /\ [][CoNext]_coVars /\ WF_coVars(Loop) /\ WF_coVars(Yield) /\ WF_coVars(Tick)

-----------------------------------------------------------------------------
Times(q, c) == Cardinality({i \in DOMAIN q : q[i] = c})


\* No coroutine wakes before the time it asked for (co_sleep, expire), although
\* the scheduler moves times to keep them distinct and rounds its timeouts.
NotBefore ==
  [][\A c \in Co : costate[c] = "SLEEPING" /\ costate'[c] # "SLEEPING" => due[c] = 0]_coVars

\* "will sleep %lld us, expire at %lld" (co_core.c:181): a coroutine that
\* sleeps is woken.
SleeperWakes == \A c \in Co : costate[c] = "SLEEPING" ~> costate[c] # "SLEEPING"
=============================================================================
