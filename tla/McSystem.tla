------------------------------ MODULE McSystem ------------------------------
(* How the daemon mcd (src/sample/mc-daemon/mc_system.c) asks the clients    *)
(* that subscribed to system events before the system sleeps, resumes or     *)
(* reboots.  Threads wait until every subscriber acknowledged (a synchor) or *)
(* voted (a referee), or until a timeout; the server's loop takes the        *)
(* answers.  Everything happens under mc->mutex: an action is a critical     *)
(* section.  Subscribers stand for their indexes in the bitmaps.             *)
EXTENDS Integers, FiniteSets

CONSTANTS Sub,        \* subscribers to MC_SYSTEM_MASK
          RegOnly,    \* those that are not guarded: their answers are refused
          Thread,     \* tasks that serve requests of clients
          Rebooter,   \* the thread of mc_reboot_entry
          asks(_),    \* the events the clients of a task wait for
          MaxOwed(_)  \* bounds the indications of an event not answered by one

ASSUME McSystemAssumption == RegOnly \subseteq Sub /\ Rebooter \notin Thread

Synchor == {"sleep", "resume", "reboot"}
Referee == {"vote_sleep", "vote_reboot"}
Event == Synchor \cup Referee

VARIABLES full,     \* full_bitmap
          wait,     \* AF_WAIT of each event
          ack,      \* ack_bitmap, vote_bitmap
          approved, \* vote_approved
          owed,     \* the indications each subscriber has still to answer
          thread    \* where each thread is, and what it was told last

vars == <<full, wait, ack, approved, owed, thread>>

Waiter == Thread \cup {Rebooter}

\* vetoes: who voted no while the thread waited, and is still subscribed.
Init ==
  /\ full = {} /\ wait = [e \in Event |-> FALSE]
  /\ ack = [e \in Event |-> {}] /\ approved = [r \in Referee |-> {}]
  /\ owed = [s \in Sub |-> [e \in Event |-> 0]]
  /\ thread = [t \in Waiter |-> [pc |-> "idle", on |-> "sleep", result |-> "none", vetoes |-> {}]]

-----------------------------------------------------------------------------
\* The threads that wait for e wake up.
Broadcast(th, e) ==
  [t \in Waiter |-> IF th[t].pc = "waiting" /\ th[t].on = e THEN [th[t] EXCEPT !.pc = "woken"] ELSE th[t]]

\* Who registers counts as having answered.
Register(s) ==
  /\ s \notin full /\ full' = full \cup {s}
  /\ ack' = [e \in Event |-> ack[e] \cup {s}]
  /\ approved' = [r \in Referee |-> approved[r] \cup {s}]
  /\ UNCHANGED <<wait, owed, thread>>

\* Plausible slips: the votes of who leaves are kept; nobody is woken.
KeepsVotes(e, s) == IF e \in Referee THEN ack[e] ELSE ack[e] \ {s}
WakesNobody(e, bits, left) == FALSE

Cleared(e, s) == ack[e] \ {s}

\* Whether the release that leaves these bits and subscribers wakes the threads
\* that wait for e; for sync_resume the bits of sync_reboot are looked at.
ReleaseWakes(e, bits, left) == wait[e] /\ bits[IF e = "resume" THEN "reboot" ELSE e] = left

\* mc_ipc_release_process; what the subscriber has not answered is lost.
Release(s) ==
  LET bits == [e \in Event |-> Cleared(e, s)]
      left == full \ {s}
  IN /\ s \in full /\ full' = left /\ ack' = bits
     /\ approved' = [r \in Referee |-> approved[r] \ {s}]
     /\ owed' = [owed EXCEPT ![s] = [e \in Event |-> 0]]
     /\ thread' = [t \in Waiter |->
          [thread[t] EXCEPT !.vetoes = @ \ {s},
             !.pc = IF @ = "waiting" /\ ReleaseWakes(thread[t].on, bits, left) THEN "woken" ELSE @]]
     /\ UNCHANGED wait

-----------------------------------------------------------------------------
Told(e, err) == IF e \in Referee THEN (IF approved'[e] = full THEN "APPROVED" ELSE "UNAPPROVED") ELSE err

\* A task serves any request; mc_reboot_entry asks for votes until none is
\* against, waits for the acknowledgements and reboots.
MayAsk(t) ==
  IF t \in Thread THEN asks(t)
  ELSE CASE thread[t].result \in {"none", "UNAPPROVED"} -> {"vote_reboot"}
         [] thread[t].result = "APPROVED" -> {"reboot"}
         [] OTHER -> {}

\* mc_synchor_wait and mc_referee_wait up to the wait, or to the end when
\* there is nothing to wait for.
Ask(t, e) ==
  LET anew == ~ wait[e]
  IN /\ thread[t].pc = "idle" /\ e \in MayAsk(t)
     /\ anew => \A s \in full : owed[s][e] < MaxOwed(e)
     /\ ack' = IF anew THEN [ack EXCEPT ![e] = {}] ELSE ack
     /\ approved' = IF anew /\ e \in Referee THEN [approved EXCEPT ![e] = full] ELSE approved
     /\ owed' = IF anew THEN [s \in Sub |-> IF s \in full THEN [owed[s] EXCEPT ![e] = @ + 1] ELSE owed[s]]
                ELSE owed
     /\ \/ /\ ack'[e] # full
           /\ wait' = [wait EXCEPT ![e] = TRUE]
           /\ thread' = [thread EXCEPT ![t] = [pc |-> "waiting", on |-> e, result |-> "none", vetoes |-> {}]]
        \/ /\ ack'[e] = full
           /\ wait' = wait
           /\ thread' = [thread EXCEPT ![t].on = e, ![t].result = Told(e, "DONE"), ![t].vetoes = {}]
     /\ UNCHANGED full

\* The rest of the two, after a broadcast or a timeout.
Return(t) ==
  LET e == thread[t].on
  IN /\ thread[t].pc \in {"woken", "waiting"}
     /\ wait' = [wait EXCEPT ![e] = FALSE]
     /\ UNCHANGED <<full, ack, approved, owed>>
     /\ thread' = [thread EXCEPT ![t].pc = "idle",
                                 ![t].result = Told(e, IF thread[t].pc = "woken" THEN "DONE" ELSE "TMO")]

\* mcd_client_ack_msg and mcd_client_vote_msg.
Answer(s, e) ==
  /\ s \in full /\ owed[s][e] > 0
  /\ owed' = [owed EXCEPT ![s][e] = @ - 1]
  /\ ack' = IF s \in RegOnly THEN ack ELSE [ack EXCEPT ![e] = @ \cup {s}]
  /\ UNCHANGED <<full, wait>>

AnswerWakes(e) == ack'[e] = full /\ wait[e]

mcd_client_ack_msg(s, e) ==
  /\ e \in Synchor /\ Answer(s, e)
  /\ thread' = IF s \notin RegOnly /\ AnswerWakes(e) THEN Broadcast(thread, e) ELSE thread
  /\ UNCHANGED approved

mcd_client_vote_msg(s, e, yes) ==
  LET heard == [t \in Waiter |-> IF thread[t].pc # "idle" /\ thread[t].on = e /\ ~ yes
                                 THEN [thread[t] EXCEPT !.vetoes = @ \cup {s}] ELSE thread[t]]
  IN /\ e \in Referee /\ Answer(s, e)
     /\ IF s \in RegOnly THEN UNCHANGED <<approved, thread>>
        ELSE /\ approved' = IF yes THEN approved ELSE [approved EXCEPT ![e] = @ \ {s}]
             /\ thread' = IF AnswerWakes(e) THEN Broadcast(heard, e) ELSE heard

Next ==
  \/ \E s \in Sub : Register(s) \/ Release(s)
  \/ \E s \in Sub, e \in Event : \/ mcd_client_ack_msg(s, e)
                                 \/ \E yes \in BOOLEAN : mcd_client_vote_msg(s, e, yes)
  \/ \E t \in Waiter : Return(t) \/ \E e \in Event : Ask(t, e)

Spec == Init /\ [][Next]_vars

-----------------------------------------------------------------------------
\* Only subscribers have a bit in any bitmap (mc_ipc_release_process clears
\* them all): is_bitmap_full compares for equality, so a bit that stayed would
\* let every later wait for that event run into its timeout.
BitsOfSubscribers ==
  /\ full \subseteq Sub /\ wait \in [Event -> BOOLEAN]
  /\ \A e \in Event : ack[e] \subseteq full
  /\ \A r \in Referee : approved[r] \subseteq full

\* While AF_WAIT is set no thread waits for an event that everybody answered
\* (mcd_client_ack_msg, mcd_client_vote_msg, mc_ipc_release_process): the last
\* answer, or the release of the last who owed one, wakes it.  Not so for
\* sync_resume, where the release looks at the bits of sync_reboot.
NoLostAnswer ==
  \A t \in Waiter : thread[t].pc = "waiting" /\ wait[thread[t].on] /\ thread[t].on # "resume"
                      => ack[thread[t].on] # full


=============================================================================
