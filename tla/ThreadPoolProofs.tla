-------------------------- MODULE ThreadPoolProofs --------------------------
(***************************************************************************)
(* Proofs about ThreadPool, for every number of threads, jobs and waiters  *)
(* and every minthreads, maxthreads and keepalive.                         *)
(***************************************************************************)
EXTENDS ThreadPool, FiniteSetTheorems, TLAPS

PcStates == {"none", "start", "wait", "timedwait", "woken", "expired", "run"}

\* The threads whose program counter is in A.
At(f, A) == {u \in Thread : f[u] \in A}

\* What one assignment to a thread's program counter does to the number of
\* threads in a given set of program counters.
LEMMA CountStep ==
    ASSUME pc \in [Thread -> PcStates], NEW t \in Thread, NEW x \in PcStates,
           pc' = [pc EXCEPT ![t] = x], NEW A
    PROVE  /\ pc' \in [Thread -> PcStates]
           /\ IsFiniteSet(At(pc, A)) /\ Cardinality(At(pc, A)) \in Nat
           /\ (pc[t] \in A /\ x \notin A) =>
                Cardinality(At(pc', A)) = Cardinality(At(pc, A)) - 1
           /\ (pc[t] \notin A /\ x \in A) =>
                Cardinality(At(pc', A)) = Cardinality(At(pc, A)) + 1
           /\ (pc[t] \in A <=> x \in A) => At(pc', A) = At(pc, A)
           /\ pc[t] \in A => Cardinality(At(pc, A)) > 0
<1>1. IsFiniteSet(At(pc, A)) /\ Cardinality(At(pc, A)) \in Nat
  BY PoolAssumption, FS_Subset, FS_CardinalityType, At(pc, A) \subseteq Thread DEF At
<1>2. ASSUME pc[t] \in A, x \notin A
      PROVE  Cardinality(At(pc', A)) = Cardinality(At(pc, A)) - 1
  <2>1. At(pc', A) = At(pc, A) \ {t} /\ t \in At(pc, A)
    BY <1>2 DEF At
  <2>2. QED BY <2>1, <1>1, FS_RemoveElement
<1>3. ASSUME pc[t] \notin A, x \in A
      PROVE  Cardinality(At(pc', A)) = Cardinality(At(pc, A)) + 1
  <2>1. At(pc', A) = At(pc, A) \cup {t} /\ t \notin At(pc, A)
    BY <1>3 DEF At
  <2>2. QED BY <2>1, <1>1, FS_AddElement
<1>4. ASSUME pc[t] \in A <=> x \in A
      PROVE  At(pc', A) = At(pc, A)
  BY <1>4 DEF At
<1>5. ASSUME pc[t] \in A PROVE Cardinality(At(pc, A)) > 0
  <2>1. At(pc, A) # {}
    BY <1>5 DEF At
  <2>2. QED BY <2>1, <1>1, FS_EmptySet
<1>6. QED BY <1>1, <1>2, <1>3, <1>4, <1>5

CountedStates == {"wait", "timedwait", "woken", "expired"}

\* The counting sets of the model in the form of CountStep.
LEMMA CountSets ==
    ASSUME TypeOK
    PROVE  /\ Live = At(pc, PcStates \ {"none"})
           /\ Counted = At(pc, CountedStates)
           /\ Woken = At(pc, {"woken"})
           /\ Asleep = At(pc, {"wait", "timedwait"})
BY DEF TypeOK, Live, Counted, Woken, Asleep, At, PcStates, CountedStates

LEMMA CountSetsPrimed ==
    ASSUME TypeOK'
    PROVE  /\ Live' = At(pc', PcStates \ {"none"})
           /\ Counted' = At(pc', CountedStates)
           /\ Woken' = At(pc', {"woken"})
           /\ Asleep' = At(pc', {"wait", "timedwait"})
BY DEF TypeOK, Live, Counted, Woken, Asleep, At, PcStates, CountedStates

AccInv == TypeOK /\ ThreadAccounting

\* A thread inside the loop of thread_task moves: the counters follow.
LEMMA IterateAcc ==
    ASSUME AccInv, NEW t \in Thread, NEW idle \in Nat, NEW mayWait \in BOOLEAN,
           pc[t] # "none",
           idle = IF pc[t] \in CountedStates THEN idlethreads - 1 ELSE idlethreads,
           \/ Iterate(t, idle, active_thread_head \ {t}, mayWait)
           \/ Leave(t, idle, active_thread_head \ {t})
    PROVE  /\ nthreads' \in Nat /\ idlethreads' \in Nat
           /\ job_head' \in Seq(Job)
           /\ active_thread_head' \subseteq Thread
           /\ pc' \in [Thread -> PcStates]
           /\ cancelled' \subseteq Thread
           /\ running' \in [Thread -> Job \cup {NoJob}]
           /\ destroyer' \in {"out", "blocked", "woken", "done"}
           /\ nthreads' = Cardinality(At(pc', PcStates \ {"none"}))
           /\ idlethreads' = Cardinality(At(pc', CountedStates))
           /\ active_thread_head' = {u \in Thread : pc'[u] = "run"}
           /\ nthreads' <= maxthreads
           /\ \/ job_head' = job_head
              \/ job_head # <<>> /\ job_head' = Tail(job_head)
<1> USE DEF AccInv
<1>0. /\ pc \in [Thread -> PcStates]
      /\ nthreads = Cardinality(At(pc, PcStates \ {"none"})) /\ nthreads \in Nat
      /\ idlethreads = Cardinality(At(pc, CountedStates)) /\ idlethreads \in Nat
      /\ active_thread_head = {u \in Thread : pc[u] = "run"}
      /\ nthreads <= maxthreads
  BY CountSets DEF TypeOK, ThreadAccounting, PcStates
<1>1. ASSUME Sleep(t, idle, active_thread_head \ {t})
      PROVE  /\ nthreads' = Cardinality(At(pc', PcStates \ {"none"}))
             /\ idlethreads' = Cardinality(At(pc', CountedStates))
             /\ active_thread_head' = {u \in Thread : pc'[u] = "run"}
             /\ pc' \in [Thread -> PcStates]
  <2>1. PICK x \in {"wait", "timedwait"} : pc' = [pc EXCEPT ![t] = x]
    BY <1>1 DEF Sleep
  <2>2. x \in PcStates /\ x \in PcStates \ {"none"} /\ x \in CountedStates
        /\ pc[t] \in PcStates \ {"none"}
    BY <1>0 DEF PcStates, CountedStates
  <2>3. nthreads' = nthreads /\ idlethreads' = idle + 1
        /\ active_thread_head' = active_thread_head \ {t}
    BY <1>1 DEF Sleep
  <2>4. nthreads' = Cardinality(At(pc', PcStates \ {"none"}))
    BY <1>0, <2>1, <2>2, <2>3, CountStep
  <2>5. idlethreads' = Cardinality(At(pc', CountedStates))
    <3>1. CASE pc[t] \in CountedStates
      <4>1. At(pc', CountedStates) = At(pc, CountedStates)
        BY <3>1, <1>0, <2>1, <2>2, CountStep
      <4>2. idle + 1 = idlethreads
        BY <3>1, <1>0
      <4>3. QED BY <4>1, <4>2, <1>0, <2>3
    <3>2. CASE pc[t] \notin CountedStates
      BY <3>2, <1>0, <2>1, <2>2, <2>3, CountStep
    <3>3. QED BY <3>1, <3>2
  <2>6. QED BY <1>0, <2>1, <2>2, <2>3, <2>4, <2>5
<1>2. ASSUME TakeJob(t, idle, active_thread_head \ {t})
      PROVE  /\ nthreads' = Cardinality(At(pc', PcStates \ {"none"}))
             /\ idlethreads' = Cardinality(At(pc', CountedStates))
             /\ active_thread_head' = {u \in Thread : pc'[u] = "run"}
             /\ pc' \in [Thread -> PcStates]
  <2>1. pc' = [pc EXCEPT ![t] = "run"]
    BY <1>2 DEF TakeJob
  <2>2. "run" \in PcStates /\ "run" \in PcStates \ {"none"}
        /\ "run" \notin CountedStates /\ pc[t] \in PcStates \ {"none"}
    BY <1>0 DEF PcStates, CountedStates
  <2>3. nthreads' = nthreads /\ idlethreads' = idle
        /\ active_thread_head' = (active_thread_head \ {t}) \cup {t}
    BY <1>2 DEF TakeJob
  <2>4. nthreads' = Cardinality(At(pc', PcStates \ {"none"}))
    BY <1>0, <2>1, <2>2, <2>3, CountStep
  <2>5. idlethreads' = Cardinality(At(pc', CountedStates))
    BY <1>0, <2>1, <2>2, <2>3, CountStep
  <2>6. QED BY <1>0, <2>1, <2>2, <2>3, <2>4, <2>5
<1>3. ASSUME Leave(t, idle, active_thread_head \ {t})
      PROVE  /\ nthreads' = Cardinality(At(pc', PcStates \ {"none"}))
             /\ idlethreads' = Cardinality(At(pc', CountedStates))
             /\ active_thread_head' = {u \in Thread : pc'[u] = "run"}
             /\ pc' \in [Thread -> PcStates]
             /\ nthreads' \in Nat
  <2>1. pc' = [pc EXCEPT ![t] = "none"]
    BY <1>3 DEF Leave, thread_task_cleanup
  <2>2. "none" \in PcStates /\ "none" \notin PcStates \ {"none"}
        /\ "none" \notin CountedStates /\ pc[t] \in PcStates \ {"none"}
    BY <1>0 DEF PcStates, CountedStates
  <2>3. nthreads' = nthreads - 1 /\ idlethreads' = idle
        /\ active_thread_head' = active_thread_head \ {t}
    BY <1>3 DEF Leave, thread_task_cleanup
  <2>4. nthreads' = Cardinality(At(pc', PcStates \ {"none"})) /\ nthreads > 0
    BY <1>0, <2>1, <2>2, <2>3, CountStep
  <2>5. idlethreads' = Cardinality(At(pc', CountedStates))
    BY <1>0, <2>1, <2>2, <2>3, CountStep
  <2>6. QED BY <1>0, <2>1, <2>2, <2>3, <2>4, <2>5
<1>4. CASE Sleep(t, idle, active_thread_head \ {t})
  BY <1>0, <1>1, <1>4 DEF Sleep, TypeOK
<1>5. CASE TakeJob(t, idle, active_thread_head \ {t})
  BY <1>0, <1>2, <1>5 DEF TakeJob, TypeOK
<1>6. CASE Leave(t, idle, active_thread_head \ {t})
  BY <1>0, <1>3, <1>6, PoolAssumption DEF Leave, thread_task_cleanup, TypeOK
<1>7. QED BY <1>4, <1>5, <1>6 DEF Iterate

\* The actions of a worker thread, as instances of IterateAcc.
LEMMA TaskAcc ==
    ASSUME AccInv, NEW t \in Thread, thread_task(t)
    PROVE  AccInv'
<1> USE DEF AccInv
<1>0. /\ pc[t] # "none"
      /\ idlethreads \in Nat
      /\ pc[t] \in CountedStates => idlethreads - 1 \in Nat
      /\ pc[t] = "run" <=> t \in active_thread_head
      /\ (keepalive > 0) \in BOOLEAN
      /\ jobst \in [Job -> {"new", "queued", "running", "done", "cancelled", "freed"}]
  <2>1. pc[t] # "none"
    BY DEF thread_task, TaskStart, TaskWoken, TaskTimedOut, JobReturns, JobCancelled
  <2>2. IsFiniteSet(Counted) /\ Counted \subseteq Thread
    BY PoolAssumption, FS_Subset, Counted \subseteq Thread DEF Counted
  <2>3. pc[t] \in CountedStates => Counted # {}
    BY DEF Counted, CountedStates
  <2>4. pc[t] \in CountedStates => idlethreads # 0
    BY <2>2, <2>3, FS_EmptySet DEF ThreadAccounting
  <2>5. QED BY <2>1, <2>4 DEF TypeOK, ThreadAccounting
<1> DEFINE idle == IF pc[t] \in CountedStates THEN idlethreads - 1 ELSE idlethreads
           mayWait == IF pc[t] = "expired" THEN FALSE ELSE keepalive > 0
<1>1. \/ Iterate(t, idle, active_thread_head \ {t}, mayWait)
      \/ Leave(t, idle, active_thread_head \ {t})
  <2>1. CASE TaskStart(t)
    <3>1. pc[t] \notin CountedStates /\ active_thread_head \ {t} = active_thread_head
      BY <2>1, <1>0 DEF TaskStart, CountedStates
    <3>2. QED BY <2>1, <3>1, <1>0 DEF TaskStart
  <2>2. CASE TaskWoken(t)
    <3>1. pc[t] \in CountedStates /\ active_thread_head \ {t} = active_thread_head
      BY <2>2, <1>0 DEF TaskWoken, CountedStates
    <3>2. QED BY <2>2, <3>1, <1>0 DEF TaskWoken
  <2>3. CASE TaskTimedOut(t)
    <3>1. pc[t] \in CountedStates /\ active_thread_head \ {t} = active_thread_head
      BY <2>3, <1>0 DEF TaskTimedOut, CountedStates
    <3>2. QED BY <2>3, <3>1, <1>0 DEF TaskTimedOut
  <2>4. CASE JobReturns(t)
    <3>1. pc[t] \notin CountedStates
      BY <2>4 DEF JobReturns, CountedStates
    <3>2. QED BY <2>4, <3>1, <1>0 DEF JobReturns
  <2>5. CASE JobCancelled(t)
    <3>1. pc[t] \notin CountedStates
      BY <2>5 DEF JobCancelled, CountedStates
    <3>2. QED BY <2>5, <3>1, <1>0 DEF JobCancelled
  <2>6. QED BY <2>1, <2>2, <2>3, <2>4, <2>5 DEF thread_task
<1>2. /\ nthreads' \in Nat /\ idlethreads' \in Nat
      /\ job_head' \in Seq(Job)
      /\ active_thread_head' \subseteq Thread
      /\ pc' \in [Thread -> PcStates]
      /\ cancelled' \subseteq Thread
      /\ running' \in [Thread -> Job \cup {NoJob}]
      /\ destroyer' \in {"out", "blocked", "woken", "done"}
      /\ nthreads' = Cardinality(At(pc', PcStates \ {"none"}))
      /\ idlethreads' = Cardinality(At(pc', CountedStates))
      /\ active_thread_head' = {u \in Thread : pc'[u] = "run"}
      /\ nthreads' <= maxthreads
  <2>1. idle \in Nat /\ mayWait \in BOOLEAN
    BY <1>0
  <2> HIDE DEF mayWait
  <2>2. QED BY <2>1, <1>0, <1>1, IterateAcc
<1>3. /\ flags' \subseteq {"DESTROY", "WAIT"}
      /\ timedout' \in [Thread -> BOOLEAN]
      /\ waiter' \in [Waiter -> {"out", "blocked", "woken"}]
  <2>1. /\ timedout \in [Thread -> BOOLEAN]
        /\ flags \subseteq {"DESTROY", "WAIT"}
        /\ waiter \in [Waiter -> {"out", "blocked", "woken"}]
    BY DEF TypeOK
  <2>2. timedout' = timedout \/ timedout' = [timedout EXCEPT ![t] = TRUE]
    BY DEF thread_task, TaskStart, TaskWoken, TaskTimedOut, JobReturns, JobCancelled
  <2>3. timedout' \in [Thread -> BOOLEAN]
    BY <2>1, <2>2
  <2>4. UNCHANGED <<flags, waiter>> \/ thread_job_cleanup(t)
    BY DEF thread_task, TaskStart, TaskWoken, TaskTimedOut, JobReturns, JobCancelled
  <2>5. QED BY <2>1, <2>3, <2>4 DEF thread_job_cleanup
<1>4. jobst' \in [Job -> {"new", "queued", "running", "done", "cancelled", "freed"}]
  <2> DEFINE S == {"new", "queued", "running", "done", "cancelled", "freed"}
  <2>1. ASSUME NEW js \in [Job -> S] PROVE Started(js) \in [Job -> S]
    BY DEF Started
  <2>2. /\ [jobst EXCEPT ![running[t]] = "done"] \in [Job -> S]
        /\ [jobst EXCEPT ![running[t]] = "cancelled"] \in [Job -> S]
    BY <1>0
  <2>3. \E js \in [Job -> S] : jobst' = js \/ jobst' = Started(js)
    BY <1>0, <2>2 DEF thread_task, TaskStart, TaskWoken, TaskTimedOut,
                      JobReturns, JobCancelled
  <2>4. QED BY <2>1, <2>3
<1>5. TypeOK'
  BY <1>2, <1>3, <1>4 DEF TypeOK, PcStates
<1>6. QED BY <1>2, <1>5, CountSetsPrimed DEF ThreadAccounting

\* The calls and the condition variables.
LEMMA CallerAcc ==
    ASSUME AccInv,
           \/ \E j \in Job : thread_pool_execute(j)
           \/ \E w \in Waiter : thread_pool_wait(w)
           \/ \E defer \in BOOLEAN : thread_pool_destroy(defer)
           \/ DestroyResume
           \/ \E t \in Thread : Deadline(t)
           \/ SpuriousWakeup
    PROVE  AccInv'
<1> USE DEF AccInv
<1>0. /\ pc \in [Thread -> PcStates]
      /\ nthreads = Cardinality(At(pc, PcStates \ {"none"})) /\ nthreads \in Nat
      /\ idlethreads = Cardinality(At(pc, CountedStates)) /\ idlethreads \in Nat
      /\ active_thread_head = {u \in Thread : pc[u] = "run"}
      /\ nthreads <= maxthreads
  BY CountSets DEF TypeOK, ThreadAccounting, PcStates
<1>a. ASSUME NEW t \in Asleep, NEW x \in {"woken", "expired"},
             pc' = [pc EXCEPT ![t] = x]
      PROVE  /\ pc' \in [Thread -> PcStates]
             /\ nthreads = Cardinality(At(pc', PcStates \ {"none"}))
             /\ idlethreads = Cardinality(At(pc', CountedStates))
             /\ active_thread_head = {u \in Thread : pc'[u] = "run"}
  <2>1. /\ x \in PcStates /\ x \in PcStates \ {"none"} /\ x \in CountedStates
        /\ t \in Thread /\ pc[t] \in PcStates \ {"none"}
        /\ pc[t] \in CountedStates /\ pc[t] # "run" /\ x # "run"
    BY <1>a DEF Asleep, PcStates, CountedStates
  <2>2. QED BY <1>0, <1>a, <2>1, CountStep
<1>1. CASE \E j \in Job : thread_pool_execute(j)
  <2> PICK j \in Job : thread_pool_execute(j)
    BY <1>1
  <2>1. /\ UNCHANGED <<idlethreads, flags, active_thread_head, cancelled, running,
                       waiter, destroyer>>
        /\ job_head' \in Seq(Job)
        /\ jobst' \in [Job -> {"new", "queued", "running", "done", "cancelled", "freed"}]
    BY DEF thread_pool_execute, TypeOK
  <2>2. CASE SignalWork /\ UNCHANGED <<nthreads, timedout>>
    <3>1. /\ pc' \in [Thread -> PcStates]
          /\ nthreads = Cardinality(At(pc', PcStates \ {"none"}))
          /\ idlethreads = Cardinality(At(pc', CountedStates))
          /\ active_thread_head = {u \in Thread : pc'[u] = "run"}
      BY <1>0, <1>a, <2>2 DEF SignalWork
    <3>2. TypeOK'
      BY <2>1, <2>2, <3>1 DEF TypeOK, PcStates
    <3>3. QED BY <1>0, <2>1, <2>2, <3>1, <3>2, CountSetsPrimed DEF ThreadAccounting
  <2>3. CASE /\ nthreads < maxthreads /\ nthreads' = nthreads + 1
             /\ \E t \in Thread \ Live :
                  /\ pc' = [pc EXCEPT ![t] = "start"]
                  /\ timedout' = [timedout EXCEPT ![t] = FALSE]
    <3> PICK t \in Thread \ Live : /\ pc' = [pc EXCEPT ![t] = "start"]
                                   /\ timedout' = [timedout EXCEPT ![t] = FALSE]
      BY <2>3
    <3>1. /\ pc[t] = "none" /\ "start" \in PcStates /\ "start" \in PcStates \ {"none"}
          /\ "start" \notin CountedStates /\ "none" \notin CountedStates
          /\ "none" \notin PcStates \ {"none"}
      BY <1>0 DEF Live, PcStates, CountedStates
    <3>2. /\ pc' \in [Thread -> PcStates]
          /\ nthreads' = Cardinality(At(pc', PcStates \ {"none"}))
          /\ idlethreads = Cardinality(At(pc', CountedStates))
          /\ active_thread_head = {u \in Thread : pc'[u] = "run"}
      <4>1. /\ pc' \in [Thread -> PcStates]
            /\ nthreads' = Cardinality(At(pc', PcStates \ {"none"}))
        BY <1>0, <2>3, <3>1, CountStep
      <4>2. At(pc', CountedStates) = At(pc, CountedStates)
        BY <1>0, <3>1, CountStep
      <4>3. active_thread_head = {u \in Thread : pc'[u] = "run"}
        BY <1>0, <3>1
      <4>4. QED BY <1>0, <4>1, <4>2, <4>3
    <3>3. timedout' \in [Thread -> BOOLEAN]
      BY DEF TypeOK
    <3>4. TypeOK' /\ nthreads' <= maxthreads
      BY <1>0, <2>1, <2>3, <3>2, <3>3, PoolAssumption DEF TypeOK, PcStates
    <3>5. QED BY <2>1, <3>2, <3>4, CountSetsPrimed DEF ThreadAccounting
  <2>4. CASE UNCHANGED <<nthreads, pc, timedout>>
    <3>1. TypeOK'
      BY <2>1, <2>4 DEF TypeOK
    <3>2. QED BY <1>0, <2>1, <2>4, <3>1, CountSetsPrimed DEF ThreadAccounting
  <2>5. QED BY <2>2, <2>3, <2>4 DEF thread_pool_execute
<1>2. CASE \E w \in Waiter : thread_pool_wait(w)
  <2>1. /\ UNCHANGED <<nthreads, idlethreads, job_head, active_thread_head, pc,
                       timedout, cancelled, running, jobst, destroyer>>
        /\ flags' = flags \/ flags' = flags \cup {"WAIT"}
        /\ \E w \in Waiter, x \in {"out", "blocked"} :
              waiter' = [waiter EXCEPT ![w] = x]
    BY <1>2, Zenon DEF thread_pool_wait
  <2>2. TypeOK'
    <3>1. /\ flags' \subseteq {"DESTROY", "WAIT"}
          /\ waiter' \in [Waiter -> {"out", "blocked", "woken"}]
      BY <2>1 DEF TypeOK
    <3>2. QED BY <2>1, <3>1 DEF TypeOK
  <2>3. QED BY <1>0, <2>1, <2>2, CountSetsPrimed DEF ThreadAccounting
<1>b. ASSUME AwaitThreads(nthreads)
      PROVE  /\ job_head' \in Seq(Job)
             /\ jobst' \in [Job -> {"new", "queued", "running", "done", "cancelled", "freed"}]
             /\ destroyer' \in {"out", "blocked", "woken", "done"}
  <2>1. CASE nthreads > 0
    BY <1>b, <2>1 DEF AwaitThreads, TypeOK
  <2>2. CASE ~(nthreads > 0)
    <3>1. /\ job_head' = <<>> /\ destroyer' = "done"
          /\ jobst' = [j \in Job |->
                        IF jobst[j] = "queued" THEN "freed" ELSE jobst[j]]
      BY <1>b, <2>2 DEF AwaitThreads
    <3>2. <<>> \in Seq(Job)
      OBVIOUS
    <3>3. QED BY <3>1, <3>2 DEF TypeOK
  <2>3. QED BY <2>1, <2>2
<1>3. CASE \E defer \in BOOLEAN : thread_pool_destroy(defer)
  <2>1. UNCHANGED <<nthreads, idlethreads, active_thread_head, timedout, running, waiter>>
    BY <1>3 DEF thread_pool_destroy
  <2>2. AwaitThreads(nthreads)
    BY <1>3 DEF thread_pool_destroy
  <2>3. /\ pc' \in [Thread -> PcStates]
        /\ \A t \in Thread : /\ pc'[t] \in CountedStates <=> pc[t] \in CountedStates
                             /\ pc'[t] = "none" <=> pc[t] = "none"
                             /\ pc'[t] = "run" <=> pc[t] = "run"
    BY <1>0, <1>3 DEF thread_pool_destroy, Asleep, PcStates, CountedStates
  <2>4. /\ At(pc', CountedStates) = At(pc, CountedStates)
        /\ At(pc', PcStates \ {"none"}) = At(pc, PcStates \ {"none"})
        /\ active_thread_head = {u \in Thread : pc'[u] = "run"}
    BY <1>0, <2>3 DEF At
  <2>5. cancelled' \subseteq Thread /\ flags' \subseteq {"DESTROY", "WAIT"}
    BY <1>0, <1>3 DEF thread_pool_destroy, TypeOK
  <2>6. TypeOK'
    <3>1. /\ job_head' \in Seq(Job)
          /\ jobst' \in [Job -> {"new", "queued", "running", "done", "cancelled", "freed"}]
          /\ destroyer' \in {"out", "blocked", "woken", "done"}
      BY <1>b, <2>2
    <3>2. QED BY <2>1, <2>3, <2>5, <3>1 DEF TypeOK, PcStates
  <2>7. QED BY <1>0, <2>1, <2>4, <2>6, CountSetsPrimed DEF ThreadAccounting
<1>4. CASE DestroyResume
  <2>1. TypeOK' /\ UNCHANGED <<nthreads, idlethreads, active_thread_head, pc>>
    BY <1>4, <1>b DEF DestroyResume, TypeOK
  <2>2. QED BY <1>0, <2>1, CountSetsPrimed DEF ThreadAccounting
<1>5. CASE \E t \in Thread : Deadline(t)
  <2>1. \E t \in Asleep : pc' = [pc EXCEPT ![t] = "expired"]
    BY <1>5 DEF Deadline, Asleep
  <2>2. UNCHANGED <<nthreads, idlethreads, flags, job_head, active_thread_head,
                   timedout, cancelled, running, jobst, waiter, destroyer>>
    BY <1>5 DEF Deadline
  <2>3. /\ pc' \in [Thread -> PcStates]
        /\ nthreads = Cardinality(At(pc', PcStates \ {"none"}))
        /\ idlethreads = Cardinality(At(pc', CountedStates))
        /\ active_thread_head = {u \in Thread : pc'[u] = "run"}
    BY <2>1, <1>a
  <2>4. TypeOK'
    BY <2>2, <2>3 DEF TypeOK, PcStates
  <2>5. QED BY <1>0, <2>2, <2>3, <2>4, CountSetsPrimed DEF ThreadAccounting
<1>6. CASE SpuriousWakeup
  <2>1. /\ UNCHANGED <<nthreads, idlethreads, flags, job_head, active_thread_head,
                       timedout, cancelled, running, jobst>>
        /\ waiter' \in [Waiter -> {"out", "blocked", "woken"}]
        /\ destroyer' \in {"out", "blocked", "woken", "done"}
        /\ UNCHANGED pc \/ \E t \in Asleep : pc' = [pc EXCEPT ![t] = "woken"]
    BY <1>6 DEF SpuriousWakeup, TypeOK
  <2>2. /\ pc' \in [Thread -> PcStates]
        /\ nthreads = Cardinality(At(pc', PcStates \ {"none"}))
        /\ idlethreads = Cardinality(At(pc', CountedStates))
        /\ active_thread_head = {u \in Thread : pc'[u] = "run"}
    BY <1>0, <2>1, <1>a
  <2>3. TypeOK'
    BY <2>1, <2>2 DEF TypeOK, PcStates
  <2>4. QED BY <1>0, <2>1, <2>2, <2>3, CountSetsPrimed DEF ThreadAccounting
<1>7. QED BY <1>1, <1>2, <1>3, <1>4, <1>5, <1>6

LEMMA AccStep == ASSUME AccInv, [Next]_vars PROVE AccInv'
<1>1. CASE UNCHANGED vars
  BY <1>1 DEF AccInv, TypeOK, ThreadAccounting, Live, Counted, vars
<1>2. CASE \E t \in Thread : thread_task(t)
  BY <1>2, TaskAcc
<1>3. QED BY <1>1, <1>2, CallerAcc DEF Next

LEMMA AccInit == Init => AccInv
<1> SUFFICES ASSUME Init PROVE AccInv
  OBVIOUS
<1>1. TypeOK
  BY PoolAssumption DEF Init, TypeOK
<1>2. Live = {} /\ Counted = {} /\ {t \in Thread : pc[t] = "run"} = {}
  BY DEF Init, Live, Counted
<1>3. QED BY <1>1, <1>2, FS_EmptySet, PoolAssumption DEF Init, AccInv, ThreadAccounting

\* The fields of struct thread_pool keep their types in every reachable state;
\* the counters stay natural numbers because they count threads.
THEOREM PoolTyping == Spec => []TypeOK
<1>1. Spec => []AccInv
  BY AccInit, AccStep, PTL DEF Spec
<1>2. QED BY <1>1, PTL DEF AccInv

\* nthreads and idlethreads count exactly the threads they are meant to count,
\* the active list is exact and the pool never grows past maxthreads, in every
\* reachable state of thread_pool.c.
THEOREM PoolAccounting == Spec => []ThreadAccounting
<1>1. Spec => []AccInv
  BY AccInit, AccStep, PTL DEF Spec
<1>2. QED BY <1>1, PTL DEF AccInv

-----------------------------------------------------------------------------
(* No lost wakeup.  The invariant needs that nobody sleeps once the pool is  *)
(* being destroyed, and the accounting above: execute signals exactly when   *)
(* idlethreads > 0, which must not be zero while a thread sleeps.            *)

NoSleepInDestroy == Destroying => Asleep = {}

WakeInv == AccInv /\ NoSleepInDestroy /\ NoLostWakeup

\* A thread of thread_task moves: it sleeps only on an empty queue, and takes
\* at most the one job it was woken for.
LEMMA TaskWake ==
    ASSUME WakeInv, NEW t \in Thread, thread_task(t)
    PROVE  WakeInv'
<1>0. AccInv'
  BY TaskAcc DEF WakeInv
<1>1. /\ pc \in [Thread -> PcStates] /\ job_head \in Seq(Job)
      /\ Woken = At(pc, {"woken"}) /\ Asleep = At(pc, {"wait", "timedwait"})
      /\ Woken' = At(pc', {"woken"}) /\ Asleep' = At(pc', {"wait", "timedwait"})
      /\ (Asleep # {} => Len(job_head) <= Cardinality(Woken))
      /\ (Destroying => Asleep = {})
  BY <1>0, CountSets, CountSetsPrimed DEF WakeInv, AccInv, TypeOK, PcStates,
     NoLostWakeup, NoSleepInDestroy
<1>2. /\ Destroying' <=> Destroying
      /\ pc[t] \notin {"wait", "timedwait", "none"}
  <2>1. flags' = flags \/ flags' = flags \ {"WAIT"}
    BY DEF thread_task, TaskStart, TaskWoken, TaskTimedOut, JobReturns, JobCancelled,
           thread_job_cleanup
  <2>2. pc[t] \in {"start", "woken", "expired", "run"}
    BY DEF thread_task, TaskStart, TaskWoken, TaskTimedOut, JobReturns, JobCancelled
  <2>3. QED BY <2>1, <2>2 DEF Destroying
<1> DEFINE Moves(idle, active) ==
               \/ Sleep(t, idle, active)
               \/ TakeJob(t, idle, active)
               \/ /\ Leave(t, idle, active)
                  /\ Destroying \/ job_head = <<>> \/ pc[t] = "run"
<1>a. PICK idle, active : Moves(idle, active)
  <2>1. ASSUME NEW idle, NEW active, NEW mayWait,
               Iterate(t, idle, active, mayWait)
        PROVE  Moves(idle, active)
    BY <2>1 DEF Iterate
  <2>2. ASSUME NEW idle, NEW active, Leave(t, idle, active), pc[t] = "run"
        PROVE  Moves(idle, active)
    BY <2>2
  <2> HIDE DEF Moves
  <2>3. QED BY <2>1, <2>2, Zenon DEF thread_task, TaskStart, TaskWoken, TaskTimedOut,
       JobReturns, JobCancelled
<1>3. PICK x \in PcStates :
        /\ pc' = [pc EXCEPT ![t] = x]
        /\ \/ Sleep(t, idle, active) /\ x \in {"wait", "timedwait"}
           \/ TakeJob(t, idle, active) /\ x = "run"
           \/ /\ Leave(t, idle, active) /\ x = "none"
              /\ Destroying \/ job_head = <<>> \/ pc[t] = "run"
  BY <1>a DEF Sleep, TakeJob, Leave, thread_task_cleanup, PcStates
<1>4. /\ IsFiniteSet(Woken') /\ Cardinality(Woken') \in Nat
      /\ Cardinality(Woken) \in Nat /\ Len(job_head) \in Nat
  <2>1. Woken' \subseteq Thread /\ Woken \subseteq Thread
    BY DEF Woken
  <2>2. QED BY <1>1, <2>1, FS_Subset, FS_CardinalityType, PoolAssumption
<1>5. CASE Sleep(t, idle, active) /\ x \in {"wait", "timedwait"}
  <2>1. job_head' = <<>> /\ ~Destroying'
    BY <1>2, <1>5 DEF Sleep
  <2>2. QED BY <1>0, <1>4, <2>1 DEF WakeInv, NoLostWakeup, NoSleepInDestroy
<1>6. CASE TakeJob(t, idle, active) /\ x = "run"
  <2>1. job_head # <<>> /\ job_head' = Tail(job_head) /\ ~Destroying
    BY <1>6 DEF TakeJob
  <2>2. Len(job_head') = Len(job_head) - 1
    BY <1>1, <2>1
  <2>3. Asleep' = Asleep
    BY <1>1, <1>2, <1>3, <1>6, CountStep
  <2>4. Cardinality(Woken') >= Cardinality(Woken) - 1
    <3>1. CASE pc[t] = "woken"
      <4>1. pc[t] \in {"woken"} /\ x \notin {"woken"}
        BY <1>6, <3>1
      <4>2. Cardinality(At(pc', {"woken"})) = Cardinality(At(pc, {"woken"})) - 1
        BY <1>1, <1>3, <4>1, CountStep
      <4>3. QED BY <1>1, <1>4, <4>2
    <3>2. CASE pc[t] # "woken"
      <4>1. pc[t] \notin {"woken"} /\ x \notin {"woken"}
        BY <1>6, <3>2
      <4>2. At(pc', {"woken"}) = At(pc, {"woken"})
        BY <1>1, <1>3, <4>1, CountStep
      <4>3. QED BY <1>1, <1>4, <4>2
    <3>3. QED BY <3>1, <3>2
  <2>5. QED BY <1>0, <1>1, <1>2, <1>4, <2>1, <2>2, <2>3, <2>4
            DEF WakeInv, NoLostWakeup, NoSleepInDestroy
<1>7. CASE /\ Leave(t, idle, active) /\ x = "none"
           /\ Destroying \/ job_head = <<>> \/ pc[t] = "run"
  <2>1. job_head' = job_head
    BY <1>7 DEF Leave
  <2>2. Asleep' = Asleep
    BY <1>1, <1>2, <1>3, <1>7, CountStep
  <2>3. CASE Destroying
    BY <1>0, <1>1, <2>2, <2>3 DEF WakeInv, NoLostWakeup, NoSleepInDestroy
  <2>4. CASE job_head = <<>> /\ ~Destroying
    BY <1>0, <1>2, <1>4, <2>1, <2>4 DEF WakeInv, NoLostWakeup, NoSleepInDestroy
  <2>5. CASE pc[t] = "run" /\ ~Destroying
    <3>1. pc[t] \notin {"woken"} /\ x \notin {"woken"}
      BY <1>7, <2>5
    <3>2. Woken' = Woken
      BY <1>1, <1>3, <3>1, CountStep
    <3>3. QED BY <1>0, <1>1, <1>2, <2>1, <2>2, <2>5, <3>2
              DEF WakeInv, NoLostWakeup, NoSleepInDestroy
  <2>6. QED BY <1>7, <2>3, <2>4, <2>5
<1>8. QED BY <1>3, <1>5, <1>6, <1>7

LEMMA CallerWake ==
    ASSUME WakeInv, AccInv', [Next]_vars, ~ \E t \in Thread : thread_task(t)
    PROVE  WakeInv'
<1>1. /\ pc \in [Thread -> PcStates] /\ job_head \in Seq(Job)
      /\ Woken = At(pc, {"woken"}) /\ Asleep = At(pc, {"wait", "timedwait"})
      /\ Woken' = At(pc', {"woken"}) /\ Asleep' = At(pc', {"wait", "timedwait"})
      /\ (Asleep # {} => Len(job_head) <= Cardinality(Woken))
      /\ (Destroying => Asleep = {})
      /\ idlethreads \in Nat
  BY CountSets, CountSetsPrimed DEF WakeInv, AccInv, TypeOK, PcStates,
     NoLostWakeup, NoSleepInDestroy
<1>2. /\ Cardinality(Woken) \in Nat /\ Len(job_head) \in Nat
      /\ Cardinality(Woken') \in Nat
  <2>1. Woken' \subseteq Thread /\ Woken \subseteq Thread
    BY DEF Woken
  <2>2. QED BY <1>1, <2>1, FS_Subset, FS_CardinalityType, PoolAssumption
<1>3. ~(idlethreads > 0) => Asleep = {}
  <2>1. Asleep \subseteq Counted /\ Counted \subseteq Thread
    BY DEF Asleep, Counted
  <2>2. IsFiniteSet(Counted) /\ idlethreads = Cardinality(Counted)
    BY <2>1, FS_Subset, PoolAssumption DEF WakeInv, AccInv, ThreadAccounting
  <2>3. QED BY <1>1, <2>1, <2>2, FS_EmptySet
<1>w. ASSUME NEW t \in Asleep, pc' = [pc EXCEPT ![t] = "woken"]
      PROVE  /\ Cardinality(Woken') = Cardinality(Woken) + 1
             /\ Asleep' \subseteq Asleep
  <2>1. /\ t \in Thread /\ "woken" \in PcStates /\ pc[t] \notin {"woken"}
        /\ "woken" \in {"woken"}
    BY <1>w DEF Asleep, PcStates
  <2>2. Cardinality(Woken') = Cardinality(Woken) + 1
    BY <1>1, <1>w, <2>1, CountStep
  <2>3. Asleep' \subseteq Asleep
    BY <1>1, <1>w, <2>1 DEF At
  <2>4. QED BY <2>2, <2>3
<1>4. CASE \E j \in Job : thread_pool_execute(j)
  <2> PICK j \in Job : thread_pool_execute(j)
    BY <1>4
  <2>1. job_head' = Append(job_head, j) /\ (Destroying' <=> Destroying)
    BY DEF thread_pool_execute, Destroying
  <2>2. Len(job_head') = Len(job_head) + 1
    BY <1>1, <2>1
  <2>3. CASE idlethreads > 0 /\ SignalWork
    <3>1. CASE Asleep = {}
      <4>1. Asleep' = {}
        BY <2>3, <3>1, <1>1 DEF SignalWork
      <4>2. QED BY <4>1 DEF WakeInv, NoLostWakeup, NoSleepInDestroy
    <3>2. CASE Asleep # {}
      <4>1. \E t \in Asleep : pc' = [pc EXCEPT ![t] = "woken"]
        BY <2>3, <3>2 DEF SignalWork
      <4>2. /\ Cardinality(Woken') = Cardinality(Woken) + 1
            /\ Asleep' \subseteq Asleep
        BY <4>1, <1>w
      <4>3. Len(job_head') <= Cardinality(Woken')
        BY <1>1, <1>2, <2>2, <3>2, <4>2
      <4>4. ~Destroying'
        BY <1>1, <2>1, <3>2
      <4>5. QED BY <4>3, <4>4 DEF WakeInv, NoLostWakeup, NoSleepInDestroy
    <3>3. QED BY <3>1, <3>2
  <2>4. CASE idlethreads = 0
    <3>1. pc' = pc \/ \E t \in Thread \ Live : pc' = [pc EXCEPT ![t] = "start"]
      BY <2>4 DEF thread_pool_execute
    <3>2. Asleep = {}
      BY <1>3, <2>4
    <3>3. Asleep' = {}
      BY <1>1, <3>1, <3>2 DEF At
    <3>4. QED BY <3>3 DEF WakeInv, NoLostWakeup, NoSleepInDestroy
  <2>5. QED BY <2>3, <2>4 DEF thread_pool_execute
<1>5. CASE UNCHANGED <<pc, job_head>> /\ (Destroying' <=> Destroying)
  <2>1. Asleep' = Asleep /\ Woken' = Woken
    BY <1>1, <1>5
  <2>2. QED BY <1>1, <1>5, <2>1 DEF WakeInv, NoLostWakeup, NoSleepInDestroy
<1>6. CASE \E w \in Waiter : thread_pool_wait(w)
  <2>1. UNCHANGED <<pc, job_head>> /\ (Destroying' <=> Destroying)
    BY <1>6 DEF thread_pool_wait, Destroying
  <2>2. QED BY <1>5, <2>1
<1>7. CASE \E defer \in BOOLEAN : thread_pool_destroy(defer)
  <2>1. Asleep' = {}
    <3>1. CASE idlethreads > 0
      BY <1>1, <1>7, <3>1 DEF thread_pool_destroy, At
    <3>2. CASE ~(idlethreads > 0)
      BY <1>1, <1>3, <1>7, <3>2 DEF thread_pool_destroy
    <3>3. QED BY <3>1, <3>2
  <2>2. QED BY <2>1 DEF WakeInv, NoLostWakeup, NoSleepInDestroy
<1>8. CASE DestroyResume
  <2>1. UNCHANGED pc /\ (Destroying' <=> Destroying)
    BY <1>8 DEF DestroyResume, Destroying
  <2>2. job_head' = job_head \/ job_head' = <<>>
    BY <1>8 DEF DestroyResume, AwaitThreads
  <2>3. Asleep' = Asleep /\ Woken' = Woken
    BY <1>1, <2>1
  <2>4. CASE job_head' = job_head
    BY <1>5, <2>1, <2>4
  <2>5. CASE job_head' = <<>>
    BY <1>1, <1>2, <2>1, <2>3, <2>5 DEF WakeInv, NoLostWakeup, NoSleepInDestroy
  <2>6. QED BY <2>2, <2>4, <2>5
<1>9. CASE \E t \in Thread : Deadline(t)
  <2> PICK t \in Thread : Deadline(t)
    BY <1>9
  <2>1. /\ pc[t] = "timedwait" /\ pc' = [pc EXCEPT ![t] = "expired"]
        /\ job_head' = job_head /\ (Destroying' <=> Destroying)
    BY DEF Deadline, Destroying
  <2>2. "expired" \in PcStates /\ pc[t] \notin {"woken"} /\ "expired" \notin {"woken"}
    BY <2>1 DEF PcStates
  <2>3. Woken' = Woken
    BY <1>1, <2>1, <2>2, CountStep
  <2>4. Asleep' \subseteq Asleep
    BY <1>1, <2>1 DEF At
  <2>5. QED BY <1>1, <2>1, <2>3, <2>4 DEF WakeInv, NoLostWakeup, NoSleepInDestroy
<1>10. CASE SpuriousWakeup
  <2>1. job_head' = job_head /\ (Destroying' <=> Destroying)
    BY <1>10 DEF SpuriousWakeup, Destroying
  <2>2. CASE pc' = pc
    BY <1>5, <2>1, <2>2
  <2>3. CASE \E t \in Asleep : pc' = [pc EXCEPT ![t] = "woken"]
    <3>1. /\ Cardinality(Woken') = Cardinality(Woken) + 1
          /\ Asleep' \subseteq Asleep
      BY <2>3, <1>w
    <3>2. QED BY <1>1, <1>2, <2>1, <3>1 DEF WakeInv, NoLostWakeup, NoSleepInDestroy
  <2>4. QED BY <1>10, <2>2, <2>3 DEF SpuriousWakeup
<1>11. CASE UNCHANGED vars
  <2>1. UNCHANGED <<pc, job_head>> /\ (Destroying' <=> Destroying)
    BY <1>11 DEF vars, Destroying
  <2>2. QED BY <1>5, <2>1
<1>12. QED BY <1>4, <1>6, <1>7, <1>8, <1>9, <1>10, <1>11 DEF Next

\* No wakeup is ever lost in thread_pool.c: while a worker sleeps on work_cond,
\* each queued job has a woken worker on its way to the mutex.
THEOREM PoolNoLostWakeup == Spec => []NoLostWakeup
<1>1. Init => WakeInv
  <2> SUFFICES ASSUME Init PROVE WakeInv
    OBVIOUS
  <2>2. Asleep = {}
    BY DEF Init, Asleep
  <2>3. QED BY <2>2, AccInit DEF WakeInv, NoLostWakeup, NoSleepInDestroy
<1>2. WakeInv /\ [Next]_vars => WakeInv'
  <2> SUFFICES ASSUME WakeInv, [Next]_vars PROVE WakeInv'
    OBVIOUS
  <2>2. AccInv'
    BY AccStep DEF WakeInv
  <2>3. CASE \E t \in Thread : thread_task(t)
    BY <2>3, TaskWake
  <2>4. QED BY <2>2, <2>3, CallerWake
<1>3. QED BY <1>1, <1>2, PTL DEF Spec, WakeInv

-----------------------------------------------------------------------------
(* A blocked caller of thread_pool_wait is always flagged, so the last job   *)
(* to end finds the WAIT flag and wakes it.                                  *)

BlockedFlagged == \A w \in Waiter : waiter[w] = "blocked" => "WAIT" \in flags

WaitInv == AccInv /\ BlockedFlagged /\ WaitNotMissed

LEMMA TaskWait ==
    ASSUME WaitInv, NEW t \in Thread, thread_task(t)
    PROVE  BlockedFlagged' /\ WaitNotMissed'
<1>1. CASE UNCHANGED <<flags, waiter>> /\ t \notin active_thread_head
  <2>1. PICK idle, active :
             /\ \/ Sleep(t, idle, active) \/ TakeJob(t, idle, active)
                \/ Leave(t, idle, active)
             /\ active = active_thread_head
    <3>1. pc[t] # "run"
      BY <1>1 DEF WaitInv, AccInv, ThreadAccounting
    <3>2. QED BY <3>1, Zenon DEF thread_task, TaskStart, TaskWoken, TaskTimedOut,
             JobReturns, JobCancelled, Iterate
  <2>2. /\ destroyer' = "done" <=> destroyer = "done"
        /\ \/ UNCHANGED <<job_head, active_thread_head>>
           \/ active_thread_head' # {}
    BY <2>1 DEF Sleep, TakeJob, Leave, thread_task_cleanup
  <2>3. QED BY <1>1, <2>2 DEF WaitInv, BlockedFlagged, WaitNotMissed, PoolIdle
<1>2. CASE pc[t] = "run"
  <2>1. thread_job_cleanup(t)
    BY <1>2 DEF thread_task, TaskStart, TaskWoken, TaskTimedOut, JobReturns, JobCancelled
  <2>2. PICK idle, active :
             /\ \/ Sleep(t, idle, active) \/ TakeJob(t, idle, active)
                \/ Leave(t, idle, active)
             /\ active = active_thread_head \ {t}
    BY <1>2, Zenon DEF thread_task, TaskStart, TaskWoken, TaskTimedOut,
             JobReturns, JobCancelled, Iterate
  <2>3. \/ active_thread_head' # {}
        \/ active_thread_head' = active_thread_head \ {t} /\ job_head' = job_head
    BY <2>2 DEF Sleep, TakeJob, Leave
  <2>4. CASE "WAIT" \in flags /\ PoolIdle(job_head, active_thread_head \ {t})
    BY <2>1, <2>4 DEF thread_job_cleanup, BlockedFlagged, WaitNotMissed, WaitInv, AccInv, TypeOK
  <2>5. CASE ~("WAIT" \in flags /\ PoolIdle(job_head, active_thread_head \ {t}))
    <3>1. UNCHANGED <<flags, waiter>>
      BY <2>1, <2>5 DEF thread_job_cleanup
    <3>2. QED BY <2>3, <2>5, <3>1 DEF WaitInv, BlockedFlagged, WaitNotMissed, PoolIdle
  <2>6. QED BY <2>4, <2>5
<1>3. QED BY <1>1, <1>2 DEF thread_task, TaskStart, TaskWoken, TaskTimedOut,
        JobReturns, JobCancelled, WaitInv, AccInv, ThreadAccounting

LEMMA CallerWait ==
    ASSUME WaitInv, [Next]_vars, ~ \E t \in Thread : thread_task(t)
    PROVE  BlockedFlagged' /\ WaitNotMissed'
<1> USE DEF WaitInv, BlockedFlagged, WaitNotMissed, PoolIdle
<1>1. ASSUME NEW j \in Job, thread_pool_execute(j)
      PROVE  BlockedFlagged' /\ WaitNotMissed'
  <2>1. job_head' = Append(job_head, j) /\ UNCHANGED <<flags, waiter>>
    BY <1>1 DEF thread_pool_execute
  <2>2. job_head' # <<>>
    BY <2>1 DEF AccInv, TypeOK
  <2>3. QED BY <2>1, <2>2
<1>2. ASSUME NEW w \in Waiter, thread_pool_wait(w)
      PROVE  BlockedFlagged' /\ WaitNotMissed'
  BY <1>2 DEF thread_pool_wait, AccInv, TypeOK
<1>3. ASSUME AwaitThreads(nthreads), UNCHANGED <<active_thread_head, waiter>>,
             flags' = flags \/ flags' = flags \cup {"DESTROY"},
             destroyer # "done"
      PROVE  BlockedFlagged' /\ WaitNotMissed'
  BY <1>3 DEF AwaitThreads
<1>4. ASSUME NEW defer \in BOOLEAN, thread_pool_destroy(defer)
      PROVE  BlockedFlagged' /\ WaitNotMissed'
  BY <1>3, <1>4 DEF thread_pool_destroy
<1>5. CASE DestroyResume
  BY <1>3, <1>5 DEF DestroyResume
<1>6. ASSUME NEW t \in Thread, Deadline(t)
      PROVE  BlockedFlagged' /\ WaitNotMissed'
  BY <1>6 DEF Deadline
<1>7. CASE SpuriousWakeup
  BY <1>7 DEF SpuriousWakeup, AccInv, TypeOK
<1>8. CASE UNCHANGED vars
  BY <1>8 DEF vars
<1>9. QED BY <1>1, <1>2, <1>4, <1>5, <1>6, <1>7, <1>8 DEF Next

\* A caller of thread_pool_wait never sleeps while the pool is idle: the last
\* job to end has woken it.
THEOREM PoolWaitNotMissed == Spec => []WaitNotMissed
<1>1. Init => WaitInv
  <2> SUFFICES ASSUME Init PROVE WaitInv
    OBVIOUS
  <2>1. \A w \in Waiter : waiter[w] # "blocked"
    BY DEF Init
  <2>2. QED BY <2>1, AccInit DEF WaitInv, BlockedFlagged, WaitNotMissed
<1>2. WaitInv /\ [Next]_vars => WaitInv'
  <2> SUFFICES ASSUME WaitInv, [Next]_vars PROVE WaitInv'
    OBVIOUS
  <2>1. AccInv'
    BY AccStep DEF WaitInv
  <2>2. CASE \E t \in Thread : thread_task(t)
    BY <2>1, <2>2, TaskWait DEF WaitInv
  <2>3. CASE ~ \E t \in Thread : thread_task(t)
    BY <2>1, <2>3, CallerWait DEF WaitInv
  <2>4. QED BY <2>2, <2>3
<1>3. QED BY <1>1, <1>2, PTL DEF Spec, WaitInv
=============================================================================
