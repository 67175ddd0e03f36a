------------------------- MODULE DamSchedulerProofs -------------------------
(***************************************************************************)
(* Safety of the scheduler for every number of processes, schedulers,      *)
(* processors and sessions.                                                *)
(*                                                                         *)
(* TypeOK, MutualExclusion and SemaphoreAccounting are each inductive      *)
(* relative to the ones before: the mutex is free only if no scheduler is  *)
(* in a critical section, and a step that takes a unit from one counting   *)
(* semaphore or gives it to the other moves exactly one scheduler into or  *)
(* out of Holding.  SubmissionOrder follows from what the copies of the    *)
(* queue have in common with the shell's (OrderInv), BatchPerSched from a  *)
(* budget of signals that each sched command raises (BatchInv).            *)
(***************************************************************************)
EXTENDS DamScheduler, ReadyQueueLemmas, FiniteSetLemmas

\* What every transition of a scheduler does to pc, given the type of pc.
LEMMA GotoType ==
    ASSUME TypeOK, NEW g \in Scheduler, NEW from, NEW to \in PC, goto(g, from, to)
    PROVE  /\ pc' \in [Scheduler -> PC]
           /\ pc[g] = from /\ pc'[g] = to
           /\ \A h \in Scheduler \ {g} : pc'[h] = pc[h]
BY DEF goto, TypeOK

\* A wait takes one unit, which was there, and a post adds one.
LEMMA SemType ==
    ASSUME TypeOK, NEW s \in SemName, sem_wait(s) \/ sem_post(s)
    PROVE  /\ sem' \in [SemName -> Nat]
           /\ \A t \in SemName \ {s} : sem'[t] = sem[t]
           /\ sem_wait(s) => sem[s] > 0 /\ sem'[s] = sem[s] - 1
           /\ sem_post(s) => sem'[s] = sem[s] + 1
BY DEF sem_wait, sem_post, TypeOK

\* The numbers of a scheduler's states are states.
LEMMA EntryType == dummy_main_entry \in {"gone", "open"}
BY DEF dummy_main_entry

-----------------------------------------------------------------------------
\* TypeOK holds initially.
LEMMA InitType == Init => TypeOK
<1> SUFFICES ASSUME Init PROVE TypeOK
  OBVIOUS
<1>1. WellFormed(EmptyQueue) /\ EmptyQueue \in Queue
  BY EmptyIsWellFormed DEF WellFormed
<1>2. sem \in [SemName -> Nat]
  BY CapacityAssumption DEF Init, created_sem
<1>3. pc \in [Scheduler -> PC]
  BY DEF Init, PC
<1> QED
  BY <1>1, <1>2, <1>3 DEF Init, TypeOK, Job

\* TypeOK holds in every reachable state: the queues stay well formed under
\* submit, sched and start_processes, and no semaphore becomes negative.
THEOREM TypeCorrect == Spec => []TypeOK
<1>1. TypeOK /\ [Next]_vars => TypeOK'
  <2> SUFFICES ASSUME TypeOK, [Next]_vars PROVE TypeOK'
    OBVIOUS
  <2> USE DEF shellVars, jobVars
  <2>1. ASSUME NEW p \in Process, process_submit(p) PROVE TypeOK'
    BY <2>1, AddKeepsForm DEF process_submit, TypeOK, Job
  <2>2. ASSUME NEW p \in Process, kill_self_SIGSTOP(p) PROVE TypeOK'
    BY <2>2 DEF kill_self_SIGSTOP, TypeOK, Job
  <2>3. ASSUME NEW p \in Process, exits(p) PROVE TypeOK'
    BY <2>3 DEF exits, TypeOK, Job
  <2>4. ASSUME NEW g \in Scheduler, sched(g) \/ sched_without_grandchild(g)
        PROVE  TypeOK'
    <3>1. goto(g, "idle", dummy_main_entry) /\ dummy_main_entry \in PC
      BY <2>4, EntryType DEF sched, sched_without_grandchild, PC
    <3>2. pc' \in [Scheduler -> PC]
      BY <3>1, GotoType
    <3>3. queue' \in [Scheduler -> Queue] /\ \A h \in Scheduler : WellFormed(queue'[h])
      BY <2>4 DEF sched, sched_without_grandchild, TypeOK, WellFormed
    <3> QED  BY <2>4, <3>2, <3>3 DEF sched, sched_without_grandchild, TypeOK
  <2>5. ASSUME NEW g \in Scheduler, sem_open(g) \/ sem_open_fails(g) PROVE TypeOK'
    <3>1. pc' \in [Scheduler -> PC]
      BY <2>5, GotoType DEF sem_open, sem_open_fails, PC
    <3> QED  BY <2>5, <3>1 DEF sem_open, sem_open_fails, TypeOK
  <2>6. ASSUME NEW g \in Scheduler,
               \/ wait_empty(g) \/ post_full(g)  \/ wait_full(g) \/ unlock_start(g)
               \/ lock_handle(g) \/ post_empty(g) \/ unlock_handle(g)
        PROVE  TypeOK'
    <3>1. pc' \in [Scheduler -> PC]
      BY <2>6, GotoType
         DEF wait_empty, post_full, wait_full, unlock_start, lock_handle,
             post_empty, unlock_handle, PC, Batch
    <3>2. sem' \in [SemName -> Nat]
      BY <2>6, SemType
         DEF wait_empty, post_full, wait_full, unlock_start, lock_handle,
             post_empty, unlock_handle, SemName
    <3>3. UNCHANGED <<ready_run_queue, waited_for, session, proc, conts, queue, i>>
      BY <2>6 DEF wait_empty, post_full, wait_full, unlock_start, lock_handle,
                  post_empty, unlock_handle
    <3> QED  BY <3>1, <3>2, <3>3 DEF TypeOK
  <2>7. ASSUME NEW g \in Scheduler, lock_start(g) PROVE TypeOK'
    <3>1. pc' \in [Scheduler -> PC]
      BY <2>7, GotoType DEF lock_start, PC, Batch
    <3>2. sem' \in [SemName -> Nat]
      BY <2>7, SemType DEF lock_start, SemName
    <3> QED  BY <2>7, <3>1, <3>2 DEF lock_start, TypeOK
  <2>8. ASSUME NEW g \in Scheduler, loop_test(g) PROVE TypeOK'
    <3>1. pc' \in [Scheduler -> PC]
      BY <2>8, GotoType DEF loop_test, PC
    <3> QED  BY <2>8, <3>1 DEF loop_test, TypeOK
  <2>9. ASSUME NEW g \in Scheduler, start_process(g) PROVE TypeOK'
    <3>1. /\ WellFormed(remove_from_queue(queue[g]))
          /\ removed_process(queue[g]) \in Process
      BY <2>9, RemoveKeepsForm DEF start_process, batch_left, TypeOK
    <3>2. queue' \in [Scheduler -> Queue] /\ \A h \in Scheduler : WellFormed(queue'[h])
      BY <2>9, <3>1 DEF start_process, TypeOK, WellFormed
    <3>3. proc' \in [Process -> Job]
      BY <2>9, <3>1 DEF start_process, SIGCONT, TypeOK, Job
    <3>4. conts' \in [Process -> Nat] /\ i' \in [Scheduler -> Nat]
      BY <2>9, <3>1 DEF start_process, TypeOK
    <3> QED  BY <2>9, <3>2, <3>3, <3>4 DEF start_process, TypeOK
  <2>10. CASE sigint
    <3>1. WellFormed(EmptyQueue) /\ EmptyQueue \in Queue
      BY EmptyIsWellFormed DEF WellFormed
    <3>2. pc' \in [Scheduler -> PC]
      BY <2>10 DEF sigint, PC
    <3>3. proc' \in [Process -> Job]
      BY <2>10 DEF sigint, Job
    <3> QED  BY <2>10, <3>1, <3>2, <3>3 DEF sigint, TypeOK
  <2>11. CASE UNCHANGED vars
    BY <2>11 DEF vars, TypeOK
  <2> QED  BY <2>1, <2>2, <2>3, <2>4, <2>5, <2>6, <2>7, <2>8, <2>9, <2>10, <2>11
              DEF Next, dummy_main, process_scheduler
<1> QED
  BY <1>1, InitType, PTL DEF Spec

-----------------------------------------------------------------------------
\* MutualExclusion holds in every reachable state, also after any number of
\* Ctrl-Cs: the mutex is positive only if nobody is in a critical section.
THEOREM MutexCorrect == Spec => []MutualExclusion
<1>1. Init => MutualExclusion
  BY DEF Init, MutualExclusion, In, Critical, created_sem, SemName
<1>2. TypeOK /\ MutualExclusion /\ [Next]_vars => MutualExclusion'
  <2> SUFFICES ASSUME TypeOK, MutualExclusion, [Next]_vars PROVE MutualExclusion'
    OBVIOUS
  <2> USE DEF shellVars, jobVars
  <2>1. ASSUME UNCHANGED <<pc, sem>> PROVE MutualExclusion'
    BY <2>1 DEF MutualExclusion, In
  <2>2. ASSUME NEW g \in Scheduler, NEW from, NEW to \in PC, goto(g, from, to),
               from \notin Critical, to \notin Critical, sem'["mutex"] = sem["mutex"]
        PROVE  MutualExclusion'
    BY <2>2, GotoType DEF MutualExclusion, In
  <2>3. ASSUME NEW g \in Scheduler, NEW from, NEW to \in PC, goto(g, from, to),
               to \in Critical, sem_wait("mutex")
        PROVE  MutualExclusion'
    <3>1. sem["mutex"] = 1 /\ sem'["mutex"] = 0
      BY <2>3, SemType DEF MutualExclusion, SemName
    <3>2. In(Critical) = {}
      BY <3>1 DEF MutualExclusion
    <3>3. \A h \in In(Critical)' : h = g
      BY <2>3, <3>2, GotoType DEF In
    <3> QED  BY <3>1, <3>3 DEF MutualExclusion
  <2>4. ASSUME NEW g \in Scheduler, NEW from, NEW to \in PC, goto(g, from, to),
               from \in Critical, to \notin Critical, sem_post("mutex")
        PROVE  MutualExclusion'
    <3>1. g \in In(Critical)
      BY <2>4 DEF goto, In
    <3>2. sem["mutex"] = 0 /\ sem'["mutex"] = 1
      BY <2>4, <3>1, SemType DEF MutualExclusion, SemName
    <3>3. In(Critical)' = {}
      BY <2>4, <3>1, GotoType DEF In, MutualExclusion
    <3> QED  BY <3>2, <3>3 DEF MutualExclusion
  <2>5. ASSUME NEW g \in Scheduler, post_empty(g) PROVE MutualExclusion'
    <3>1. goto(g, "post_empty", "unlock_handle") /\ sem'["mutex"] = sem["mutex"]
      BY <2>5, SemType DEF post_empty, SemName
    <3>2. In(Critical)' = In(Critical)
      BY <3>1, GotoType DEF In, Critical, PC
    <3> QED  BY <3>1, <3>2 DEF MutualExclusion
  <2>6. ASSUME NEW p \in Process, process_submit(p) \/ kill_self_SIGSTOP(p) \/ exits(p)
        PROVE  MutualExclusion'
    BY <2>1, <2>6 DEF process_submit, kill_self_SIGSTOP, exits
  <2>7. ASSUME NEW g \in Scheduler, sched(g) \/ sched_without_grandchild(g)
        PROVE  MutualExclusion'
    <3>1. goto(g, "idle", dummy_main_entry) /\ UNCHANGED sem
      BY <2>7 DEF sched, sched_without_grandchild
    <3> QED  BY <2>2, <3>1, EntryType DEF PC, Critical
  <2>8. ASSUME NEW g \in Scheduler, sem_open(g) \/ sem_open_fails(g) \/ loop_test(g)
        PROVE  MutualExclusion'
    BY <2>2, <2>8 DEF sem_open, sem_open_fails, loop_test, PC, Critical
  <2>9. ASSUME NEW g \in Scheduler, wait_empty(g) \/ post_full(g) \/ wait_full(g)
        PROVE  MutualExclusion'
    <3>1. sem'["mutex"] = sem["mutex"]
      BY <2>9, SemType DEF wait_empty, post_full, wait_full, SemName
    <3> QED  BY <2>2, <2>9, <3>1
                DEF wait_empty, post_full, wait_full, PC, Batch, Critical
  <2>10. ASSUME NEW g \in Scheduler, lock_start(g) \/ lock_handle(g)
         PROVE  MutualExclusion'
    BY <2>3, <2>10 DEF lock_start, lock_handle, PC, Batch, Critical
  <2>11. ASSUME NEW g \in Scheduler, unlock_start(g) \/ unlock_handle(g)
         PROVE  MutualExclusion'
    BY <2>4, <2>11 DEF unlock_start, unlock_handle, PC, Batch, Critical
  <2>12. ASSUME NEW g \in Scheduler, start_process(g) PROVE MutualExclusion'
    BY <2>1, <2>12 DEF start_process
  <2>13. CASE sigint
    <3>1. In(Critical)' = {} /\ sem' = sem
      BY <2>13 DEF sigint, In, Critical
    <3> QED  BY <3>1 DEF MutualExclusion
  <2>14. CASE UNCHANGED vars
    BY <2>1, <2>14 DEF vars
  <2> QED  BY <2>5, <2>6, <2>7, <2>8, <2>9, <2>10, <2>11, <2>12, <2>13, <2>14
              DEF Next, dummy_main, process_scheduler
<1> QED
  BY <1>1, <1>2, TypeCorrect, PTL DEF Spec

-----------------------------------------------------------------------------
\* Holding is a finite set, whatever the state.
LEMMA HoldingFinite == IsFiniteSet(Holding) /\ Cardinality(Holding) \in Nat
<1>1. Holding \subseteq Scheduler
  BY DEF Holding, In
<1> QED
  BY <1>1, SchedulerAssumption, FS_Subset, FS_CardinalityType

\* A scheduler that goes from outside into the states of S adds one to their
\* number, one that leaves them subtracts one, any other step neither.
LEMMA InMoves ==
    ASSUME TypeOK, NEW g \in Scheduler, NEW from, NEW to \in PC, goto(g, from, to), NEW S
    PROVE  LET n == Cardinality(In(S)) IN
           /\ n \in Nat
           /\ from \notin S /\ to \in S => Cardinality(In(S)') = n + 1
           /\ from \in S /\ to \notin S => Cardinality(In(S)') = n - 1
           /\ (from \in S <=> to \in S) => Cardinality(In(S)') = n
<1>1. pc[g] = from /\ pc'[g] = to /\ \A h \in Scheduler \ {g} : pc'[h] = pc[h]
  BY GotoType
<1>2. IsFiniteSet(In(S)) /\ Cardinality(In(S)) \in Nat
  <2>1. In(S) \subseteq Scheduler
    BY DEF In
  <2> QED  BY <2>1, SchedulerAssumption, FS_Subset, FS_CardinalityType
<1>3. ASSUME from \notin S, to \in S PROVE Cardinality(In(S)') = Cardinality(In(S)) + 1
  <2>1. In(S)' = In(S) \cup {g} /\ g \notin In(S)
    BY <1>1, <1>3 DEF In
  <2> QED  BY <1>2, <2>1, FS_AddElement
<1>4. ASSUME from \in S, to \notin S PROVE Cardinality(In(S)') = Cardinality(In(S)) - 1
  <2>1. In(S)' = In(S) \ {g} /\ g \in In(S)
    BY <1>1, <1>4 DEF In
  <2> QED  BY <1>2, <2>1, FS_RemoveElement
<1>5. ASSUME from \in S <=> to \in S PROVE Cardinality(In(S)') = Cardinality(In(S))
  <2>1. In(S)' = In(S)
    BY <1>1, <1>5 DEF In
  <2> QED  BY <2>1
<1> QED
  BY <1>2, <1>3, <1>4, <1>5

LEMMA HoldingMoves ==
    ASSUME TypeOK, NEW g \in Scheduler, NEW from, NEW to \in PC, goto(g, from, to)
    PROVE  LET S == Batch \cup {"post_full"}
               n == Cardinality(Holding) IN
           /\ from \notin S /\ to \in S => Cardinality(Holding)' = n + 1
           /\ from \in S /\ to \notin S => Cardinality(Holding)' = n - 1
           /\ (from \in S <=> to \in S) => Cardinality(Holding)' = n
BY InMoves DEF Holding

\* SemaphoreAccounting holds in every reachable state: no unit of the two
\* counting semaphores is ever created, and without Ctrl-C none is lost.
THEOREM AccountingCorrect == Spec => []SemaphoreAccounting
<1> DEFINE total == sem["empty"] + sem["full"] + Cardinality(Holding)
<1>1. Init => SemaphoreAccounting
  <2> SUFFICES ASSUME Init PROVE SemaphoreAccounting
    OBVIOUS
  <2>1. Holding = {}
    BY DEF Init, Holding, In, Batch
  <2>2. Cardinality(Holding) = 0
    BY <2>1, FS_EmptySet
  <2>3. sem["empty"] = MAX_PROCESSES /\ sem["full"] = 0
    BY DEF Init, created_sem, SemName
  <2> QED  BY <2>2, <2>3, CapacityAssumption DEF SemaphoreAccounting
<1>2. TypeOK /\ SemaphoreAccounting /\ [Next]_vars => SemaphoreAccounting'
  <2> SUFFICES ASSUME TypeOK, SemaphoreAccounting, [Next]_vars
               PROVE  SemaphoreAccounting'
    OBVIOUS
  <2> USE DEF shellVars, jobVars
  <2>1. /\ sem["empty"] \in Nat /\ sem["full"] \in Nat
        /\ Cardinality(Holding) \in Nat /\ session \in Nat \ {0}
    BY HoldingFinite DEF TypeOK, SemName
  <2>2. ASSUME total' = total, session' = session PROVE SemaphoreAccounting'
    BY <2>2 DEF SemaphoreAccounting
  <2>3. ASSUME UNCHANGED <<pc, sem, session>> PROVE SemaphoreAccounting'
    <3>1. Holding' = Holding
      BY <2>3 DEF Holding, In
    <3> QED  BY <2>2, <2>3, <3>1
  <2>4. ASSUME NEW g \in Scheduler, NEW from, NEW to \in PC, goto(g, from, to),
               from \in Batch \cup {"post_full"} <=> to \in Batch \cup {"post_full"},
               sem'["empty"] = sem["empty"], sem'["full"] = sem["full"],
               session' = session
        PROVE  SemaphoreAccounting'
    BY <2>2, <2>4, HoldingMoves
  <2>5. ASSUME NEW p \in Process, process_submit(p) \/ kill_self_SIGSTOP(p) \/ exits(p)
        PROVE  SemaphoreAccounting'
    BY <2>3, <2>5 DEF process_submit, kill_self_SIGSTOP, exits
  <2>6. ASSUME NEW g \in Scheduler, sched(g) \/ sched_without_grandchild(g)
        PROVE  SemaphoreAccounting'
    <3>1. goto(g, "idle", dummy_main_entry) /\ UNCHANGED <<sem, session>>
      BY <2>6 DEF sched, sched_without_grandchild
    <3> QED  BY <2>4, <3>1, EntryType DEF PC, Batch
  <2>7. ASSUME NEW g \in Scheduler, sem_open(g) \/ sem_open_fails(g) \/ loop_test(g)
        PROVE  SemaphoreAccounting'
    BY <2>4, <2>7 DEF sem_open, sem_open_fails, loop_test, PC, Batch
  <2>8. ASSUME NEW g \in Scheduler, wait_empty(g) \/ wait_full(g)
        PROVE  SemaphoreAccounting'
    <3>1. Cardinality(Holding)' = Cardinality(Holding) + 1
      BY <2>8, HoldingMoves DEF wait_empty, wait_full, PC, Batch
    <3>2. sem'["empty"] + sem'["full"] = sem["empty"] + sem["full"] - 1
      BY <2>1, <2>8, SemType DEF wait_empty, wait_full, SemName
    <3>3. total' = total
      BY <2>1, <3>1, <3>2, SemType DEF TypeOK
    <3> QED  BY <2>2, <2>8, <3>3 DEF wait_empty, wait_full
  <2>9. ASSUME NEW g \in Scheduler, post_full(g) \/ post_empty(g)
        PROVE  SemaphoreAccounting'
    <3>1. Cardinality(Holding)' = Cardinality(Holding) - 1
      BY <2>9, HoldingMoves DEF post_full, post_empty, PC, Batch
    <3>2. sem'["empty"] + sem'["full"] = sem["empty"] + sem["full"] + 1
      BY <2>1, <2>9, SemType DEF post_full, post_empty, SemName
    <3>3. total' = total
      BY <2>1, <3>1, <3>2
    <3> QED  BY <2>2, <2>9, <3>3 DEF post_full, post_empty
  <2>10. ASSUME NEW g \in Scheduler,
                lock_start(g) \/ unlock_start(g) \/ lock_handle(g) \/ unlock_handle(g)
         PROVE  SemaphoreAccounting'
    <3>1. sem'["empty"] = sem["empty"] /\ sem'["full"] = sem["full"]
      BY <2>10, SemType
         DEF lock_start, unlock_start, lock_handle, unlock_handle, SemName
    <3> QED  BY <2>4, <2>10, <3>1
                DEF lock_start, unlock_start, lock_handle, unlock_handle, PC, Batch
  <2>11. ASSUME NEW g \in Scheduler, start_process(g) PROVE SemaphoreAccounting'
    BY <2>3, <2>11 DEF start_process
  <2>12. CASE sigint
    <3>1. Holding' = {}
      BY <2>12 DEF sigint, Holding, In, Batch
    <3>2. Cardinality(Holding)' = 0
      BY <3>1, FS_EmptySet
    <3>3. sem' = sem /\ session' = session + 1
      BY <2>12 DEF sigint
    <3> QED  BY <2>1, <3>2, <3>3, CapacityAssumption DEF SemaphoreAccounting
  <2>13. CASE UNCHANGED vars
    BY <2>3, <2>13 DEF vars
  <2> QED  BY <2>5, <2>6, <2>7, <2>8, <2>9, <2>10, <2>11, <2>12, <2>13
              DEF Next, dummy_main, process_scheduler
<1> QED
  BY <1>1, <1>2, TypeCorrect, PTL DEF Spec

-----------------------------------------------------------------------------
\* DroppedOnlyWhenFull holds in every reachable state: no step takes an entry
\* out of the shell's queue, and process_submit drops only at the capacity.
THEOREM DropsOnlyWhenFull == Spec => []DroppedOnlyWhenFull
<1> DEFINE q == ready_run_queue
           queued == Range(Contents(q))
<1>1. Init => DroppedOnlyWhenFull
  BY DEF Init, DroppedOnlyWhenFull
<1>2. TypeOK /\ DroppedOnlyWhenFull /\ [Next]_vars => DroppedOnlyWhenFull'
  <2> SUFFICES ASSUME TypeOK, DroppedOnlyWhenFull, [Next]_vars
               PROVE  DroppedOnlyWhenFull'
    OBVIOUS
  <2> USE DEF shellVars, jobVars
  <2>1. ASSUME q' = q,
               \A p \in Process : proc'[p] \in {"forked", "stopped"}
                                   => proc[p] \in {"forked", "stopped"}
        PROVE  DroppedOnlyWhenFull'
    BY <2>1 DEF DroppedOnlyWhenFull
  <2>2. ASSUME NEW p \in Process, process_submit(p) PROVE DroppedOnlyWhenFull'
    <3>1. CASE q.size = MAX_PROCESSES
      <4>1. q' = q
        BY <2>2, <3>1 DEF process_submit, add_to_queue
      <4> QED  BY <3>1, <4>1 DEF DroppedOnlyWhenFull
    <3>2. CASE q.size # MAX_PROCESSES
      <4>1. Contents(q)' = Append(Contents(q), p) /\ Contents(q) \in Seq(Process)
        BY <2>2, <3>2, AddAppends, ContentsIsSeq DEF process_submit, TypeOK
      <4>2. queued' = queued \cup {p}
        BY <4>1 DEF Range
      <4>3. \A r \in Process \ {p} : proc'[r] = proc[r]
        BY <2>2 DEF process_submit, TypeOK
      <4> QED  BY <3>2, <4>2, <4>3 DEF DroppedOnlyWhenFull
    <3> QED  BY <3>1, <3>2
  <2>3. ASSUME NEW p \in Process, kill_self_SIGSTOP(p) \/ exits(p)
        PROVE  DroppedOnlyWhenFull'
    BY <2>1, <2>3 DEF kill_self_SIGSTOP, exits, TypeOK
  <2>4. ASSUME NEW g \in Scheduler, sched(g) \/ sched_without_grandchild(g)
        PROVE  DroppedOnlyWhenFull'
    BY <2>1, <2>4 DEF sched, sched_without_grandchild
  <2>5. ASSUME NEW g \in Scheduler, start_process(g) PROVE DroppedOnlyWhenFull'
    BY <2>1, <2>5 DEF start_process, SIGCONT, TypeOK
  <2>6. ASSUME NEW g \in Scheduler, dummy_main(g), ~ start_process(g)
        PROVE  DroppedOnlyWhenFull'
    BY <2>1, <2>6
       DEF dummy_main, process_scheduler, sem_open, sem_open_fails, wait_empty,
           post_full, loop_test, wait_full, lock_start, unlock_start, lock_handle,
           post_empty, unlock_handle
  <2>7. CASE sigint
    BY <2>7 DEF sigint, DroppedOnlyWhenFull
  <2>8. CASE UNCHANGED vars
    BY <2>1, <2>8 DEF vars
  <2> QED  BY <2>2, <2>3, <2>4, <2>5, <2>6, <2>7, <2>8 DEF Next
<1> QED
  BY <1>1, <1>2, TypeCorrect, PTL DEF Spec
-----------------------------------------------------------------------------
(* The order of the SIGCONTs.  rear of a copy never moves, so what the copy *)
(* has given away is the difference of its rear and its size, and the k-th  *)
(* job of the session was continued once by each scheduler that has given   *)
(* away more than k jobs.                                                   *)

Removed(g)    == queue[g].rear + 1 - queue[g].size
HasRemoved(k) == {g \in Scheduler : Removed(g) > k}
Jobs     == 0 .. ready_run_queue.size - 1
JobAt(k) == ready_run_queue.processes[k]

\* The shell's queue holds the session's jobs in the order of their submission,
\* each once.
ShellQueue ==
    /\ ready_run_queue.front = 0 /\ ready_run_queue.rear = ready_run_queue.size - 1
    /\ \A k \in Jobs : JobAt(k) \in Process /\ proc[JobAt(k)] # "none"
    /\ \A k, l \in Jobs : JobAt(k) = JobAt(l) => k = l
    /\ \A p \in Process : proc[p] = "none" => conts[p] = 0

\* A scheduler's copy is a prefix of the shell's queue with some jobs removed.
Copies ==
    \A g \in Scheduler :
        /\ Removed(g) >= 0
        /\ queue[g].rear <= ready_run_queue.rear
        /\ queue[g].size > 0 => queue[g].front = Removed(g)
        /\ \A k \in 0 .. queue[g].rear : queue[g].processes[k] = JobAt(k)
        /\ pc[g] = "idle" => Removed(g) = 0

Counts == \A k \in Jobs : conts[JobAt(k)] = Cardinality(HasRemoved(k))

OrderInv == ShellQueue /\ Copies /\ Counts

\* A queue from which nothing was removed is filled from slot 0 upwards.
LEMMA AddAtEnd ==
    ASSUME NEW q, WellFormed(q), q.rear = q.size - 1, q.size # MAX_PROCESSES, NEW p
    PROVE  LET a == add_to_queue(q, p) IN
           /\ a.front = q.front /\ a.rear = q.size /\ a.size = q.size + 1
           /\ q.size \in Slot /\ a.processes = [q.processes EXCEPT ![q.size] = p]
<1>1. q \in Queue /\ q.size \in Nat /\ q.size < MAX_PROCESSES
  BY CapacityAssumption DEF WellFormed, Queue
<1>2. (q.rear + 1) % MAX_PROCESSES = q.size /\ q.size \in Slot
  <2>1. q.rear + 1 = q.size /\ q.size \in 0 .. 2 * MAX_PROCESSES - 1
    BY <1>1, CapacityAssumption
  <2> QED  BY <1>1, <2>1, ModSmall, CapacityAssumption DEF Slot
<1> QED
  BY <1>1, <1>2 DEF add_to_queue, Queue

\* Removing moves front and changes neither the array nor rear.
LEMMA RemoveFields ==
    ASSUME NEW q, WellFormed(q), q.size # 0
    PROVE  LET r == remove_from_queue(q) IN
           /\ r.processes = q.processes /\ r.rear = q.rear /\ r.size = q.size - 1
           /\ q.front + 1 < MAX_PROCESSES => r.front = q.front + 1
<1>1. q \in Queue /\ q.front \in 0 .. MAX_PROCESSES - 1
  BY DEF WellFormed, Queue, Slot
<1>2. q.front + 1 < MAX_PROCESSES => (q.front + 1) % MAX_PROCESSES = q.front + 1
  <2>1. q.front + 1 \in 0 .. 2 * MAX_PROCESSES - 1
    BY <1>1, CapacityAssumption
  <2> QED  BY <2>1, ModSmall
<1> QED
  BY <1>1, <1>2 DEF remove_from_queue, is_queue_empty, Queue

\* The numbers of a queue are integers in range.
LEMMA QueueNumbers ==
    ASSUME TypeOK
    PROVE  /\ ready_run_queue.size \in 0 .. MAX_PROCESSES
           /\ ready_run_queue.processes \in [Slot -> Process \cup {blank_process}]
           /\ MAX_PROCESSES \in Nat \ {0}
           /\ \A g \in Scheduler :
                 /\ queue[g].size \in 0 .. MAX_PROCESSES /\ queue[g].front \in Slot
                 /\ queue[g].rear \in -1 .. MAX_PROCESSES - 1
                 /\ Removed(g) \in Int
<1>1. ready_run_queue \in Queue /\ \A g \in Scheduler : queue[g] \in Queue
  BY DEF TypeOK, WellFormed
<1>2. ASSUME NEW g \in Scheduler
      PROVE  /\ queue[g].size \in 0 .. MAX_PROCESSES /\ queue[g].front \in Slot
             /\ queue[g].rear \in -1 .. MAX_PROCESSES - 1
  BY <1>1, CapacityAssumption DEF Queue, Slot
<1>3. ASSUME NEW g \in Scheduler PROVE Removed(g) \in Int
  BY <1>2, CapacityAssumption DEF Removed
<1> QED
  BY <1>1, <1>2, <1>3, CapacityAssumption DEF Queue

\* The schedulers that have given away more than k jobs are finitely many.
LEMMA HasRemovedFinite ==
    ASSUME NEW k
    PROVE  IsFiniteSet(HasRemoved(k)) /\ Cardinality(HasRemoved(k)) \in Nat
<1>1. HasRemoved(k) \subseteq Scheduler
  BY DEF HasRemoved
<1> QED
  BY <1>1, SchedulerAssumption, FS_Subset, FS_CardinalityType

\* A step that leaves the queues and conts alone, marks no job as "none" and
\* sends no scheduler back to "idle" keeps OrderInv.
LEMMA OrderKept ==
    ASSUME OrderInv, UNCHANGED <<ready_run_queue, queue, conts>>,
           \A p \in Process : proc'[p] = "none" <=> proc[p] = "none",
           \A g \in Scheduler : pc'[g] = "idle" => pc[g] = "idle"
    PROVE  OrderInv'
<1>1. \A g \in Scheduler : Removed(g)' = Removed(g)
  BY DEF Removed
<1>2. \A k \in Jobs : HasRemoved(k)' = HasRemoved(k) /\ JobAt(k)' = JobAt(k)
  BY DEF HasRemoved, JobAt, Removed
<1>3. ShellQueue'
  BY DEF OrderInv, ShellQueue, Jobs, JobAt
<1>4. Copies'
  BY <1>1 DEF OrderInv, Copies, JobAt
<1>5. Counts'
  BY <1>2 DEF OrderInv, Counts, Jobs
<1> QED
  BY <1>3, <1>4, <1>5 DEF OrderInv

LEMMA OrderSubmit ==
    ASSUME TypeOK, OrderInv, NEW p \in Process, process_submit(p)
    PROVE  OrderInv'
<1> DEFINE q == ready_run_queue
<1> USE DEF shellVars, jobVars
<1>1. PICK n \in Nat : n = ready_run_queue.size
  BY QueueNumbers
<1>2. /\ proc[p] = "none" /\ proc' = [proc EXCEPT ![p] = "forked"]
      /\ q' = add_to_queue(q, p) /\ UNCHANGED <<conts, pc, queue>>
      /\ proc \in [Process -> Job]
  BY DEF process_submit, TypeOK
<1>3. CASE n = MAX_PROCESSES
  <2>1. q' = q
    BY <1>2, <1>3, <1>1 DEF add_to_queue
  <2>2. ShellQueue'
    BY <1>2, <2>1 DEF OrderInv, ShellQueue, Jobs, JobAt
  <2>3. Copies' /\ Counts'
    BY <1>2, <2>1 DEF OrderInv, Copies, Counts, Jobs, JobAt, HasRemoved, Removed
  <2> QED  BY <2>2, <2>3 DEF OrderInv
<1>4. CASE n # MAX_PROCESSES
  <2>1. /\ q'.front = 0 /\ q'.rear = n /\ q'.size = n + 1 /\ n \in Slot /\ n \in Nat
        /\ q'.processes = [q.processes EXCEPT ![n] = p]
    <3>1. WellFormed(q) /\ q.front = 0 /\ q.rear = q.size - 1
      BY DEF OrderInv, ShellQueue, TypeOK
    <3> QED  BY <1>2, <1>4, <1>1, <3>1, AddAtEnd DEF Slot
  <2>2. /\ JobAt(n)' = p /\ \A k \in Jobs : JobAt(k)' = JobAt(k) /\ k \in Int
        /\ Jobs' = Jobs \cup {n} /\ n \notin Jobs
    BY <1>1, <2>1, QueueNumbers DEF JobAt, Jobs, Slot
  <2>3. \A k \in Jobs : JobAt(k) # p
    BY <1>2 DEF OrderInv, ShellQueue
  <2>4. ShellQueue'
    <3>1. /\ \A k \in Jobs' : JobAt(k)' \in Process /\ proc'[JobAt(k)'] # "none"
          /\ \A k, l \in Jobs' : JobAt(k)' = JobAt(l)' => k = l
      BY <1>2, <2>2, <2>3 DEF OrderInv, ShellQueue
    <3>2. \A r \in Process : proc'[r] = "none" => conts'[r] = 0
      BY <1>2 DEF OrderInv, ShellQueue
    <3> QED  BY <2>1, <3>1, <3>2 DEF ShellQueue
  <2>5. ASSUME NEW g \in Scheduler
        PROVE  /\ Removed(g)' = Removed(g) /\ Removed(g) <= n
               /\ \A k \in 0 .. queue[g].rear : JobAt(k)' = JobAt(k)
    <3>1. queue[g].rear <= n - 1 /\ queue[g].rear \in Int /\ queue[g].size \in Nat
      BY <1>1, <2>1, QueueNumbers DEF OrderInv, Copies, ShellQueue
    <3>2. \A k \in 0 .. queue[g].rear : k \in Jobs
      BY <1>1, <2>1, <3>1 DEF Jobs
    <3> QED  BY <1>2, <2>1, <2>2, <3>1, <3>2 DEF Removed
  <2>6. Copies'
    <3>1. \A g \in Scheduler : queue[g].rear <= n
      BY <1>1, <2>1, QueueNumbers DEF OrderInv, Copies, ShellQueue
    <3> QED  BY <1>2, <2>1, <2>5, <3>1 DEF OrderInv, Copies
  <2>7. Counts'
    <3>1. \A k \in Jobs : HasRemoved(k)' = HasRemoved(k)
      BY <2>5 DEF HasRemoved
    <3>2. HasRemoved(n)' = {}
      BY <2>1, <2>5, QueueNumbers DEF HasRemoved
    <3>3. conts'[p] = Cardinality(HasRemoved(n)')
      BY <1>2, <3>2, FS_EmptySet DEF OrderInv, ShellQueue
    <3>4. \A k \in Jobs : conts'[JobAt(k)'] = Cardinality(HasRemoved(k)')
      BY <1>2, <2>2, <3>1 DEF OrderInv, Counts
    <3> QED  BY <2>2, <3>3, <3>4 DEF Counts
  <2> QED  BY <2>4, <2>6, <2>7 DEF OrderInv
<1> QED
  BY <1>3, <1>4

LEMMA OrderStart ==
    ASSUME TypeOK, OrderInv, NEW g \in Scheduler, start_process(g)
    PROVE  OrderInv'
<1> DEFINE q == queue[g]
           p == removed_process(queue[g])
<1> USE DEF shellVars, jobVars
<1>1. PICK n \in Int : n = Removed(g)
  BY QueueNumbers
<1>2. /\ pc[g] = "start" /\ q.size # 0
      /\ queue' = [queue EXCEPT ![g] = remove_from_queue(q)]
      /\ proc' = SIGCONT(p) /\ conts' = [conts EXCEPT ![p] = @ + 1]
      /\ UNCHANGED <<ready_run_queue, pc>>
  BY DEF start_process, batch_left, is_queue_empty
<1>3. /\ q.size \in Nat /\ q.rear \in Int /\ q.front \in Int /\ n \in Nat
      /\ q.rear <= MAX_PROCESSES - 1 /\ MAX_PROCESSES \in Nat /\ WellFormed(q)
      /\ q.front = n /\ n = q.rear + 1 - q.size
  <2>1. q.size \in 0 .. MAX_PROCESSES /\ q.front \in Slot /\ q.rear \in -1 .. MAX_PROCESSES - 1
    BY QueueNumbers
  <2>2. n = q.rear + 1 - q.size
    BY <1>1 DEF Removed
  <2>3. n >= 0 /\ q.front = n
    BY <1>2, <1>1, <2>1 DEF OrderInv, Copies
  <2> QED  BY <2>1, <2>2, <2>3, CapacityAssumption DEF Slot, TypeOK
<1>4. n <= q.rear
  BY <1>2, <1>3
<1>5. p = JobAt(n) /\ n \in Jobs /\ p \in Process
  <2>1. p = q.processes[n]
    BY <1>2, <1>3 DEF removed_process, is_queue_empty
  <2>2. q.processes[n] = JobAt(n)
    BY <1>3, <1>4 DEF OrderInv, Copies
  <2>3. n \in Jobs
    <3>1. q.rear <= ready_run_queue.size - 1
      BY DEF OrderInv, Copies, ShellQueue
    <3> QED  BY <1>3, <1>4, <3>1, QueueNumbers DEF Jobs
  <2> QED  BY <2>1, <2>2, <2>3 DEF OrderInv, ShellQueue
<1>6. /\ queue'[g].processes = q.processes /\ queue'[g].rear = q.rear
      /\ queue'[g].size = q.size - 1
      /\ n + 1 < MAX_PROCESSES => queue'[g].front = n + 1
      /\ \A h \in Scheduler \ {g} : queue'[h] = queue[h]
  <2>1. queue'[g] = remove_from_queue(q) /\ \A h \in Scheduler \ {g} : queue'[h] = queue[h]
    BY <1>2 DEF TypeOK
  <2> QED  BY <1>2, <1>3, <2>1, RemoveFields
<1>7. Removed(g)' = n + 1 /\ \A h \in Scheduler \ {g} : Removed(h)' = Removed(h)
  BY <1>3, <1>6 DEF Removed
<1>8. \A r \in Process : proc'[r] = "none" <=> proc[r] = "none"
  BY <1>2 DEF SIGCONT, TypeOK
<1>9. /\ \A r \in Process : r # p => conts'[r] = conts[r]
      /\ conts'[p] = conts[p] + 1
  BY <1>2, <1>5 DEF TypeOK
<1>10. ShellQueue'
  <2>1. proc[p] # "none"
    BY <1>5 DEF OrderInv, ShellQueue
  <2>2. \A r \in Process : proc'[r] = "none" => conts'[r] = 0
    BY <1>8, <1>9, <2>1 DEF OrderInv, ShellQueue
  <2> QED  BY <1>2, <1>8, <2>2 DEF OrderInv, ShellQueue, Jobs, JobAt
<1>11. Copies'
  <2>1. queue'[g].size > 0 => n + 1 < MAX_PROCESSES
    BY <1>3, <1>6
  <2>2. /\ Removed(g)' >= 0 /\ queue'[g].rear <= ready_run_queue.rear
        /\ queue'[g].size > 0 => queue'[g].front = Removed(g)'
        /\ \A k \in 0 .. queue'[g].rear : queue'[g].processes[k] = JobAt(k)
    BY <1>3, <1>6, <1>7, <2>1 DEF OrderInv, Copies
  <2>3. ASSUME NEW h \in Scheduler, h # g
        PROVE  /\ Removed(h)' >= 0 /\ queue'[h].rear <= ready_run_queue.rear
               /\ queue'[h].size > 0 => queue'[h].front = Removed(h)'
               /\ \A k \in 0 .. queue'[h].rear : queue'[h].processes[k] = JobAt(k)
               /\ pc[h] = "idle" => Removed(h)' = 0
    BY <1>6, <1>7, <2>3 DEF OrderInv, Copies
  <2> QED  BY <1>2, <2>2, <2>3 DEF Copies, JobAt
<1>12. Counts'
  <2>1. ASSUME NEW k \in Jobs, k # n PROVE HasRemoved(k)' = HasRemoved(k)
    <3>1. k \in Int /\ (n + 1 > k <=> n > k)
      BY <1>3, <2>1 DEF Jobs
    <3>2. \A h \in Scheduler : Removed(h)' > k <=> Removed(h) > k
      BY <1>7, <1>1, <3>1
    <3> QED  BY <3>2 DEF HasRemoved
  <2>2. Cardinality(HasRemoved(n)') = Cardinality(HasRemoved(n)) + 1
    <3>1. HasRemoved(n)' = HasRemoved(n) \cup {g} /\ g \notin HasRemoved(n)
      <4>1. \A h \in Scheduler : h # g => (Removed(h)' > n <=> Removed(h) > n)
        BY <1>7
      <4>2. Removed(g)' > n /\ ~ (Removed(g) > n)
        BY <1>7, <1>1
      <4> QED  BY <4>1, <4>2 DEF HasRemoved
    <3> QED  BY <3>1, HasRemovedFinite, FS_AddElement
  <2>3. ASSUME NEW k \in Jobs PROVE conts'[JobAt(k)] = Cardinality(HasRemoved(k)')
    <3>1. CASE k = n
      BY <1>5, <1>9, <2>2, <3>1 DEF OrderInv, Counts
    <3>2. CASE k # n
      <4>1. JobAt(k) # p /\ JobAt(k) \in Process
        BY <1>5, <3>2 DEF OrderInv, ShellQueue
      <4> QED  BY <1>9, <2>1, <3>2, <4>1 DEF OrderInv, Counts
    <3> QED  BY <3>1, <3>2
  <2> QED  BY <1>2, <2>3 DEF Counts, Jobs, JobAt
<1> QED
  BY <1>10, <1>11, <1>12 DEF OrderInv
LEMMA OrderInductive == TypeOK /\ OrderInv /\ [Next]_vars => OrderInv'
<1> SUFFICES ASSUME TypeOK, OrderInv, [Next]_vars PROVE OrderInv'
  OBVIOUS
<1> USE DEF shellVars, jobVars
<1>1. ASSUME NEW p \in Process, kill_self_SIGSTOP(p) \/ exits(p) PROVE OrderInv'
  BY <1>1, OrderKept DEF kill_self_SIGSTOP, exits, TypeOK
<1>2. ASSUME NEW g \in Scheduler, sched(g) \/ sched_without_grandchild(g)
      PROVE  OrderInv'
  <2>1. /\ pc[g] = "idle" /\ queue' = [queue EXCEPT ![g] = ready_run_queue]
        /\ UNCHANGED <<ready_run_queue, proc, conts>>
        /\ \A h \in Scheduler : pc'[h] = "idle" => pc[h] = "idle"
    BY <1>2, EntryType DEF sched, sched_without_grandchild, goto, TypeOK
  <2>2. queue'[g] = ready_run_queue /\ \A h \in Scheduler \ {g} : queue'[h] = queue[h]
    BY <2>1 DEF TypeOK
  <2>3. Removed(g)' = 0 /\ Removed(g) = 0
    BY <2>1, <2>2, QueueNumbers DEF OrderInv, ShellQueue, Copies, Removed
  <2>4. \A h \in Scheduler : Removed(h)' = Removed(h)
    BY <2>2, <2>3 DEF Removed
  <2>5. ShellQueue'
    BY <2>1 DEF OrderInv, ShellQueue, Jobs, JobAt
  <2>6. Copies'
    BY <2>1, <2>2, <2>3, <2>4, QueueNumbers DEF OrderInv, ShellQueue, Copies, JobAt
  <2>7. Counts'
    <3>1. \A k \in Jobs : HasRemoved(k)' = HasRemoved(k)
      BY <2>4 DEF HasRemoved
    <3> QED  BY <2>1, <3>1 DEF OrderInv, Counts, Jobs, JobAt
  <2> QED  BY <2>5, <2>6, <2>7 DEF OrderInv
<1>3. ASSUME NEW g \in Scheduler, dummy_main(g), ~ start_process(g)
      PROVE  OrderInv'
  <2>1. UNCHANGED <<ready_run_queue, queue, proc, conts>>
    BY <1>3 DEF dummy_main, process_scheduler, sem_open, sem_open_fails, wait_empty,
                post_full, loop_test, wait_full, lock_start, unlock_start, lock_handle,
                post_empty, unlock_handle
  <2>2. PICK from, to \in PC : goto(g, from, to) /\ to # "idle"
    BY <1>3 DEF dummy_main, process_scheduler, sem_open, sem_open_fails, wait_empty,
                post_full, loop_test, wait_full, lock_start, unlock_start, lock_handle,
                post_empty, unlock_handle, PC, Batch
  <2>3. \A h \in Scheduler : pc'[h] = "idle" => pc[h] = "idle"
    BY <2>2, GotoType
  <2> QED  BY <2>1, <2>3, OrderKept
<1>4. CASE sigint
  <2>1. /\ ready_run_queue' = EmptyQueue /\ conts' = conts
        /\ \A g \in Scheduler : queue'[g] = EmptyQueue
        /\ \A p \in Process : proc'[p] = "none" <=> proc[p] = "none"
    BY <1>4 DEF sigint
  <2>2. \A g \in Scheduler : Removed(g)' = 0
    BY <2>1 DEF Removed, EmptyQueue
  <2>3. Jobs' = {}
    BY <2>1 DEF Jobs, EmptyQueue
  <2>4. ShellQueue'
    BY <2>1, <2>3 DEF OrderInv, ShellQueue, EmptyQueue
  <2>5. Copies'
    BY <2>1, <2>2 DEF Copies, EmptyQueue
  <2> QED  BY <2>3, <2>4, <2>5 DEF OrderInv, Counts
<1>5. CASE UNCHANGED vars
  BY <1>5, OrderKept DEF vars
<1> QED
  BY <1>1, <1>2, <1>3, <1>4, <1>5, OrderSubmit, OrderStart DEF Next

\* SubmissionOrder holds in every reachable state: however many schedulers run
\* on copies of the queue of whatever age, a process has never been continued
\* more often than one that was submitted before it.
THEOREM OrderCorrect == Spec => []SubmissionOrder
<1>1. Init => OrderInv
  <2> SUFFICES ASSUME Init PROVE OrderInv
    OBVIOUS
  <2>1. Jobs = {} /\ \A g \in Scheduler : Removed(g) = 0
    BY DEF Init, Jobs, Removed, EmptyQueue
  <2> QED  BY <2>1 DEF Init, OrderInv, ShellQueue, Copies, Counts, EmptyQueue
<1>2. TypeOK /\ OrderInv => SubmissionOrder
  <2> SUFFICES ASSUME TypeOK, OrderInv,
                      NEW a \in DOMAIN Contents(ready_run_queue),
                      NEW b \in DOMAIN Contents(ready_run_queue), a < b
               PROVE  conts[Contents(ready_run_queue)[a]] >= conts[Contents(ready_run_queue)[b]]
    BY DEF SubmissionOrder
  <2>1. ASSUME NEW k \in DOMAIN Contents(ready_run_queue)
        PROVE  /\ k \in Int /\ k - 1 \in Jobs
               /\ Contents(ready_run_queue)[k] = JobAt(k - 1)
    <3>1. k \in 1 .. ready_run_queue.size
      BY DEF Contents
    <3>2. SlotOf(ready_run_queue, k - 1) = k - 1
      <4>1. ready_run_queue \in Queue /\ ready_run_queue.front = 0
        BY DEF OrderInv, ShellQueue, TypeOK, WellFormed
      <4>2. k - 1 \in 0 .. MAX_PROCESSES - 1
        BY <3>1, QueueNumbers
      <4> QED  BY <4>1, <4>2, SlotValue, QueueNumbers
    <3> QED  BY <3>1, <3>2, QueueNumbers DEF Contents, Jobs, JobAt
  <2>2. HasRemoved(b - 1) \subseteq HasRemoved(a - 1)
    <3>1. a - 1 \in Int /\ b - 1 \in Int /\ a - 1 < b - 1
      BY <2>1
    <3>2. \A g \in Scheduler : Removed(g) > b - 1 => Removed(g) > a - 1
      BY <3>1, QueueNumbers
    <3> QED  BY <3>2 DEF HasRemoved
  <2>3. /\ Cardinality(HasRemoved(b - 1)) <= Cardinality(HasRemoved(a - 1))
        /\ Cardinality(HasRemoved(b - 1)) \in Nat /\ Cardinality(HasRemoved(a - 1)) \in Nat
    BY <2>2, HasRemovedFinite, FS_Subset
  <2>4. /\ conts[JobAt(a - 1)] = Cardinality(HasRemoved(a - 1))
        /\ conts[JobAt(b - 1)] = Cardinality(HasRemoved(b - 1))
    BY <2>1 DEF OrderInv, Counts
  <2> QED  BY <2>1, <2>3, <2>4
<1> QED
  BY <1>1, <1>2, OrderInductive, TypeCorrect, PTL DEF Spec
-----------------------------------------------------------------------------
(* The number of SIGCONTs.  Each sched command brings in one unit, worth a  *)
(* batch of ncpu SIGCONTs; the unit waits with the scheduler, then in       *)
(* itemsFull, then with the scheduler that takes it, and is spent by the    *)
(* one that is in start_processes, of which there is only one.              *)

BatchSize == IF ncpu <= 0 THEN 0 ELSE ncpu
Waiting   == {"open", "wait_empty", "post_full", "lock_start"}
Started   == {g \in Scheduler : pc[g] # "idle"}
Sent      == SumOf(conts, Process)
Unspent   == sem["full"] + Cardinality(In(Waiting))

\* The SIGCONTs that were paid for and are neither sent nor in an unspent unit.
Budget == BatchSize * Cardinality(Started) - BatchSize * Unspent - Sent

BatchInv ==
    /\ Budget >= 0
    /\ \A g \in Scheduler : pc[g] = "start" => Budget >= BatchSize - i[g]

LEMMA Multiples ==
    ASSUME NEW n \in Nat, NEW a \in Int
    PROVE  /\ n * a \in Int /\ n * (a + 1) = n * a + n /\ n * (a - 1) = n * a - n
           /\ a >= 0 => n * a >= 0
OBVIOUS

LEMMA BudgetType ==
    ASSUME TypeOK
    PROVE  /\ BatchSize \in Nat /\ Cardinality(Started) \in Nat /\ Unspent \in Nat
           /\ sem["full"] \in Nat /\ Cardinality(In(Waiting)) \in Nat
           /\ Sent \in Nat /\ Budget \in Int
           /\ \A g \in Scheduler : i[g] \in Nat
<1>1. BatchSize \in Nat
  BY NcpuAssumption DEF BatchSize
<1>2. Cardinality(Started) \in Nat /\ Cardinality(In(Waiting)) \in Nat
  <2>1. Started \subseteq Scheduler /\ In(Waiting) \subseteq Scheduler
    BY DEF Started, In
  <2> QED  BY <2>1, SchedulerAssumption, FS_Subset, FS_CardinalityType
<1>3. sem["full"] \in Nat /\ Unspent \in Nat
  BY <1>2 DEF TypeOK, SemName, Unspent
<1>4. Sent \in Nat
  BY JobAssumption, SumLaws DEF TypeOK, Sent
<1>5. Budget \in Int
  BY <1>1, <1>2, <1>3, <1>4, Multiples DEF Budget
<1> QED
  BY <1>1, <1>2, <1>3, <1>4, <1>5 DEF TypeOK

\* What a step of one scheduler does to the budget: a unit that is neither
\* brought in nor moved from one place to another is given up.
LEMMA BudgetMoves ==
    ASSUME TypeOK, NEW g \in Scheduler, NEW from, NEW to \in PC, goto(g, from, to),
           from # "idle", to # "idle", Sent' = Sent, sem'["full"] \in Int
    PROVE  LET d == sem'["full"] - sem["full"]
                      + (IF to \in Waiting THEN 1 ELSE 0) - (IF from \in Waiting THEN 1 ELSE 0) IN
           /\ d = 0  => Budget' = Budget
           /\ d = -1 => Budget' = Budget + BatchSize
<1>1. Started' = Started
  BY GotoType DEF Started
<1>2. /\ BatchSize \in Nat /\ Cardinality(Started) \in Nat /\ Unspent \in Nat /\ Sent \in Nat
      /\ sem["full"] \in Nat /\ Cardinality(In(Waiting)) \in Nat
  BY BudgetType
<1>3. Unspent' - Unspent = sem'["full"] - sem["full"]
          + (IF to \in Waiting THEN 1 ELSE 0) - (IF from \in Waiting THEN 1 ELSE 0)
  <2>1. Cardinality(In(Waiting)') - Cardinality(In(Waiting))
            = (IF to \in Waiting THEN 1 ELSE 0) - (IF from \in Waiting THEN 1 ELSE 0)
    BY <1>2, InMoves
  <2>2. Cardinality(In(Waiting)') \in Int
    BY <1>2, InMoves
  <2> QED  BY <1>2, <2>1, <2>2 DEF Unspent
<1>4. Unspent' \in Int
  <2>1. Cardinality(In(Waiting)') \in Int
    BY <1>2, InMoves
  <2> QED  BY <2>1 DEF Unspent
<1>5. ASSUME Unspent' = Unspent PROVE Budget' = Budget
  BY <1>1, <1>5 DEF Budget
<1>6. ASSUME Unspent' = Unspent - 1 PROVE Budget' = Budget + BatchSize
  <2>1. BatchSize * (Unspent - 1) = BatchSize * Unspent - BatchSize
    BY <1>2, Multiples
  <2>2. BatchSize * Unspent \in Int /\ BatchSize * Cardinality(Started) \in Int
    BY <1>2, Multiples
  <2> QED  BY <1>1, <1>2, <1>6, <2>1, <2>2 DEF Budget
<1> QED
  BY <1>2, <1>3, <1>4, <1>5, <1>6
LEMMA BatchInductive ==
    TypeOK /\ MutualExclusion /\ BatchInv /\ [Next]_vars => BatchInv'
<1> SUFFICES ASSUME TypeOK, MutualExclusion, BatchInv, [Next]_vars PROVE BatchInv'
  OBVIOUS
<1> USE DEF shellVars, jobVars
<1>1. /\ BatchSize \in Nat /\ Cardinality(Started) \in Nat /\ Unspent \in Nat
      /\ sem["full"] \in Nat /\ Cardinality(In(Waiting)) \in Nat
      /\ Sent \in Nat /\ Budget \in Int /\ \A g \in Scheduler : i[g] \in Nat
  BY BudgetType
<1>2. ASSUME conts' = conts PROVE Sent' = Sent
  BY <1>2 DEF Sent
<1>3. ASSUME UNCHANGED <<conts, pc, i, sem>> PROVE BatchInv'
  BY <1>2, <1>3 DEF BatchInv, Budget, Started, Unspent, In
<1>4. ASSUME NEW g \in Scheduler, NEW from \in PC, NEW to \in PC, goto(g, from, to),
             from # "idle", to # "idle", to # "start", conts' = conts, i' = i,
             sem'["full"] \in Int,
             LET d == sem'["full"] - sem["full"]
                        + (IF to \in Waiting THEN 1 ELSE 0) - (IF from \in Waiting THEN 1 ELSE 0)
             IN  d \in {0, -1}
      PROVE  BatchInv'
  <2>1. Budget' = Budget \/ Budget' = Budget + BatchSize
    BY <1>2, <1>4, BudgetMoves
  <2>2. \A h \in Scheduler : pc'[h] = "start" => pc[h] = "start"
    BY <1>4, GotoType
  <2>3. Budget' \in Int /\ Budget' >= Budget
    BY <1>1, <2>1
  <2>4. ASSUME NEW h \in Scheduler, pc'[h] = "start" PROVE Budget' >= BatchSize - i'[h]
    <3>1. Budget >= BatchSize - i[h] /\ i'[h] = i[h] /\ i[h] \in Nat
      BY <1>1, <1>4, <2>2, <2>4 DEF BatchInv
    <3> QED  BY <1>1, <2>3, <3>1
  <2> QED  BY <1>1, <2>3, <2>4 DEF BatchInv
<1>5. ASSUME NEW p \in Process, process_submit(p) \/ kill_self_SIGSTOP(p) \/ exits(p)
      PROVE  BatchInv'
  <2>1. UNCHANGED <<conts, pc, i, sem>>
    BY <1>5 DEF process_submit, kill_self_SIGSTOP, exits
  <2> QED  BY <1>3, <2>1
<1>6. ASSUME NEW g \in Scheduler, sched(g) \/ sched_without_grandchild(g) PROVE BatchInv'
  <2>1. goto(g, "idle", dummy_main_entry) /\ UNCHANGED <<conts, i, sem>>
    BY <1>6 DEF sched, sched_without_grandchild
  <2>2. dummy_main_entry \in PC /\ dummy_main_entry # "idle" /\ dummy_main_entry # "start"
    BY EntryType DEF PC
  <2>3. Cardinality(Started') = Cardinality(Started) + 1
    <3>1. Started' = Started \cup {g} /\ g \notin Started
      BY <2>1, <2>2, GotoType DEF Started
    <3>2. IsFiniteSet(Started)
      BY SchedulerAssumption, FS_Subset DEF Started
    <3> QED  BY <3>1, <3>2, FS_AddElement
  <2>4. Budget' = Budget
    <3>1. CASE ncpu <= 0
      <4>1. Unspent' \in Int
        <5>1. Cardinality(In(Waiting)') \in Int
          BY <1>1, <2>1, <2>2, InMoves
        <5> QED  BY <1>1, <2>1, <5>1 DEF Unspent
      <4>2. BatchSize = 0
        BY <3>1 DEF BatchSize
      <4> QED  BY <1>1, <1>2, <2>1, <2>3, <4>1, <4>2 DEF Budget
    <3>2. CASE ncpu > 0
      <4>1. dummy_main_entry = "open"
        BY <3>2, NcpuAssumption DEF dummy_main_entry
      <4>2. Unspent' = Unspent + 1
        <5>1. Cardinality(In(Waiting)') = Cardinality(In(Waiting)) + 1
          BY <2>1, <2>2, <4>1, InMoves DEF Waiting
        <5> QED  BY <1>1, <2>1, <5>1 DEF Unspent
      <4>3. /\ BatchSize * (Unspent + 1) = BatchSize * Unspent + BatchSize
            /\ BatchSize * (Cardinality(Started) + 1) = BatchSize * Cardinality(Started) + BatchSize
            /\ BatchSize * Unspent \in Int /\ BatchSize * Cardinality(Started) \in Int
        BY <1>1, Multiples
      <4> QED  BY <1>1, <1>2, <2>1, <2>3, <4>2, <4>3 DEF Budget
    <3> QED  BY <3>1, <3>2, NcpuAssumption
  <2>5. \A h \in Scheduler : pc'[h] = "start" => pc[h] = "start"
    BY <2>1, <2>2, GotoType
  <2> QED  BY <2>1, <2>4, <2>5 DEF BatchInv
<1>7. ASSUME NEW g \in Scheduler,
             \/ sem_open(g) \/ sem_open_fails(g) \/ wait_empty(g) \/ loop_test(g)
             \/ unlock_start(g) \/ lock_handle(g) \/ post_empty(g) \/ unlock_handle(g)
      PROVE  BatchInv'
  <2>1. sem'["full"] = sem["full"] /\ conts' = conts /\ i' = i
    BY <1>7, SemType DEF sem_open, sem_open_fails, wait_empty, loop_test, unlock_start,
                         lock_handle, post_empty, unlock_handle, SemName
  <2>2. PICK from \in PC, to \in PC :
           /\ goto(g, from, to) /\ from # "idle" /\ to # "idle" /\ to # "start"
           /\ from \in Waiting \/ to \notin Waiting
    BY <1>7 DEF sem_open, sem_open_fails, wait_empty, loop_test, unlock_start,
                lock_handle, post_empty, unlock_handle, PC, Batch, Waiting
  <2> QED  BY <1>1, <1>4, <2>1, <2>2
<1>8. ASSUME NEW g \in Scheduler, post_full(g) PROVE BatchInv'
  <2>1. goto(g, "post_full", "loop") /\ conts' = conts /\ i' = i /\ sem'["full"] = sem["full"] + 1
    BY <1>8, SemType DEF post_full, SemName
  <2> QED  BY <1>1, <1>4, <2>1 DEF PC, Waiting
<1>9. ASSUME NEW g \in Scheduler, wait_full(g) PROVE BatchInv'
  <2>1. /\ goto(g, "wait_full", "lock_start") /\ conts' = conts /\ i' = i
        /\ sem'["full"] = sem["full"] - 1
    BY <1>9, SemType DEF wait_full, SemName
  <2> QED  BY <1>1, <1>4, <2>1 DEF PC, Batch, Waiting
<1>10. ASSUME NEW g \in Scheduler, lock_start(g) PROVE BatchInv'
  <2>1. /\ goto(g, "lock_start", "start") /\ conts' = conts /\ i' = [i EXCEPT ![g] = 0]
        /\ sem'["full"] = sem["full"] /\ sem["mutex"] > 0
    BY <1>10, SemType DEF lock_start, SemName, sem_wait
  <2>2. Budget' = Budget + BatchSize
    BY <1>1, <1>2, <2>1, BudgetMoves DEF PC, Batch, Waiting
  <2>3. \A h \in Scheduler : pc[h] # "start"
    BY <2>1 DEF MutualExclusion, In, Critical
  <2>4. \A h \in Scheduler : pc'[h] = "start" => h = g
    BY <2>1, <2>3, GotoType DEF PC, Batch
  <2>5. i'[g] = 0
    BY <2>1 DEF TypeOK
  <2> QED  BY <1>1, <2>2, <2>4, <2>5 DEF BatchInv
<1>11. ASSUME NEW g \in Scheduler, start_process(g) PROVE BatchInv'
  <2> DEFINE p == removed_process(queue[g])
  <2>1. /\ pc[g] = "start" /\ i[g] < ncpu /\ ~ is_queue_empty(queue[g])
        /\ conts' = [conts EXCEPT ![p] = @ + 1] /\ i' = [i EXCEPT ![g] = @ + 1]
        /\ UNCHANGED <<pc, sem>>
    BY <1>11 DEF start_process, batch_left
  <2>2. p \in Process
    BY <2>1, RemoveKeepsForm DEF TypeOK
  <2> HIDE DEF p
  <2>3. Sent' = Sent + 1
    <3>1. conts' \in [Process -> Nat] /\ conts \in [Process -> Nat]
      BY <2>1, <2>2 DEF TypeOK
    <3>2. \A v \in [Process -> Nat] : \A q \in Process : \A w \in [Process -> Nat] :
              w = [v EXCEPT ![q] = @ + 1] => SumOf(w, Process) = SumOf(v, Process) + 1
      <4>1. IsFiniteSet(Process)
        BY JobAssumption
      <4> QED  BY <4>1, SumLaws, Zenon
    <3>3. conts' = [conts EXCEPT ![p] = @ + 1]
      BY <2>1
    <3>4. SumOf(conts', Process) = SumOf(conts, Process) + 1
      BY <2>2, <3>1, <3>2, <3>3
    <3> QED  BY <3>4 DEF Sent
  <2>4. Budget' = Budget - 1
    <3>1. Started' = Started /\ Unspent' = Unspent
      BY <2>1 DEF Started, Unspent, In
    <3>2. BatchSize * Unspent \in Int /\ BatchSize * Cardinality(Started) \in Int
      BY <1>1, Multiples
    <3> QED  BY <1>1, <2>3, <3>1, <3>2 DEF Budget
  <2>5. \A h \in Scheduler : pc[h] = "start" => h = g
    BY <2>1 DEF MutualExclusion, In, Critical
  <2>6. i'[g] = i[g] + 1 /\ i[g] \in Nat
    BY <2>1 DEF TypeOK
  <2>7. i[g] < BatchSize
    BY <1>1, <2>1, <2>6, NcpuAssumption DEF BatchSize
  <2>8. Budget >= BatchSize - i[g]
    BY <2>1 DEF BatchInv
  <2> QED  BY <1>1, <2>1, <2>4, <2>5, <2>6, <2>7, <2>8 DEF BatchInv
<1>12. CASE sigint
  <2>1. /\ conts' = conts /\ sem' = sem
        /\ \A g \in Scheduler : pc'[g] = IF pc[g] = "idle" THEN "idle" ELSE "gone"
    BY <1>12 DEF sigint
  <2>2. Started' = Started /\ In(Waiting)' = {}
    BY <2>1 DEF Started, In, Waiting
  <2>3. PICK u \in Nat : u = Unspent' /\ u <= Unspent
    BY <1>1, <2>1, <2>2, FS_EmptySet DEF Unspent
  <2>4. PICK d \in Nat : d = Unspent - u
    <3>1. Unspent \in Nat /\ u \in Nat /\ u <= Unspent
      BY <1>1, <2>3
    <3>2. Unspent - u \in Nat
      BY <3>1
    <3> QED  BY <3>2
  <2>5. /\ BatchSize * d = BatchSize * Unspent - BatchSize * u /\ BatchSize * d >= 0
        /\ BatchSize * Unspent \in Int /\ BatchSize * u \in Int
        /\ BatchSize * Cardinality(Started) \in Int
    <3>1. PICK n \in Nat, m \in Nat : n = BatchSize /\ m = Unspent
      BY <1>1
    <3>2. n * (m - u) = n * m - n * u
      BY SMTT(30)
    <3> QED  BY <1>1, <2>4, <3>1, <3>2, Multiples
  <2>6. Budget' = BatchSize * Cardinality(Started) - BatchSize * u - Sent
    BY <1>2, <2>1, <2>2, <2>3 DEF Budget
  <2>7. Budget' >= Budget /\ Budget' \in Int
    BY <1>1, <2>5, <2>6 DEF Budget
  <2> QED  BY <1>1, <2>1, <2>7 DEF BatchInv
<1>13. CASE UNCHANGED vars
  BY <1>3, <1>13 DEF vars
<1> QED
  BY <1>5, <1>6, <1>7, <1>8, <1>9, <1>10, <1>11, <1>12, <1>13
     DEF Next, dummy_main, process_scheduler

\* BatchPerSched holds in every reachable state: whatever the number of
\* schedulers and however they interleave, all of them together continue at
\* most ncpu processes per sched command.
THEOREM BatchCorrect == Spec => []BatchPerSched
<1>1. Init => BatchInv
  <2> SUFFICES ASSUME Init PROVE BatchInv
    OBVIOUS
  <2>1. TypeOK /\ \A p \in Process : conts[p] = 0
    BY InitType DEF Init
  <2>2. Sent = 0
    BY <2>1, JobAssumption, SumLaws DEF TypeOK, Sent
  <2>3. Unspent = 0 /\ Cardinality(Started) = 0
    <3>1. In(Waiting) = {} /\ Started = {}
      BY DEF Init, In, Waiting, Started
    <3>2. sem["full"] = 0
      BY DEF Init, created_sem, SemName
    <3> QED  BY <3>1, <3>2, FS_EmptySet DEF Unspent
  <2>4. Budget = 0
    BY <2>1, <2>2, <2>3, BudgetType DEF Budget
  <2> QED  BY <2>4 DEF Init, BatchInv
<1>2. TypeOK /\ BatchInv => BatchPerSched
  <2> SUFFICES ASSUME TypeOK, BatchInv PROVE BatchPerSched
    OBVIOUS
  <2>1. BatchSize * Unspent \in Int /\ BatchSize * Unspent >= 0
    BY BudgetType, Multiples
  <2>2. BatchSize * Cardinality(Started) \in Int
    BY BudgetType, Multiples
  <2>3. Sent <= BatchSize * Cardinality(Started)
    BY <2>1, <2>2, BudgetType DEF BatchInv, Budget
  <2> QED  BY <2>3 DEF BatchPerSched, Sent, SumOf, BatchSize, Started
<1> QED
  BY <1>1, <1>2, BatchInductive, TypeCorrect, MutexCorrect, PTL DEF Spec
=============================================================================
