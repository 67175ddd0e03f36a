---------------------------- MODULE DamScheduler ----------------------------
(***************************************************************************)
(* The scheduler of OS_Assignment_3: the shell that queues submitted       *)
(* processes, the schedulers it forks with the command sched, the jobs     *)
(* themselves and the three named semaphores they share.                   *)
(*                                                                         *)
(* Nothing but the semaphores is shared.  ready_run_queue is ordinary      *)
(* memory of the shell, so each scheduler works on the copy that fork gave *)
(* it.  Signals are instantaneous: SIGCONT wakes a stopped process and     *)
(* does nothing to one that has not stopped itself yet.                    *)
(***************************************************************************)
EXTENDS ReadyQueueOps, FiniteSets, FiniteSetsExt, Functions

CONSTANTS
    Scheduler,     \* pids of the processes that can run dummy_main
    ncpu,          \* first argument of the shell
    no_one,        \* the shell is at its prompt and waits for no child
    MaxSessions    \* bound: how often the shell is started

ASSUME NcpuAssumption      == ncpu \in Int
ASSUME JobAssumption       == IsFiniteSet(Process)
ASSUME SchedulerAssumption == IsFiniteSet(Scheduler) /\ no_one \notin Scheduler
ASSUME SessionsAssumption  == MaxSessions \in Nat

VARIABLES
    ready_run_queue,   \* the shell's own queue
    waited_for,        \* the child the shell is blocked on in waitpid, or no_one
    proc,              \* the life of each submitted process
    conts,             \* history: how many SIGCONTs each process was sent
    pc,                \* where each scheduler is in dummy_main
    queue,             \* each scheduler's private copy of ready_run_queue
    i,                 \* each scheduler's loop variable in start_processes
    sem,               \* values of the named semaphores; they outlive processes
    session            \* history: how often the shell was started

shellVars == <<ready_run_queue, waited_for, session>>
jobVars   == <<proc, conts>>
vars      == <<shellVars, jobVars, pc, queue, i, sem>>

SemName == {"mutex", "full", "empty"}

\* The values sem_open gives the semaphores when it creates them.
created_sem == [s \in SemName |->
                    IF s = "mutex" THEN 1 ELSE IF s = "full" THEN 0 ELSE MAX_PROCESSES]

Critical == {"start", "post_empty", "unlock_handle"}   \* between wait and post of mutexLock
Batch    == {"lock_start", "start", "lock_handle", "post_empty"}  \* token taken from itemsFull
PC       == {"idle", "open", "wait_empty", "post_full", "loop", "wait_full",
             "unlock_handle", "gone"} \cup Batch

Job == {"none", "forked", "stopped", "running", "done"}

Init ==
    /\ ready_run_queue = EmptyQueue
    /\ waited_for = no_one
    /\ proc  = [p \in Process |-> "none"]
    /\ conts = [p \in Process |-> 0]
    /\ pc    = [g \in Scheduler |-> "idle"]
    /\ queue = [g \in Scheduler |-> EmptyQueue]
    /\ i     = [g \in Scheduler |-> 0]
    /\ sem   = created_sem
    /\ session = 1

goto(g, from, to) == pc[g] = from /\ pc' = [pc EXCEPT ![g] = to]
sem_wait(s) == sem[s] > 0 /\ sem' = [sem EXCEPT ![s] = @ - 1]
sem_post(s) == sem' = [sem EXCEPT ![s] = @ + 1]

-----------------------------------------------------------------------------
(* The shell: the commands submit and sched, and Ctrl-C.                   *)

\* submit: the child is queued by the parent before or after the child has
\* stopped itself.  A full queue drops it and the child stays anyway.
process_submit(p) ==
    /\ waited_for = no_one
    /\ proc[p] = "none"
    /\ proc' = [proc EXCEPT ![p] = "forked"]
    /\ ready_run_queue' = add_to_queue(ready_run_queue, p)
    /\ UNCHANGED <<waited_for, session, conts, pc, queue, i, sem>>

\* A process that runs dummy_main starts here; bad arguments end it at once.
dummy_main_entry == IF ncpu <= 0 THEN "gone" ELSE "open"

\* sched: the child forks the grandchild g and exits, so waitpid returns.
sched(g) ==
    /\ waited_for = no_one
    /\ goto(g, "idle", dummy_main_entry)
    /\ queue' = [queue EXCEPT ![g] = ready_run_queue]
    /\ UNCHANGED <<shellVars, jobVars, i, sem>>

\* sched when the second fork fails: the child runs dummy_main itself and the
\* shell stays in waitpid for it.
sched_without_grandchild(g) ==
    /\ waited_for = no_one
    /\ goto(g, "idle", dummy_main_entry)
    /\ queue' = [queue EXCEPT ![g] = ready_run_queue]
    /\ waited_for' = IF dummy_main_entry = "gone" THEN no_one ELSE g
    /\ UNCHANGED <<ready_run_queue, session, jobVars, i, sem>>

\* Ctrl-C reaches the whole foreground group: the shell, its schedulers (they
\* inherit sigint_handler, which exits) and the jobs.  The user starts the
\* shell again; the semaphores are never unlinked and keep their values.
sigint ==
    /\ session < MaxSessions
    /\ session' = session + 1
    /\ ready_run_queue' = EmptyQueue
    /\ waited_for' = no_one
    /\ proc'  = [p \in Process |-> IF proc[p] = "none" THEN "none" ELSE "done"]
    /\ pc'    = [g \in Scheduler |-> IF pc[g] = "idle" THEN "idle" ELSE "gone"]
    /\ queue' = [g \in Scheduler |-> EmptyQueue]
    /\ i'     = [g \in Scheduler |-> 0]
    /\ UNCHANGED <<conts, sem>>

-----------------------------------------------------------------------------
(* The submitted process.                                                  *)

kill_self_SIGSTOP(p) ==
    /\ proc[p] = "forked"
    /\ proc' = [proc EXCEPT ![p] = "stopped"]
    /\ UNCHANGED <<shellVars, conts, pc, queue, i, sem>>

\* The program it execs ends.  Its parent is the shell, which does not reap it.
exits(p) ==
    /\ proc[p] = "running"
    /\ proc' = [proc EXCEPT ![p] = "done"]
    /\ UNCHANGED <<shellVars, conts, pc, queue, i, sem>>

-----------------------------------------------------------------------------
(* A scheduler in dummy_main.                                              *)

\* sem_open finds the existing semaphores and ignores the initial value.
sem_open(g) ==
    /\ goto(g, "open", "wait_empty")
    /\ UNCHANGED <<shellVars, jobVars, queue, i, sem>>

\* SEM_FAILED: dummy_main returns, the process exits, and if the shell was
\* waiting for it the shell goes on.
sem_open_fails(g) ==
    /\ goto(g, "open", "gone")
    /\ waited_for' = IF waited_for = g THEN no_one ELSE waited_for
    /\ UNCHANGED <<ready_run_queue, session, jobVars, queue, i, sem>>

wait_empty(g) ==
    /\ goto(g, "wait_empty", "post_full")
    /\ sem_wait("empty")
    /\ UNCHANGED <<shellVars, jobVars, queue, i>>

\* Seeded fault: the token for the first batch is not posted.
post_full_forgotten(g) ==
    /\ goto(g, "post_full", "loop")
    /\ UNCHANGED <<shellVars, jobVars, queue, i, sem>>

post_full(g) ==
    /\ goto(g, "post_full", "loop")
    /\ sem_post("full")
    /\ UNCHANGED <<shellVars, jobVars, queue, i>>

\* process_scheduler's loop test.  With an empty queue it returns and
\* dummy_main's while (1) calls it again: the process spins and changes nothing.
loop_test(g) ==
    /\ goto(g, "loop", "wait_full")
    /\ ~ is_queue_empty(queue[g])
    /\ UNCHANGED <<shellVars, jobVars, queue, i, sem>>

\* Seeded fault: sem_trywait without looking at its result.
wait_full_without_blocking(g) ==
    /\ goto(g, "wait_full", "lock_start")
    /\ sem' = [sem EXCEPT !["full"] = @ - 1]
    /\ UNCHANGED <<shellVars, jobVars, queue, i>>

wait_full(g) ==
    /\ goto(g, "wait_full", "lock_start")
    /\ sem_wait("full")
    /\ UNCHANGED <<shellVars, jobVars, queue, i>>

\* The start of start_processes: i = 0.
lock_start(g) ==
    /\ goto(g, "lock_start", "start")
    /\ sem_wait("mutex")
    /\ i' = [i EXCEPT ![g] = 0]
    /\ UNCHANGED <<shellVars, jobVars, queue>>

batch_left(g) == i[g] < ncpu /\ ~ is_queue_empty(queue[g])

SIGCONT(p) == IF p \in Process /\ proc[p] = "stopped"
              THEN [proc EXCEPT ![p] = "running"]
              ELSE proc

\* Seeded fault: the process after the removed one is continued.
start_process_behind_front(g) ==
    LET p == removed_process(remove_from_queue(queue[g])) IN
    /\ pc[g] = "start"
    /\ batch_left(g)
    /\ queue' = [queue EXCEPT ![g] = remove_from_queue(@)]
    /\ proc'  = SIGCONT(p)
    /\ conts' = [q \in Process |-> conts[q] + (IF q = p THEN 1 ELSE 0)]
    /\ i'     = [i EXCEPT ![g] = @ + 1]
    /\ UNCHANGED <<shellVars, pc, sem>>

\* One iteration of start_processes.
start_process(g) ==
    LET p == removed_process(queue[g]) IN
    /\ pc[g] = "start"
    /\ batch_left(g)
    /\ queue' = [queue EXCEPT ![g] = remove_from_queue(@)]
    /\ proc'  = SIGCONT(p)
    /\ conts' = [conts EXCEPT ![p] = @ + 1]
    /\ i'     = [i EXCEPT ![g] = @ + 1]
    /\ UNCHANGED <<shellVars, pc, sem>>

\* Seeded fault: the lock is not given back before the time slice.
unlock_start_forgotten(g) ==
    /\ goto(g, "start", "lock_handle")
    /\ ~ batch_left(g)
    /\ UNCHANGED <<shellVars, jobVars, queue, i, sem>>

unlock_start(g) ==
    /\ goto(g, "start", "lock_handle")
    /\ ~ batch_left(g)
    /\ sem_post("mutex")
    /\ UNCHANGED <<shellVars, jobVars, queue, i>>

\* Seeded fault: the lock is not taken again after usleep.
lock_handle_forgotten(g) ==
    /\ goto(g, "lock_handle", "post_empty")
    /\ UNCHANGED <<shellVars, jobVars, queue, i, sem>>

\* usleep(tslice), then the lock again.
lock_handle(g) ==
    /\ goto(g, "lock_handle", "post_empty")
    /\ sem_wait("mutex")
    /\ UNCHANGED <<shellVars, jobVars, queue, i>>

\* Seeded fault: the wrong semaphore is posted.
post_empty_posts_full(g) ==
    /\ goto(g, "post_empty", "unlock_handle")
    /\ sem_post("full")
    /\ UNCHANGED <<shellVars, jobVars, queue, i>>

\* Seeded fault: no unit of itemsEmpty is given back.
post_empty_forgotten(g) ==
    /\ goto(g, "post_empty", "unlock_handle")
    /\ UNCHANGED <<shellVars, jobVars, queue, i, sem>>

\* handle_finished_processes and sem_post(itemsEmpty).  The jobs are children
\* of the shell, a scheduler has none: waitpid(-1) returns -1 in every
\* iteration and the branch that would remove a queue entry is never taken.
post_empty(g) ==
    /\ goto(g, "post_empty", "unlock_handle")
    /\ sem_post("empty")
    /\ UNCHANGED <<shellVars, jobVars, queue, i>>

unlock_handle(g) ==
    /\ goto(g, "unlock_handle", "loop")
    /\ sem_post("mutex")
    /\ UNCHANGED <<shellVars, jobVars, queue, i>>

-----------------------------------------------------------------------------
process_scheduler(g) ==
    \/ loop_test(g)   \/ wait_full(g)    \/ lock_start(g)  \/ start_process(g)
    \/ unlock_start(g) \/ lock_handle(g) \/ post_empty(g)  \/ unlock_handle(g)

dummy_main(g) ==
    \/ sem_open(g) \/ sem_open_fails(g) \/ wait_empty(g) \/ post_full(g)
    \/ process_scheduler(g)

Next ==
    \/ \E p \in Process : process_submit(p) \/ kill_self_SIGSTOP(p) \/ exits(p)
    \/ \E g \in Scheduler : sched(g) \/ sched_without_grandchild(g) \/ dummy_main(g)
    \/ sigint

Spec == Init /\ [][Next]_vars

\* The kernel runs every scheduler and every freshly forked child.  Nothing is
\* assumed of the user, nor that a job ever ends.
Fairness ==
    /\ \A g \in Scheduler : WF_vars(dummy_main(g))
    /\ \A p \in Process : WF_vars(kill_self_SIGSTOP(p))

FairSpec == Spec /\ Fairness

-----------------------------------------------------------------------------
(* Invariants.                                                             *)

\* TypeOK: every queue is a well-formed circular array, no semaphore is ever
\* negative and the mutex is binary.
TypeOK ==
    /\ WellFormed(ready_run_queue)
    /\ waited_for \in Scheduler \cup {no_one}
    /\ proc  \in [Process -> Job]
    /\ conts \in [Process -> Nat]
    /\ pc    \in [Scheduler -> PC]
    /\ queue \in [Scheduler -> Queue] /\ \A g \in Scheduler : WellFormed(queue[g])
    /\ i     \in [Scheduler -> Nat]
    /\ sem   \in [SemName -> Nat]
    /\ session \in Nat \ {0}

In(S) == {g \in Scheduler : pc[g] \in S}

\* MutualExclusion: at most one scheduler is inside the sections that
\* mutexLock guards in process_scheduler, and none while the mutex is free,
\* also after schedulers were killed inside such a section.
MutualExclusion ==
    /\ \A g, h \in In(Critical) : g = h
    /\ In(Critical) # {} => sem["mutex"] = 0
    /\ sem["mutex"] \in {0, 1}

\* A scheduler that has waited on one counting semaphore and not yet posted
\* the other one.
Holding == In(Batch \cup {"post_full"})

\* SemaphoreAccounting: itemsEmpty, itemsFull and the schedulers between the
\* wait on one and the post on the other always add up to the capacity the
\* semaphores were created with; a Ctrl-C can only lose units, never add any.
SemaphoreAccounting ==
    LET total == sem["empty"] + sem["full"] + Cardinality(Holding) IN
    /\ total <= MAX_PROCESSES
    /\ session = 1 => total = MAX_PROCESSES

\* BatchPerSched: all the schedulers together continue at most ncpu processes
\* per sched command, because itemsFull is posted once per dummy_main and a
\* batch costs one unit (start_processes, sem_wait(itemsFull)).
BatchPerSched ==
    MapThenSumSet(LAMBDA p : conts[p], Process)
        <= (IF ncpu <= 0 THEN 0 ELSE ncpu) * Cardinality({g \in Scheduler : pc[g] # "idle"})

\* SubmissionOrder: however many schedulers run on copies of different ages, a
\* process has never been continued more often than one submitted before it.
SubmissionOrder ==
    LET jobs == Contents(ready_run_queue) IN
    \A a, b \in DOMAIN jobs : a < b => conts[jobs[a]] >= conts[jobs[b]]

\* DroppedOnlyWhenFull: a child of this shell that waits for its SIGCONT is in
\* the shell's queue unless the queue is full (process_submit).
DroppedOnlyWhenFull ==
    \A p \in Process :
        proc[p] \in {"forked", "stopped"}
            => \/ p \in Range(Contents(ready_run_queue))
               \/ ready_run_queue.size = MAX_PROCESSES

-----------------------------------------------------------------------------
(* Liveness.                                                               *)

\* BatchCompletes: a scheduler of the first session that has taken a unit of
\* itemsFull finishes the batch and gives a unit of itemsEmpty back, unless it
\* is killed, however the schedulers contend for mutexLock.
BatchCompletes ==
    \A g \in Scheduler :
        (session = 1 /\ pc[g] = "lock_start") ~> (pc[g] \in {"loop", "gone"})

\* The job that was submitted first, at the front of every copy of the queue.
FirstJobSent ==
    \E p \in Process : removed_process(ready_run_queue) = p /\ conts[p] > 0

\* FirstJobContinued: when a scheduler whose copy of the queue has a job waits
\* for its unit of itemsEmpty, and there are no more sched commands than units,
\* the first job is sent a SIGCONT unless the session is killed.
FirstJobContinued ==
    \A g \in Scheduler :
        (session = 1 /\ pc[g] = "wait_empty" /\ ~ is_queue_empty(queue[g]))
            ~> (session > 1 \/ FirstJobSent)

-----------------------------------------------------------------------------
(* What the documentation says and the code does not do.                   *)

\* SchedulerDrainsQueue: the scheduling loop runs until the ready queue is
\* empty (process_scheduler).
SchedulerDrainsQueue ==
    \A g \in Scheduler : (pc[g] = "wait_full") ~> is_queue_empty(queue[g])

\* ContinuedJobRuns: a job that was sent its SIGCONT resumes execution.
ContinuedJobRuns ==
    \A p \in Process : (conts[p] > 0) ~> (proc[p] \in {"running", "done"})
=============================================================================
