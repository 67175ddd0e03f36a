# Verification of Operating_System-CSE231

The repository holds six small systems programs, and this directory models all of them: a
scheduler on named semaphores, two shells with pipelines, a fork-join thread library, a loader
that copies a segment and one that maps pages on demand.

## Inventory

| Part | Source | State it keeps | Operations | What is hard |
|---|---|---|---|---|
| Ready queue | `OS_Assignment_3/Dam_Scheduler.c:3-33`, `bash.h:72-92` | circular array, `front`, `rear`, `size` | `add_to_queue`, `remove_from_queue`, `is_queue_empty` | wrapping indices, full and empty array |
| Scheduler | `Dam_Scheduler.c:35-145`, `simpleshell.c:514-572` | the shell's queue, a copy in every scheduler, three named semaphores, the jobs | `submit`, `sched`, `dummy_main`, `process_scheduler`, `start_processes`, `handle_finished_processes` | several schedulers at once, lost signals, stale copies, semaphores that outlive a killed process |
| Shell (Assignment 3) | `simpleshell.c`, `bash.h` | `is_bg_process`, job list, history, pipe ends, children | command loop, built-in commands, `new_process`, `execute_piped_commands` | which child a wait collects, a flag that outlives its line, pipe ends, blocked stages |
| Thread library | `OS_Assignment_5/group-103/simple-multithreader.h`, `matrix.cpp`, `vector.cpp` | `args`, `thread_ids`, the threads, the caller's rows | `parallel_for` (two overloads), `thread_func_for`, `thread_func_double_for` | division of the range, failed `pthread_create`, threads that use the stack frame of the call |
| Smart loader | `group-103/Smart_loader.c` | mapped pages, `p_alloc`, three counters | `load_and_run_elf`, `Handeling_segmentation_fault` | page and segment boundaries, order of the faults, unsigned differences, faults nobody resolves |
| Shell (Assignment 2) | `OS_Assignment_2/Dam_Shell.c` | `commands`, `command_counter`, standard input and what stdio has read of it, the script that is open | `main`, `execute`, `execute_pipe`, `execute_background_commands`, `launch`, `shell_interpreter`, `control_C_handler` | standard input replaced by a pipe, sequential stages, a script offset shared with the children, a handler that reads the history while it changes |
| Loader (Assignment 1) | `OS_Assignment_1/loader.c` | the header read last, one mapped segment | `load_and_run_elf` | choice of the segment, results nobody looks at |
| Sample programs | `p1.c`, `fib.c`, `sum.c`, ... | none | | |

Interaction: the shell of Assignment 3 forks jobs (`submit`) and schedulers (`sched`);
schedulers share only the semaphores with each other and send SIGCONT to the jobs, which are
children of the shell. The thread library is called by `matrix.cpp` (three calls that depend on
each other) and `vector.cpp` (one). The smart loader and the loaded program take turns through
SIGSEGV. The two loaders are two versions of one program and do not run together; `Loaders`
puts them on the same ELF file to compare what they leave in memory. The shells do not interact
with the other parts.

## Modules

| Module | Models |
|---|---|
| `ReadyQueueOps` | the queue functions as operators on records; used by `ReadyQueue` and `DamScheduler` |
| `ReadyQueue`, `BoundedFifo` | the queue under any sequence of calls, and the bounded FIFO queue it implements |
| `DamScheduler` | shell (submit, sched, Ctrl-C and restart), jobs, schedulers, semaphores |
| `SimpleShell` | the shell of Assignment 3: command loop, built-in commands, background commands, pipelines and their waits, children, the shell's side of `submit` and `sched`, history and Ctrl-C |
| `ChunkOps`, `ParallelFor` | the division of a range as operators, and a program of `parallel_for` calls with its main thread, created threads and joins |
| `SmartLoader` | the loader of Assignment 4: `load_and_run_elf` and the SIGSEGV handler, an action per fault and outcome |
| `SimpleLoader` | the loader of Assignment 1: the search for the segment of the entry point, its copy, the call |
| `Loaders` | composes `SmartLoader` and an instance of `SimpleLoader` on one ELF file, one after the other |
| `DamShell` | the shell of Assignment 2: typed lines, pipelines through the shell's own standard input, `launch`, history and Ctrl-C, scripts read with stdio |
| `MCReadyQueue`, `MCDamScheduler`, `MCSimpleShell`, `MCParallelFor`, `MCSmartLoader`, `MCLoaders`, `MCDamShell` | the small lines, programs, files and scripts of the runs |
| `ReadyQueueLemmas`, `ReadyQueueProofs`, `DamSchedulerProofs`, `ParallelForProofs`, `FiniteSetLemmas`, `LoadersProofs`, `DamShellProofs`, `SimpleShellProofs` | lemmas, theorems and proofs |

Actions carry the names of the functions they stand for, and variables those of the code. A
function that other processes can interrupt is cut into one action per call that they can see
(`fork`, `waitpid`, `sem_wait`, `pipe`, ...), and `pc` is the place between two of them.

Two abstractions matter for what the properties say:

- In `SimpleShell` a child has the shell's ends of the stage's pipes from its fork on (`in`, `out`, in the
  state `"forked"`), the second child of a background command included. `executes` is the way to
  `execvp`: with `>`, or in the background, the child gives its write end up for a file. `exits` from
  `"forked"` is an open or an exec that fails, and the `exit(0)` of a second child.
- In `DamShell` a script is one sequence of tokens, `"\n"` among them, and a token stands for a byte: stdio
  reads `BlockTokens` of them at a time, getline takes what it has buffered up to a `"\n"`, and a child that
  calls `exit` moves the offset back by the tokens it has not used. The beginning of a cut line stays
  in the buffer and is joined to whatever is read next. Words are not cut: joined pieces stay
  separate words, while in the code they may grow into one, whose command is then usually not
  found (the model lets any command not be found). Lines that are typed or left in a pipe are read whole,
  since no child moves an offset there.

## What the runs check

Each run of the upper table also checks the `TypeOK` of its module.

| Run | Properties | Bounds and why they are enough |
|---|---|---|
| `ReadyQueue` | `TypeOK`, `ImplementsFifo` | 3 slots, so that the indices wrap at every fill level, and 3 processes |
| `DamScheduler` | `MutualExclusion`, `SemaphoreAccounting`, `BatchPerSched`, `SubmissionOrder`, `DroppedOnlyWhenFull`; `BatchCompletes`, `FirstJobContinued` | 2 schedulers, 3 jobs for a queue of 2 and `ncpu` 1, so that a job is dropped and one is left after a batch; 2 sessions, so that a shell starts on the semaphores a killed one left |
| `SimpleShell` | `PromptAfterForeground`, `PipesClosed`, `InputComplete`, `JobsListed`; `ForegroundReturns`, `WaitsReturn`, `SchedReturns` | 4 forks (two background commands, which fork twice each, or one and a pipeline of two stages), a job list of 1 and a history of 2, so that both limits are met; at most one submitted job and one `sched` among them; one line per path of the code, pipelines whose first stage writes to a file, whose last one is empty, and with `&` |
| `ParallelFor` | `AtMostOnce`, `ReturnsComplete`, `NoThreadOutlivesCall`, `PhasesOrdered`; `Terminates` | ranges of 0 to 7 rows, -1 to 4 threads (every remainder, fewer rows than threads, empty and inverted range), 2 failed creations; matrices up to 2 by 2 with 3 threads |
| `Loaders` | `EntryFound`, `EagerImage`, `MemoryImage`, `FaultResolved`, `CountersAgree`, `FlagInBounds`, `FragmentationCounted`, `SameSegment` | pages of 4 bytes, two segments of one to three pages on page boundaries or not, every combination of sizes, file parts and gaps in `MCLayouts`, with pages behind the file part, full last pages and empty segments; entry points in the first, the last and no segment, files without segments; wild accesses at address 0 and beyond the flags; 7 counted faults |
| `DamShell` | `HandlerFindsStored`, `StageReadsPrevious`; `NothingSkipped`, `StageReturns`, `TerminalRegained` | 5 things typed (a script takes two, its name and the Ctrl-D that ends it), a history of 6, scripts of up to 6 tokens read 3 at a time, so that a block ends inside a line, the offset falls behind and comes to lie inside a line, and lines are joined; leftover lines that are commands, a pipeline and a script |

Runs that refute a statement of the documentation, of a comment or of an assertion. A liveness
counterexample is one under the fairness below.

| Run | What happens |
|---|---|
| `SchedulerDrainsQueue` | `itemsFull` is posted once per scheduler and each pass takes one unit: after the first batch the scheduler waits forever with jobs left |
| `ContinuedJobRuns` | SIGCONT comes before SIGSTOP and the job stays stopped |
| `FlagMeansAmpersand` | `cd dir &`, then `prog`: `prog` runs in the background |
| `PipelineReturns` | a stage fills its pipe; the stage that would read is not forked yet |
| `SmartLoaderUnaligned` | the first page of a segment that starts inside a page is never found |
| `ScriptLinesOnce` | a command of a script that is not found moves the offset of the script back, and the shell runs lines again |

Other points where the code differs from its messages or comments. The models contain this
behaviour; no run of its own refutes the statement.

- No scheduler can collect a finished job (a job is the shell's child), so
  `handle_finished_processes` takes nothing out of any queue, and the shell's own queue never shrinks.
- `sem_close` and `sem_unlink` follow an infinite loop and are not reached.
- A full queue drops the submitted job and its child stays stopped.
- A background child collected by the wait of a later pipeline stays on the job list.
- After a failed `pthread_create` the call returns with rows missing; `ReturnsComplete` says
  exactly which.
- The main thread finishes its chunk before it creates a thread.
- A full last page of a segment is counted as a whole page of fragmentation
  (`Smart_loader.c:101`); `FragmentationCounted` says so (`CountedBytes`).
- A page of a segment behind its file part (bss) is filled with file bytes where the ELF file says
  zeros.
- A Ctrl-C while a command enters the history of the Assignment 3 shell crashes its handler
  (`simpleshell.c:14`). The Assignment 2 shell has the opposite order and no such crash
  (`HandlerFindsStored`).
- A second child, and a background stage until its output is redirected, still have the write end of
  a pipe while the next stage runs, which is how `&` and then `prog | prog` go on after the stale flag. The
  next stage does not see the end of its input before they are through; `InputComplete` says
  that no program of theirs writes to it.
- In the Assignment 2 shell, the lines of a script that are run need not be lines of the script. stdio
  reads blocks that end inside lines; after a command that is not found the offset may be at the start
  of a line whose beginning getline has buffered, or inside a line, and getline joins the pieces.
  `NothingSkipped` says only that no part of the file is skipped.
- In the Assignment 2 shell, `&` runs commands one after the other, a script is recognised only
  without its `"\n"`, and `history` in a pipeline prints to the terminal and hands nothing on.

Deadlock is not checked except for `ReadyQueue`: programs end, a scheduler blocks when its token
is gone, and the bounds on sessions, forks and faults stop the models.

Every bound is a constant: `MaxSessions`, `MaxForks`, `MaxJobs`, `MaxFailures`, `MaxFaults`, `MaxLines`. The
capacities `MAX_PROCESSES`, `MAX_BACKGROUND_PROCESSES`, `MAX_HISTORY_SIZE`, `max_history_size`
and `page_size` are the code's own, made small; `BlockTokens` stands for the block size of stdio.

## Fairness

- `DamScheduler`: weak fairness of each scheduler and of the SIGSTOP a forked job sends itself,
  because the kernel runs what can run. A `sem_wait` that is enabled again and again is not
  assumed to succeed; `BatchCompletes` holds with weak fairness, since each pass takes a unit of
  `itemsFull`, units run out, and then nobody contends for the mutex any more. Nothing is assumed of the user or
  of the jobs' ends.
- `SimpleShell`: weak fairness of the shell's own steps and of each child's way from
  its fork to its program and to its end, as long as it is not blocked. Programs that run forever make any shell wait; they are not what the properties are
  about. The user need not type and a stopped job need not be continued.
- `ParallelFor`: weak fairness of the main thread and of each created one.
- `DamShell`: weak fairness of what the shell does without its user, which includes the `freopen` at the
  end of a pipe, and of the end of a child that is not blocked. Nobody need type anything.
  A program that reads the terminal is taken to end as well, although nobody types: one that waits for
  its user makes the shell wait.
- The loaders need none: only safety is claimed, and an unresolved fault repeats forever.

## Proofs

TLAPS checks these theorems for all values of the constants that satisfy the named assumptions.

- `ReadyQueueProofs!TypeCorrect` and `RefinesFifo`. The invariant is `WellFormed`: `rear` is
  derived from `front` and `size` up to wrapping, and live slots are filled. `TypeOK` is inductive
  because of that relation; types alone are not, since an `add` at a wrong place would break
  the contents. `AddAppends` and `RemoveTakesHead` in `ReadyQueueLemmas` say what the
  operations do to `Contents`, and each step of the array is a step of `BoundedFifo`.
- `DamSchedulerProofs!MutexCorrect`. Inductive invariant: the mutex is 1 exactly when no
  scheduler is in a critical section, weakened after a Ctrl-C to "at most", since a killed
  process does not post.
- `DamSchedulerProofs!AccountingCorrect`. The sum of the two counting semaphores and of the
  schedulers between the wait on one and the post on the other; every action moves one unit or
  none (`HoldingMoves`).
- `DamSchedulerProofs!TypeCorrect` and `DropsOnlyWhenFull` follow from the typing invariant and
  the lemmas on the queue.
- `DamSchedulerProofs!OrderCorrect`: `SubmissionOrder` from `OrderInv`. Every copy of the queue agrees
  with a prefix of the shell's and has lost as many jobs as its scheduler continued, all from the
  front (`Copies`), so a job has been continued once for each scheduler that is past it (`Counts`),
  and the schedulers past a later job are past the earlier ones.
- `DamSchedulerProofs!BatchCorrect`: `BatchPerSched` from `BatchInv`. `Budget` is what the `sched`
  commands so far allow, less what was sent and what the units of `itemsFull` and the schedulers
  in front of a batch still stand for. A batch pays before it starts, so the budget covers the rest of
  it. The sum over the jobs is taken with the `Sum...` lemmas of `FiniteSetLemmas`.
- `ParallelForProofs!ChunksPartition`: the chunks of the main thread and of the others cover the
  range and do not overlap, for every range, the inverted one included, and every thread count.
  Products of the loop index and the chunk size are bounded by `TimesMonotonic`.
- `ParallelForProofs!FrameOutlivesThreads`: `NoThreadOutlivesCall` from an invariant that ties
  each running thread to an entry of `thread_ids` the join loop still has to reach. `TypeCorrect`
  comes out of the same invariant.
- `ParallelForProofs!AtMostOnceCorrect`, `ReturnsCompleteCorrect` and `PhasesCorrect` (an action
  property) from `RanIInv`, which says exactly how often the lambda ran for each cell of each call:
  once for the cells that the threads are past (`Done`), once for all but the rows of failed threads when
  the call is over (`Covered`), and never in a later call. That these are counts of at most one rests on
  `ChunksPartition`; that a call leaves nobody behind rests on `PlaceInv` and on the join invariant.
- `LoadersProofs!EntryCorrect`: the headers passed so far do not hold the entry point
  (`ScanInv`). `EagerImageCorrect`: fresh memory is zero until it is read into (`CopyInv`).
- `LoadersProofs!FlagsCorrect` and `FaultsResolved` rest on `FlagInv`: a flag per page up to the
  greatest end of a segment (`MaxAdd`, from `FiniteSetLemmas!GreatestValue`: a finite set of
  numbers has a greatest one), and a set flag means a mapped page. That `FaultResolved` is part of the
  invariant carries it over the retry.
- `LoadersProofs!CountersCorrect`: memory is the union of the flagged pages and has `page_size`
  bytes per allocation; a new page is disjoint from all others (`PageIsNew`), because page
  numbers differ.
- `LoadersProofs!MemoryImageCorrect`: `ImageOfPage` shows that a fault fills its own page from
  the one segment that can claim it and leaves alone every byte the property speaks of, by cases on
  whether the page begins behind the file part. It rests on `PlacementAssumption` and
  `WholeFileAssumption`. `SameSegmentCorrect` combines it with what the eager loader copied.
- `LoadersProofs!FragmentationCorrect`: `FragmentationCounted` is inductive. A fault adds to the total
  exactly if it maps the last page of a segment (`LastPageOf`, arithmetic of remainders), no other
  segment has that page (`LoadedGrows`), and a sum over one member more is the sum plus its value
  (`SumAdds`). `TypeCorrect` adds the bytes in memory and the counters (`BytesInv`).
- `DamShellProofs!HistoryCorrect`: the entries set are exactly those counted, and one more
  between the two steps (`HistoryInv`).
- `DamShellProofs!FeedCorrect`: `StageReadsPrevious` from `FeedInv`, which follows the pipe from the
  `dup2` over the two history steps to the next fork, and says that a stage whose output is a
  pipe has a next one.
- `DamShellProofs!ScriptCorrect`: `NothingSkipped` from `ScriptInv`, that each token below the
  offset has been run or is in the buffer. It survives every move of the offset back, and the ends of
  blocks do not matter to it. That getline takes no more than the buffer holds is `TakenType`, and
  that a cut loses nothing is `CutRange`.
- `DamShellProofs!TypeCorrect` from `RunInv` (a command is run exactly when a stage is left, and each
  pipeline that is left has one), `InputInv` (whatever may be read as a line is a sequence of
  tokens), `ScriptInv` and `HistoryInv`. `PipelinesType` types what the lines are split into.
- `SimpleShellProofs!PipesCorrect`: `PipesClosed` from `LineInv`. While a stage runs, the shell has
  the read end of its input and both ends of its output open and nothing else, and only the last
  stage has no output pipe, so what `stage_done` closes leaves exactly the input of the next one.
- `SimpleShellProofs!PromptCorrect`: `PromptAfterForeground` from `WaitInv`. Of the children the
  shell waits for only the last one is not collected, and only while it waits for that; the
  children of background commands and the waits of pipelines do not disturb it.
- `SimpleShellProofs!InputsCorrect`: `InputComplete` from `EndsInv` and `LineInv`. A write end is with
  the stage the shell waits for, whose pipe nobody has as input yet, or with a background or a
  second child that has not executed anything. `EndsInv` says that of the pipe of every child, since a
  background child may keep its write end long after the pipeline has gone on. That the name of a
  new pipe is nobody's input is `NewPipe`: among one number more than are in use, one is free.
- `SimpleShellProofs!ListCorrect`: `JobsListed` from `ListInv`. The list has an entry per second fork
  until it is full, each a background command, and the one between the two forks is not on it yet.
- `SimpleShellProofs!TypeCorrect` from `LoopInv` and `CountersInv`: `stage` stays within the commands
  of the line while one is run, and each command is a sequence of tokens of a line (`CommandsType`).
- `FiniteSetLemmas`: a finite set of numbers has a least and a greatest member, an induction over the
  subsets of a finite set, stated for a set of sets so that the provers can use it, and with it that
  a sum over a finite set does not depend on the order of its members (`SumOut`).

The assumptions are those named in the modules: that the constants have their types
(`TypedAssumption`, `CellAssumption`, ...), that there are finitely many jobs and schedulers, and
(`PlacementAssumption`, `WholeFileAssumption`) that the ELF files are laid out as linkers lay
them out; TLC evaluates each in a run.

Every invariant and every action property of the passing runs is stated by one of these theorems.
Only model-checked are the liveness properties (`BatchCompletes`, `FirstJobContinued`,
`ForegroundReturns`, `WaitsReturn`, `SchedReturns`, `Terminates`, `StageReturns`,
`TerminalRegained`): the prover handles neither fairness nor `ENABLED`.

Lines are split with sets of positions (`Commands` in `SimpleShell`, `nth` and `Parts` in `DamShell`):
the provers cannot expand `SelectSeq` and `SortSeq`. In `DamShell` the parts are functions of a line,
which TLC evaluates once per line.

## Not modelled

- The sample programs, which are input of the others.
- Text output, formatting, the time stamps, `cd` itself.
- Memory limits other than the arrays named above; failures of `malloc` end the programs.
- Instructions of the loaded program other than the addresses they touch.
- Where `mmap` puts a page. `SmartLoader` takes the hint as honoured; the code passes no `MAP_FIXED` and does not
  compare the result (`Smart_loader.c:75`). That matters for pages below `mmap_min_addr` only, which the kernel
  does not hand out, and the programs are linked with `-no-pie` above it.
- Errors of reading standard input (`Dam_Shell.c:322-326`); `fgets` returns NULL at the end of the input only.
- What a failing child flushes of its copy of the shell's unwritten output: a prompt in a piped stage of
  `Dam_Shell` whose exec fails, and in `simpleshell.c`, if input or output is not a terminal, what
  the shell has printed before a stage whose open or exec fails. The models have such a child write nothing, and
  `InputComplete` speaks of what programs write.

## Plan

1. *Done:* the queue, the scheduler, the thread library, both loaders and their comparison, and
   both shells, with the proofs above.
2. *Done:* a theorem for every invariant and action property of the runs.
3. The Assignment 3 shell and the scheduler composed: stopped jobs and the waits of pipelines.
   Each module has the other's side as a nondeterministic choice so far.
