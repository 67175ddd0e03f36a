----------------------------- MODULE ParallelFor -----------------------------
(***************************************************************************)
(* A program of OS_Assignment_5 that makes a sequence of parallel_for      *)
(* calls, as matrix.cpp (three) and vector.cpp (one) do: the main thread   *)
(* runs its own chunk, creates the other threads, and joins them.  A step  *)
(* of a thread is one application of the lambda to a row and a column.     *)
(*                                                                         *)
(* pthread_create may fail.  The code prints a message, leaves             *)
(* thread_ids[i] uninitialised and joins it like the others.  What stale   *)
(* stack memory holds there is anything; since thread ids are reused it    *)
(* may be the id of another thread of the same call.                       *)
(***************************************************************************)
EXTENDS ChunkOps, Sequences, FiniteSets

CONSTANTS
    Programs,       \* the sequences of loops a program may run
    Row, Col,       \* every row and column a loop of Programs can touch
    Worker,         \* indices of args and thread_ids
    garbage,        \* a thread id that belongs to no thread
    MaxFailures     \* bound: how many pthread_create calls fail

ASSUME WorkerAssumption  == Worker \subseteq Nat /\ garbage \notin Worker
ASSUME ProgramAssumption ==
    /\ Programs \subseteq Seq(Loop) \ {<<>>}
    /\ \A prog \in Programs : \A c \in DOMAIN prog :
           0 .. prog[c].numThread - 2 \subseteq Worker
\* What a negative number of threads does to an inverted range is not modelled.
ASSUME RangeAssumption ==
    \A prog \in Programs : \A c \in DOMAIN prog :
        prog[c].numThread < 0 => prog[c].start1 <= prog[c].end1

\* The cells of a loop.
CellsOf(l) == (l.start1 .. l.end1 - 1) \X (l.start2 .. l.end2 - 1)

Cell == Row \X Col

ASSUME CellAssumption ==
    \A prog \in Programs : \A c \in DOMAIN prog : CellsOf(prog[c]) \subseteq Cell

VARIABLES
    program,      \* the loops of this run, one per parallel_for call
    call,         \* which call the main thread is in, 1 for the first
    main,         \* where the main thread is in parallel_for
    i, j,         \* its loop variables
    args,         \* the rows given to each created thread
    thread_ids,   \* whose id each entry of thread_ids holds
    worker,       \* the life of each created thread
    at,           \* the row and column each created thread does next
    ran,          \* history: how often the lambda ran, per call, row and column
    failed        \* history: the call and index of each failed pthread_create

threadVars == <<args, thread_ids, worker, at>>
vars == <<program, call, main, i, j, threadVars, ran, failed>>

loop == program[call]

Init ==
    /\ program \in Programs
    /\ call = 1
    /\ main = "enter"
    /\ i = 0 /\ j = 0
    /\ args = [k \in Worker |-> [start1 |-> 0, end1 |-> 0]]
    /\ thread_ids = [k \in Worker |-> garbage]
    /\ worker = [k \in Worker |-> "none"]
    /\ at = [k \in Worker |-> <<0, 0>>]
    /\ ran = [c \in DOMAIN program |-> [cell \in Cell |-> 0]]
    /\ failed = {}

lambda(row, col) == ran' = [ran EXCEPT ![call][<<row, col>>] = @ + 1]

\* The position after row and column <<r, c>> in the two nested loops.
after(r, c) == IF c + 1 < loop.end2 THEN <<r, c + 1>> ELSE <<r + 1, loop.start2>>

-----------------------------------------------------------------------------
enter ==
    /\ main = "enter"
    /\ loop.numThread > 0
    /\ main' = "chunk"
    /\ i' = loop.start1 /\ j' = loop.start2
    /\ worker' = [k \in Worker |-> "none"]
    /\ UNCHANGED <<program, call, args, thread_ids, at, ran, failed>>

\* numThread = 0 divides by zero.  A negative numThread makes arrays of
\* negative length: the program stops, or no thread is created and, since
\* RangeAssumption makes the chunk size negative or zero, no row is done.
enter_undefined ==
    /\ main = "enter"
    /\ loop.numThread <= 0
    /\ \/ main' = "crashed"
       \/ loop.numThread < 0 /\ main' = "returned"
    /\ UNCHANGED <<program, call, i, j, threadVars, ran, failed>>

\* The main thread applies the lambda to its own chunk.
main_chunk ==
    /\ main = "chunk"
    /\ i < main_end1(loop) /\ loop.start2 < loop.end2
    /\ lambda(i, j)
    /\ i' = after(i, j)[1] /\ j' = after(i, j)[2]
    /\ UNCHANGED <<program, call, main, threadVars, failed>>

main_chunk_done ==
    /\ main = "chunk"
    /\ i >= main_end1(loop) \/ loop.start2 >= loop.end2
    /\ main' = "create"
    /\ i' = 0
    /\ UNCHANGED <<program, call, j, threadVars, ran, failed>>

set_args ==
    args' = [args EXCEPT ![i] = [start1 |-> worker_start1(loop, i),
                                 end1   |-> worker_end1(loop, i)]]

\* Seeded fault: the id is stored in the entry of the next thread.
pthread_create_next_id ==
    /\ main = "create"
    /\ i < loop.numThread - 1
    /\ set_args
    /\ thread_ids' = [thread_ids EXCEPT ![i] = i + 1]
    /\ worker' = [worker EXCEPT ![i] = "running"]
    /\ at' = [at EXCEPT ![i] = <<args'[i].start1, loop.start2>>]
    /\ i' = i + 1
    /\ UNCHANGED <<program, call, main, j, ran, failed>>

pthread_create ==
    /\ main = "create"
    /\ i < loop.numThread - 1
    /\ set_args
    /\ thread_ids' = [thread_ids EXCEPT ![i] = i]
    /\ worker' = [worker EXCEPT ![i] = "running"]
    /\ at' = [at EXCEPT ![i] = <<args'[i].start1, loop.start2>>]
    /\ i' = i + 1
    /\ UNCHANGED <<program, call, main, j, ran, failed>>

pthread_create_fails ==
    /\ main = "create"
    /\ i < loop.numThread - 1
    /\ Cardinality(failed) < MaxFailures
    /\ set_args
    /\ \E stale \in Worker \cup {garbage} : thread_ids' = [thread_ids EXCEPT ![i] = stale]
    /\ failed' = failed \cup {<<call, i>>}
    /\ i' = i + 1
    /\ UNCHANGED <<program, call, main, j, worker, at, ran>>

create_done ==
    /\ main = "create"
    /\ i >= loop.numThread - 1
    /\ main' = "join"
    /\ i' = 0
    /\ UNCHANGED <<program, call, j, threadVars, ran, failed>>

-----------------------------------------------------------------------------
(* thread_func_for and thread_func_double_for.                             *)

\* Seeded fault: the row loop ends one row early.
rows_left_short(k) == at[k][1] < args[k].end1 - 1 /\ loop.start2 < loop.end2

rows_left(k) == at[k][1] < args[k].end1 /\ loop.start2 < loop.end2

thread_lambda(k) ==
    /\ worker[k] = "running"
    /\ rows_left(k)
    /\ lambda(at[k][1], at[k][2])
    /\ at' = [at EXCEPT ![k] = after(at[k][1], at[k][2])]
    /\ UNCHANGED <<program, call, main, i, j, args, thread_ids, worker, failed>>

\* Seeded fault: the row loop only ends exactly at its bound.
thread_returns_at_end(k) ==
    /\ worker[k] = "running"
    /\ at[k][1] = args[k].end1
    /\ worker' = [worker EXCEPT ![k] = "returned"]
    /\ UNCHANGED <<program, call, main, i, j, args, thread_ids, at, ran, failed>>

thread_returns(k) ==
    /\ worker[k] = "running"
    /\ ~ rows_left(k)
    /\ worker' = [worker EXCEPT ![k] = "returned"]
    /\ UNCHANGED <<program, call, main, i, j, args, thread_ids, at, ran, failed>>

-----------------------------------------------------------------------------
(* Joining.  A result other than 0 is only printed.                        *)

\* thread_ids[i] names a thread that was not joined yet: wait for its end.
pthread_join ==
    /\ main = "join"
    /\ i < loop.numThread - 1
    /\ thread_ids[i] # garbage
    /\ worker[thread_ids[i]] = "returned"
    /\ worker' = [worker EXCEPT ![thread_ids[i]] = "joined"]
    /\ i' = i + 1
    /\ UNCHANGED <<program, call, main, j, args, thread_ids, at, ran, failed>>

\* It names no thread, or one that is gone: undefined, in practice an error
\* or an access to memory that is not mapped.
pthread_join_undefined ==
    /\ main = "join"
    /\ i < loop.numThread - 1
    /\ thread_ids[i] # garbage => worker[thread_ids[i]] \in {"none", "joined"}
    /\ \/ i' = i + 1 /\ UNCHANGED main
       \/ main' = "crashed" /\ UNCHANGED i
    /\ UNCHANGED <<program, call, j, threadVars, ran, failed>>

\* Seeded fault: the loop over thread_ids stops one thread early.
join_done_one_early ==
    /\ main = "join"
    /\ i >= loop.numThread - 2
    /\ main' = "returned"
    /\ UNCHANGED <<program, call, i, j, threadVars, ran, failed>>

join_done ==
    /\ main = "join"
    /\ i >= loop.numThread - 1
    /\ main' = "returned"
    /\ UNCHANGED <<program, call, i, j, threadVars, ran, failed>>

\* counter++; the program goes on to its next call.
next_call ==
    /\ main = "returned"
    /\ call < Len(program)
    /\ call' = call + 1
    /\ main' = "enter"
    /\ UNCHANGED <<program, i, j, threadVars, ran, failed>>

-----------------------------------------------------------------------------
parallel_for ==
    \/ enter \/ enter_undefined \/ main_chunk \/ main_chunk_done
    \/ pthread_create \/ pthread_create_fails \/ create_done
    \/ pthread_join \/ pthread_join_undefined \/ join_done \/ next_call

thread_func(k) == thread_lambda(k) \/ thread_returns(k)

\* Once the process crashed none of its threads runs.
Next ==
    /\ main # "crashed"
    /\ parallel_for \/ \E k \in Worker : thread_func(k)

Spec == Init /\ [][Next]_vars

\* The kernel schedules every thread that can run.
FairSpec ==
    /\ Spec
    /\ WF_vars(main # "crashed" /\ parallel_for)
    /\ \A k \in Worker : WF_vars(main # "crashed" /\ thread_func(k))

-----------------------------------------------------------------------------
\* TypeOK: no index leaves args or thread_ids, and an id is that of a thread of
\* the call or garbage.
TypeOK ==
    /\ program \in Programs
    /\ call \in DOMAIN program
    /\ main \in {"enter", "chunk", "create", "join", "returned", "crashed"}
    /\ i \in Int /\ j \in Int
    /\ args \in [Worker -> [start1 : Int, end1 : Int]]
    /\ thread_ids \in [Worker -> Worker \cup {garbage}]
    /\ worker \in [Worker -> {"none", "running", "returned", "joined"}]
    /\ at \in [Worker -> Int \X Int]
    /\ ran \in [DOMAIN program -> [Cell -> Nat]]
    /\ failed \subseteq (DOMAIN program) \X Worker

\* AtMostOnce: the lambda is never applied twice to a row and column in one
\* call, nor to one outside the range, whichever creates fail and however the
\* threads interleave (the chunks of parallel_for do not overlap).
AtMostOnce ==
    \A c \in DOMAIN program : \A cell \in Cell :
        ran[c][cell] <= (IF cell \in CellsOf(program[c]) THEN 1 ELSE 0)

\* ReturnsComplete: when parallel_for has returned, exactly the rows of the
\* threads that could not be created are missing.
ReturnsComplete ==
    main = "returned" /\ loop.numThread > 0 =>
        \A cell \in CellsOf(loop) :
            ran[call][cell] = 0
                <=> \E k \in Worker : <<call, k>> \in failed /\ cell[1] \in WorkerRows(loop, k)

\* NoThreadOutlivesCall: args and the lambda live on parallel_for's stack, and
\* no created thread is still using them when it has returned, not even if a
\* join is lost to an id that was never written.
NoThreadOutlivesCall ==
    main = "returned" => \A k \in Worker : worker[k] # "running"

\* PhasesOrdered: a call applies its lambda only after the calls before it have
\* covered their ranges: matrix.cpp allocates, multiplies and frees in that
\* order, so no thread meets a row that is not there.
PhasesOrdered ==
    [][\A c \in DOMAIN program :
          ran'[c] # ran[c] /\ failed = {} =>
              \A b \in 1 .. c - 1 : program[b].numThread > 0 =>
                  \A cell \in CellsOf(program[b]) : ran[b][cell] = 1]_vars

\* Terminates: every program ends or crashes; no join waits for a thread that
\* will not end (parallel_for).
Terminates == <>(main = "crashed" \/ (main = "returned" /\ call = Len(program)))
=============================================================================
