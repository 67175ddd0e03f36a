----------------------------- MODULE SimpleShell -----------------------------
(***************************************************************************)
(* The command loop of OS_Assignment_3/simpleshell.c: single commands,     *)
(* background commands, pipelines, built-in commands and the children they *)
(* leave behind.  submit leaves a stopped child; of sched only the shell's *)
(* side is here, what a scheduler does is in DamScheduler.                 *)
(*                                                                         *)
(* A line is the sequence of tokens that parse returns.  A pid is the      *)
(* number of the fork that made the child.  A pipe is a number that no     *)
(* process uses, and 0 stands for a descriptor that is no such pipe.  A    *)
(* child has the ends of the current stage's pipes from its fork on: in is *)
(* the pipe that it may read, out the pipe that it may write to.           *)
(***************************************************************************)
EXTENDS Integers, Sequences, FiniteSets, SequencesExt

CONSTANTS
    Lines,                      \* the command lines the user may enter
    MAX_BACKGROUND_PROCESSES, MAX_HISTORY_SIZE,
    MaxForks,                   \* bound: how many children are forked
    MaxJobs                     \* bound: how many of them by submit, and by sched

ASSUME LimitsAssumption ==
    MAX_BACKGROUND_PROCESSES \in Nat /\ MAX_HISTORY_SIZE \in Nat
    /\ MaxForks \in Nat /\ MaxJobs \in Nat

ASSUME LinesAssumption == Lines \subseteq Seq(STRING)

VARIABLES
    pc,                             \* where main is; its end states are Over
    is_bg_process,                  \* the flag, a boolean here
    background_running_processes,   \* the pids that jobs prints
    history_count,
    cmds,                           \* the commands of the current line
    stage,                          \* which of them is run, from 1
    input_fd, output_fd,            \* pipes of the current stage
    open_ends,                      \* the pipe ends the shell has open
    waits,                          \* calls of wait that are still to come
    child,                          \* the children in the order of their forks
    ampersand                       \* history: the current line has an "&"

lists     == <<background_running_processes, history_count>>
pipeline  == <<cmds, stage, input_fd, output_fd, open_ends, waits, ampersand>>
vars      == <<pc, is_bg_process, lists, pipeline, child>>

Over == {"exited", "crashed", "undefined"}

Init ==
    /\ pc = "prompt"
    /\ is_bg_process = FALSE
    /\ background_running_processes = <<>>
    /\ history_count = 0
    /\ cmds = <<>> /\ stage = 1
    /\ input_fd = 0 /\ output_fd = 0
    /\ open_ends = {}
    /\ waits = 0
    /\ child = <<>>
    /\ ampersand = FALSE

\* The process is over: its memory and descriptors are gone and its children
\* are no longer its own.
over(how) ==
    /\ pc' = how
    /\ is_bg_process' = FALSE
    /\ background_running_processes' = <<>>
    /\ history_count' = 0
    /\ cmds' = <<>> /\ stage' = 1
    /\ input_fd' = 0 /\ output_fd' = 0
    /\ open_ends' = {}
    /\ waits' = 0
    /\ child' = <<>>
    /\ ampersand' = FALSE

\* Back to the prompt; the commands are freed and no pipe is in use.
prompt ==
    /\ pc' = "prompt"
    /\ cmds' = <<>> /\ stage' = 1
    /\ input_fd' = 0 /\ output_fd' = 0
    /\ waits' = 0
    /\ ampersand' = FALSE

-----------------------------------------------------------------------------
(* Lines.                                                                  *)

Positions(line, token) == {n \in DOMAIN line : line[n] = token}

\* "&" is overwritten by NULL, so a single command ends before the first one.
BeforeAmpersand(line) ==
    LET amps == Positions(line, "&")
    IN  IF amps = {} THEN line ELSE SubSeq(line, 1, Min(amps) - 1)

\* The parts between the bars.  slice_command gives NULL for an empty one.
Commands(line) ==
    LET bars   == {0, Len(line) + 1} \cup Positions(line, "|")
        bar(n) == Min({b \in bars : Cardinality({c \in bars : c <= b}) >= n})
    IN  [n \in 1 .. Cardinality(bars) - 1 |-> SubSeq(line, bar(n) + 1, bar(n + 1) - 1)]

Builtin == {"cd", "exit", "help", "jobs", "history"}

\* The built-in commands that enter the history, cd if it succeeds.
EntersHistory(cmd) == cmd # <<>> /\ (cmd[1] = "help" \/ (cmd[1] = "cd" /\ Len(cmd) > 1))

-----------------------------------------------------------------------------
(* Children.                                                               *)

Forked(kind, state, program, in, out) ==
    Append(child, [kind |-> kind, state |-> state, program |-> program,
                   in |-> in, out |-> out])

CanFork == Len(child) < MaxForks

Kind(kind) == {p \in DOMAIN child : child[p].kind = kind}

Live(p) == child[p].state \in {"forked", "running", "stopped"}

\* A child that has yet to execute a program has the read end and reads nothing.
HasReader(pipe) == \E q \in DOMAIN child : child[q].state = "running" /\ child[q].in = pipe
HasWriter(pipe) == \/ <<pipe, "w">> \in open_ends
                   \/ \E q \in DOMAIN child : Live(q) /\ child[q].out = pipe

\* Seeded fault: the child of sched does not exit once it has the grandchild.
runs_dummy_main_twice(p) == child[p].kind \in {"sched", "lone scheduler"}

runs_dummy_main(p) == child[p].kind = "lone scheduler"

\* "flood" writes more than a pipe holds, every other program less: nobody kills
\* it, since it has the read end of its output as well.  Each program reads its
\* input to the end.  A scheduler goes on forever.
Blocked(p) ==
    \/ runs_dummy_main(p)
    \/ child[p].in # 0 /\ HasWriter(child[p].in)
    \/ child[p].program = "flood" /\ child[p].out # 0 /\ ~ HasReader(child[p].out)

\* Seeded fault: the output of a child in the background stays a pipe.
redirected_never(p) == FALSE

\* A child in the background writes to a file, like a command with ">".  The
\* shell waits at the stage of any other child that has yet to execute.
redirected(p) == child[p].kind = "background" \/ Positions(cmds[stage], ">") # {}

output_of(p) == IF redirected(p) THEN 0 ELSE child[p].out

\* The child has opened the file, if it writes to one, and executes its program.
executes(p) ==
    /\ pc \notin Over
    /\ child[p].state = "forked" /\ child[p].program # "none"
    /\ child' = [child EXCEPT ![p] =
                     [@ EXCEPT !.state = "running", !.out = output_of(p)]]
    /\ UNCHANGED <<pc, is_bg_process, lists, pipeline>>

\* The program ends, or execvp or the child's open of a file fails, or the child
\* has none to execute.
exits(p) ==
    /\ pc \notin Over
    /\ child[p].state = "forked" \/ (child[p].state = "running" /\ ~ Blocked(p))
    /\ child' = [child EXCEPT ![p] =
                     [@ EXCEPT !.state = "zombie", !.program = "none", !.in = 0, !.out = 0]]
    /\ UNCHANGED <<pc, is_bg_process, lists, pipeline>>

\* A scheduler wakes a submitted job.
continued(p) ==
    /\ pc \notin Over
    /\ child[p].state = "stopped"
    /\ child' = [child EXCEPT ![p].state = "running"]
    /\ UNCHANGED <<pc, is_bg_process, lists, pipeline>>

\* The child of sched cannot fork the grandchild and runs dummy_main itself.
\* If it can, the grandchild is nobody's concern here and the child exits.
grandchild_fails(p) ==
    /\ pc \notin Over
    /\ child[p].kind = "sched" /\ child[p].state = "running"
    /\ child' = [child EXCEPT ![p].kind = "lone scheduler"]
    /\ UNCHANGED <<pc, is_bg_process, lists, pipeline>>

\* dummy_main rejects its arguments, or sem_open fails, and the child exits.
scheduler_gives_up(p) ==
    /\ pc \notin Over
    /\ child[p].kind = "lone scheduler" /\ child[p].state = "running"
    /\ child' = [child EXCEPT ![p].state = "zombie"]
    /\ UNCHANGED <<pc, is_bg_process, lists, pipeline>>

-----------------------------------------------------------------------------
(* The prompt.                                                             *)

\* command_history_storeing counts the entry before it fills it in.
store_counts ==
    /\ history_count < MAX_HISTORY_SIZE
    /\ history_count' = history_count + 1
    /\ pc' = "storing"

\* The entry is complete.  A built-in command has no stages.
stored ==
    /\ pc = "storing"
    /\ pc' = IF cmds = <<>> THEN "prompt" ELSE "stage_done"
    /\ UNCHANGED <<is_bg_process, lists, pipeline, child>>

\* It writes behind the end of cmd_history and overwrites other variables:
\* nothing is known of the shell after that.
store_overflows == history_count >= MAX_HISTORY_SIZE /\ over("undefined")

\* End of input: parse(NULL) exits.
read_eof == pc = "prompt" /\ over("exited")

\* No token: main compares cmd[0], which is NULL, with "submit".
read_blank ==
    /\ pc = "prompt"
    /\ <<>> \in Lines
    /\ over("crashed")

SubmitLines == {line \in Lines : line # <<>> /\ line[1] = "submit"}
SchedLines  == {line \in Lines : line # <<>> /\ line[1] = "sched"}
OtherLines  == Lines \ (SubmitLines \cup SchedLines)
SingleLines == {line \in OtherLines : line # <<>> /\ Positions(line, "|") = {}}
PipedLines  == {line \in OtherLines : Positions(line, "|") # {}}

\* submit leaves a child that stops itself; if fork fails nothing changes.
submit ==
    /\ pc = "prompt"
    /\ SubmitLines # {} /\ CanFork /\ Cardinality(Kind("job")) < MaxJobs
    /\ child' = Forked("job", "stopped", "prog", 0, 0)
    /\ UNCHANGED <<pc, is_bg_process, lists, pipeline>>

\* sched forks a child and waits for it; if fork fails nothing changes.
sched ==
    /\ pc = "prompt"
    /\ SchedLines # {} /\ CanFork /\ Cardinality(Kind("sched") \cup Kind("lone scheduler")) < MaxJobs
    /\ child' = Forked("sched", "running", "none", 0, 0)
    /\ pc' = "sched_wait"
    /\ UNCHANGED <<is_bg_process, lists, pipeline>>

flag(line) == is_bg_process' = (is_bg_process \/ Positions(line, "&") # {})

\* A line that starts with "&": the flag is set and nothing runs.
no_command(line) ==
    /\ pc = "prompt"
    /\ BeforeAmpersand(line) = <<>>
    /\ flag(line)
    /\ UNCHANGED <<pc, lists, pipeline, child>>

\* A built-in command.  help, and cd when it succeeds, enter the history.
\* exit with an argument does nothing.
builtin(line) ==
    LET cmd == BeforeAmpersand(line) IN
    /\ pc = "prompt"
    /\ cmd # <<>> /\ cmd[1] \in Builtin
    /\ flag(line)
    /\ \/ cmd # <<"exit">> /\ cmd[1] # "help" /\ UNCHANGED <<pc, history_count>>
       \/ EntersHistory(cmd) /\ store_counts
    /\ UNCHANGED <<background_running_processes, pipeline, child>>

\* exit alone, or help or cd with a full history.
builtin_ends(line) ==
    LET cmd == BeforeAmpersand(line) IN
    /\ pc = "prompt"
    /\ \/ cmd = <<"exit">> /\ over("exited")
       \/ EntersHistory(cmd) /\ store_overflows

run(line, commands) ==
    /\ flag(line)
    /\ ampersand' = (Positions(line, "&") # {})
    /\ cmds' = commands
    /\ UNCHANGED <<lists, stage, input_fd, output_fd, open_ends, waits, child>>

single(line) ==
    LET cmd == BeforeAmpersand(line) IN
    /\ pc = "prompt"
    /\ cmd # <<>> /\ cmd[1] \notin Builtin
    /\ run(line, <<cmd>>)
    /\ pc' = "fork"

piped(line) ==
    /\ pc = "prompt"
    /\ Positions(line, "&") = {}
    /\ run(line, Commands(line))
    /\ pc' = "pipe"

\* With "&" the loop that splits the pipeline compares the NULL put in its
\* place with "|".
piped_ampersand(line) ==
    /\ pc = "prompt"
    /\ Positions(line, "&") # {}
    /\ over("crashed")

\* Ctrl-C: the handler prints history_count entries and exits, wherever the
\* shell is.  An entry that is counted and not filled in has no command, or
\* one without an end.
sigint_handler ==
    /\ pc \notin Over
    /\ over("exited") \/ (pc = "storing" /\ over("crashed"))

-----------------------------------------------------------------------------
(* The loop over the stages of a pipeline.                                 *)

last_stage == stage = Len(cmds)

unused_pipe ==
    LET used == {end[1] : end \in open_ends}
                    \cup {child[p].in : p \in DOMAIN child} \cup {child[p].out : p \in DOMAIN child}
    IN  Min((1 .. Cardinality(used) + 1) \ used)

pipe ==
    /\ pc = "pipe"
    /\ IF last_stage
       THEN output_fd' = 0 /\ UNCHANGED open_ends
       ELSE /\ output_fd' = unused_pipe
            /\ open_ends' = open_ends \cup {<<unused_pipe, "r">>, <<unused_pipe, "w">>}
    /\ pc' = "fork"
    /\ UNCHANGED <<is_bg_process, lists, cmds, stage, input_fd, waits, ampersand, child>>

pipe_fails ==
    /\ pc = "pipe" /\ ~ last_stage
    /\ over("exited")

\* Seeded fault: the shell keeps the write end of the pipe.
closed_ends_without_output == {<<input_fd, "r">>}

\* Seeded fault: the shell keeps the read end that the stage has inherited.
closed_ends_without_input == {<<output_fd, "w">>}

\* What the shell closes once the stage is forked; 0 stays open.
closed_ends == {<<input_fd, "r">>, <<output_fd, "w">>}

\* The first loop of waits runs always, the second one without the flag.
wait_calls == Len(cmds) * (IF is_bg_process THEN 1 ELSE 2)

\* After new_process.  A single command has no pipes and no waits.
single_done ==
    /\ pc = "stage_done" /\ Len(cmds) = 1
    /\ prompt
    /\ UNCHANGED <<is_bg_process, lists, open_ends, child>>

stage_done ==
    /\ pc = "stage_done" /\ Len(cmds) > 1
    /\ open_ends' = open_ends \ closed_ends
    /\ input_fd' = output_fd
    /\ stage' = stage + 1
    /\ waits' = IF last_stage THEN wait_calls ELSE 0
    /\ pc' = IF last_stage THEN "reap" ELSE "pipe"
    /\ UNCHANGED <<is_bg_process, lists, cmds, output_fd, ampersand, child>>

-----------------------------------------------------------------------------
(* new_process.                                                            *)

this == Len(child)   \* process_id

\* The program that the child of a stage executes.  That of an empty stage reads
\* through a NULL pointer and dies, and that of a ">" without a command or
\* without a file exits.
program_of(cmd) ==
    IF cmd = <<>> \/ (cmd # <<>> /\ ">" \in {cmd[1], Last(cmd)}) THEN "none" ELSE cmd[1]

\* The child has the shell's ends of the pipes of the stage.
fork ==
    /\ pc = "fork" /\ CanFork
    /\ child' = Forked(IF is_bg_process THEN "background" ELSE "foreground",
                       "forked", program_of(cmds[stage]), input_fd, output_fd)
    /\ pc' = IF is_bg_process THEN "second_fork" ELSE "waitpid"
    /\ UNCHANGED <<is_bg_process, lists, pipeline>>

\* The flag is left as it is.
fork_fails ==
    /\ pc \in {"fork", "second_fork"}
    /\ pc' = "stage_done"
    /\ UNCHANGED <<is_bg_process, lists, pipeline, child>>

\* Seeded fault: wait instead of waitpid takes whichever child has ended.
awaited_any == {p \in DOMAIN child : child[p].state = "zombie"}

\* The children that waitpid may take.
awaited == {p \in {this} : child[p].state = "zombie"}

\* Storing the history entry of an empty stage reads through a NULL pointer.
store_crashes == cmds[stage] = <<>> /\ history_count < MAX_HISTORY_SIZE /\ over("crashed")

waitpid ==
    /\ pc = "waitpid"
    /\ \E p \in awaited : child' = [child EXCEPT ![p].state = "reaped"]
    /\ cmds[stage] # <<>>
    /\ store_counts
    /\ UNCHANGED <<is_bg_process, background_running_processes, pipeline>>

\* sched goes on when its child is gone.
sched_done ==
    /\ pc = "sched_wait"
    /\ \E p \in awaited : child' = [child EXCEPT ![p].state = "reaped"]
    /\ pc' = "prompt"
    /\ UNCHANGED <<is_bg_process, lists, pipeline>>

waitpid_ends ==
    /\ pc = "waitpid"
    /\ awaited # {}
    /\ store_crashes \/ store_overflows

\* Seeded fault: the pid of the second child is listed, as in the history.
listed_second_pid == this + 1

\* The pid that enters the list of background processes.
listed_pid == this

\* Seeded fault: one entry too many is let in.
list_full_off_by_one == Len(background_running_processes) > MAX_BACKGROUND_PROCESSES

list_full == Len(background_running_processes) >= MAX_BACKGROUND_PROCESSES

\* The second child has the same ends of pipes until it exits.
second_child ==
    /\ pc = "second_fork" /\ CanFork
    /\ child' = Forked("dummy", "forked", "none", input_fd, output_fd)
    /\ is_bg_process' = FALSE

\* The second child exits at once; the shell lists the first one.
second_fork ==
    /\ second_child
    /\ ~ list_full
    /\ cmds[stage] # <<>>
    /\ background_running_processes' = Append(background_running_processes, listed_pid)
    /\ store_counts
    /\ UNCHANGED pipeline

second_fork_full ==
    /\ second_child
    /\ list_full
    /\ pc' = "stage_done"
    /\ UNCHANGED <<lists, pipeline>>

\* The name of an empty stage is copied into the list through a NULL pointer.
second_fork_ends ==
    /\ pc = "second_fork" /\ CanFork
    /\ ~ list_full
    /\ \/ cmds[stage] = <<>> /\ over("crashed")
       \/ cmds[stage] # <<>> /\ store_overflows

-----------------------------------------------------------------------------
(* The calls of wait behind a pipeline: any child will do.                 *)

wait ==
    /\ pc = "reap" /\ waits > 0
    /\ \E p \in DOMAIN child :
           child[p].state = "zombie" /\ child' = [child EXCEPT ![p].state = "reaped"]
    /\ waits' = waits - 1
    /\ UNCHANGED <<pc, is_bg_process, lists, cmds, stage, input_fd, output_fd,
                   open_ends, ampersand>>

\* Seeded fault: the loop goes on until a wait has found a child.
wait_without_child_retries == FALSE

\* Without a child wait fails at once, and the loop counts it.
wait_without_child == \A p \in DOMAIN child : child[p].state = "reaped"

wait_fails ==
    /\ pc = "reap" /\ waits > 0
    /\ wait_without_child
    /\ waits' = waits - 1
    /\ UNCHANGED <<pc, is_bg_process, lists, cmds, stage, input_fd, output_fd,
                   open_ends, child, ampersand>>

waits_done ==
    /\ pc = "reap" /\ waits = 0
    /\ prompt
    /\ UNCHANGED <<is_bg_process, lists, open_ends, child>>

-----------------------------------------------------------------------------
\* What main does without the user.
shell_step ==
    \/ pipe \/ pipe_fails \/ stage_done \/ single_done
    \/ fork \/ fork_fails \/ waitpid \/ waitpid_ends
    \/ second_fork \/ second_fork_full \/ second_fork_ends
    \/ wait \/ wait_fails \/ waits_done \/ stored \/ sched_done

main ==
    \/ read_eof \/ read_blank \/ submit \/ sched
    \/ \E line \in SingleLines : no_command(line) \/ builtin(line) \/ builtin_ends(line) \/ single(line)
    \/ \E line \in PipedLines : piped(line) \/ piped_ampersand(line)
    \/ shell_step

Next ==
    \/ main \/ sigint_handler
    \/ \E p \in DOMAIN child :
           executes(p) \/ exits(p) \/ continued(p) \/ grandchild_fails(p) \/ scheduler_gives_up(p)

Spec == Init /\ [][Next]_vars

\* The kernel runs the shell, and a child that is not blocked executes its
\* program or ends.  Nobody need type a line or continue a job.
FairSpec ==
    /\ Spec
    /\ WF_vars(shell_step)
    /\ \A p \in 1 .. MaxForks : WF_vars(p \in DOMAIN child /\ (executes(p) \/ exits(p)))

-----------------------------------------------------------------------------
Pipe == Nat

\* What a child may run: a token of a line, or the program of submit.
Programs == {"none", "prog"} \cup UNION {Range(line) : line \in Lines}

\* TypeOK: every variable keeps its C type, the list of background processes
\* its array bound, no index leaves cmds, and what is executed was entered.
TypeOK ==
    /\ pc \in Over \cup {"prompt", "pipe", "fork", "waitpid", "second_fork", "stage_done", "reap",
                       "storing", "sched_wait"}
    /\ is_bg_process \in BOOLEAN /\ ampersand \in BOOLEAN
    /\ background_running_processes \in Seq(DOMAIN child)
    /\ Len(background_running_processes) <= MAX_BACKGROUND_PROCESSES
    /\ history_count \in 0 .. MAX_HISTORY_SIZE
    /\ waits \in Nat
    /\ input_fd \in Pipe /\ output_fd \in Pipe
    /\ open_ends \subseteq Pipe \X {"r", "w"}
    /\ stage \in 1 .. Len(cmds) + 1
    /\ pc \in {"pipe", "fork", "waitpid", "second_fork", "stage_done"} => stage \in DOMAIN cmds
    /\ child \in Seq([kind : {"job", "foreground", "background", "dummy", "sched", "lone scheduler"},
                      state : {"forked", "running", "stopped", "zombie", "reaped"},
                      program : Programs, in : Pipe, out : Pipe])

\* PromptAfterForeground: the shell is at its prompt only when every command it
\* ran in the foreground, and every child of sched, has ended and was collected,
\* however many background children and submitted jobs end in between
\* (new_process, main, waitpid).
PromptAfterForeground ==
    pc = "prompt" =>
        \A p \in Kind("foreground") \cup Kind("sched") \cup Kind("lone scheduler") :
            child[p].state = "reaped"

\* PipesClosed: no pipe end stays open in the shell behind a pipeline, whichever
\* of its forks fail (execute_piped_commands).
PipesClosed == pc \in {"reap", "prompt"} => open_ends = {}

\* InputComplete: all that programs will ever write into the pipe that a stage
\* reads is in it: the shell has closed its write end, and a process that still
\* has one is a child in the background or a second child that has yet to redirect
\* its output or to exit (new_process, execute_piped_commands).
InputComplete ==
    \A p \in DOMAIN child :
        Live(p) /\ child[p].in # 0 =>
            /\ <<child[p].in, "w">> \notin open_ends
            /\ \A q \in DOMAIN child :
                   Live(q) /\ child[q].out = child[p].in =>
                       child[q].kind \in {"background", "dummy"} /\ child[q].state = "forked"

\* JobsListed: the list names background commands, each once, and there are as
\* many as second forks succeeded, up to its limit (new_process).
JobsListed ==
    pc = "prompt" =>
        /\ IsInjective(background_running_processes)
        /\ Range(background_running_processes) \subseteq Kind("background")
        /\ Len(background_running_processes)
               = Min({MAX_BACKGROUND_PROCESSES, Cardinality(Kind("dummy"))})

\* ForegroundReturns: the wait for a command whose output is no pipe comes to
\* an end, with the input of a pipe as well.
ForegroundReturns ==
    (pc = "waitpid" /\ child[this].out = 0) ~> (pc # "waitpid")

\* WaitsReturn: the waits behind a pipeline come to an end unless a submitted
\* job is stopped.
WaitsReturn == (pc = "reap") ~> (pc # "reap" \/ \E p \in DOMAIN child : child[p].state = "stopped")

\* SchedReturns: sched gives the prompt back while its scheduler runs, unless
\* the second fork failed and the child is the scheduler itself (main).
SchedReturns ==
    (pc = "sched_wait") ~> (pc # "sched_wait" \/ child[this].kind = "lone scheduler")

-----------------------------------------------------------------------------
(* What comments of the source say and the code does not do.               *)

\* FlagMeansAmpersand: is_bg_process says whether the process just created is a
\* background process, that is whether its line has an "&".
FlagMeansAmpersand ==
    pc \in {"waitpid", "second_fork"} => (child[this].kind = "background") = ampersand

\* PipelineReturns: the commands of a pipeline are executed and their children
\* waited for until they complete.
PipelineReturns == (pc = "pipe") ~> (pc \in Over \cup {"prompt"})
=============================================================================
