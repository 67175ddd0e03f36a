------------------------------ MODULE DamShell ------------------------------
(***************************************************************************)
(* The shell of Assignment 2 (OS_Assignment_2/Dam_Shell.c).  It runs every *)
(* command in the foreground, feeds a pipeline through its own standard    *)
(* input, and reads scripts with stdio while its children share the file.  *)
(*                                                                         *)
(* A line is a sequence of tokens: words, "|", "&", "\n" at its end, and   *)
(* " " where blanks stand alone.  What a program writes into a pipe is a   *)
(* sequence of lines, since the shell may come to read it as such.  A      *)
(* script is one sequence of tokens, since stdio reads it in parts that do *)
(* not end where lines end: a token of a script stands for a byte.         *)
(***************************************************************************)
EXTENDS Integers, Sequences, FiniteSets, SequencesExt

CONSTANTS
    TypedLines,         \* what the user may type, without "\n" if Ctrl-D ends it
    Outputs,            \* what a program may write
    Scripts,            \* what the script files hold
    Readers,            \* the programs that read their input to its end
    max_history_size,
    BlockTokens,        \* how much of a script stdio reads at a time
    MaxLines            \* bound: how often the user types something

ASSUME LimitsAssumption ==
    max_history_size \in Nat /\ BlockTokens \in Nat \ {0} /\ MaxLines \in Nat

Ended(line) == line # <<>> /\ Last(line) = "\n"

ASSUME TypedAssumption == TypedLines \subseteq Seq(STRING)

\* A program writes whole lines, or one line without an end.
ASSUME OutputAssumption ==
    /\ Outputs \subseteq Seq(Seq(STRING))
    /\ \A output \in Outputs :
           \/ \A n \in DOMAIN output : Ended(output[n])
           \/ Len(output) = 1 /\ output[1] # <<>>

ASSUME ScriptsAssumption == Scripts \subseteq Seq(STRING)

VARIABLES
    pc,                 \* where the shell is; its end states are Over
    stdin,              \* descriptor 0: the terminal or a pipe
    pipe,               \* that pipe: its unread lines, and the command they are from
    write_end,          \* the shell has the write end of that pipe open
    buffer, eof,        \* lines that stdio has read ahead, its end-of-file flag
    todo,               \* pipelines still to be run, the current one first
    feeder,             \* the command that the next stage shall read from
    script,             \* the script that shell_interpreter reads
    child,              \* the child that launch waits for
    command_counter,
    commands,           \* the entries of the array commands that are set
    typed

input   == <<stdin, pipe, write_end>>
stdio   == <<buffer, eof>>
history == <<command_counter, commands>>
vars    == <<pc, input, stdio, todo, feeder, script, child, history, typed>>

Over == {"exited", "crashed", "undefined"}

None     == -1
NoPipe   == [lines |-> <<>>, from |-> None]
NoScript == [open |-> FALSE, file |-> <<>>, buffer |-> <<>>, offset |-> 0, ran |-> <<>>]
NoChild  == [state |-> "none", name |-> "none", it_pipe |-> FALSE, wrote |-> <<>>]

Init ==
    /\ pc = "prompt"
    /\ stdin = "tty" /\ pipe = NoPipe /\ write_end = FALSE
    /\ buffer = <<>> /\ eof = FALSE
    /\ todo = <<>> /\ feeder = None
    /\ script = NoScript
    /\ child = NoChild
    /\ command_counter = 0 /\ commands = {}
    /\ typed = 0

\* The process is over and nothing is left of it.
over(how) ==
    /\ pc' = how
    /\ stdin' = "tty" /\ pipe' = NoPipe /\ write_end' = FALSE
    /\ buffer' = <<>> /\ eof' = FALSE
    /\ todo' = <<>> /\ feeder' = None
    /\ script' = NoScript
    /\ child' = NoChild
    /\ command_counter' = 0 /\ commands' = {}
    /\ typed' = 0

-----------------------------------------------------------------------------
(* Lines.                                                                  *)

\* The k-th member of a set of positions.
nth(S, k) == Min({n \in S : Cardinality({m \in S : m <= n}) >= k})

\* What strtok makes of s: its parts between the delimiters, no empty ones.
Parts(delimiter) == [s \in Seq(STRING) |->
    LET starts == {n \in DOMAIN s : s[n] # delimiter /\ (n = 1 \/ s[n - 1] = delimiter)}
        end(n) == Min({m \in n .. Len(s) : m = Len(s) \/ s[m + 1] = delimiter})
    IN  [k \in 1 .. Cardinality(starts) |-> SubSeq(s, nth(starts, k), end(nth(starts, k)))]]

\* The arguments of a command, separated by blanks.
Words[s \in Seq(STRING)] ==
    LET words == {n \in DOMAIN s : s[n] # " "}
    IN  [k \in 1 .. Cardinality(words) |-> s[nth(words, k)]]

\* The blanks before and behind s are removed.
Trim[s \in Seq(STRING)] ==
    LET words == {n \in DOMAIN s : s[n] # " "}
    IN  IF words = {} THEN <<>> ELSE SubSeq(s, Min(words), Max(words))

Stages[part \in Seq(STRING)] ==
    LET commands_of == Parts("|")[Trim[part]]
    IN  [n \in DOMAIN commands_of |-> Words[commands_of[n]]]

\* The pipelines of a line in their order; "&" does not start a second process.
Pipelines[line \in Seq(STRING)] ==
    LET parts == Parts("&")[line]
        some  == {n \in DOMAIN parts : Stages[parts[n]] # <<>>}
    IN  [k \in 1 .. Cardinality(some) |-> Stages[parts[nth(some, k)]]]

\* It starts with "./" and ends with ".sh".  With a "\n" it does not.
IsScript(line) == line = <<"./x.sh">>

-----------------------------------------------------------------------------
(* main: the next line.                                                    *)

\* Reading a pipe takes all it holds at once.
available == buffer \o (IF buffer = <<>> /\ stdin = "pipe" /\ ~ eof THEN pipe.lines ELSE <<>>)

\* Behind the last command of a line.
next_line(rest) ==
    /\ todo' = rest
    /\ pc' = IF DOMAIN rest # {} THEN "run" ELSE IF script.open THEN "script" ELSE "prompt"

\* shell_interpreter opens the script or prints that there is none; every other
\* line is split and run.
run_line(line) ==
    \/ /\ IsScript(line)
       /\ \E file \in Scripts :
              script' = [NoScript EXCEPT !.open = TRUE, !.file = file]
       /\ pc' = "script"
       /\ UNCHANGED todo
    \/ /\ IsScript(line)
       /\ pc' = "prompt"
       /\ UNCHANGED <<script, todo>>
    \/ /\ ~ IsScript(line)
       /\ next_line(Pipelines[line])
       /\ UNCHANGED script

\* The user types a line.  Without "\n" fgets has met the end of the input.
read_terminal(line) ==
    /\ pc = "prompt" /\ stdin = "tty" /\ ~ eof
    /\ typed < MaxLines
    /\ typed' = typed + 1
    /\ eof' = ~ Ended(line)
    /\ run_line(line)
    /\ UNCHANGED <<input, buffer, feeder, child, history>>

\* fgets finds a line in the pipe, or in what it has read ahead of it.
read_pipe ==
    /\ pc = "prompt"
    /\ available # <<>>
    /\ Ended(Head(available)) \/ ~ write_end
    /\ buffer' = Tail(available)
    /\ pipe' = IF buffer = <<>> THEN [pipe EXCEPT !.lines = <<>>] ELSE pipe
    /\ eof' = ~ Ended(Head(available))
    /\ run_line(Head(available))
    /\ UNCHANGED <<stdin, write_end, feeder, child, history, typed>>

\* fgets returns NULL: the end of a pipe, or the flag is still set.
end_of_input ==
    /\ pc = "prompt"
    /\ available = <<>>
    /\ eof \/ (stdin = "pipe" /\ ~ write_end)

\* fgets returns NULL: the user types Ctrl-D.
ctrl_D == pc = "prompt" /\ stdin = "tty" /\ ~ eof /\ typed < MaxLines

\* Seeded fault: the terminal is not opened again.
reopened_not == UNCHANGED <<input, stdio>>

\* What freopen of /dev/tty leaves.
reopened ==
    /\ stdin' = "tty" /\ pipe' = NoPipe /\ write_end' = FALSE
    /\ buffer' = <<>> /\ eof' = FALSE

freopen ==
    /\ end_of_input \/ ctrl_D
    /\ reopened
    /\ typed' = IF ctrl_D THEN typed + 1 ELSE typed
    /\ UNCHANGED <<pc, todo, feeder, script, child, history>>

\* There is no terminal any more and the shell exits.
freopen_fails ==
    /\ end_of_input \/ ctrl_D
    /\ over("exited")

-----------------------------------------------------------------------------
(* shell_interpreter.                                                      *)

\* Where the lines in the buffer end.
newlines == {n \in DOMAIN script.buffer : script.file[script.buffer[n]] = "\n"}

\* getline finds no "\n" in the buffer.  It reads the next block, and joins it to
\* what the buffer holds of a line.
read_block ==
    /\ pc = "script" /\ newlines = {}
    /\ script.offset < Len(script.file)
    /\ LET end == Min({script.offset + BlockTokens, Len(script.file)}) IN
       script' = [script EXCEPT !.offset = end,
                                !.buffer = @ \o [n \in 1 .. end - script.offset |-> script.offset + n]]
    /\ UNCHANGED <<pc, input, stdio, todo, feeder, child, history, typed>>

\* How much getline takes: up to a "\n", or to the end of the file.
taken == IF newlines = {} THEN Len(script.buffer) ELSE Min(newlines)

script_line ==
    /\ pc = "script" /\ script.buffer # <<>>
    /\ newlines # {} \/ script.offset = Len(script.file)
    /\ script' = [script EXCEPT !.buffer = SubSeq(@, taken + 1, Len(@)),
                                !.ran = @ \o SubSeq(script.buffer, 1, taken)]
    /\ LET text == [n \in 1 .. taken |-> script.file[script.buffer[n]]]
       IN  next_line(Pipelines[IF Ended(text) THEN Front(text) ELSE text])
    /\ UNCHANGED <<input, stdio, feeder, child, history, typed>>

script_done ==
    /\ pc = "script" /\ script.buffer = <<>>
    /\ script.offset = Len(script.file)
    /\ script' = NoScript
    /\ pc' = "prompt"
    /\ UNCHANGED <<input, stdio, todo, feeder, child, history, typed>>

-----------------------------------------------------------------------------
(* execute and launch.                                                     *)

it_pipe == Len(Head(todo)) > 1
argus   == Head(Head(todo))

\* Seeded fault: the pipelines of a line are counted, and not the stages left.
rest_with_empty == [todo EXCEPT ![1] = Tail(@)]

\* What is left of the line behind the current stage.
rest == IF it_pipe THEN [todo EXCEPT ![1] = Tail(@)] ELSE Tail(todo)

\* A stage of blanks: the terminator is written through argus[-1].
empty_stage == pc = "run" /\ argus = <<>> /\ over("undefined")

\* execute prints the entries below command_counter and exits.
exit ==
    /\ pc = "run"
    /\ argus # <<>> /\ argus[1] = "exit"
    /\ over("exited")

launches == pc = "run" /\ argus # <<>> /\ argus[1] # "exit"

\* fd stays uninitialised and is used nevertheless.
pipe_fails == launches /\ it_pipe /\ over("undefined")

fork ==
    /\ launches
    /\ child' = [state |-> "running", name |-> argus[1], it_pipe |-> it_pipe, wrote |-> <<>>]
    /\ pc' = "wait"
    /\ UNCHANGED <<input, stdio, todo, feeder, script, history, typed>>

\* The next stage reads what the shell reads; the ends of the pipe stay open
\* and nobody uses them.
fork_fails ==
    /\ launches
    /\ feeder' = None
    /\ next_line(rest)
    /\ UNCHANGED <<input, stdio, script, child, history, typed>>

\* Memory runs out in execute or launch.
malloc_fails == (launches \/ pc = "store") /\ over("exited")

\* Seeded fault: the shell keeps the write end.
write_end_kept == TRUE

\* The shell has closed its write end when it makes the pipe its input.
write_end_left == FALSE

\* Seeded fault: only a terminal is replaced.
replaces_terminal == child.it_pipe /\ stdin = "tty"

\* dup2 puts the pipe in the place of the shell's own input.
replaces_stdin == child.it_pipe

wait ==
    /\ pc = "wait" /\ child.state = "exited"
    /\ IF replaces_stdin
       THEN /\ stdin' = "pipe"
            /\ pipe' = [lines |-> child.wrote, from |-> command_counter]
            /\ write_end' = write_end_left
       ELSE UNCHANGED input
    /\ pc' = "store"
    /\ UNCHANGED <<stdio, todo, feeder, script, child, history, typed>>

\* Seeded fault: the counter is incremented before the entry is set.
recorded_counter_first ==
    IF pc = "store" THEN command_counter' = command_counter + 1 /\ UNCHANGED commands
                    ELSE commands' = commands \cup {command_counter - 1} /\ UNCHANGED command_counter

\* First the entry, then the counter.
recorded ==
    IF pc = "store" THEN commands' = commands \cup {command_counter} /\ UNCHANGED command_counter
                    ELSE command_counter' = command_counter + 1 /\ UNCHANGED commands

store ==
    /\ pc = "store"
    /\ command_counter < max_history_size
    /\ recorded
    /\ pc' = "count"
    /\ UNCHANGED <<input, stdio, todo, feeder, script, child, typed>>

\* The entry is written behind the array.
store_overflows == pc = "store" /\ command_counter >= max_history_size /\ over("undefined")

count ==
    /\ pc = "count"
    /\ recorded
    /\ feeder' = IF child.it_pipe THEN command_counter ELSE None
    /\ child' = NoChild
    /\ next_line(rest)
    /\ UNCHANGED <<input, stdio, script, typed>>

\* Ctrl-C: the handler prints the entries below command_counter and exits.
control_C_handler ==
    /\ pc \notin Over
    /\ over(IF 0 .. command_counter - 1 \subseteq commands THEN "exited" ELSE "crashed")

-----------------------------------------------------------------------------
(* The child.                                                              *)

\* Seeded fault: the file is left at its end.
offset_at_end == Len(script.file)

\* A child that calls exit gives back what stdio had read of the script and not
\* used: the offset that it shares with the shell goes back by that much, unless
\* that is before the start of the file.  It may come to lie inside a line.
offset_after_exit ==
    LET unused == Len(script.buffer)
    IN  IF unused > script.offset THEN script.offset ELSE script.offset - unused

\* "history" is printed, to the terminal also in a pipeline, or exec fails: the
\* child calls exit.
child_exits ==
    /\ pc = "wait" /\ child.state = "running"
    /\ child' = [child EXCEPT !.state = "exited"]
    /\ script' = [script EXCEPT !.offset = offset_after_exit]
    /\ UNCHANGED <<pc, input, stdio, todo, feeder, history, typed>>

\* The name of no program: the empty one is what a lone "\n" leaves.
NotPrograms == {"history", "\n"}

\* A program reads n lines of its input and ends.
program_ends(n, output) ==
    /\ pc = "wait" /\ child.state = "running"
    /\ child.name \notin NotPrograms
    /\ child.name \in Readers => n = Len(pipe.lines) /\ ~ write_end
    /\ child' = [child EXCEPT !.state = "exited",
                              !.wrote = IF child.it_pipe THEN output ELSE <<>>]
    /\ pipe' = [pipe EXCEPT !.lines = SubSeq(@, n + 1, Len(@))]
    /\ UNCHANGED <<pc, stdin, write_end, stdio, todo, feeder, script, history, typed>>

\* A program has filled its pipe, which nobody reads before it has ended.
program_blocks ==
    /\ pc = "wait" /\ child.state = "running"
    /\ child.name \notin NotPrograms /\ child.it_pipe
    /\ child' = [child EXCEPT !.state = "blocked"]
    /\ UNCHANGED <<pc, input, stdio, todo, feeder, script, history, typed>>

program_step ==
    \E n \in 0 .. Len(pipe.lines), output \in Outputs \cup {<<>>} : program_ends(n, output)

-----------------------------------------------------------------------------
launch ==
    \/ pipe_fails \/ fork \/ fork_fails \/ malloc_fails
    \/ wait \/ store \/ store_overflows \/ count

\* What main does without the user.
shell_step ==
    \/ read_pipe \/ (end_of_input /\ freopen)
    \/ read_block \/ script_line \/ script_done
    \/ empty_stage \/ exit \/ launch

Next ==
    \/ \E line \in TypedLines : read_terminal(line)
    \/ freopen \/ freopen_fails \/ shell_step
    \/ child_exits \/ program_step \/ program_blocks
    \/ control_C_handler

Spec == Init /\ [][Next]_vars

\* The kernel runs the shell, and a child that is not blocked ends.  Nobody
\* need type anything.
FairSpec ==
    /\ Spec
    /\ WF_vars(shell_step)
    /\ WF_vars(program_step \/ (child.name \in NotPrograms /\ child_exits))

-----------------------------------------------------------------------------
Lines == Seq(STRING)

\* TypeOK: the pipelines that are left have a stage each, and no index leaves
\* the script or the array of commands.
TypeOK ==
    /\ pc \in Over \cup {"prompt", "script", "run", "wait", "store", "count"}
    /\ stdin \in {"tty", "pipe"} /\ write_end \in BOOLEAN /\ eof \in BOOLEAN
    /\ pipe \in [lines : Seq(Lines), from : Nat \cup {None}]
    /\ buffer \in Seq(Lines)
    /\ todo \in Seq(Seq(Lines) \ {<<>>})
    /\ (todo # <<>>) <=> pc \in {"run", "wait", "store", "count"}
    /\ feeder \in Nat \cup {None}
    /\ script \in [open : BOOLEAN, file : Lines, buffer : Seq(Nat), offset : Nat, ran : Seq(Nat)]
    /\ Range(script.buffer) \cup {script.offset} \subseteq 0 .. Len(script.file)
    /\ child \in [state : {"none", "running", "blocked", "exited"}, name : STRING \cup {"none"},
                  it_pipe : BOOLEAN, wrote : Seq(Lines)]
    /\ command_counter \in 0 .. max_history_size
    /\ commands \subseteq 0 .. max_history_size - 1
    /\ typed \in 0 .. MaxLines

\* HandlerFindsStored: whenever Ctrl-C comes, every entry that the handler
\* prints is there (launch, control_C_handler).
HandlerFindsStored == 0 .. command_counter - 1 \subseteq commands

\* StageReadsPrevious: when a stage starts, its input is the pipe of the stage
\* before it, if that was forked, whatever earlier pipelines have left unread
\* (launch, execute_pipe).
StageReadsPrevious ==
    pc = "wait" /\ feeder # None => stdin = "pipe" /\ pipe.from = feeder

\* NothingSkipped: shell_interpreter closes a script only when every part of it
\* was run as part of some line, although its children move the offset of the
\* file.  The line need not be one of the script.
NothingSkipped ==
    [][script_done => Range(script.ran) = DOMAIN script.file]_vars

\* StageReturns: launch comes back from each wait for a child that does not
\* fill a pipe; the input of a stage has an end.
StageReturns == (pc = "wait") ~> (pc # "wait" \/ child.state = "blocked")

\* TerminalRegained: whatever a pipeline has left in the shell's input, lines
\* that are pipelines or scripts themselves included, the shell comes back to
\* the terminal, unless it ends or hangs in a stage that fills its pipe.
TerminalRegained == (stdin = "pipe") ~> (stdin = "tty" \/ child.state = "blocked")

-----------------------------------------------------------------------------
(* What the documentation says and the code does not do.                   *)

\* ScriptLinesOnce: the interpreter reads a script line by line and executes
\* each line as a command, so that no part of it is run twice.
ScriptLinesOnce == IsInjective(script.ran)
=============================================================================
