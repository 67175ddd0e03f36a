--------------------------- MODULE DamShellProofs ---------------------------
(***************************************************************************)
(* The shell of Assignment 2 for every set of lines, scripts and programs, *)
(* and every size of the history.                                          *)
(***************************************************************************)
EXTENDS DamShell, FiniteSetLemmas, SequenceTheorems

-----------------------------------------------------------------------------
(* The history that the handler of Ctrl-C prints.                          *)

\* The entry is set one step before it is counted.
HistoryInv ==
    /\ command_counter \in Nat
    /\ commands = 0 .. (IF pc = "count" THEN command_counter ELSE command_counter - 1)

LEMMA HistoryInvInit == Init => HistoryInv
BY DEF Init, HistoryInv

LEMMA HistoryInvStep == HistoryInv /\ [Next]_vars => HistoryInv'
<1> SUFFICES ASSUME HistoryInv, [Next]_vars PROVE HistoryInv'
  OBVIOUS
<1> USE DEF HistoryInv
<1>1. ASSUME NEW how \in Over, over(how) PROVE HistoryInv'
  BY <1>1 DEF over, Over
<1>2. CASE store
  <2>1. commands' = commands \cup {command_counter} /\ command_counter' = command_counter
        /\ pc = "store" /\ pc' = "count"
    BY <1>2 DEF store, recorded
  <2> QED  BY <2>1
<1>3. CASE count
  <2>1. command_counter' = command_counter + 1 /\ commands' = commands /\ pc = "count"
    BY <1>3 DEF count, recorded
  <2>2. pc' # "count"
    BY <1>3 DEF count, next_line
  <2> QED  BY <2>1, <2>2
<1>4. CASE UNCHANGED history /\ pc # "count" /\ pc' # "count"
  BY <1>4 DEF history
<1>5. CASE UNCHANGED <<pc, history>>
  BY <1>5 DEF history
<1>6. ASSUME NEW line, run_line(line) PROVE pc' # "count"
  BY <1>6 DEF run_line, next_line
<1>7. ASSUME NEW line \in TypedLines, read_terminal(line) PROVE HistoryInv'
  BY <1>4, <1>6, <1>7 DEF read_terminal
<1>8. CASE read_pipe
  BY <1>4, <1>6, <1>8 DEF read_pipe
<1>9. freopen \/ child_exits \/ program_step \/ program_blocks => UNCHANGED <<pc, history>>
  BY DEF freopen, child_exits, program_step, program_ends, program_blocks
<1>10. read_block \/ script_line \/ script_done \/ fork \/ fork_fails \/ wait
         => UNCHANGED history /\ pc # "count" /\ pc' # "count"
  BY DEF read_block, script_line, script_done, fork, fork_fails, wait, next_line, launches
<1>11. freopen_fails \/ empty_stage \/ exit \/ pipe_fails \/ malloc_fails \/ store_overflows
         \/ control_C_handler => \E how \in Over : over(how)
  BY DEF freopen_fails, empty_stage, exit, pipe_fails, malloc_fails, store_overflows,
         control_C_handler, Over
<1>12. CASE UNCHANGED vars
  BY <1>5, <1>12 DEF vars
<1> QED
  BY <1>1, <1>2, <1>3, <1>4, <1>5, <1>7, <1>8, <1>9, <1>10, <1>11, <1>12
     DEF Next, shell_step, launch

\* Whenever Ctrl-C comes, also between the two steps that record a command, each
\* entry that the handler prints is set, for a history of every size.
THEOREM HistoryCorrect == Spec => []HandlerFindsStored
<1>1. HistoryInv => HandlerFindsStored
  BY DEF HistoryInv, HandlerFindsStored
<1> QED
  BY <1>1, HistoryInvInit, HistoryInvStep, PTL DEF Spec

-----------------------------------------------------------------------------
(* The input of a stage.                                                   *)

Running == {"run", "wait", "store", "count"}

\* The command that feeds the next stage is the one whose pipe is the input; and
\* there is a next stage whenever there is such a command.
FeedInv ==
    /\ pipe = [lines |-> pipe.lines, from |-> pipe.from]
    /\ child = [state |-> child.state, name |-> child.name,
                it_pipe |-> child.it_pipe, wrote |-> child.wrote]
    /\ pc \in Running => DOMAIN todo # {}
    /\ pc \in {"wait", "store", "count"} => child.it_pipe = it_pipe
    /\ pc \in {"store", "count"} /\ child.it_pipe => stdin = "pipe" /\ pipe.from = command_counter
    /\ pc \in {"run", "wait"} /\ feeder # None => stdin = "pipe" /\ pipe.from = feeder
    /\ pc \in {"prompt", "script"} => feeder = None

LEMMA FeedInvInit == Init => FeedInv
BY DEF Init, FeedInv, NoPipe, NoChild, Running

LEMMA FeedInvStep == FeedInv /\ [Next]_vars => FeedInv'
<1> SUFFICES ASSUME FeedInv, [Next]_vars PROVE FeedInv'
  OBVIOUS
<1> USE DEF FeedInv, Running
<1>1. ASSUME NEW how \in Over, over(how) PROVE FeedInv'
  BY <1>1 DEF over, Over, NoPipe, NoChild
<1>2. ASSUME NEW line, run_line(line)
      PROVE  pc' \in {"prompt", "script", "run"} /\ (pc' = "run" => DOMAIN todo' # {})
  BY <1>2 DEF run_line, next_line
<1>3. ASSUME NEW line \in TypedLines, read_terminal(line) PROVE FeedInv'
  <2>1. pc = "prompt" /\ UNCHANGED <<stdin, pipe, feeder, child>> /\ run_line(line)
    BY <1>3 DEF read_terminal, input
  <2> QED  BY <1>2, <2>1
<1>4. CASE read_pipe
  <2>1. pc = "prompt" /\ UNCHANGED <<feeder, child>> /\ run_line(Head(available))
        /\ (pipe' = [pipe EXCEPT !.lines = <<>>] \/ pipe' = pipe)
    BY <1>4 DEF read_pipe
  <2>2. pipe' = [lines |-> pipe'.lines, from |-> pipe'.from]
    BY <2>1
  <2> QED  BY <1>2, <2>1, <2>2
<1>5. CASE freopen
  BY <1>5 DEF freopen, end_of_input, ctrl_D, reopened, NoPipe
<1>6. CASE read_block
  BY <1>6 DEF read_block, input
<1>7. CASE script_line
  <2>1. pc = "script" /\ UNCHANGED <<stdin, pipe, feeder, child>>
        /\ pc' \in {"prompt", "script", "run"} /\ (pc' = "run" => DOMAIN todo' # {})
    BY <1>7 DEF script_line, next_line, input
  <2> QED  BY <2>1
<1>8. CASE script_done
  BY <1>8 DEF script_done, input
<1>9. CASE fork
  <2>1. pc = "run" /\ pc' = "wait" /\ UNCHANGED <<stdin, pipe, todo, feeder>> /\ it_pipe' = it_pipe
    BY <1>9 DEF fork, launches, input, it_pipe
  <2>2. child' = [state |-> "running", name |-> argus[1], it_pipe |-> it_pipe, wrote |-> <<>>]
    BY <1>9 DEF fork
  <2> QED  BY <2>1, <2>2
<1>10. CASE fork_fails
  <2>1. UNCHANGED <<stdin, pipe, child>> /\ feeder' = None
        /\ pc' \in {"prompt", "script", "run"} /\ (pc' = "run" => DOMAIN todo' # {})
    BY <1>10 DEF fork_fails, next_line, input
  <2> QED  BY <2>1
<1>11. CASE wait
  <2>1. /\ pc = "wait" /\ pc' = "store" /\ UNCHANGED <<todo, feeder, child, command_counter>>
        /\ it_pipe' = it_pipe
    BY <1>11 DEF wait, history, it_pipe
  <2>2. CASE child.it_pipe
    <3>1. stdin' = "pipe" /\ pipe' = [lines |-> child.wrote, from |-> command_counter]
      BY <1>11, <2>2 DEF wait, replaces_stdin
    <3>2. pipe' = [lines |-> pipe'.lines, from |-> pipe'.from] /\ pipe'.from = command_counter'
      BY <2>1, <3>1
    <3> QED  BY <2>1, <3>1, <3>2
  <2>3. CASE ~ child.it_pipe
    BY <1>11, <2>1, <2>3 DEF wait, replaces_stdin, input
  <2> QED  BY <2>2, <2>3
<1>12. CASE store
  <2>1. /\ pc = "store" /\ pc' = "count" /\ UNCHANGED <<stdin, pipe, todo, feeder, child>>
        /\ command_counter' = command_counter /\ it_pipe' = it_pipe
    BY <1>12 DEF store, recorded, input, it_pipe
  <2> QED  BY <2>1
<1>13. CASE count
  <2>1. /\ pc = "count" /\ UNCHANGED <<stdin, pipe>> /\ child' = NoChild
        /\ pc' = IF DOMAIN rest # {} THEN "run" ELSE IF script.open THEN "script" ELSE "prompt"
        /\ todo' = rest
        /\ feeder' = IF child.it_pipe THEN command_counter ELSE None
    BY <1>13 DEF count, next_line, input
  <2>2. child.it_pipe => DOMAIN rest # {}
    BY <2>1 DEF rest
  <2> QED  BY <2>1, <2>2 DEF NoChild
<1>14. CASE child_exits \/ program_blocks
  <2>1. UNCHANGED <<pc, stdin, pipe, todo, feeder, command_counter>> /\ it_pipe' = it_pipe
    BY <1>14 DEF child_exits, program_blocks, input, history, it_pipe
  <2>2. pc = "wait" /\ \E how : child' = [child EXCEPT !.state = how]
    BY <1>14 DEF child_exits, program_blocks
  <2> QED  BY <2>1, <2>2
<1>15. CASE program_step
  <2>1. PICK n \in 0 .. Len(pipe.lines), output \in Outputs \cup {<<>>} : program_ends(n, output)
    BY <1>15 DEF program_step
  <2>2. UNCHANGED <<pc, stdin, todo, feeder, command_counter>> /\ it_pipe' = it_pipe /\ pc = "wait"
    BY <2>1 DEF program_ends, history, it_pipe
  <2>3. \E written, left : /\ child' = [child EXCEPT !.state = "exited", !.wrote = written]
                           /\ pipe' = [pipe EXCEPT !.lines = left]
    BY <2>1 DEF program_ends
  <2> QED  BY <2>2, <2>3
<1>16. freopen_fails \/ empty_stage \/ exit \/ pipe_fails \/ malloc_fails \/ store_overflows
         \/ control_C_handler => \E how \in Over : over(how)
  BY DEF freopen_fails, empty_stage, exit, pipe_fails, malloc_fails, store_overflows,
         control_C_handler, Over
<1>17. CASE UNCHANGED vars
  BY <1>17 DEF vars, input, history, it_pipe
<1> QED
  BY <1>1, <1>3, <1>4, <1>5, <1>6, <1>7, <1>8, <1>9, <1>10, <1>11, <1>12, <1>13, <1>14, <1>15,
     <1>16, <1>17
     DEF Next, shell_step, launch

\* Each stage of a pipeline that follows a forked one starts with the pipe of
\* that one as its input, for all lines and whatever pipelines have left unread.
THEOREM FeedCorrect == Spec => []StageReadsPrevious
<1>1. FeedInv => StageReadsPrevious
  BY DEF FeedInv, StageReadsPrevious
<1> QED
  BY <1>1, FeedInvInit, FeedInvStep, PTL DEF Spec

-----------------------------------------------------------------------------
(* The script.                                                             *)

\* Each token below the offset of the file has been run, or waits in the buffer
\* of stdio: the offset may only fall behind.
ScriptInv ==
    /\ script \in [open : BOOLEAN, file : Seq(STRING), buffer : Seq(Nat), offset : Nat,
                   ran : Seq(Nat)]
    /\ script.offset <= Len(script.file)
    /\ Range(script.buffer) \cup Range(script.ran) \subseteq DOMAIN script.file
    /\ 1 .. script.offset \subseteq Range(script.buffer) \cup Range(script.ran)

LEMMA SubSeqType ==
    ASSUME NEW S, NEW s \in Seq(S), NEW m \in Int, NEW n \in Int, m >= 1, n <= Len(s)
    PROVE  SubSeq(s, m, n) \in Seq(S)
BY SubSeqProperties

\* A sequence that is cut in two is its two parts.
LEMMA CutRange ==
    ASSUME NEW S, NEW s \in Seq(S), NEW n \in 0 .. Len(s)
    PROVE  Range(s) = Range(SubSeq(s, 1, n)) \cup Range(SubSeq(s, n + 1, Len(s)))
<1> DEFINE front == SubSeq(s, 1, n)
           back  == SubSeq(s, n + 1, Len(s))
<1>1. DOMAIN s = 1 .. Len(s) /\ Len(s) \in Nat
  OBVIOUS
<1>2. DOMAIN front = 1 .. n /\ \A k \in 1 .. n : front[k] = s[k]
  BY <1>1
<1>3. /\ DOMAIN back = 1 .. Len(s) - n
      /\ \A k \in 1 .. Len(s) - n : back[k] = s[n + k] /\ n + k \in DOMAIN s
  BY <1>1
<1> HIDE DEF front, back
<1>4. Range(front) \subseteq Range(s)
  BY <1>1, <1>2 DEF Range
<1>5. Range(back) \subseteq Range(s)
  BY <1>3 DEF Range
<1>6. ASSUME NEW k \in DOMAIN s PROVE s[k] \in Range(front) \cup Range(back)
  <2>1. CASE k <= n
    <3>1. k \in DOMAIN front /\ front[k] = s[k]
      BY <1>1, <1>2, <2>1
    <3> QED  BY <3>1 DEF Range
  <2>2. CASE k > n
    <3>1. k - n \in 1 .. Len(s) - n /\ n + (k - n) = k
      BY <1>1, <2>2
    <3>2. k - n \in DOMAIN back /\ back[k - n] = s[k]
      BY <1>3, <3>1
    <3> QED  BY <3>2 DEF Range
  <2> QED  BY <1>1, <2>1, <2>2
<1> QED
  BY <1>4, <1>5, <1>6 DEF Range, front, back

\* getline takes no more than there is, and something if there is something.
LEMMA TakenType ==
    ASSUME ScriptInv
    PROVE  taken \in 0 .. Len(script.buffer)
<1>1. /\ script.buffer \in Seq(Nat) /\ Len(script.buffer) \in Nat
      /\ DOMAIN script.buffer = 1 .. Len(script.buffer)
  BY DEF ScriptInv
<1> DEFINE ends == newlines
           size == Len(script.buffer)
<1>2. ends \in SUBSET (1 .. size)
  BY <1>1 DEF newlines
<1>3. size \in Nat /\ taken = IF ends = {} THEN size ELSE Min(ends)
  BY <1>1 DEF taken
<1> HIDE DEF ends, size
<1>4. IsFiniteSet(1 .. size)
  BY <1>3, FS_Interval
<1>5. IsFiniteSet(ends)
  BY <1>2, <1>4, FS_Subset
<1>6. ends # {} => Min(ends) \in 1 .. size
  <2>1. ends \in SUBSET Nat
    BY <1>2
  <2>2. ends # {} => Min(ends) \in ends
    BY <1>5, <2>1, LeastMember
  <2> QED  BY <1>2, <2>2
<1>7. taken \in 0 .. size
  BY <1>3, <1>6
<1> QED
  BY <1>7 DEF size

LEMMA ScriptInvInit == Init => ScriptInv
BY DEF Init, ScriptInv, NoScript, Range

LEMMA ScriptInvStep == ScriptInv /\ [Next]_vars => ScriptInv'
<1> SUFFICES ASSUME ScriptInv, [Next]_vars PROVE ScriptInv'
  OBVIOUS
<1>0. /\ Len(script.file) \in Nat /\ DOMAIN script.file = 1 .. Len(script.file)
      /\ script.file \in Seq(STRING) /\ script.open \in BOOLEAN
      /\ script.buffer \in Seq(Nat) /\ script.ran \in Seq(Nat) /\ script.offset \in Nat
  BY DEF ScriptInv
<1>1. CASE script' = NoScript
  <2>1. script' = NoScript => ScriptInv'
    BY DEF ScriptInv, NoScript, Range
  <2> QED  BY <1>1, <2>1
<1>2. CASE script' = script
  BY <1>2 DEF ScriptInv
<1>3. ASSUME NEW file \in Scripts, script' = [NoScript EXCEPT !.open = TRUE, !.file = file]
      PROVE  ScriptInv'
  <2>1. file \in Seq(STRING)
    BY ScriptsAssumption
  <2>2. script' = [open |-> TRUE, file |-> file, buffer |-> <<>>, offset |-> 0, ran |-> <<>>]
    BY <1>3 DEF NoScript
  <2>3. Range(<<>>) = {}
    BY DEF Range
  <2> QED  BY <2>1, <2>2, <2>3 DEF ScriptInv
<1>4. ASSUME NEW line, run_line(line) PROVE ScriptInv'
  BY <1>2, <1>3, <1>4 DEF run_line
<1>5. CASE read_block
  <2> DEFINE end   == Min({script.offset + BlockTokens, Len(script.file)})
             block == [n \in 1 .. end - script.offset |-> script.offset + n]
  <2>1. /\ script.offset < Len(script.file)
        /\ script' = [script EXCEPT !.offset = end, !.buffer = script.buffer \o block]
    BY <1>5 DEF read_block
  <2>2. end \in Nat /\ script.offset < end /\ end <= Len(script.file)
    <3>1. script.offset + BlockTokens \in Nat /\ script.offset < script.offset + BlockTokens
      BY <1>0, LimitsAssumption
    <3>2. \A a, b \in Nat : Min({a, b}) = IF a <= b THEN a ELSE b
      BY DEF Min
    <3>3. end = IF script.offset + BlockTokens <= Len(script.file)
                THEN script.offset + BlockTokens ELSE Len(script.file)
      BY <1>0, <3>1, <3>2
    <3> HIDE DEF end
    <3> QED  BY <1>0, <2>1, <3>1, <3>3
  <2> HIDE DEF end
  <2>3. end - script.offset \in Nat /\ block \in Seq(Nat)
    <3>1. end - script.offset \in Nat /\ \A n \in 1 .. end - script.offset : script.offset + n \in Nat
      BY <1>0, <2>2
    <3> QED  BY <3>1
  <2>4. Range(block) = script.offset + 1 .. end
    <3>1. ASSUME NEW n \in script.offset + 1 .. end PROVE n \in Range(block)
      <4>1. n - script.offset \in 1 .. end - script.offset
        BY <1>0, <2>2
      <4>2. block[n - script.offset] = n
        BY <1>0, <2>2, <4>1
      <4> QED  BY <4>1, <4>2 DEF Range
    <3>2. Range(block) \subseteq script.offset + 1 .. end
      <4>1. \A n \in 1 .. end - script.offset : script.offset + n \in script.offset + 1 .. end
        BY <1>0, <2>2
      <4>2. \A n \in DOMAIN block : block[n] = script.offset + n /\ n \in 1 .. end - script.offset
        OBVIOUS
      <4> HIDE DEF block
      <4> QED  BY <4>1, <4>2 DEF Range
    <3> QED  BY <3>1, <3>2
  <2> HIDE DEF block
  <2> DEFINE joined == script.buffer \o block
  <2>5. joined \in Seq(Nat)
    BY <1>0, <2>3
  <2>6. Range(joined) = Range(script.buffer) \cup Range(block)
    <3> DEFINE b == script.buffer
    <3>1. b \in Seq(Nat) /\ block \in Seq(Nat)
      BY <1>0, <2>3
    <3> HIDE DEF b
    <3>2. Range(b \o block) = Range(b) \cup Range(block)
      BY <3>1, RangeConcatenation, ZenonT(30)
    <3> QED  BY <3>2 DEF b
  <2> HIDE DEF joined
  <2>7. 1 .. end \subseteq Range(joined) \cup Range(script.ran)
    <3>1. 1 .. end = 1 .. script.offset \cup script.offset + 1 .. end
      BY <1>0, <2>2
    <3> QED  BY <2>4, <2>6, <3>1 DEF ScriptInv
  <2>8. script' = [open |-> script.open, file |-> script.file, buffer |-> joined,
                   offset |-> end, ran |-> script.ran]
    BY <2>1 DEF ScriptInv, joined
  <2>9. Range(joined) \cup Range(script.ran) \subseteq DOMAIN script.file
    <3>1. Range(block) \subseteq DOMAIN script.file
      BY <1>0, <2>2, <2>4
    <3> QED  BY <2>6, <3>1 DEF ScriptInv
  <2> QED  BY <1>0, <2>2, <2>5, <2>7, <2>8, <2>9 DEF ScriptInv
<1>6. CASE script_line
  <2> DEFINE line == SubSeq(script.buffer, 1, taken)
             left == SubSeq(script.buffer, taken + 1, Len(script.buffer))
  <2>1. script' = [script EXCEPT !.buffer = left, !.ran = script.ran \o line]
    BY <1>6 DEF script_line
  <2>2. taken \in 0 .. Len(script.buffer) /\ Len(script.buffer) \in Nat
    BY <1>0, TakenType
  <2>3. line \in Seq(Nat) /\ left \in Seq(Nat)
    BY <1>0, <2>2, SubSeqType
  <2>4. Range(script.buffer) = Range(line) \cup Range(left)
    BY <1>0, <2>2, CutRange
  <2> HIDE DEF line, left
  <2> DEFINE ran == script.ran \o line
  <2>5. ran \in Seq(Nat)
    BY <1>0, <2>3
  <2>6. Range(ran) = Range(script.ran) \cup Range(line)
    <3> DEFINE r == script.ran
    <3>1. r \in Seq(Nat) /\ line \in Seq(Nat)
      BY <1>0, <2>3
    <3> HIDE DEF r
    <3>2. Range(r \o line) = Range(r) \cup Range(line)
      BY <3>1, RangeConcatenation, ZenonT(30)
    <3> QED  BY <3>2 DEF r
  <2> HIDE DEF ran
  <2>7. script' = [open |-> script.open, file |-> script.file, buffer |-> left,
                   offset |-> script.offset, ran |-> ran]
    BY <2>1 DEF ScriptInv, ran
  <2>8. Range(left) \cup Range(ran) = Range(script.buffer) \cup Range(script.ran)
    BY <2>4, <2>6
  <2> QED  BY <1>0, <2>3, <2>5, <2>7, <2>8 DEF ScriptInv
<1>7. CASE child_exits
  <2> DEFINE unused == Len(script.buffer)
  <2>1. offset_after_exit \in Nat /\ offset_after_exit <= script.offset
    <3>1. unused \in Nat
      BY <1>0
    <3> QED  BY <1>0, <3>1 DEF offset_after_exit
  <2>2. script' = [open |-> script.open, file |-> script.file, buffer |-> script.buffer,
                   offset |-> offset_after_exit, ran |-> script.ran]
    BY <1>7 DEF child_exits, ScriptInv
  <2>3. 1 .. offset_after_exit \subseteq 1 .. script.offset
    BY <1>0, <2>1
  <2> QED  BY <1>0, <2>1, <2>2, <2>3 DEF ScriptInv
<1>8. \A how : over(how) => script' = NoScript
  BY DEF over
<1>9. freopen_fails \/ empty_stage \/ exit \/ pipe_fails \/ malloc_fails \/ store_overflows
        \/ control_C_handler \/ script_done => script' = NoScript
  BY <1>8 DEF freopen_fails, empty_stage, exit, pipe_fails, malloc_fails, store_overflows,
         control_C_handler, script_done
<1>10. freopen \/ fork \/ fork_fails \/ wait \/ store \/ count \/ program_step \/ program_blocks
         \/ UNCHANGED vars => script' = script
  BY DEF freopen, fork, fork_fails, wait, store, count, program_step, program_ends,
         program_blocks, vars
<1>11. (\E line \in TypedLines : read_terminal(line)) \/ read_pipe => \E line : run_line(line)
  BY DEF read_terminal, read_pipe
<1> QED
  BY <1>1, <1>2, <1>4, <1>5, <1>6, <1>7, <1>9, <1>10, <1>11 DEF Next, shell_step, launch

\* A script is closed only when each part of it was run as part of some line,
\* however long it is, wherever the blocks that stdio reads end, and whatever its
\* commands do to the offset.
THEOREM ScriptCorrect == Spec => NothingSkipped
<1>1. ScriptInv /\ [Next]_vars => [script_done => Range(script.ran) = DOMAIN script.file]_vars
  <2>1. ScriptInv /\ script_done => Range(script.ran) = DOMAIN script.file
    <3> SUFFICES ASSUME ScriptInv, script_done PROVE Range(script.ran) = DOMAIN script.file
      OBVIOUS
    <3>1. script.offset = Len(script.file) /\ Range(script.buffer) = {}
      BY DEF script_done, Range
    <3>2. DOMAIN script.file = 1 .. Len(script.file)
      BY DEF ScriptInv
    <3> QED  BY <3>1, <3>2 DEF ScriptInv
  <2> QED  BY <2>1
<1> QED
  BY <1>1, ScriptInvInit, ScriptInvStep, PTL DEF Spec, NothingSkipped

-----------------------------------------------------------------------------
(* Types of what the lines are split into.                                 *)

LEMMA NthMember ==
    ASSUME NEW S \in SUBSET Nat, IsFiniteSet(S), NEW k \in 1 .. Cardinality(S)
    PROVE  nth(S, k) \in S
<1> DEFINE upto(n) == {m \in S : m <= n}
           ranked  == {n \in S : Cardinality(upto(n)) >= k}
<1>1. Cardinality(S) \in Nat /\ S # {}
  BY FS_CardinalityType, FS_EmptySet
<1>2. Max(S) \in S
  BY <1>1, GreatestMember
<1>3. upto(Max(S)) = S
  <2>1. PICK x \in S : \A y \in S : [z \in S |-> z][x] >= [z \in S |-> z][y]
    <3>1. [z \in S |-> z] \in [S -> Int]
      OBVIOUS
    <3> QED  BY <1>1, <3>1, GreatestValue
  <2>2. \A y \in S : y <= x
    BY <2>1
  <2>3. \A y \in S : y <= Max(S)
    BY <2>2 DEF Max
  <2> QED  BY <2>3
<1>4. Max(S) \in ranked
  BY <1>1, <1>2, <1>3
<1>5. IsFiniteSet(ranked) /\ ranked \in SUBSET Nat /\ ranked \in SUBSET S
  BY FS_Subset
<1> HIDE DEF ranked
<1>6. Min(ranked) \in ranked
  BY <1>4, <1>5, LeastMember
<1>7. nth(S, k) = Min(ranked)
  BY DEF nth, ranked
<1> QED
  BY <1>5, <1>6, <1>7

\* Positions in a sequence are finitely many numbers.
LEMMA PositionsFinite ==
    ASSUME NEW T, NEW s \in Seq(T), NEW P \in SUBSET DOMAIN s
    PROVE  /\ IsFiniteSet(P) /\ P \in SUBSET Nat /\ Cardinality(P) \in Nat
           /\ \A k \in 1 .. Cardinality(P) : nth(P, k) \in P
<1>1. DOMAIN s = 1 .. Len(s) /\ Len(s) \in Nat
  OBVIOUS
<1>2. P \in SUBSET (1 .. Len(s)) /\ IsFiniteSet(1 .. Len(s))
  BY <1>1, FS_Interval
<1>3. IsFiniteSet(P) /\ Cardinality(P) \in Nat /\ P \in SUBSET Nat
  BY <1>2, FS_Subset, FS_CardinalityType
<1> QED
  BY <1>3, NthMember

LEMMA PartsType ==
    ASSUME NEW s \in Seq(STRING), NEW delimiter
    PROVE  Parts(delimiter)[s] \in Seq(Seq(STRING))
<1> DEFINE starts == {n \in DOMAIN s : s[n] # delimiter /\ (n = 1 \/ s[n - 1] = delimiter)}
           ends(n) == {m \in n .. Len(s) : m = Len(s) \/ s[m + 1] = delimiter}
           end(n) == Min(ends(n))
           part(n) == SubSeq(s, n, end(n))
<1>1. Parts(delimiter)[s] = [k \in 1 .. Cardinality(starts) |-> part(nth(starts, k))]
  BY DEF Parts
<1>2. DOMAIN s = 1 .. Len(s) /\ Len(s) \in Nat
  OBVIOUS
<1>3. /\ starts \in SUBSET DOMAIN s /\ Cardinality(starts) \in Nat
      /\ \A k \in 1 .. Cardinality(starts) : nth(starts, k) \in starts
  BY PositionsFinite
<1>4. ASSUME NEW n \in DOMAIN s PROVE part(n) \in Seq(STRING)
  <2>1. n \in 1 .. Len(s)
    BY <1>2
  <2>2. Len(s) \in ends(n) /\ ends(n) \in SUBSET (1 .. Len(s))
    BY <1>2, <2>1
  <2> HIDE DEF ends
  <2>3. IsFiniteSet(ends(n)) /\ ends(n) \in SUBSET Nat
    <3>1. IsFiniteSet(1 .. Len(s))
      BY <1>2, FS_Interval
    <3> QED  BY <2>2, <3>1, FS_Subset
  <2>4. end(n) \in ends(n)
    BY <2>2, <2>3, LeastMember
  <2>5. end(n) \in 1 .. Len(s)
    BY <2>2, <2>4
  <2> HIDE DEF end
  <2> QED  BY <1>2, <2>1, <2>5, SubSeqType
<1> HIDE DEF starts, part
<1>5. \A k \in 1 .. Cardinality(starts) : part(nth(starts, k)) \in Seq(STRING)
  BY <1>3, <1>4
<1> QED
  BY <1>1, <1>3, <1>5

LEMMA WordsType ==
    ASSUME NEW s \in Seq(STRING)
    PROVE  Words[s] \in Seq(STRING)
<1> DEFINE words == {n \in DOMAIN s : s[n] # " "}
<1>1. Words[s] = [k \in 1 .. Cardinality(words) |-> s[nth(words, k)]]
  BY DEF Words
<1>2. /\ words \in SUBSET DOMAIN s /\ Cardinality(words) \in Nat
      /\ \A k \in 1 .. Cardinality(words) : nth(words, k) \in words
  BY PositionsFinite
<1> HIDE DEF words
<1>3. \A k \in 1 .. Cardinality(words) : s[nth(words, k)] \in STRING
  BY <1>2
<1> QED
  BY <1>1, <1>2, <1>3

LEMMA TrimType ==
    ASSUME NEW s \in Seq(STRING)
    PROVE  Trim[s] \in Seq(STRING)
<1> DEFINE words == {n \in DOMAIN s : s[n] # " "}
<1>1. Trim[s] = IF words = {} THEN <<>> ELSE SubSeq(s, Min(words), Max(words))
  BY DEF Trim
<1>2. DOMAIN s = 1 .. Len(s) /\ Len(s) \in Nat
  OBVIOUS
<1>3. words \in SUBSET DOMAIN s /\ IsFiniteSet(words) /\ words \in SUBSET Nat
  BY PositionsFinite
<1> HIDE DEF words
<1>4. ASSUME words # {} PROVE SubSeq(s, Min(words), Max(words)) \in Seq(STRING)
  <2>1. Min(words) \in 1 .. Len(s) /\ Max(words) \in 1 .. Len(s)
    BY <1>2, <1>3, <1>4, LeastMember, GreatestMember
  <2> QED  BY <1>2, <2>1, SubSeqType
<1>5. <<>> \in Seq(STRING)
  OBVIOUS
<1> QED
  BY <1>1, <1>4, <1>5

LEMMA StagesType ==
    ASSUME NEW part \in Seq(STRING)
    PROVE  Stages[part] \in Seq(Lines)
<1> DEFINE commands_of == Parts("|")[Trim[part]]
<1>1. Stages[part] = [n \in DOMAIN commands_of |-> Words[commands_of[n]]]
  BY DEF Stages
<1>2. commands_of \in Seq(Seq(STRING))
  BY TrimType, PartsType
<1> HIDE DEF commands_of
<1>3. \A n \in DOMAIN commands_of : Words[commands_of[n]] \in Lines
  BY <1>2, WordsType DEF Lines
<1> QED
  BY <1>1, <1>2, <1>3

\* Each pipeline of a line has a stage, and each stage is a sequence of tokens.
LEMMA PipelinesType ==
    ASSUME NEW line \in Seq(STRING)
    PROVE  Pipelines[line] \in Seq(Seq(Lines) \ {<<>>})
<1> DEFINE parts == Parts("&")[line]
           some  == {n \in DOMAIN parts : Stages[parts[n]] # <<>>}
<1>1. Pipelines[line] = [k \in 1 .. Cardinality(some) |-> Stages[parts[nth(some, k)]]]
  BY DEF Pipelines
<1>2. parts \in Seq(Seq(STRING))
  BY PartsType
<1> HIDE DEF parts
<1>3. /\ Cardinality(some) \in Nat
      /\ \A k \in 1 .. Cardinality(some) : nth(some, k) \in some
  BY <1>2, PositionsFinite
<1>4. \A n \in some : Stages[parts[n]] \in Seq(Lines) \ {<<>>}
  BY <1>2, StagesType
<1> HIDE DEF some
<1>5. \A k \in 1 .. Cardinality(some) : Stages[parts[nth(some, k)]] \in Seq(Lines) \ {<<>>}
  BY <1>3, <1>4
<1> QED
  BY <1>1, <1>3, <1>5

-----------------------------------------------------------------------------
(* Type correctness.                                                       *)

Pipeline == Seq(Lines) \ {<<>>}
Pipes    == [lines : Seq(Lines), from : Nat \cup {None}]
Children == [state : {"none", "running", "blocked", "exited"}, name : STRING \cup {"none"},
             it_pipe : BOOLEAN, wrote : Seq(Lines)]

\* The shell runs a command exactly when there is a stage left.
RunInv ==
    /\ pc \in Over \cup {"prompt", "script"} \cup Running
    /\ todo \in Seq(Pipeline)
    /\ todo # <<>> <=> pc \in Running

\* What the shell may read as a line is a sequence of tokens, wherever it is.
InputInv ==
    /\ stdin \in {"tty", "pipe"} /\ write_end \in BOOLEAN /\ eof \in BOOLEAN
    /\ pipe \in Pipes /\ buffer \in Seq(Lines)
    /\ child \in Children
    /\ feeder \in Nat \cup {None}
    /\ command_counter \in 0 .. max_history_size
    /\ pc = "count" => command_counter < max_history_size
    /\ typed \in 0 .. MaxLines

\* What the shell starts with and a terminal that is opened again brings back.
LEMMA EmptyTypes ==
    /\ NoPipe \in Pipes /\ NoChild \in Children
    /\ <<>> \in Seq(Lines) /\ <<>> \in Seq(Pipeline)
    /\ 0 \in 0 .. max_history_size /\ 0 \in 0 .. MaxLines
BY LimitsAssumption DEF NoPipe, NoChild, Pipes, Children, Lines

LEMMA AvailableType == InputInv => available \in Seq(Lines)
BY DEF InputInv, available, Pipes

\* What is left behind a stage.
LEMMA RestType ==
    ASSUME todo \in Seq(Pipeline), todo # <<>>
    PROVE  rest \in Seq(Pipeline)
<1>1. Head(todo) \in Pipeline /\ Tail(todo) \in Seq(Pipeline)
      /\ 1 \in DOMAIN todo /\ todo[1] = Head(todo)
  OBVIOUS
<1>2. ASSUME it_pipe PROVE Tail(Head(todo)) \in Pipeline
  <2> DEFINE stages == Head(todo)
  <2>1. stages \in Seq(Lines) /\ Len(stages) > 1
    BY <1>1, <1>2 DEF it_pipe, Pipeline
  <2> HIDE DEF stages
  <2>2. Tail(stages) \in Seq(Lines) /\ Len(Tail(stages)) > 0
    BY <2>1
  <2>3. Tail(stages) # <<>>
    <3> DEFINE t == Tail(stages)
    <3>1. Len(t) > 0
      BY <2>2
    <3>2. Len(<<>>) = 0
      BY EmptySeq
    <3> HIDE DEF t
    <3>3. t # <<>>
      BY <3>1, <3>2
    <3> QED  BY <3>3 DEF t
  <2>4. Tail(stages) \in Pipeline
    BY <2>2, <2>3 DEF Pipeline
  <2> QED  BY <2>4 DEF stages
<1>3. ASSUME it_pipe PROVE [todo EXCEPT ![1] = Tail(@)] \in Seq(Pipeline)
  <2> DEFINE stages == Tail(Head(todo))
  <2>1. [todo EXCEPT ![1] = Tail(@)] = [todo EXCEPT ![1] = stages]
    BY <1>1
  <2>2. stages \in Pipeline
    BY <1>2, <1>3
  <2> HIDE DEF stages
  <2>3. [todo EXCEPT ![1] = stages] \in Seq(Pipeline)
    BY <1>1, <2>2
  <2> QED  BY <2>1, <2>3
<1> QED
  BY <1>1, <1>3 DEF rest

LEMMA NextLineType ==
    ASSUME NEW left \in Seq(Pipeline), next_line(left)
    PROVE  RunInv'
BY DEF next_line, RunInv, Running, Over

\* Every line that is run is a sequence of tokens.
LEMMA RunLineType ==
    ASSUME RunInv, pc = "prompt", NEW line \in Seq(STRING), run_line(line)
    PROVE  RunInv'
<1>1. CASE IsScript(line) /\ pc' \in {"prompt", "script"} /\ UNCHANGED todo
  BY <1>1 DEF RunInv, Running, Over
<1>2. CASE next_line(Pipelines[line])
  <2>1. Pipelines[line] \in Seq(Pipeline)
    BY PipelinesType DEF Pipeline
  <2> HIDE DEF Pipeline
  <2> QED  BY <1>2, <2>1, NextLineType
<1> QED
  BY <1>1, <1>2 DEF run_line

LEMMA OverSteps ==
    ASSUME \/ freopen_fails \/ empty_stage \/ exit \/ pipe_fails \/ malloc_fails
           \/ store_overflows \/ control_C_handler
    PROVE  \E how \in Over : over(how)
BY DEF freopen_fails, empty_stage, exit, pipe_fails, malloc_fails, store_overflows,
       control_C_handler, Over

LEMMA RunInvStep == RunInv /\ InputInv /\ ScriptInv /\ [Next]_vars => RunInv'
<1> SUFFICES ASSUME RunInv, InputInv, ScriptInv, [Next]_vars PROVE RunInv'
  OBVIOUS
<1>1. ASSUME NEW how \in Over, over(how) PROVE RunInv'
  BY <1>1 DEF over, Over, RunInv, Running
<1>2. ASSUME NEW line \in TypedLines, read_terminal(line) PROVE RunInv'
  BY <1>2, TypedAssumption, RunLineType DEF read_terminal
<1>3. CASE read_pipe
  <2>1. pc = "prompt" /\ run_line(Head(available)) /\ available # <<>>
    BY <1>3 DEF read_pipe
  <2>2. Head(available) \in Seq(STRING)
    BY <2>1, AvailableType DEF Lines
  <2> QED  BY <2>1, <2>2, RunLineType
<1>4. CASE script_line
  <2> DEFINE text == [n \in 1 .. taken |-> script.file[script.buffer[n]]]
             line == IF Ended(text) THEN Front(text) ELSE text
  <2>1. next_line(Pipelines[line])
    BY <1>4 DEF script_line
  <2>2. text \in Seq(STRING)
    <3>1. taken \in Nat /\ taken <= Len(script.buffer)
      <4>1. taken \in 0 .. Len(script.buffer)
        BY TakenType
      <4>2. Len(script.buffer) \in Nat
        BY DEF ScriptInv
      <4> QED  BY <4>1, <4>2
    <3>2. \A n \in 1 .. taken : script.file[script.buffer[n]] \in STRING
      <4>1. script.buffer \in Seq(Nat) /\ script.file \in Seq(STRING)
        BY DEF ScriptInv
      <4>2. \A n \in 1 .. taken : n \in DOMAIN script.buffer
        BY <3>1, <4>1
      <4>3. \A n \in DOMAIN script.buffer : script.buffer[n] \in DOMAIN script.file
        BY DEF ScriptInv, Range
      <4> QED  BY <4>1, <4>2, <4>3
    <3> QED  BY <3>1, <3>2
  <2> HIDE DEF text
  <2>3. Ended(text) => Front(text) \in Seq(STRING)
    <3>1. Ended(text) => Front(text) = SubSeq(text, 1, Len(text) - 1)
      BY DEF Front
    <3>2. Len(text) - 1 \in Int /\ Len(text) - 1 <= Len(text)
      BY <2>2
    <3> QED  BY <2>2, <3>1, <3>2, SubSeqType
  <2>4. line \in Seq(STRING)
    BY <2>2, <2>3
  <2> HIDE DEF line
  <2>5. Pipelines[line] \in Seq(Pipeline)
    BY <2>4, PipelinesType DEF Pipeline
  <2> HIDE DEF Pipeline
  <2> QED  BY <2>1, <2>5, NextLineType
<1>5. CASE fork_fails \/ count
  <2>1. next_line(rest) /\ pc \in Running
    BY <1>5 DEF fork_fails, launches, count, Running
  <2>2. rest \in Seq(Pipeline)
    BY <2>1, RestType DEF RunInv
  <2> HIDE DEF Pipeline
  <2> QED  BY <2>1, <2>2, NextLineType
<1>6. CASE freopen \/ read_block \/ program_step \/ program_blocks \/ child_exits \/ UNCHANGED vars
  <2>1. UNCHANGED <<pc, todo>>
    BY <1>6 DEF freopen, read_block, program_step, program_ends, program_blocks, child_exits, vars
  <2> QED  BY <2>1 DEF RunInv
<1>7. CASE script_done
  BY <1>7 DEF script_done, RunInv, Running, Over
<1>8. CASE fork \/ wait \/ store
  <2>1. UNCHANGED todo /\ pc \in Running /\ pc' \in Running
    BY <1>8 DEF fork, launches, wait, store, Running
  <2> QED  BY <2>1 DEF RunInv
<1> QED
  BY <1>1, <1>2, <1>3, <1>4, <1>5, <1>6, <1>7, <1>8, OverSteps DEF Next, shell_step, launch

LEMMA InputInvStep == RunInv /\ InputInv /\ [Next]_vars => InputInv'
<1> SUFFICES ASSUME RunInv, InputInv, [Next]_vars PROVE InputInv'
  OBVIOUS
<1> USE DEF InputInv
<1>1. ASSUME NEW how \in Over, over(how) PROVE InputInv'
  BY <1>1, EmptyTypes, LimitsAssumption DEF over, Over
<1>2. ASSUME NEW line, run_line(line) PROVE pc' # "count"
  BY <1>2 DEF run_line, next_line
<1>3. ASSUME NEW line \in TypedLines, read_terminal(line) PROVE InputInv'
  <2>1. /\ UNCHANGED <<stdin, pipe, write_end, buffer, feeder, child, command_counter>>
        /\ typed < MaxLines /\ typed' = typed + 1 /\ eof' \in BOOLEAN /\ pc' # "count"
    BY <1>2, <1>3 DEF read_terminal, input, history
  <2> QED  BY <2>1, LimitsAssumption
<1>4. CASE read_pipe
  <2>1. /\ UNCHANGED <<stdin, write_end, feeder, child, command_counter, typed>>
        /\ eof' \in BOOLEAN /\ pc' # "count"
        /\ available # <<>> /\ buffer' = Tail(available)
        /\ pipe' = [pipe EXCEPT !.lines = <<>>] \/ pipe' = pipe
    BY <1>2, <1>4 DEF read_pipe, history
  <2>2. buffer' \in Seq(Lines)
    BY <2>1, AvailableType
  <2>3. pipe' \in Pipes
    BY <2>1, EmptyTypes DEF Pipes
  <2> QED  BY <2>1, <2>2, <2>3
<1>5. CASE freopen
  <2>1. /\ stdin' = "tty" /\ pipe' = NoPipe /\ write_end' = FALSE /\ buffer' = <<>> /\ eof' = FALSE
        /\ UNCHANGED <<feeder, child, command_counter>> /\ pc' = "prompt"
        /\ typed' = typed \/ (typed < MaxLines /\ typed' = typed + 1)
    BY <1>5 DEF freopen, reopened, end_of_input, ctrl_D, history
  <2>2. typed' \in 0 .. MaxLines
    BY <2>1, LimitsAssumption
  <2> QED  BY <2>1, <2>2, EmptyTypes
<1>6. CASE read_block \/ script_line \/ script_done \/ UNCHANGED vars
  <2>1. /\ UNCHANGED <<stdin, pipe, write_end, buffer, eof, feeder, child, command_counter, typed>>
        /\ pc' = pc \/ pc' # "count"
    BY <1>6 DEF read_block, script_line, script_done, next_line, vars, input, stdio, history
  <2> QED  BY <2>1
<1>7. CASE fork
  <2>1. /\ UNCHANGED <<stdin, pipe, write_end, buffer, eof, feeder, command_counter, typed>>
        /\ pc' = "wait" /\ pc = "run" /\ argus # <<>>
        /\ child' = [state |-> "running", name |-> argus[1], it_pipe |-> it_pipe, wrote |-> <<>>]
    BY <1>7 DEF fork, launches, input, stdio, history
  <2>2. argus \in Lines
    <3>1. todo \in Seq(Pipeline) /\ todo # <<>>
      BY <2>1 DEF RunInv, Running
    <3>2. Head(todo) \in Pipeline
      BY <3>1
    <3>3. Head(todo) \in Seq(Lines) /\ Head(todo) # <<>>
      BY <3>2 DEF Pipeline
    <3> QED  BY <3>3 DEF argus
  <2>3. argus[1] \in STRING
    BY <2>1, <2>2 DEF Lines
  <2>4. it_pipe \in BOOLEAN
    BY DEF it_pipe
  <2>5. child' \in Children
    BY <2>1, <2>3, <2>4 DEF Children
  <2> QED  BY <2>1, <2>5
<1>8. CASE fork_fails
  <2>1. /\ UNCHANGED <<stdin, pipe, write_end, buffer, eof, child, command_counter, typed>>
        /\ feeder' = None /\ pc' # "count"
    BY <1>8 DEF fork_fails, next_line, input, stdio, history
  <2> QED  BY <2>1
<1>9. CASE wait
  <2>1. /\ UNCHANGED <<buffer, eof, feeder, child, command_counter, typed>> /\ pc' = "store"
        /\ \/ UNCHANGED <<stdin, pipe, write_end>>
           \/ /\ stdin' = "pipe" /\ write_end' = FALSE
              /\ pipe' = [lines |-> child.wrote, from |-> command_counter]
    BY <1>9 DEF wait, write_end_left, input, stdio, history
  <2>2. [lines |-> child.wrote, from |-> command_counter] \in Pipes
    BY DEF Pipes, Children
  <2> QED  BY <2>1, <2>2
<1>10. CASE store
  <2>1. /\ UNCHANGED <<stdin, pipe, write_end, buffer, eof, feeder, child, command_counter, typed>>
        /\ command_counter < max_history_size
    BY <1>10 DEF store, recorded, input, stdio
  <2> QED  BY <2>1
<1>11. CASE count
  <2>1. /\ UNCHANGED <<stdin, pipe, write_end, buffer, eof, typed>>
        /\ child' = NoChild /\ pc = "count" /\ pc' # "count"
        /\ feeder' \in {command_counter, None} /\ command_counter' = command_counter + 1
    BY <1>11 DEF count, recorded, next_line, input, stdio
  <2> QED  BY <2>1, EmptyTypes, LimitsAssumption
<1>12. CASE child_exits \/ program_blocks
  <2>1. /\ UNCHANGED <<pc, stdin, pipe, write_end, buffer, eof, feeder, command_counter, typed>>
        /\ \E how \in {"exited", "blocked"} : child' = [child EXCEPT !.state = how]
    BY <1>12 DEF child_exits, program_blocks, input, stdio, history
  <2>2. child' \in Children
    BY <2>1 DEF Children
  <2> QED  BY <2>1, <2>2
<1>13. CASE program_step
  <2>1. PICK n \in 0 .. Len(pipe.lines), output \in Outputs \cup {<<>>} : program_ends(n, output)
    BY <1>13 DEF program_step
  <2>2. UNCHANGED <<pc, stdin, write_end, buffer, eof, feeder, command_counter, typed>>
    BY <2>1 DEF program_ends, stdio, history
  <2>3. child' \in Children
    <3>1. output \in Seq(Lines) /\ <<>> \in Seq(Lines)
      BY OutputAssumption, EmptyTypes DEF Lines
    <3>2. \E written \in Seq(Lines) : child' = [child EXCEPT !.state = "exited", !.wrote = written]
      BY <2>1, <3>1 DEF program_ends
    <3> QED  BY <3>2 DEF Children
  <2>4. pipe' \in Pipes
    <3>1. pipe.lines \in Seq(Lines) /\ n \in Nat
      BY DEF Pipes
    <3>2. SubSeq(pipe.lines, n + 1, Len(pipe.lines)) \in Seq(Lines)
      BY <3>1, SubSeqType
    <3>3. pipe' = [pipe EXCEPT !.lines = SubSeq(pipe.lines, n + 1, Len(pipe.lines))]
      BY <2>1 DEF program_ends
    <3> QED  BY <3>2, <3>3 DEF Pipes
  <2> QED  BY <2>2, <2>3, <2>4
<1> QED
  BY <1>1, <1>3, <1>4, <1>5, <1>6, <1>7, <1>8, <1>9, <1>10, <1>11, <1>12, <1>13, OverSteps
     DEF Next, shell_step, launch

\* The pipelines that are left have a stage each while one is run, and no index
\* leaves the script, the array of commands or the lines, for all lines, scripts
\* and programs.
THEOREM TypeCorrect == Spec => []TypeOK
<1>1. Init => RunInv /\ InputInv
  <2>1. Init => RunInv
    BY EmptyTypes DEF Init, RunInv, Running
  <2>2. Init => InputInv
    BY EmptyTypes DEF Init, InputInv
  <2> QED  BY <2>1, <2>2
<1>2. RunInv /\ InputInv /\ ScriptInv /\ HistoryInv => TypeOK
  <2> SUFFICES ASSUME RunInv, InputInv, ScriptInv, HistoryInv PROVE TypeOK
    OBVIOUS
  <2>1. commands \subseteq 0 .. max_history_size - 1
    <3>1. command_counter \in 0 .. max_history_size /\ max_history_size \in Nat
      BY LimitsAssumption DEF InputInv
    <3> QED  BY <3>1 DEF HistoryInv, InputInv
  <2>2. script \in [open : BOOLEAN, file : Lines, buffer : Seq(Nat), offset : Nat, ran : Seq(Nat)]
    BY DEF ScriptInv, Lines
  <2>3. Range(script.buffer) \cup {script.offset} \subseteq 0 .. Len(script.file)
    <3>1. DOMAIN script.file = 1 .. Len(script.file) /\ Len(script.file) \in Nat
          /\ script.offset \in Nat
      BY DEF ScriptInv
    <3> QED  BY <3>1 DEF ScriptInv
  <2> QED
    BY <2>1, <2>2, <2>3 DEF RunInv, InputInv, TypeOK, Running, Pipeline, Pipes, Children
<1> QED
  BY <1>1, <1>2, RunInvStep, InputInvStep, ScriptInvInit, ScriptInvStep, HistoryInvInit,
     HistoryInvStep, PTL DEF Spec
=============================================================================
