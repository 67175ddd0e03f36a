-------------------------- MODULE SimpleShellProofs --------------------------
(***************************************************************************)
(* The shell of Assignment 3 for every set of lines, and every number of   *)
(* forks, background processes and history entries.                        *)
(***************************************************************************)
EXTENDS SimpleShell, FiniteSetLemmas, FunctionTheorems, SequenceTheorems

-----------------------------------------------------------------------------
(* Children.                                                               *)

Record(c) ==
    /\ c = [kind |-> c.kind, state |-> c.state, program |-> c.program, in |-> c.in, out |-> c.out]
    /\ c.in \in Nat /\ c.out \in Nat

ChildrenInv ==
    /\ \E S : child \in Seq(S)
    /\ \A p \in DOMAIN child : Record(child[p])

\* The pids are the numbers up to that of the last child.
LEMMA Pids ==
    ASSUME ChildrenInv
    PROVE  Len(child) \in Nat /\ DOMAIN child = 1 .. Len(child)
BY DEF ChildrenInv

\* What the steps of a child change in its record.
LEMMA RecordEnds ==
    ASSUME NEW b, Record(b), NEW c,
           c = [b EXCEPT !.state = "zombie", !.program = "none", !.in = 0, !.out = 0]
    PROVE  Record(c) /\ c.kind = b.kind /\ c.program = "none" /\ c.in = 0 /\ c.out = 0
BY DEF Record

LEMMA RecordProgram ==
    ASSUME NEW b, Record(b), NEW out \in Nat, NEW c,
           c = [b EXCEPT !.state = "running", !.out = out]
    PROVE  Record(c)
BY DEF Record

LEMMA RecordKind ==
    ASSUME NEW b, Record(b), NEW kind, NEW c, c = [b EXCEPT !.kind = kind]
    PROVE  Record(c)
BY DEF Record

\* What a fork does to the children.
LEMMA ForkedChild ==
    ASSUME ChildrenInv, NEW kind, NEW state, NEW program, NEW in \in Nat, NEW out \in Nat,
           child' = Forked(kind, state, program, in, out)
    PROVE  /\ ChildrenInv'
           /\ Len(child') = Len(child) + 1 /\ DOMAIN child' = 1 .. Len(child) + 1
           /\ Len(child') \in DOMAIN child' /\ Len(child') \notin DOMAIN child
           /\ \A p \in DOMAIN child : p \in DOMAIN child' /\ child'[p] = child[p]
           /\ \A p \in DOMAIN child' : p \in DOMAIN child \/ p = Len(child')
           /\ child'[Len(child')] = [kind |-> kind, state |-> state, program |-> program,
                                     in |-> in, out |-> out]
<1> DEFINE c == [kind |-> kind, state |-> state, program |-> program, in |-> in, out |-> out]
<1>1. PICK S : child \in Seq(S)
  BY DEF ChildrenInv
<1>2. Record(c)
  BY DEF Record
<1>3. child' = Append(child, c)
  BY DEF Forked
<1> HIDE DEF c
<1>4. child \in Seq(S \cup {c})
  BY <1>1
<1>5. child' \in Seq(S \cup {c}) /\ Len(child) \in Nat /\ DOMAIN child = 1 .. Len(child)
  BY <1>3, <1>4
<1>6. /\ Len(child') = Len(child) + 1 /\ DOMAIN child' = 1 .. Len(child) + 1
      /\ \A p \in 1 .. Len(child) : child'[p] = child[p]
      /\ child'[Len(child) + 1] = c
  BY <1>3, <1>4
<1>7. \A p \in DOMAIN child' : Record(child'[p])
  BY <1>2, <1>5, <1>6 DEF ChildrenInv
<1>8. ChildrenInv'
  BY <1>5, <1>7 DEF ChildrenInv, Record
<1> QED
  BY <1>5, <1>6, <1>8 DEF c

\* What a step of one child does to the children.
LEMMA ChangedChild ==
    ASSUME ChildrenInv, NEW p \in DOMAIN child, NEW c, Record(c),
           child' = [child EXCEPT ![p] = c]
    PROVE  /\ ChildrenInv'
           /\ Len(child') = Len(child) /\ DOMAIN child' = DOMAIN child
           /\ child'[p] = c
           /\ \A q \in DOMAIN child : q # p => child'[q] = child[q]
<1>1. PICK S : child \in Seq(S)
  BY DEF ChildrenInv
<1>2. child \in Seq(S \cup {c})
  BY <1>1
<1>3. child' \in Seq(S \cup {c}) /\ Len(child') = Len(child) /\ DOMAIN child' = DOMAIN child
  BY <1>2
<1>4. child'[p] = c /\ \A q \in DOMAIN child : q # p => child'[q] = child[q]
  BY <1>2
<1>5. \A q \in DOMAIN child' : Record(child'[q])
  BY <1>3, <1>4 DEF ChildrenInv
<1> QED
  BY <1>3, <1>4, <1>5 DEF ChildrenInv, Record

\* The steps of a child change its state or what it has open, and nothing else.
LEMMA ChildSteps ==
    ASSUME ChildrenInv, NEW p \in DOMAIN child,
           executes(p) \/ exits(p) \/ continued(p) \/ grandchild_fails(p) \/ scheduler_gives_up(p)
    PROVE  /\ ChildrenInv' /\ Len(child') = Len(child) /\ DOMAIN child' = DOMAIN child
           /\ \A q \in DOMAIN child : q # p => child'[q] = child[q]
           /\ child[p].state \in {"forked", "running", "stopped"}
           /\ child[p].state = "forked" /\ child'[p].out # 0 =>
                  child[p].program # "none" /\ ~ redirected(p)
           /\ child[p].program = "none" => child'[p].program = "none"
           /\ \/ child'[p].kind = child[p].kind
              \/ child[p].kind = "sched" /\ child'[p].kind = "lone scheduler"
           /\ child'[p].in \in {0, child[p].in} /\ child'[p].out \in {0, child[p].out}
           /\ UNCHANGED <<pc, is_bg_process, lists, pipeline>>
<1>1. Record(child[p])
  BY DEF ChildrenInv
<1>2. CASE exits(p)
  <2> DEFINE c == [child[p] EXCEPT !.state = "zombie", !.program = "none", !.in = 0, !.out = 0]
  <2>1. child' = [child EXCEPT ![p] = c] /\ child[p].state \in {"forked", "running"}
        /\ UNCHANGED <<pc, is_bg_process, lists, pipeline>>
    BY <1>2 DEF exits
  <2>2. Record(c) /\ c.kind = child[p].kind /\ c.program = "none" /\ c.in = 0 /\ c.out = 0
    BY <1>1, RecordEnds
  <2> HIDE DEF c
  <2> QED  BY <2>1, <2>2, ChangedChild
<1>3. CASE continued(p)
  <2> DEFINE c == [child[p] EXCEPT !.state = "running"]
  <2>1. child' = [child EXCEPT ![p] = c] /\ child[p].state = "stopped"
        /\ UNCHANGED <<pc, is_bg_process, lists, pipeline>>
    BY <1>3 DEF continued
  <2>2. Record(c) /\ c.kind = child[p].kind /\ c.program = child[p].program
        /\ c.in = child[p].in /\ c.out = child[p].out
    BY <1>1 DEF Record
  <2> HIDE DEF c
  <2> QED  BY <2>1, <2>2, ChangedChild
<1>4. CASE grandchild_fails(p)
  <2> DEFINE c == [child[p] EXCEPT !.kind = "lone scheduler"]
  <2>1. child' = [child EXCEPT ![p] = c] /\ child[p].state = "running" /\ child[p].kind = "sched"
        /\ UNCHANGED <<pc, is_bg_process, lists, pipeline>>
    BY <1>4 DEF grandchild_fails
  <2>2. Record(c)
    BY <1>1, RecordKind
  <2>3. c.kind = "lone scheduler" /\ c.program = child[p].program
    BY <1>1 DEF Record
  <2>4. c.in = child[p].in /\ c.out = child[p].out
    BY <1>1 DEF Record
  <2> HIDE DEF c
  <2> QED  BY <2>1, <2>2, <2>3, <2>4, ChangedChild
<1>5. CASE scheduler_gives_up(p)
  <2> DEFINE c == [child[p] EXCEPT !.state = "zombie"]
  <2>1. child' = [child EXCEPT ![p] = c] /\ child[p].state = "running"
        /\ UNCHANGED <<pc, is_bg_process, lists, pipeline>>
    BY <1>5 DEF scheduler_gives_up
  <2>2. Record(c) /\ c.kind = child[p].kind /\ c.program = child[p].program
        /\ c.in = child[p].in /\ c.out = child[p].out
    BY <1>1 DEF Record
  <2> HIDE DEF c
  <2> QED  BY <2>1, <2>2, ChangedChild
<1>6. CASE executes(p)
  <2> DEFINE c == [child[p] EXCEPT !.state = "running", !.out = output_of(p)]
  <2>1. /\ child' = [child EXCEPT ![p] = c]
        /\ child[p].state = "forked" /\ child[p].program # "none"
        /\ UNCHANGED <<pc, is_bg_process, lists, pipeline>>
    BY <1>6 DEF executes
  <2>2. /\ output_of(p) \in Nat /\ output_of(p) \in {0, child[p].out}
        /\ redirected(p) => output_of(p) = 0
    BY <1>1 DEF Record, output_of
  <2>3. Record(c)
    BY <1>1, <2>2, RecordProgram
  <2>4. c.kind = child[p].kind /\ c.program = child[p].program
    BY <1>1 DEF Record
  <2>5. c.in = child[p].in /\ c.out = output_of(p)
    BY <1>1 DEF Record
  <2> HIDE DEF c
  <2> QED  BY <2>1, <2>2, <2>3, <2>4, <2>5, ChangedChild
<1> QED
  BY <1>2, <1>3, <1>4, <1>5, <1>6

\* A wait collects a child, which keeps its kind and its descriptors.
LEMMA ReapedChild ==
    ASSUME ChildrenInv, NEW p \in DOMAIN child, child' = [child EXCEPT ![p].state = "reaped"]
    PROVE  /\ ChildrenInv' /\ Len(child') = Len(child) /\ DOMAIN child' = DOMAIN child
           /\ \A q \in DOMAIN child : q # p => child'[q] = child[q]
           /\ child'[p].state = "reaped" /\ child'[p].kind = child[p].kind
           /\ child'[p].program = child[p].program
           /\ child'[p].in = child[p].in /\ child'[p].out = child[p].out
<1> DEFINE c == [child[p] EXCEPT !.state = "reaped"]
<1>1. child' = [child EXCEPT ![p] = c]
  OBVIOUS
<1>2. Record(c) /\ c.state = "reaped" /\ c.kind = child[p].kind /\ c.program = child[p].program
      /\ c.in = child[p].in /\ c.out = child[p].out
  BY DEF Record, ChildrenInv
<1> HIDE DEF c
<1> QED
  BY <1>1, <1>2, ChangedChild

-----------------------------------------------------------------------------
(* Pipes.                                                                  *)

\* The name of a new pipe is a number that is not in use: there are more numbers
\* up to one more than those in use.
LEMMA NewPipe ==
    ASSUME ChildrenInv, IsFiniteSet(open_ends)
    PROVE  /\ unused_pipe \in Nat \ {0}
           /\ \A end \in open_ends : end[1] # unused_pipe
           /\ \A p \in DOMAIN child : child[p].in # unused_pipe
<1> DEFINE ends == {end[1] : end \in open_ends}
           ins  == {child[p].in : p \in DOMAIN child}
           outs == {child[p].out : p \in DOMAIN child}
           used == ends \cup ins \cup outs
           S    == (1 .. Cardinality(used) + 1) \ used
<1>1. IsFiniteSet(DOMAIN child)
  BY Pids, FS_Interval
<1>2. IsFiniteSet(ends)
  <2>1. [end \in open_ends |-> end[1]] \in Surjection(open_ends, ends)
    BY DEF Surjection
  <2> QED  BY <2>1, FS_Surjection
<1>3. IsFiniteSet(ins)
  <2>1. [p \in DOMAIN child |-> child[p].in] \in Surjection(DOMAIN child, ins)
    BY DEF Surjection
  <2> QED  BY <1>1, <2>1, FS_Surjection
<1>4. IsFiniteSet(outs)
  <2>1. [p \in DOMAIN child |-> child[p].out] \in Surjection(DOMAIN child, outs)
    BY DEF Surjection
  <2> QED  BY <1>1, <2>1, FS_Surjection
<1>5. IsFiniteSet(used) /\ Cardinality(used) \in Nat
  <2> HIDE DEF ends, ins, outs
  <2> QED  BY <1>2, <1>3, <1>4, FS_Union, FS_CardinalityType
<1>6. S # {}
  <2> HIDE DEF used
  <2>1. SUFFICES ASSUME 1 .. Cardinality(used) + 1 \subseteq used PROVE FALSE
    OBVIOUS
  <2>2. Cardinality(1 .. Cardinality(used) + 1) <= Cardinality(used)
    BY <1>5, <2>1, FS_Subset
  <2>3. Cardinality(1 .. Cardinality(used) + 1) = Cardinality(used) + 1
    BY <1>5, FS_Interval
  <2> QED  BY <1>5, <2>2, <2>3
<1>7. Min(S) \in S
  <2>1. S \in SUBSET Nat /\ IsFiniteSet(S)
    <3> HIDE DEF used
    <3> DEFINE n == Cardinality(used) + 1
    <3>1. n \in Nat /\ S \in SUBSET (1 .. n)
      BY <1>5
    <3>2. IsFiniteSet(1 .. n)
      BY <3>1, FS_Interval
    <3> HIDE DEF n, S
    <3>3. S \in SUBSET Nat
      BY <3>1
    <3>4. IsFiniteSet(S)
      BY <3>1, <3>2, FS_Subset
    <3> QED  BY <3>3, <3>4
  <2> HIDE DEF S
  <2> QED  BY <1>6, <2>1, LeastMember
<1>8. unused_pipe = Min(S)
  BY DEF unused_pipe
<1>9. unused_pipe \in Nat \ {0} /\ unused_pipe \notin used
  <2> HIDE DEF used
  <2> QED  BY <1>5, <1>7, <1>8
<1>10. ASSUME NEW end \in open_ends PROVE end[1] # unused_pipe
  BY <1>9, <1>10
<1> QED
  BY <1>9, <1>10

\* The ends of a pipe; 0 is not a pipe.
ReadEnd(fd) == IF fd = 0 THEN {} ELSE {<<fd, "r">>}
BothEnds(fd) == IF fd = 0 THEN {} ELSE {<<fd, "r">>, <<fd, "w">>}

Stage == {"fork", "waitpid", "second_fork", "storing", "stage_done"}

\* While a stage runs, the shell has the read end of its input and both ends of
\* its output open, and nothing else; the last stage has no output pipe.
LineInv ==
    /\ ChildrenInv
    /\ pc \in Over \cup Stage \cup {"prompt", "pipe", "reap", "sched_wait"}
    /\ input_fd \in Nat /\ output_fd \in Nat /\ stage \in Nat \ {0}
    /\ pc \in {"prompt", "sched_wait"} \cup Over => cmds = <<>>
    /\ cmds = <<>> => stage = 1 /\ input_fd = 0 /\ output_fd = 0 /\ open_ends = {}
    /\ pc \in {"pipe", "fork", "waitpid", "second_fork", "stage_done"} => cmds # <<>>
    /\ Len(cmds) = 1 => stage = 1
    /\ stage = 1 /\ pc # "reap" => input_fd = 0
    /\ pc = "pipe" => open_ends = ReadEnd(input_fd)
    /\ pc \in Stage /\ cmds # <<>> =>
           /\ open_ends = ReadEnd(input_fd) \cup BothEnds(output_fd)
           /\ output_fd = 0 <=> last_stage
           /\ input_fd # 0 => input_fd # output_fd
    /\ pc = "reap" => open_ends = {}
    /\ pc \in {"waitpid", "sched_wait"} => Len(child) \in DOMAIN child

LEMMA NoChildren == child = <<>> => ChildrenInv
BY EmptySeq DEF ChildrenInv

LEMMA LineInvInit == Init => LineInv
BY NoChildren, LenProperties DEF Init, LineInv, Over, Stage, ReadEnd

\* The steps that end the shell.
LEMMA Ends ==
    ASSUME \/ read_eof \/ read_blank \/ sigint_handler
           \/ pipe_fails \/ waitpid_ends \/ second_fork_ends
           \/ \E line \in SingleLines : builtin_ends(line)
           \/ \E line \in PipedLines : piped_ampersand(line)
    PROVE  \E how \in Over : over(how)
BY DEF read_eof, read_blank, sigint_handler, pipe_fails, waitpid_ends, second_fork_ends,
       builtin_ends, piped_ampersand, store_crashes, store_overflows, Over

LEMMA SubSeqType ==
    ASSUME NEW S, NEW s \in Seq(S), NEW m \in Int, NEW n \in Int, m >= 1, n <= Len(s)
    PROVE  SubSeq(s, m, n) \in Seq(S)
BY SubSeqProperties

\* Where the commands of a line begin and end.
Bars(line) == {0, Len(line) + 1} \cup Positions(line, "|")

LEMMA BarsType ==
    ASSUME NEW line \in Seq(Programs)
    PROVE  /\ IsFiniteSet(Bars(line)) /\ Bars(line) \in SUBSET (0 .. Len(line) + 1)
           /\ 0 \in Bars(line) /\ Len(line) + 1 \in Bars(line)
           /\ Cardinality(Bars(line)) \in Nat /\ Cardinality(Bars(line)) >= 2
<1>1. Bars(line) \in SUBSET (0 .. Len(line) + 1)
  BY DEF Bars, Positions
<1>2. IsFiniteSet(0 .. Len(line) + 1)
  BY FS_Interval
<1>3. IsFiniteSet(Bars(line)) /\ Cardinality(Bars(line)) \in Nat
  BY <1>1, <1>2, FS_Subset, FS_CardinalityType
<1>4. 0 \in Bars(line) /\ Len(line) + 1 \in Bars(line) /\ Len(line) + 1 # 0
  BY DEF Bars
<1>5. Cardinality({0, Len(line) + 1}) = 2
  <2>1. Cardinality({0}) = 1 /\ IsFiniteSet({0})
    BY FS_Singleton
  <2> DEFINE last == Len(line) + 1
  <2>2. {0, last} = {0} \cup {last} /\ last \notin {0}
    BY <1>4
  <2> HIDE DEF last
  <2>3. Cardinality({0} \cup {last}) = 1 + 1
    BY <2>1, <2>2, FS_AddElement
  <2>4. Cardinality({0, last}) = Cardinality({0} \cup {last})
    BY <2>2, Zenon
  <2>5. Cardinality({0, last}) = 2
    BY <2>3, <2>4
  <2> QED  BY <2>5 DEF last
<1>6. Cardinality({0, Len(line) + 1}) <= Cardinality(Bars(line))
  <2>1. {0, Len(line) + 1} \in SUBSET Bars(line)
    BY <1>4
  <2> QED  BY <1>3, <2>1, FS_Subset
<1> QED
  BY <1>1, <1>3, <1>4, <1>5, <1>6

\* The commands of a line are sequences of tokens, and there is one at least:
\* what the loop over them reads is no token that the line does not have.
LEMMA CommandsType ==
    ASSUME NEW line \in Seq(Programs)
    PROVE  Commands(line) \in Seq(Seq(Programs)) /\ Commands(line) # <<>>
<1> DEFINE bars   == Bars(line)
           upto(n) == {b \in bars : Cardinality({c \in bars : c <= b}) >= n}
           bar(n) == Min(upto(n))
           m      == Cardinality(bars) - 1
<1>1. bars \in SUBSET (0 .. Len(line) + 1) /\ Len(line) \in Nat
  BY BarsType
<1>2. ASSUME NEW n \in 1 .. m + 1 PROVE bar(n) \in 0 .. Len(line) + 1
  <2>1. {c \in bars : c <= Len(line) + 1} = bars /\ Len(line) + 1 \in bars
    BY <1>1, BarsType
  <2>2. Cardinality(bars) >= n
    BY <1>2, BarsType
  <2>3. Len(line) + 1 \in upto(n)
    BY <2>1, <2>2
  <2>4. upto(n) \in SUBSET bars /\ upto(n) \in SUBSET Nat
    BY <1>1
  <2>5. IsFiniteSet(upto(n))
    BY <2>4, BarsType, FS_Subset
  <2> HIDE DEF upto, bars
  <2>6. Min(upto(n)) \in upto(n)
    BY <2>3, <2>4, <2>5, LeastMember
  <2> QED  BY <1>1, <2>4, <2>6
<1>3. Commands(line) = [n \in 1 .. m |-> SubSeq(line, bar(n) + 1, bar(n + 1) - 1)]
  BY DEF Commands, Bars
<1>4. m \in Nat \ {0}
  BY BarsType
<1> HIDE DEF bar, m
<1>5. ASSUME NEW n \in 1 .. m PROVE SubSeq(line, bar(n) + 1, bar(n + 1) - 1) \in Seq(Programs)
  <2>1. bar(n) \in 0 .. Len(line) + 1
    BY <1>2, <1>4
  <2>2. bar(n + 1) \in 0 .. Len(line) + 1
    <3>1. n + 1 \in 1 .. m + 1
      BY <1>4
    <3> HIDE DEF bars
    <3> QED  BY <1>2, <3>1
  <2> DEFINE first == bar(n) + 1
             last  == bar(n + 1) - 1
  <2>3. first \in Int /\ last \in Int /\ first >= 1 /\ last <= Len(line)
    BY <1>1, <2>1, <2>2
  <2> HIDE DEF first, last
  <2>4. SubSeq(line, first, last) \in Seq(Programs)
    BY <2>3, SubSeqType
  <2> QED  BY <2>4 DEF first, last
<1>6. Commands(line) \in [1 .. m -> Seq(Programs)]
  BY <1>3, <1>5
<1>7. Commands(line) \in Seq(Seq(Programs)) /\ 1 \in DOMAIN Commands(line)
  BY <1>4, <1>6
<1> QED
  BY <1>7

\* The tokens before the first "&".
LEMMA BeforeAmpersandType ==
    ASSUME NEW line \in Seq(Programs)
    PROVE  BeforeAmpersand(line) \in Seq(Programs)
<1> DEFINE amps == Positions(line, "&")
<1>1. amps \in SUBSET (1 .. Len(line)) /\ amps \in SUBSET Nat /\ Len(line) \in Nat
  BY DEF Positions
<1>2. IsFiniteSet(amps)
  <2>1. IsFiniteSet(1 .. Len(line))
    BY <1>1, FS_Interval
  <2> QED  BY <1>1, <2>1, FS_Subset
<1>3. ASSUME amps # {} PROVE SubSeq(line, 1, Min(amps) - 1) \in Seq(Programs)
  <2> HIDE DEF amps
  <2>1. Min(amps) \in amps
    BY <1>1, <1>2, <1>3, LeastMember
  <2> DEFINE last == Min(amps) - 1
  <2>2. last \in Int /\ last <= Len(line)
    <3> DEFINE a == Min(amps)
    <3>1. a \in 1 .. Len(line)
      BY <1>1, <2>1
    <3> HIDE DEF a
    <3>2. a - 1 \in Int /\ a - 1 <= Len(line)
      BY <1>1, <3>1
    <3> QED  BY <3>2 DEF a
  <2> HIDE DEF last
  <2>3. SubSeq(line, 1, last) \in Seq(Programs)
    BY <2>2, SubSeqType
  <2> QED  BY <2>3 DEF last
<1> QED
  BY <1>3 DEF BeforeAmpersand

\* Each line that is run is a sequence of tokens.
LEMMA LineTypes ==
    /\ \A line \in SingleLines : line \in Seq(Programs)
    /\ \A line \in PipedLines : line \in Seq(Programs)
<1>1. ASSUME NEW line \in Lines PROVE line \in Seq(Programs)
  <2>1. line \in Seq(STRING) /\ Len(line) \in Nat /\ DOMAIN line = 1 .. Len(line)
    BY LinesAssumption
  <2>2. \A n \in 1 .. Len(line) : line[n] \in Programs
    BY <2>1 DEF Programs, Range
  <2> QED  BY <2>1, <2>2
<1> QED
  BY <1>1 DEF SingleLines, PipedLines, OtherLines

LEMMA LineInvStep == LineInv /\ [Next]_vars => LineInv'
<1> SUFFICES ASSUME LineInv, [Next]_vars PROVE LineInv'
  OBVIOUS
<1> USE DEF LineInv, Over
<1>1. ASSUME NEW how \in Over, over(how) PROVE LineInv'
  <2>1. ChildrenInv'
    BY <1>1, EmptySeq DEF over, ChildrenInv
  <2>2. Len(<<>>) = 0
    OBVIOUS
  <2> QED  BY <1>1, <2>1, <2>2 DEF over, Over, Stage
<1>2. ASSUME NEW line \in SingleLines, no_command(line) \/ builtin(line) PROVE LineInv'
  <2>1. /\ pc = "prompt" /\ pc' \in {"prompt", "storing"}
        /\ UNCHANGED <<cmds, stage, input_fd, output_fd, open_ends, child>>
    BY <1>2 DEF no_command, builtin, store_counts, pipeline
  <2> QED  BY <2>1 DEF ChildrenInv, Stage
<1>3. ASSUME NEW line \in SingleLines, single(line) PROVE LineInv'
  <2>1. /\ pc = "prompt" /\ pc' = "fork" /\ cmds' = <<BeforeAmpersand(line)>>
        /\ UNCHANGED <<stage, input_fd, output_fd, open_ends, child>>
    BY <1>3 DEF single, run
  <2>2. cmds' # <<>> /\ Len(cmds') = 1
    BY <2>1
  <2> QED  BY <2>1, <2>2 DEF ChildrenInv, Stage, ReadEnd, BothEnds, last_stage
<1>4. ASSUME NEW line \in PipedLines, piped(line) PROVE LineInv'
  <2>1. /\ pc = "prompt" /\ pc' = "pipe" /\ cmds' # <<>>
        /\ UNCHANGED <<stage, input_fd, output_fd, open_ends, child>>
    BY <1>4, LineTypes, CommandsType DEF piped, run
  <2> QED  BY <2>1 DEF ChildrenInv, Stage, ReadEnd
<1>5. CASE submit \/ sched
  <2>1. /\ pc = "prompt" /\ pc' \in {"prompt", "sched_wait"}
        /\ UNCHANGED <<cmds, stage, input_fd, output_fd, open_ends>>
    BY <1>5 DEF submit, sched, pipeline
  <2>2. ChildrenInv' /\ Len(child') \in DOMAIN child'
    BY <1>5, ForkedChild DEF submit, sched
  <2> QED  BY <2>1, <2>2 DEF Stage
<1>6. CASE pipe
  <2>1. /\ pc = "pipe" /\ pc' = "fork" /\ UNCHANGED <<cmds, stage, input_fd, child>>
        /\ last_stage' = last_stage
    BY <1>6 DEF pipe, last_stage
  <2>2. CASE last_stage
    <3>1. output_fd' = 0 /\ open_ends' = open_ends
      BY <1>6, <2>2 DEF pipe
    <3> QED  BY <2>1, <2>2, <3>1 DEF ChildrenInv, Stage, BothEnds, ReadEnd, last_stage
  <2>3. CASE ~ last_stage
    <3>1. /\ output_fd' = unused_pipe
          /\ open_ends' = open_ends \cup {<<unused_pipe, "r">>, <<unused_pipe, "w">>}
      BY <1>6, <2>3 DEF pipe
    <3>2. IsFiniteSet(open_ends)
      <4>1. open_ends = {} \/ open_ends = {<<input_fd, "r">>}
        BY <2>1 DEF ReadEnd
      <4>2. IsFiniteSet({}) /\ IsFiniteSet({<<input_fd, "r">>})
        BY FS_EmptySet, FS_Singleton, Zenon
      <4> QED  BY <4>1, <4>2
    <3>3. unused_pipe \in Nat \ {0} /\ (input_fd # 0 => input_fd # unused_pipe)
      <4>1. unused_pipe \in Nat \ {0}
        BY <3>2, NewPipe
      <4>2. input_fd # 0 => <<input_fd, "r">> \in open_ends
        BY <2>1 DEF ReadEnd
      <4> QED  BY <3>2, <4>1, <4>2, NewPipe
    <3> HIDE DEF unused_pipe
    <3> QED  BY <2>1, <2>3, <3>1, <3>3 DEF ChildrenInv, Stage, BothEnds, ReadEnd, last_stage
  <2> QED  BY <2>2, <2>3
<1>7. CASE stage_done
  <2>1. /\ pc = "stage_done" /\ Len(cmds) > 1 /\ UNCHANGED <<cmds, output_fd, child>>
        /\ open_ends' = open_ends \ closed_ends /\ input_fd' = output_fd /\ stage' = stage + 1
        /\ pc' = IF last_stage THEN "reap" ELSE "pipe"
    BY <1>7 DEF stage_done
  <2>2. /\ open_ends = ReadEnd(input_fd) \cup BothEnds(output_fd)
        /\ output_fd = 0 <=> last_stage
        /\ input_fd # 0 => input_fd # output_fd
        /\ cmds # <<>>
    BY <2>1 DEF Stage
  <2>3. open_ends' = ReadEnd(output_fd)
    BY <2>1, <2>2 DEF ReadEnd, BothEnds, closed_ends
  <2>4. output_fd = 0 => open_ends' = {}
    BY <2>3 DEF ReadEnd
  <2>5. stage' \in Nat \ {0} /\ stage' # 1 /\ ~ (Len(cmds) = 1)
    <3>1. stage \in Nat \ {0}
      OBVIOUS
    <3> HIDE DEF LineInv
    <3>2. stage' = stage + 1 /\ Len(cmds) > 1
      BY <2>1
    <3>3. stage + 1 # 1 /\ stage + 1 \in Nat \ {0}
      BY <3>1
    <3>4. Len(cmds) # 1
      <4>1. ~ (1 > 1)
        OBVIOUS
      <4> QED  BY <3>2, <4>1, Zenon
    <3> QED  BY <3>2, <3>3, <3>4
  <2> QED  BY <2>1, <2>2, <2>3, <2>4, <2>5 DEF ChildrenInv, Stage, ReadEnd
<1>8. CASE single_done
  <2>1. /\ pc = "stage_done" /\ Len(cmds) = 1 /\ stage = 1 /\ input_fd = 0 /\ last_stage
        /\ UNCHANGED <<open_ends, child>>
    BY <1>8 DEF single_done, last_stage
  <2>2. output_fd = 0 /\ open_ends = {}
    BY <2>1 DEF Stage, ReadEnd, BothEnds
  <2>3. Len(<<>>) = 0
    OBVIOUS
  <2> QED  BY <1>8, <2>1, <2>2, <2>3 DEF single_done, prompt, ChildrenInv, Stage
<1>9. CASE waits_done
  <2>1. Len(<<>>) = 0
    OBVIOUS
  <2> QED  BY <1>9, <2>1 DEF waits_done, prompt, ChildrenInv, Stage
<1>10. CASE fork \/ second_fork \/ second_fork_full
  <2>1. /\ pc \in {"fork", "second_fork"} /\ pc' \in Stage
        /\ UNCHANGED <<cmds, stage, input_fd, output_fd, open_ends>> /\ last_stage' = last_stage
    BY <1>10 DEF fork, second_fork, second_fork_full, second_child, store_counts, pipeline, Stage,
                 last_stage
  <2>2. ChildrenInv' /\ Len(child') \in DOMAIN child'
    BY <1>10, ForkedChild DEF fork, second_fork, second_fork_full, second_child
  <2> QED  BY <2>1, <2>2 DEF Stage
<1>11. CASE fork_fails
  <2>1. /\ pc \in {"fork", "second_fork"} /\ pc' = "stage_done" /\ last_stage' = last_stage
        /\ UNCHANGED <<cmds, stage, input_fd, output_fd, open_ends, child>>
    BY <1>11 DEF fork_fails, pipeline, last_stage
  <2> QED  BY <2>1 DEF ChildrenInv, Stage
<1>12. CASE waitpid
  <2>1. /\ pc = "waitpid" /\ pc' = "storing" /\ last_stage' = last_stage
        /\ UNCHANGED <<cmds, stage, input_fd, output_fd, open_ends>>
    BY <1>12 DEF waitpid, store_counts, pipeline, last_stage
  <2>2. PICK p \in DOMAIN child : child' = [child EXCEPT ![p].state = "reaped"]
    BY <1>12, <2>1 DEF waitpid, awaited, this
  <2>3. ChildrenInv'
    BY <2>2, ReapedChild
  <2> QED  BY <2>1, <2>3 DEF Stage
<1>13. CASE sched_done
  <2>1. /\ pc = "sched_wait" /\ pc' = "prompt"
        /\ UNCHANGED <<cmds, stage, input_fd, output_fd, open_ends>>
    BY <1>13 DEF sched_done, pipeline
  <2>2. PICK p \in DOMAIN child : child' = [child EXCEPT ![p].state = "reaped"]
    BY <1>13, <2>1 DEF sched_done, awaited, this
  <2>3. ChildrenInv'
    BY <2>2, ReapedChild
  <2> QED  BY <2>1, <2>3 DEF Stage
<1>14. CASE wait
  <2>1. pc = "reap" /\ UNCHANGED <<pc, cmds, stage, input_fd, output_fd, open_ends>>
    BY <1>14 DEF wait
  <2>2. PICK p \in DOMAIN child : child' = [child EXCEPT ![p].state = "reaped"]
    BY <1>14 DEF wait
  <2>3. ChildrenInv'
    BY <2>2, ReapedChild
  <2> QED  BY <2>1, <2>3 DEF Stage
<1>15. CASE stored
  <2>1. /\ pc = "storing" /\ pc' = IF cmds = <<>> THEN "prompt" ELSE "stage_done"
        /\ UNCHANGED <<cmds, stage, input_fd, output_fd, open_ends, child>> /\ last_stage' = last_stage
    BY <1>15 DEF stored, pipeline, last_stage
  <2> QED  BY <2>1 DEF ChildrenInv, Stage
<1>16. CASE wait_fails \/ UNCHANGED vars
  <2>1. /\ UNCHANGED <<pc, cmds, stage, input_fd, output_fd, open_ends, child>>
        /\ last_stage' = last_stage
    BY <1>16 DEF wait_fails, vars, pipeline, last_stage
  <2> QED  BY <2>1 DEF ChildrenInv, Stage
<1>17. ASSUME NEW p \in DOMAIN child,
              executes(p) \/ exits(p) \/ continued(p) \/ grandchild_fails(p) \/ scheduler_gives_up(p)
       PROVE  LineInv'
  <2>1. /\ UNCHANGED <<pc, cmds, stage, input_fd, output_fd, open_ends>> /\ last_stage' = last_stage
        /\ ChildrenInv' /\ Len(child') = Len(child) /\ DOMAIN child' = DOMAIN child
    BY <1>17, ChildSteps DEF pipeline, last_stage
  <2> QED  BY <2>1 DEF Stage
<1> QED
  BY <1>1, <1>2, <1>3, <1>4, <1>5, <1>6, <1>7, <1>8, <1>9, <1>10, <1>11, <1>12, <1>13, <1>14,
     <1>15, <1>16, <1>17, Ends
     DEF Next, main, shell_step

\* No pipe end stays open in the shell behind a pipeline, for every line and
\* whichever of its forks fail.
THEOREM PipesCorrect == Spec => []PipesClosed
<1>1. LineInv => PipesClosed
  BY DEF LineInv, PipesClosed
<1> QED
  BY <1>1, LineInvInit, LineInvStep, PTL DEF Spec

-----------------------------------------------------------------------------
(* Waiting for children.                                                   *)

WaitedFor == {"foreground", "sched", "lone scheduler"}

\* The shell has collected each child that it waits for, but for the last one
\* while it waits for that.
WaitInv ==
    \A p \in DOMAIN child :
        child[p].kind \in WaitedFor =>
            \/ child[p].state = "reaped"
            \/ pc \in {"waitpid", "sched_wait"} /\ p = Len(child)

LEMMA WaitInvStep == LineInv /\ WaitInv /\ [Next]_vars => WaitInv'
<1> SUFFICES ASSUME LineInv, WaitInv, [Next]_vars PROVE WaitInv'
  OBVIOUS
<1>a. ChildrenInv
  BY DEF LineInv
<1>1. ASSUME NEW how \in Over, over(how) PROVE WaitInv'
  BY <1>1, EmptySeq DEF over, WaitInv
<1>2. ASSUME pc \notin {"waitpid", "sched_wait"}, child' = child PROVE WaitInv'
  BY <1>2 DEF WaitInv
<1>b. ASSUME NEW kind, NEW state, NEW program, NEW in \in Nat, NEW out \in Nat,
             child' = Forked(kind, state, program, in, out),
             pc \notin {"waitpid", "sched_wait"},
             kind \in WaitedFor => pc' \in {"waitpid", "sched_wait"}
      PROVE  WaitInv'
  <2> SUFFICES ASSUME NEW p \in DOMAIN child', child'[p].kind \in WaitedFor
               PROVE  \/ child'[p].state = "reaped"
                      \/ pc' \in {"waitpid", "sched_wait"} /\ p = Len(child')
    BY DEF WaitInv
  <2>1. CASE p \in DOMAIN child
    <3>1. child'[p] = child[p]
      BY <1>a, <1>b, <2>1, ForkedChild
    <3> QED  BY <1>b, <2>1, <3>1 DEF WaitInv
  <2>2. CASE p = Len(child')
    <3>1. child'[p].kind = kind
      <4>1. child'[Len(child')] = [kind |-> kind, state |-> state, program |-> program,
                                   in |-> in, out |-> out]
        BY <1>a, <1>b, ForkedChild
      <4> QED  BY <2>2, <4>1
    <3> QED  BY <1>b, <2>2, <3>1
  <2>3. p \in DOMAIN child \/ p = Len(child')
    BY <1>a, <1>b, ForkedChild
  <2> QED  BY <2>1, <2>2, <2>3
<1>3. CASE submit \/ sched
  <2>1. CASE submit
    BY <1>b, <2>1 DEF submit, WaitedFor
  <2>2. CASE sched
    <3>1. pc = "prompt" /\ child' = Forked("sched", "running", "none", 0, 0) /\ pc' = "sched_wait"
      BY <2>2 DEF sched
    <3> QED  BY <1>b, <3>1
  <2> QED  BY <1>3, <2>1, <2>2
<1>4. CASE fork
  <2>1. pc = "fork" /\ input_fd \in Nat /\ output_fd \in Nat
    BY <1>4 DEF fork, LineInv
  <2>2. CASE is_bg_process
    <3>1. child' = Forked("background", "forked", program_of(cmds[stage]), input_fd, output_fd)
      BY <1>4, <2>2 DEF fork
    <3> QED  BY <1>b, <2>1, <3>1 DEF WaitedFor
  <2>3. CASE ~ is_bg_process
    <3>1. /\ child' = Forked("foreground", "forked", program_of(cmds[stage]), input_fd, output_fd)
          /\ pc' = "waitpid"
      BY <1>4, <2>3 DEF fork
    <3> QED  BY <1>b, <2>1, <3>1
  <2> QED  BY <2>2, <2>3
<1>5. CASE second_fork \/ second_fork_full
  <2>1. /\ pc = "second_fork" /\ child' = Forked("dummy", "forked", "none", input_fd, output_fd)
        /\ input_fd \in Nat /\ output_fd \in Nat
    BY <1>5 DEF second_fork, second_fork_full, second_child, LineInv
  <2> QED  BY <1>b, <2>1 DEF WaitedFor
<1>6. CASE waitpid \/ sched_done
  <2>1. Len(child) \in DOMAIN child /\ child' = [child EXCEPT ![Len(child)].state = "reaped"]
    BY <1>6 DEF waitpid, sched_done, awaited, this, LineInv
  <2> QED  BY <1>a, <2>1, ReapedChild DEF WaitInv
<1>7. CASE wait
  <2>1. PICK p \in DOMAIN child : child' = [child EXCEPT ![p].state = "reaped"]
    BY <1>7 DEF wait
  <2>2. pc = "reap"
    BY <1>7 DEF wait
  <2> QED  BY <1>a, <2>1, <2>2, ReapedChild DEF WaitInv
<1>8. ASSUME NEW p \in DOMAIN child,
             executes(p) \/ exits(p) \/ continued(p) \/ grandchild_fails(p) \/ scheduler_gives_up(p)
      PROVE  WaitInv'
  <2>1. child[p].kind \in WaitedFor <=> child'[p].kind \in WaitedFor
    BY <1>a, <1>8, ChildSteps DEF WaitedFor
  <2>2. /\ DOMAIN child' = DOMAIN child /\ Len(child') = Len(child) /\ pc' = pc
        /\ \A q \in DOMAIN child : q # p => child'[q] = child[q]
        /\ child[p].state # "reaped"
    BY <1>a, <1>8, ChildSteps
  <2> QED  BY <2>1, <2>2 DEF WaitInv
<1>9. ASSUME NEW line, no_command(line) \/ builtin(line) \/ single(line) \/ piped(line)
      PROVE  WaitInv'
  BY <1>2, <1>9 DEF no_command, builtin, single, piped, run, pipeline
<1>10. CASE \/ pipe \/ stage_done \/ single_done \/ fork_fails
            \/ wait_fails \/ waits_done \/ stored
  BY <1>2, <1>10 DEF pipe, stage_done, single_done, fork_fails, wait_fails, waits_done, stored
<1>11. CASE UNCHANGED vars
  BY <1>11 DEF vars, WaitInv
<1> QED
  BY <1>1, <1>3, <1>4, <1>5, <1>6, <1>7, <1>8, <1>9, <1>10, <1>11, Ends
     DEF Next, main, shell_step

\* At its prompt the shell has collected every command that it ran in the
\* foreground and every child of sched.
THEOREM PromptCorrect == Spec => []PromptAfterForeground
<1>1. Init => WaitInv
  BY EmptySeq DEF Init, WaitInv
<1>2. WaitInv => PromptAfterForeground
  BY DEF WaitInv, WaitedFor, PromptAfterForeground, Kind
<1> QED
  BY <1>1, <1>2, LineInvInit, LineInvStep, WaitInvStep, PTL DEF Spec

-----------------------------------------------------------------------------
(* The ends of pipes that children have.                                   *)

\* A child that only has to redirect its output or to exit.
LetsGo(c) == c.kind \in {"background", "dummy"} /\ c.state = "forked"

\* The write end of a pipe is with the stage that the shell waits for, the one of
\* its output, and with children that only have to redirect their output or to
\* exit.  Nobody has the pipe of the current output as input yet, and a second
\* child executes nothing.
EndsInv ==
    /\ \A p \in DOMAIN child :
           child[p].out # 0 /\ child[p].state # "reaped" =>
               \/ pc = "waitpid" /\ p = Len(child) /\ child[p].out = output_fd
               \/ LetsGo(child[p])
    /\ \A p \in DOMAIN child : child[p].kind = "dummy" => child[p].program = "none"
    /\ pc \in Stage /\ output_fd # 0 => \A p \in DOMAIN child : child[p].in # output_fd

LEMMA EndsInvStep == LineInv /\ EndsInv /\ [Next]_vars => EndsInv'
<1> SUFFICES ASSUME LineInv, EndsInv, [Next]_vars PROVE EndsInv'
  OBVIOUS
<1>a. ChildrenInv
  BY DEF LineInv
<1>1. ASSUME NEW how \in Over, over(how) PROVE EndsInv'
  BY <1>1, EmptySeq DEF over, EndsInv
<1>2. ASSUME pc # "waitpid", child' = child,
             pc' \notin Stage \/ output_fd' = 0 \/ (pc \in Stage /\ output_fd' = output_fd)
      PROVE  EndsInv'
  BY <1>2 DEF EndsInv
<1>b. ASSUME NEW kind, NEW state, NEW program, NEW in \in Nat, NEW out \in Nat,
             child' = Forked(kind, state, program, in, out),
             pc # "waitpid",
             out # 0 =>
                 \/ pc' = "waitpid" /\ out = output_fd'
                 \/ kind \in {"background", "dummy"} /\ state = "forked",
             kind = "dummy" => program = "none",
             pc' \in Stage => pc \in Stage /\ output_fd' = output_fd,
             output_fd' # 0 => in # output_fd'
      PROVE  EndsInv'
  <2>1. ASSUME NEW p \in DOMAIN child', p # Len(child')
        PROVE  p \in DOMAIN child /\ child'[p] = child[p]
    BY <1>a, <1>b, <2>1, ForkedChild
  <2>2. /\ child'[Len(child')].in = in /\ child'[Len(child')].out = out
        /\ child'[Len(child')].kind = kind /\ child'[Len(child')].state = state
        /\ child'[Len(child')].program = program
    <3>1. child'[Len(child')] = [kind |-> kind, state |-> state, program |-> program,
                                 in |-> in, out |-> out]
      BY <1>a, <1>b, ForkedChild
    <3> QED  BY <3>1
  <2> QED  BY <1>b, <2>1, <2>2 DEF EndsInv, LetsGo
<1>3. CASE submit \/ sched
  <2>1. pc = "prompt" /\ pc' \notin Stage
    BY <1>3 DEF submit, sched, Stage
  <2>2. CASE submit
    BY <1>b, <2>1, <2>2 DEF submit
  <2>3. CASE sched
    BY <1>b, <2>1, <2>3 DEF sched
  <2> QED  BY <1>3, <2>2, <2>3
<1>4. CASE fork
  <2>1. /\ pc = "fork" /\ pc \in Stage /\ UNCHANGED output_fd
        /\ input_fd \in Nat /\ output_fd \in Nat
        /\ output_fd # 0 => input_fd # output_fd
    BY <1>4 DEF fork, LineInv, pipeline, Stage
  <2>2. CASE is_bg_process
    <3>1. child' = Forked("background", "forked", program_of(cmds[stage]), input_fd, output_fd)
      BY <1>4, <2>2 DEF fork
    <3> QED  BY <1>b, <2>1, <3>1
  <2>3. CASE ~ is_bg_process
    <3>1. /\ child' = Forked("foreground", "forked", program_of(cmds[stage]), input_fd, output_fd)
          /\ pc' = "waitpid"
      BY <1>4, <2>3 DEF fork
    <3> QED  BY <1>b, <2>1, <3>1
  <2> QED  BY <2>2, <2>3
<1>5. CASE second_fork \/ second_fork_full
  <2>1. /\ pc = "second_fork" /\ pc \in Stage /\ UNCHANGED output_fd
        /\ child' = Forked("dummy", "forked", "none", input_fd, output_fd) /\ pc' # "waitpid"
        /\ input_fd \in Nat /\ output_fd \in Nat /\ (output_fd # 0 => input_fd # output_fd)
    BY <1>5 DEF second_fork, second_fork_full, second_child, pipeline, Stage, store_counts, LineInv
  <2> QED  BY <1>b, <2>1
<1>6. CASE waitpid
  <2>1. /\ Len(child) \in DOMAIN child /\ child' = [child EXCEPT ![Len(child)].state = "reaped"]
        /\ pc \in Stage /\ UNCHANGED output_fd
    BY <1>6 DEF waitpid, awaited, this, LineInv, pipeline, Stage
  <2> QED  BY <1>a, <2>1, ReapedChild DEF EndsInv
<1>7. CASE sched_done \/ wait
  <2>1. PICK p \in DOMAIN child : child' = [child EXCEPT ![p].state = "reaped"]
    BY <1>7 DEF sched_done, wait, awaited, this, LineInv
  <2>2. pc # "waitpid" /\ pc' \notin Stage
    BY <1>7 DEF sched_done, wait, Stage
  <2> QED  BY <1>a, <2>1, <2>2, ReapedChild DEF EndsInv
<1>8. ASSUME NEW p \in DOMAIN child,
             executes(p) \/ exits(p) \/ continued(p) \/ grandchild_fails(p) \/ scheduler_gives_up(p)
      PROVE  EndsInv'
  <2>1. UNCHANGED <<pc, output_fd>>
    BY <1>a, <1>8, ChildSteps DEF pipeline
  <2>2. /\ DOMAIN child' = DOMAIN child /\ Len(child') = Len(child)
        /\ \A q \in DOMAIN child : q # p => child'[q] = child[q]
        /\ child'[p].in \in {0, child[p].in} /\ child'[p].out \in {0, child[p].out}
        /\ child[p].state # "reaped"
    BY <1>a, <1>8, ChildSteps
  <2>3. child'[p].kind = "dummy" => child'[p].program = "none"
    <3>1. child'[p].kind = "dummy" => child[p].kind = "dummy"
      BY <1>a, <1>8, ChildSteps
    <3> QED  BY <1>a, <1>8, <3>1, ChildSteps DEF EndsInv
  <2>4. LetsGo(child[p]) => child'[p].out = 0
    <3> SUFFICES ASSUME LetsGo(child[p]), child'[p].out # 0 PROVE FALSE
      OBVIOUS
    <3>1. child[p].program # "none" /\ ~ redirected(p)
      BY <1>a, <1>8, ChildSteps DEF LetsGo
    <3> QED  BY <3>1 DEF LetsGo, EndsInv, redirected
  <2>5. child'[p].out # 0 => pc = "waitpid" /\ p = Len(child) /\ child'[p].out = output_fd
    BY <2>2, <2>4 DEF EndsInv
  <2> QED  BY <2>1, <2>2, <2>3, <2>5 DEF EndsInv
<1>9. ASSUME NEW line, no_command(line) \/ builtin(line) \/ single(line) \/ piped(line)
      PROVE  EndsInv'
  <2>1. pc = "prompt" /\ child' = child /\ UNCHANGED output_fd
    BY <1>9 DEF no_command, builtin, single, piped, run, pipeline
  <2>2. output_fd = 0
    BY <2>1 DEF LineInv
  <2> QED  BY <1>2, <2>1, <2>2
<1>10. CASE pipe
  <2>1. pc = "pipe" /\ child' = child
    BY <1>10 DEF pipe
  <2>2. CASE last_stage
    BY <1>2, <1>10, <2>1, <2>2 DEF pipe
  <2>3. CASE ~ last_stage
    <3>1. IsFiniteSet(open_ends)
      <4>1. open_ends = {} \/ open_ends = {<<input_fd, "r">>}
        BY <2>1 DEF LineInv, ReadEnd
      <4>2. IsFiniteSet({}) /\ IsFiniteSet({<<input_fd, "r">>})
        BY FS_EmptySet, FS_Singleton, Zenon
      <4> QED  BY <4>1, <4>2
    <3>2. output_fd' = unused_pipe
      BY <1>10, <2>3 DEF pipe
    <3>3. \A p \in DOMAIN child : child[p].in # unused_pipe
      BY <1>a, <3>1, NewPipe
    <3> HIDE DEF unused_pipe
    <3> QED  BY <2>1, <3>2, <3>3 DEF EndsInv
  <2> QED  BY <2>2, <2>3
<1>11. CASE stage_done
  BY <1>2, <1>11 DEF stage_done, Stage
<1>12. CASE single_done \/ waits_done
  BY <1>2, <1>12 DEF single_done, waits_done, prompt
<1>13. CASE fork_fails \/ stored
  BY <1>2, <1>13 DEF fork_fails, stored, pipeline, Stage
<1>14. CASE wait_fails
  BY <1>2, <1>14 DEF wait_fails, Stage
<1>15. CASE UNCHANGED vars
  BY <1>15 DEF vars, pipeline, EndsInv
<1> QED
  BY <1>1, <1>3, <1>4, <1>5, <1>6, <1>7, <1>8, <1>9, <1>10, <1>11, <1>12, <1>13, <1>14, <1>15, Ends
     DEF Next, main, shell_step

\* All that will ever come through the pipe that a stage reads is in it: neither
\* the shell nor a running program has a write end, whichever forks fail and
\* whatever earlier lines have left in the background.
THEOREM InputsCorrect == Spec => []InputComplete
<1>1. Init => EndsInv
  BY EmptySeq DEF Init, EndsInv, Stage
<1>2. LineInv /\ EndsInv => InputComplete
  <2> SUFFICES ASSUME LineInv, EndsInv, NEW p \in DOMAIN child, child[p].in # 0
               PROVE  /\ <<child[p].in, "w">> \notin open_ends
                      /\ \A q \in DOMAIN child :
                             Live(q) /\ child[q].out = child[p].in => LetsGo(child[q])
    BY DEF InputComplete, LetsGo
  <2>1. ASSUME <<child[p].in, "w">> \in open_ends PROVE FALSE
    <3>1. pc \in Stage /\ cmds # <<>>
      <4>1. open_ends # {} /\ open_ends # ReadEnd(input_fd)
        BY <2>1 DEF ReadEnd
      <4> QED  BY <4>1 DEF LineInv
    <3>2. open_ends = ReadEnd(input_fd) \cup BothEnds(output_fd)
      BY <3>1 DEF LineInv
    <3>3. output_fd # 0 /\ child[p].in = output_fd
      BY <2>1, <3>2 DEF ReadEnd, BothEnds
    <3> QED  BY <3>1, <3>3 DEF EndsInv
  <2>2. ASSUME NEW q \in DOMAIN child, Live(q), child[q].out = child[p].in, ~ LetsGo(child[q])
        PROVE  FALSE
    <3>1. pc = "waitpid" /\ child[p].in = output_fd
      BY <2>2 DEF EndsInv, Live
    <3> QED  BY <3>1 DEF EndsInv, Stage
  <2> QED  BY <2>1, <2>2
<1> QED
  BY <1>1, <1>2, LineInvInit, LineInvStep, EndsInvStep, PTL DEF Spec

-----------------------------------------------------------------------------
(* The list of background processes.                                       *)

list == background_running_processes

\* In every state the list names background commands, each once, and has as many
\* entries as second forks succeeded, up to its limit.  The command whose second
\* fork is to come is not in it yet.
ListInv ==
    /\ list \in Seq(Nat)
    /\ \A i, j \in DOMAIN list : list[i] = list[j] => i = j
    /\ \A i \in DOMAIN list : list[i] \in Kind("background")
    /\ Len(list) <= MAX_BACKGROUND_PROCESSES
    /\ Len(list) <= Cardinality(Kind("dummy"))
    /\ Len(list) = MAX_BACKGROUND_PROCESSES \/ Len(list) = Cardinality(Kind("dummy"))
    /\ pc = "second_fork" =>
           Len(child) \in Kind("background") /\ \A i \in DOMAIN list : list[i] # Len(child)

LEMMA KindsFinite ==
    ASSUME ChildrenInv, NEW kind
    PROVE  IsFiniteSet(Kind(kind)) /\ Cardinality(Kind(kind)) \in Nat
<1>1. IsFiniteSet(DOMAIN child)
  BY Pids, FS_Interval
<1>2. Kind(kind) \in SUBSET DOMAIN child
  BY DEF Kind
<1> QED
  BY <1>1, <1>2, FS_Subset, FS_CardinalityType

\* A fork adds one child, of its kind.
LEMMA ForkedKinds ==
    ASSUME ChildrenInv, NEW kind, NEW state, NEW program, NEW in \in Nat, NEW out \in Nat,
           child' = Forked(kind, state, program, in, out)
    PROVE  /\ Kind(kind)' = Kind(kind) \cup {Len(child')}
           /\ Cardinality(Kind(kind)') = Cardinality(Kind(kind)) + 1
           /\ \A other : other # kind => Kind(other)' = Kind(other)
<1>1. /\ Len(child') \in DOMAIN child' /\ Len(child') \notin DOMAIN child
      /\ \A p \in DOMAIN child : p \in DOMAIN child' /\ child'[p] = child[p]
      /\ \A p \in DOMAIN child' : p \in DOMAIN child \/ p = Len(child')
  BY ForkedChild
<1>2. child'[Len(child')].kind = kind
  <2>1. child'[Len(child')] = [kind |-> kind, state |-> state, program |-> program,
                               in |-> in, out |-> out]
    BY ForkedChild
  <2> QED  BY <2>1
<1>3. Kind(kind)' = Kind(kind) \cup {Len(child')}
  BY <1>1, <1>2 DEF Kind
<1>4. Len(child') \notin Kind(kind)
  BY <1>1 DEF Kind
<1>5. Cardinality(Kind(kind)') = Cardinality(Kind(kind)) + 1
  BY <1>3, <1>4, KindsFinite, FS_AddElement
<1>6. \A other : other # kind => Kind(other)' = Kind(other)
  BY <1>1, <1>2 DEF Kind
<1> QED
  BY <1>3, <1>5, <1>6

LEMMA ListInvInit == Init => ListInv
<1> SUFFICES ASSUME Init PROVE ListInv
  OBVIOUS
<1>1. Kind("dummy") = {} /\ Kind("background") = {} /\ list = <<>> /\ pc # "second_fork"
  BY EmptySeq DEF Init, Kind, list
<1>2. Cardinality(Kind("dummy")) = 0
  BY <1>1, FS_EmptySet
<1> QED
  BY <1>1, <1>2, EmptySeq, LimitsAssumption DEF ListInv

LEMMA ListInvStep == LineInv /\ ListInv /\ [Next]_vars => ListInv'
<1> SUFFICES ASSUME LineInv, ListInv, [Next]_vars PROVE ListInv'
  OBVIOUS
<1>a. ChildrenInv
  BY DEF LineInv
<1>b. Len(child) \in Nat
  BY <1>a, Pids
<1>c. ASSUME UNCHANGED list, Kind("dummy")' = Kind("dummy"),
             Kind("background") \subseteq Kind("background")',
             pc' = "second_fork" => pc = "second_fork" /\ Len(child') = Len(child)
      PROVE  ListInv'
  BY <1>c, <1>b DEF ListInv
<1>d. ASSUME UNCHANGED list, child' = child, pc' # "second_fork" \/ UNCHANGED pc
      PROVE  ListInv'
  BY <1>c, <1>d DEF Kind
<1>e. ASSUME NEW p \in DOMAIN child, child' = [child EXCEPT ![p].state = "reaped"],
             UNCHANGED list, pc' # "second_fork"
      PROVE  ListInv'
  <2>1. \A kind : Kind(kind)' = Kind(kind)
    BY <1>a, <1>e, ReapedChild DEF Kind
  <2> QED  BY <1>c, <1>e, <2>1
<1>1. ASSUME NEW how \in Over, over(how) PROVE ListInv'
  <2>1. Kind("dummy")' = {} /\ Kind("background")' = {} /\ list' = <<>> /\ pc' # "second_fork"
    BY <1>1, EmptySeq DEF over, Kind, list, Over
  <2>2. Cardinality(Kind("dummy")') = 0
    BY <2>1, FS_EmptySet
  <2> QED  BY <2>1, <2>2, EmptySeq, LimitsAssumption DEF ListInv
<1>2. CASE submit \/ sched
  <2>1. UNCHANGED list /\ pc' # "second_fork"
    BY <1>2 DEF submit, sched, lists, list
  <2>2. CASE submit
    BY <1>a, <1>c, <2>1, <2>2, ForkedKinds DEF submit
  <2>3. CASE sched
    BY <1>a, <1>c, <2>1, <2>3, ForkedKinds DEF sched
  <2> QED  BY <1>2, <2>2, <2>3
<1>3. CASE fork
  <2>1. input_fd \in Nat /\ output_fd \in Nat /\ UNCHANGED list
    BY <1>3 DEF fork, LineInv, lists, list
  <2>2. CASE is_bg_process
    <3>1. child' = Forked("background", "forked", program_of(cmds[stage]), input_fd, output_fd)
      BY <1>3, <2>2 DEF fork
    <3>2. /\ Kind("background")' = Kind("background") \cup {Len(child')}
          /\ Kind("dummy")' = Kind("dummy")
      BY <1>a, <2>1, <3>1, ForkedKinds
    <3>3. \A i \in DOMAIN list : list[i] # Len(child')
      <4>1. Len(child') \notin Kind("background")
        BY <1>a, <2>1, <3>1, ForkedChild DEF Kind
      <4> QED  BY <4>1 DEF ListInv
    <3> QED  BY <2>1, <3>2, <3>3 DEF ListInv
  <2>3. CASE ~ is_bg_process
    <3>1. /\ child' = Forked("foreground", "forked", program_of(cmds[stage]), input_fd, output_fd)
          /\ pc' = "waitpid"
      BY <1>3, <2>3 DEF fork
    <3> QED  BY <1>a, <1>c, <2>1, <3>1, ForkedKinds
  <2> QED  BY <2>2, <2>3
<1>f. ASSUME second_child
      PROVE  /\ Kind("background")' = Kind("background")
             /\ Cardinality(Kind("dummy")') = Cardinality(Kind("dummy")) + 1
             /\ Cardinality(Kind("dummy")) \in Nat
  <2>1. /\ child' = Forked("dummy", "forked", "none", input_fd, output_fd)
        /\ input_fd \in Nat /\ output_fd \in Nat
    BY <1>f DEF second_child, LineInv
  <2> QED  BY <1>a, <2>1, ForkedKinds, KindsFinite
<1>4. CASE second_fork
  <2>1. /\ pc = "second_fork" /\ pc' # "second_fork" /\ second_child
        /\ list' = Append(list, Len(child)) /\ ~ (Len(list) >= MAX_BACKGROUND_PROCESSES)
    BY <1>4 DEF second_fork, second_child, list_full, listed_pid, this, store_counts, list
  <2>2. list \in Seq(Nat) /\ Len(list) \in Nat /\ DOMAIN list = 1 .. Len(list)
    BY DEF ListInv
  <2> HIDE DEF list
  <2>3. /\ list' \in Seq(Nat) /\ Len(list') = Len(list) + 1 /\ DOMAIN list' = 1 .. Len(list) + 1
        /\ list'[Len(list) + 1] = Len(child) /\ \A i \in 1 .. Len(list) : list'[i] = list[i]
    BY <1>b, <2>1, <2>2
  <2>4. Len(child) \in Kind("background") /\ \A i \in DOMAIN list : list[i] # Len(child)
    BY <2>1 DEF ListInv
  <2>5. \A i, j \in DOMAIN list' : list'[i] = list'[j] => i = j
    <3>1. \A i, j \in 1 .. Len(list) : list'[i] = list'[j] => i = j
      BY <2>2, <2>3 DEF ListInv
    <3>2. \A i \in 1 .. Len(list) : list'[i] # list'[Len(list) + 1]
      BY <2>2, <2>3, <2>4
    <3>3. \A i \in DOMAIN list' : i \in 1 .. Len(list) \/ i = Len(list) + 1
      BY <2>2, <2>3
    <3> QED  BY <3>1, <3>2, <3>3
  <2>6. \A i \in DOMAIN list' : list'[i] \in Kind("background")'
    BY <1>f, <2>1, <2>2, <2>3, <2>4 DEF ListInv
  <2>7. /\ Len(list') <= MAX_BACKGROUND_PROCESSES
        /\ Len(list') = Cardinality(Kind("dummy")')
    <3> DEFINE l == Len(list)
    <3>1. l < MAX_BACKGROUND_PROCESSES /\ l # MAX_BACKGROUND_PROCESSES
      <4>1. l \in Nat /\ ~ (l >= MAX_BACKGROUND_PROCESSES)
        BY <2>1, <2>2
      <4> HIDE DEF l
      <4> QED  BY <4>1, LimitsAssumption
    <3>2. Len(list) = Cardinality(Kind("dummy"))
      BY <3>1, Zenon DEF ListInv
    <3> QED  BY <1>f, <2>1, <2>2, <2>3, <3>1, <3>2, LimitsAssumption
  <2> QED  BY <2>1, <2>2, <2>3, <2>5, <2>6, <2>7 DEF ListInv
<1>5. CASE second_fork_full
  <2>1. /\ pc' # "second_fork" /\ second_child /\ UNCHANGED list
        /\ Len(list) >= MAX_BACKGROUND_PROCESSES
    BY <1>5 DEF second_fork_full, list_full, lists, list
  <2>2. Len(list) \in Nat
    BY DEF ListInv
  <2>3. /\ Len(list) <= Cardinality(Kind("dummy")')
        /\ Len(list) = MAX_BACKGROUND_PROCESSES
    BY <1>f, <2>1, <2>2, LimitsAssumption DEF ListInv
  <2> QED  BY <1>f, <2>1, <2>3 DEF ListInv
<1>6. CASE waitpid \/ sched_done
  <2>1. /\ Len(child) \in DOMAIN child /\ child' = [child EXCEPT ![Len(child)].state = "reaped"]
        /\ UNCHANGED list /\ pc' # "second_fork"
    BY <1>6 DEF waitpid, sched_done, awaited, this, LineInv, lists, list, store_counts
  <2> QED  BY <1>e, <2>1
<1>7. CASE wait
  <2>1. PICK p \in DOMAIN child : child' = [child EXCEPT ![p].state = "reaped"]
    BY <1>7 DEF wait
  <2>2. UNCHANGED list /\ pc' # "second_fork"
    BY <1>7 DEF wait, lists, list
  <2> QED  BY <1>e, <2>1, <2>2
<1>8. ASSUME NEW p \in DOMAIN child,
             executes(p) \/ exits(p) \/ continued(p) \/ grandchild_fails(p) \/ scheduler_gives_up(p)
      PROVE  ListInv'
  <2>1. /\ DOMAIN child' = DOMAIN child /\ Len(child') = Len(child) /\ UNCHANGED <<pc, list>>
        /\ \A q \in DOMAIN child : q # p => child'[q] = child[q]
        /\ \/ child'[p].kind = child[p].kind
           \/ child[p].kind = "sched" /\ child'[p].kind = "lone scheduler"
    BY <1>a, <1>8, ChildSteps DEF lists, list
  <2>2. Kind("dummy")' = Kind("dummy") /\ Kind("background")' = Kind("background")
    BY <2>1 DEF Kind
  <2> QED  BY <1>c, <2>1, <2>2
<1>9. ASSUME NEW line, no_command(line) \/ builtin(line) \/ single(line) \/ piped(line)
      PROVE  ListInv'
  BY <1>d, <1>9 DEF no_command, builtin, single, piped, run, lists, list, store_counts
<1>10. CASE pipe \/ stage_done \/ single_done \/ fork_fails \/ wait_fails \/ waits_done \/ stored
  BY <1>d, <1>10 DEF pipe, stage_done, single_done, fork_fails, wait_fails, waits_done, stored,
     prompt, lists, list
<1>11. CASE UNCHANGED vars
  BY <1>d, <1>11 DEF vars, lists, list
<1> QED
  BY <1>1, <1>2, <1>3, <1>4, <1>5, <1>6, <1>7, <1>8, <1>9, <1>10, <1>11, Ends
     DEF Next, main, shell_step

\* The list that jobs prints names background commands, each once, and as many as
\* second forks succeeded, up to its limit.
THEOREM ListCorrect == Spec => []JobsListed
<1>1. LineInv /\ ListInv => JobsListed
  <2> SUFFICES ASSUME LineInv, ListInv PROVE JobsListed
    OBVIOUS
  <2> DEFINE l == Len(list)
             d == Cardinality(Kind("dummy"))
  <2>1. IsInjective(background_running_processes)
    BY DEF ListInv, IsInjective, list
  <2>2. Range(background_running_processes) \subseteq Kind("background")
    BY DEF ListInv, Range, list
  <2>3. d \in Nat /\ l \in Nat
    BY KindsFinite DEF LineInv, ListInv
  <2>4. l <= MAX_BACKGROUND_PROCESSES /\ l <= d /\ (l = MAX_BACKGROUND_PROCESSES \/ l = d)
    BY DEF ListInv
  <2> HIDE DEF l, d
  <2>5. /\ l \in {MAX_BACKGROUND_PROCESSES, d}
        /\ \A x \in {MAX_BACKGROUND_PROCESSES, d} : l <= x
    BY <2>4
  <2>6. \A x \in {MAX_BACKGROUND_PROCESSES, d} :
            (\A y \in {MAX_BACKGROUND_PROCESSES, d} : x <= y) => x = l
    BY <2>3, <2>4, LimitsAssumption
  <2>7. Min({MAX_BACKGROUND_PROCESSES, d}) = l
    BY <2>5, <2>6, Zenon DEF Min
  <2> QED  BY <2>1, <2>2, <2>7 DEF JobsListed, l, d, list
<1> QED
  BY <1>1, LineInvInit, LineInvStep, ListInvInit, ListInvStep, PTL DEF Spec

-----------------------------------------------------------------------------
(* Types.                                                                  *)

Child == [kind : {"job", "foreground", "background", "dummy", "sched", "lone scheduler"},
          state : {"forked", "running", "stopped", "zombie", "reaped"},
          program : Programs, in : Pipe, out : Pipe]

\* The commands are sequences of tokens, so that what execvp gets is a token, and
\* the loop over the stages stays in cmds until the last stage is done.
LoopInv ==
    /\ cmds \in Seq(Seq(Programs))
    /\ stage <= Len(cmds) + 1
    /\ pc \in Stage \cup {"pipe"} /\ cmds # <<>> => stage <= Len(cmds)

LEMMA LoopInvStep == LineInv /\ LoopInv /\ [Next]_vars => LoopInv'
<1> SUFFICES ASSUME LineInv, LoopInv, [Next]_vars PROVE LoopInv'
  OBVIOUS
<1>a. Len(cmds) \in Nat /\ stage \in Nat /\ (cmds # <<>> => Len(cmds) \in Nat \ {0})
  BY EmptySeq DEF LoopInv, LineInv
<1>b. ASSUME cmds' = <<>>, stage' = 1 PROVE LoopInv'
  BY <1>b, EmptySeq DEF LoopInv
<1>c. ASSUME UNCHANGED <<cmds, stage>>, pc' \in Stage \cup {"pipe"} => pc \in Stage \cup {"pipe"}
      PROVE  LoopInv'
  BY <1>c DEF LoopInv
<1>d. ASSUME UNCHANGED <<cmds, stage>>, pc \in {"prompt", "sched_wait"}
      PROVE  LoopInv'
  <2>1. cmds = <<>>
    BY <1>d DEF LineInv
  <2> QED  BY <1>d, <2>1 DEF LoopInv
<1>1. ASSUME NEW how \in Over, over(how) PROVE LoopInv'
  BY <1>1, <1>b DEF over
<1>2. ASSUME NEW line \in SingleLines, no_command(line) \/ builtin(line) PROVE LoopInv'
  BY <1>2, <1>d DEF no_command, builtin, pipeline
<1>e. ASSUME pc = "prompt", UNCHANGED stage, cmds' \in Seq(Seq(Programs)), cmds' # <<>>
      PROVE  LoopInv'
  <2>1. stage = 1
    BY <1>e DEF LineInv
  <2>2. Len(cmds') \in Nat \ {0}
    BY <1>e, EmptySeq
  <2> QED  BY <1>e, <2>1, <2>2 DEF LoopInv
<1>3. ASSUME NEW line \in SingleLines, single(line) PROVE LoopInv'
  <2>1. cmds' = <<BeforeAmpersand(line)>> /\ pc = "prompt" /\ UNCHANGED stage
    BY <1>3 DEF single, run
  <2>2. BeforeAmpersand(line) \in Seq(Programs)
    BY LineTypes, BeforeAmpersandType
  <2>3. cmds' \in Seq(Seq(Programs)) /\ cmds' # <<>>
    BY <2>1, <2>2
  <2> QED  BY <1>e, <2>1, <2>3
<1>4. ASSUME NEW line \in PipedLines, piped(line) PROVE LoopInv'
  <2>1. cmds' = Commands(line) /\ pc = "prompt" /\ UNCHANGED stage
    BY <1>4 DEF piped, run
  <2> QED  BY <1>e, <2>1, LineTypes, CommandsType
<1>5. CASE submit \/ sched \/ sched_done
  BY <1>5, <1>d DEF submit, sched, sched_done, pipeline
<1>6. CASE pipe
  BY <1>6, <1>c DEF pipe
<1>7. CASE stage_done
  <2>1. /\ pc = "stage_done" /\ UNCHANGED cmds /\ stage' = stage + 1
        /\ pc' = IF last_stage THEN "reap" ELSE "pipe"
    BY <1>7 DEF stage_done
  <2>2. cmds # <<>>
    BY <2>1 DEF LineInv
  <2>3. stage <= Len(cmds)
    BY <2>1, <2>2 DEF LoopInv, Stage
  <2>4. stage + 1 <= Len(cmds) + 1 /\ (stage # Len(cmds) => stage + 1 <= Len(cmds))
    BY <1>a, <2>3
  <2> QED  BY <2>1, <2>4 DEF LoopInv, last_stage, Stage
<1>8. CASE single_done \/ waits_done
  BY <1>8, <1>b DEF single_done, waits_done, prompt
<1>9. CASE fork \/ fork_fails \/ waitpid \/ second_fork \/ second_fork_full \/ stored
  BY <1>9, <1>c
     DEF fork, fork_fails, waitpid, second_fork, second_fork_full, second_child, stored, pipeline, Stage
<1>10. CASE wait \/ wait_fails \/ UNCHANGED vars
  BY <1>10, <1>c DEF wait, wait_fails, vars, pipeline
<1>11. ASSUME NEW p \in DOMAIN child,
              executes(p) \/ exits(p) \/ continued(p) \/ grandchild_fails(p) \/ scheduler_gives_up(p)
       PROVE  LoopInv'
  BY <1>11, <1>c DEF executes, exits, continued, grandchild_fails, scheduler_gives_up, pipeline
<1> QED
  BY <1>1, <1>2, <1>3, <1>4, <1>5, <1>6, <1>7, <1>8, <1>9, <1>10, <1>11, Ends
     DEF Next, main, shell_step

\* The flags and the counters.
CountersInv ==
    /\ is_bg_process \in BOOLEAN /\ ampersand \in BOOLEAN
    /\ history_count \in 0 .. MAX_HISTORY_SIZE
    /\ waits \in Nat

TypeInv == LoopInv /\ CountersInv /\ child \in Seq(Child)

LEMMA TypeInvInit == Init => TypeInv
<1>1. Init => LoopInv
  BY EmptySeq DEF Init, LoopInv
<1>2. Init => CountersInv
  <2>1. Init => is_bg_process \in BOOLEAN /\ ampersand \in BOOLEAN
    BY Zenon DEF Init
  <2>2. Init => history_count \in 0 .. MAX_HISTORY_SIZE /\ waits \in Nat
    BY LimitsAssumption DEF Init
  <2> QED  BY <2>1, <2>2 DEF CountersInv
<1> QED
  BY <1>1, <1>2, EmptySeq DEF Init, TypeInv

LEMMA CountersInvStep == LoopInv /\ CountersInv /\ [Next]_vars => CountersInv'
<1> SUFFICES ASSUME LoopInv, CountersInv, [Next]_vars PROVE CountersInv'
  OBVIOUS
<1>a. ASSUME store_counts PROVE history_count' \in 0 .. MAX_HISTORY_SIZE
  BY <1>a, LimitsAssumption DEF store_counts, CountersInv
<1>b. ASSUME NEW line, flag(line) PROVE is_bg_process' \in BOOLEAN
  BY <1>b DEF flag
<1>1. ASSUME NEW how \in Over, over(how) PROVE CountersInv'
  <2>1. is_bg_process' \in BOOLEAN /\ ampersand' \in BOOLEAN
    BY <1>1, Zenon DEF over
  <2>2. history_count' \in 0 .. MAX_HISTORY_SIZE /\ waits' \in Nat
    BY <1>1, LimitsAssumption DEF over
  <2> QED  BY <2>1, <2>2 DEF CountersInv
<1>2. ASSUME NEW line, no_command(line) \/ builtin(line) PROVE CountersInv'
  <2>1. UNCHANGED <<ampersand, waits>> /\ flag(line) /\ (store_counts \/ UNCHANGED history_count)
    BY <1>2 DEF no_command, builtin, pipeline, lists
  <2> QED  BY <1>a, <1>b, <2>1 DEF CountersInv
<1>3. ASSUME NEW line, single(line) \/ piped(line) PROVE CountersInv'
  <2>1. /\ UNCHANGED <<waits, history_count>> /\ flag(line)
        /\ ampersand' = (Positions(line, "&") # {})
    BY <1>3 DEF single, piped, run, lists
  <2> QED  BY <1>b, <2>1 DEF CountersInv
<1>4. CASE waitpid
  BY <1>4, <1>a DEF waitpid, pipeline, CountersInv
<1>5. CASE second_fork \/ second_fork_full
  <2>1. /\ is_bg_process' = FALSE /\ (store_counts \/ UNCHANGED history_count)
        /\ UNCHANGED <<ampersand, waits>>
    BY <1>5 DEF second_fork, second_fork_full, second_child, pipeline, lists
  <2>2. is_bg_process' \in BOOLEAN
    BY <2>1, Zenon
  <2>3. history_count' \in 0 .. MAX_HISTORY_SIZE
    BY <1>a, <2>1 DEF CountersInv
  <2> QED  BY <2>1, <2>2, <2>3 DEF CountersInv
<1>6. CASE stage_done
  <2>1. /\ UNCHANGED <<is_bg_process, ampersand, history_count>>
        /\ waits' = IF last_stage THEN wait_calls ELSE 0
    BY <1>6 DEF stage_done, lists
  <2>2. Len(cmds) \in Nat
    BY DEF LoopInv
  <2>3. wait_calls \in Nat
    BY <2>2 DEF wait_calls
  <2> QED  BY <2>1, <2>3 DEF CountersInv
<1>7. CASE wait \/ wait_fails
  BY <1>7 DEF wait, wait_fails, lists, CountersInv
<1>8. CASE single_done \/ waits_done
  <2>1. UNCHANGED <<is_bg_process, history_count>> /\ ampersand' = FALSE /\ waits' = 0
    BY <1>8 DEF single_done, waits_done, prompt, lists
  <2>2. ampersand' \in BOOLEAN
    BY <2>1, Zenon
  <2> QED  BY <2>1, <2>2 DEF CountersInv
<1>9. CASE \/ submit \/ sched \/ sched_done \/ fork \/ fork_fails \/ stored \/ UNCHANGED vars
           \/ \E p \in DOMAIN child :
                  executes(p) \/ exits(p) \/ continued(p) \/ grandchild_fails(p) \/ scheduler_gives_up(p)
  BY <1>9 DEF submit, sched, sched_done, fork, fork_fails, stored, vars, pipeline, lists, executes, exits,
     continued, grandchild_fails, scheduler_gives_up, CountersInv
<1>10. CASE pipe
  BY <1>10 DEF pipe, lists, CountersInv
<1> QED
  BY <1>1, <1>2, <1>3, <1>4, <1>5, <1>6, <1>7, <1>8, <1>9, <1>10, Ends DEF Next, main, shell_step

\* A fork adds a child of the type to the children.
LEMMA ForkedType ==
    ASSUME child \in Seq(Child), NEW c \in Child, child' = Append(child, c)
    PROVE  child' \in Seq(Child)
OBVIOUS

\* So does a change of one child.
LEMMA ChangedType ==
    ASSUME child \in Seq(Child), NEW p \in DOMAIN child, NEW c \in Child,
           child' = [child EXCEPT ![p] = c]
    PROVE  child' \in Seq(Child)
BY ExceptSeq

LEMMA EndedType ==
    ASSUME NEW b \in Child, NEW c,
           c = [b EXCEPT !.state = "zombie", !.program = "none", !.in = 0, !.out = 0]
    PROVE  c \in Child
<1>1. Record(b)
  BY DEF Child, Record, Pipe
<1>2. c = [kind |-> b.kind, state |-> "zombie", program |-> "none", in |-> 0, out |-> 0]
  BY <1>1 DEF Record
<1>3. b.kind \in {"job", "foreground", "background", "dummy", "sched", "lone scheduler"}
  BY DEF Child
<1>4. "none" \in Programs /\ 0 \in Pipe
  BY DEF Programs, Pipe
<1> QED
  BY <1>2, <1>3, <1>4, Zenon DEF Child

LEMMA ChildrenTypeStep ==
    LineInv /\ LoopInv /\ child \in Seq(Child) /\ [Next]_vars => child' \in Seq(Child)
<1> SUFFICES ASSUME LineInv, LoopInv, child \in Seq(Child), [Next]_vars
             PROVE  child' \in Seq(Child)
  OBVIOUS
<1>a. ASSUME NEW kind \in {"job", "foreground", "background", "dummy", "sched"},
             NEW state \in {"forked", "running", "stopped"}, NEW program \in Programs,
             NEW in \in Nat, NEW out \in Nat, child' = Forked(kind, state, program, in, out)
      PROVE  child' \in Seq(Child)
  <2> DEFINE c == [kind |-> kind, state |-> state, program |-> program, in |-> in, out |-> out]
  <2>1. c \in Child
    BY DEF Child, Pipe
  <2>2. child' = Append(child, c)
    BY <1>a DEF Forked
  <2> HIDE DEF c
  <2> QED  BY <2>1, <2>2, ForkedType
<1>b. ASSUME NEW p \in DOMAIN child PROVE child[p] \in Child
  BY <1>b
<1>c. ASSUME NEW p \in DOMAIN child, child' = [child EXCEPT ![p].state = "reaped"]
      PROVE  child' \in Seq(Child)
  <2> DEFINE c == [child[p] EXCEPT !.state = "reaped"]
  <2>1. c \in Child
    BY <1>b DEF Child
  <2>2. child' = [child EXCEPT ![p] = c]
    BY <1>c
  <2> HIDE DEF c
  <2> QED  BY <2>1, <2>2, ChangedType
<1>1. ASSUME NEW how \in Over, over(how) PROVE child' \in Seq(Child)
  BY <1>1, EmptySeq DEF over
<1>2. CASE submit
  <2>1. child' = Forked("job", "stopped", "prog", 0, 0)
    BY <1>2 DEF submit
  <2> QED  BY <1>a, <2>1 DEF Programs
<1>3. CASE sched
  <2>1. child' = Forked("sched", "running", "none", 0, 0)
    BY <1>3 DEF sched
  <2> QED  BY <1>a, <2>1 DEF Programs
<1>4. CASE fork
  <2>1. input_fd \in Nat /\ output_fd \in Nat
    BY DEF LineInv
  <2>2. program_of(cmds[stage]) \in Programs
    <3>1. pc = "fork" /\ cmds # <<>>
      BY <1>4 DEF fork, LineInv
    <3>2. stage \in 1 .. Len(cmds)
      BY <3>1 DEF LineInv, LoopInv, Stage
    <3>3. cmds[stage] \in Seq(Programs)
      BY <3>2, ElementOfSeq DEF LoopInv
    <3>4. cmds[stage] # <<>> => cmds[stage][1] \in Programs
      BY <3>3, EmptySeq, ElementOfSeq
    <3>5. "none" \in Programs
      BY DEF Programs
    <3>6. CASE cmds[stage] = <<>>
      BY <3>5, <3>6 DEF program_of
    <3>7. CASE cmds[stage] # <<>>
      BY <3>4, <3>5, <3>7 DEF program_of
    <3> QED  BY <3>6, <3>7
  <2>3. \/ child' = Forked("background", "forked", program_of(cmds[stage]), input_fd, output_fd)
        \/ child' = Forked("foreground", "forked", program_of(cmds[stage]), input_fd, output_fd)
    BY <1>4 DEF fork
  <2> QED  BY <1>a, <2>1, <2>2, <2>3
<1>5. CASE second_fork \/ second_fork_full
  <2>1. /\ child' = Forked("dummy", "forked", "none", input_fd, output_fd)
        /\ input_fd \in Nat /\ output_fd \in Nat
    BY <1>5 DEF second_fork, second_fork_full, second_child, LineInv
  <2> QED  BY <1>a, <2>1 DEF Programs
<1>6. CASE waitpid \/ sched_done
  <2>1. Len(child) \in DOMAIN child /\ child' = [child EXCEPT ![Len(child)].state = "reaped"]
    BY <1>6 DEF waitpid, sched_done, awaited, this, LineInv
  <2> QED  BY <1>c, <2>1
<1>7. CASE wait
  <2>1. PICK p \in DOMAIN child : child' = [child EXCEPT ![p].state = "reaped"]
    BY <1>7 DEF wait
  <2> QED  BY <1>c, <2>1
<1>8. ASSUME NEW p \in DOMAIN child, exits(p) PROVE child' \in Seq(Child)
  <2> DEFINE c == [child[p] EXCEPT !.state = "zombie", !.program = "none", !.in = 0, !.out = 0]
  <2>1. c \in Child
    BY <1>b, EndedType
  <2>2. child' = [child EXCEPT ![p] = c]
    BY <1>8 DEF exits
  <2> HIDE DEF c
  <2> QED  BY <2>1, <2>2, ChangedType
<1>9. ASSUME NEW p \in DOMAIN child, continued(p) PROVE child' \in Seq(Child)
  <2> DEFINE c == [child[p] EXCEPT !.state = "running"]
  <2>1. c \in Child
    BY <1>b DEF Child
  <2>2. child' = [child EXCEPT ![p] = c]
    BY <1>9 DEF continued
  <2> HIDE DEF c
  <2> QED  BY <2>1, <2>2, ChangedType
<1>10. ASSUME NEW p \in DOMAIN child, grandchild_fails(p) PROVE child' \in Seq(Child)
  <2> DEFINE c == [child[p] EXCEPT !.kind = "lone scheduler"]
  <2>1. c \in Child
    BY <1>b DEF Child
  <2>2. child' = [child EXCEPT ![p] = c]
    BY <1>10 DEF grandchild_fails
  <2> HIDE DEF c
  <2> QED  BY <2>1, <2>2, ChangedType
<1>11. ASSUME NEW p \in DOMAIN child, scheduler_gives_up(p) PROVE child' \in Seq(Child)
  <2> DEFINE c == [child[p] EXCEPT !.state = "zombie"]
  <2>1. c \in Child
    BY <1>b DEF Child
  <2>2. child' = [child EXCEPT ![p] = c]
    BY <1>11 DEF scheduler_gives_up
  <2> HIDE DEF c
  <2> QED  BY <2>1, <2>2, ChangedType
<1>14. ASSUME NEW p \in DOMAIN child, executes(p) PROVE child' \in Seq(Child)
  <2> DEFINE c == [child[p] EXCEPT !.state = "running", !.out = output_of(p)]
  <2>1. c \in Child
    <3>1. output_of(p) \in Pipe
      BY <1>b DEF Child, Pipe, output_of
    <3> QED  BY <1>b, <3>1 DEF Child
  <2>2. child' = [child EXCEPT ![p] = c]
    BY <1>14 DEF executes
  <2> HIDE DEF c
  <2> QED  BY <2>1, <2>2, ChangedType
<1>12. ASSUME NEW line, no_command(line) \/ builtin(line) \/ single(line) \/ piped(line)
       PROVE  child' \in Seq(Child)
  BY <1>12 DEF no_command, builtin, single, piped, run
<1>13. CASE \/ pipe \/ stage_done \/ single_done \/ fork_fails \/ wait_fails \/ waits_done
            \/ stored \/ UNCHANGED vars
  BY <1>13 DEF pipe, stage_done, single_done, fork_fails, wait_fails, waits_done, stored, vars
<1> QED
  BY <1>1, <1>2, <1>3, <1>4, <1>5, <1>6, <1>7, <1>8, <1>9, <1>10, <1>11, <1>12, <1>13, <1>14, Ends
     DEF Next, main, shell_step

\* Every variable keeps its type, the list of background processes its bound, and
\* no index leaves the commands of the line, whatever the user enters.
THEOREM TypeCorrect == Spec => []TypeOK
<1>1. LineInv /\ TypeInv /\ [Next]_vars => TypeInv'
  BY LoopInvStep, CountersInvStep, ChildrenTypeStep DEF TypeInv
<1>2. LineInv /\ ListInv /\ TypeInv => TypeOK
  <2> SUFFICES ASSUME LineInv, ListInv, TypeInv PROVE TypeOK
    OBVIOUS
  <2>1. pc \in Over \cup {"prompt", "pipe", "fork", "waitpid", "second_fork", "stage_done", "reap",
                         "storing", "sched_wait"}
    BY DEF LineInv, Stage
  <2>2. list \in Seq(DOMAIN child)
    <3>1. \A i \in 1 .. Len(list) : list[i] \in DOMAIN child
      BY DEF ListInv, Kind
    <3> QED  BY <3>1 DEF ListInv
  <2>3. open_ends \subseteq Pipe \X {"r", "w"}
    <3>1. ReadEnd(input_fd) \cup BothEnds(output_fd) \subseteq Pipe \X {"r", "w"}
      BY DEF LineInv, ReadEnd, BothEnds, Pipe
    <3>2. \/ open_ends = {} \/ open_ends = ReadEnd(input_fd)
          \/ open_ends = ReadEnd(input_fd) \cup BothEnds(output_fd)
      BY <2>1 DEF LineInv, Stage
    <3> QED  BY <3>1, <3>2
  <2>4. stage \in 1 .. Len(cmds) + 1
    BY DEF LineInv, TypeInv, LoopInv
  <2>5. pc \in {"pipe", "fork", "waitpid", "second_fork", "stage_done"} => stage \in DOMAIN cmds
    BY DEF LineInv, TypeInv, LoopInv, Stage
  <2> QED  BY <2>1, <2>2, <2>3, <2>4, <2>5 DEF TypeOK, TypeInv, CountersInv, LineInv, ListInv, list, Child, Pipe
<1> QED
  BY <1>1, <1>2, LineInvInit, LineInvStep, ListInvInit, ListInvStep, TypeInvInit, PTL DEF Spec
=============================================================================
