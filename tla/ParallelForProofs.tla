------------------------- MODULE ParallelForProofs -------------------------
(***************************************************************************)
(* parallel_for for every range, every number of threads and every         *)
(* program: the chunks partition the range, and the call returns only when *)
(* none of its threads is left.                                            *)
(***************************************************************************)
EXTENDS ParallelFor, TLAPS

\* Multiplication by a natural number is monotonic.
LEMMA TimesMonotonic ==
    ASSUME NEW a \in Int, NEW b \in Int, NEW c \in Nat, a <= b
    PROVE  a * c <= b * c
<1>1. (b - a) * c >= 0
  BY SMTT(30)
<1>2. (b - a) * c = b * c - a * c
  BY SMTT(30)
<1>3. a * c \in Int /\ b * c \in Int
  OBVIOUS
<1> QED
  BY <1>1, <1>2, <1>3

\* The division of parallel_for leaves a remainder below numThread.
LEMMA ChunkSize ==
    ASSUME NEW l, l.start1 \in Int, l.end1 \in Int, l.numThread \in Nat \ {0},
           l.start1 <= l.end1
    PROVE  /\ chunk_size(l) \in Nat
           /\ l.numThread * chunk_size(l) <= range(l)
           /\ l.numThread = 1 => chunk_size(l) = range(l)
<1> DEFINE r == l.end1 - l.start1
           n == l.numThread
<1>1. r \in Nat /\ n \in Nat \ {0}
  OBVIOUS
<1>2. chunk_size(l) = r \div n /\ range(l) = r
  BY <1>1 DEF chunk_size, range
<1> HIDE DEF r, n
<1>3. r \div n \in Nat /\ n * (r \div n) <= r /\ (n = 1 => r \div n = r)
  BY <1>1, SMTT(30)
<1> QED
  BY <1>2, <1>3 DEF n

\* Where the rows of each thread lie, relative to the first row of the loop.
LEMMA ChunkPlaces ==
    ASSUME NEW l, l.start1 \in Int, l.end1 \in Int, l.numThread \in Nat \ {0},
           l.start1 <= l.end1, NEW k \in 0 .. l.numThread - 2
    PROVE  LET c == chunk_size(l) IN
           /\ main_end1(l) = l.start1 + c
           /\ worker_start1(l, k) = l.start1 + (k + 1) * c
           /\ k # l.numThread - 2 => worker_end1(l, k) = l.start1 + (k + 2) * c
           /\ k = l.numThread - 2 => worker_end1(l, k) = l.end1
           /\ (k + 1) * c \in Nat /\ (k + 2) * c \in Nat
           /\ (k + 2) * c <= range(l)
<1> DEFINE c == chunk_size(l)
<1>1. c \in Nat /\ k \in Nat /\ range(l) \in Int /\ l.numThread * c <= range(l)
      /\ k + 2 <= l.numThread /\ l.numThread * c \in Int
  BY ChunkSize DEF range
<1>2. main_end1(l) = l.start1 + c /\ worker_start1(l, k) = (l.start1 + c) + k * c
  BY DEF main_end1, worker_start1
<1>3. worker_end1(l, k) = IF k = l.numThread - 2 THEN l.end1 ELSE worker_start1(l, k) + c
  BY DEF worker_end1
<1> HIDE DEF c
<1>4. (k + 1) * c = k * c + c /\ (k + 2) * c = k * c + c + c /\ k * c \in Nat
  BY <1>1, SMTT(30)
<1>5. (k + 2) * c <= l.numThread * c
  BY <1>1, TimesMonotonic
<1>6. (k + 2) * c \in Nat /\ (k + 1) * c \in Nat
  BY <1>1, <1>4
<1>7. (k + 2) * c <= range(l)
  BY <1>1, <1>5, <1>6
<1> QED
  BY <1>1, <1>2, <1>3, <1>4, <1>6, <1>7 DEF c

Partitioned(l) ==
    LET W == 0 .. l.numThread - 2 IN
    /\ MainRows(l) \cup UNION {WorkerRows(l, k) : k \in W} = l.start1 .. l.end1 - 1
    /\ \A k \in W : MainRows(l) \cap WorkerRows(l, k) = {}
    /\ \A k, m \in W : k # m => WorkerRows(l, k) \cap WorkerRows(l, m) = {}

LEMMA ForwardPartition ==
    ASSUME NEW l, l.start1 \in Int, l.end1 \in Int, l.numThread \in Nat \ {0},
           l.start1 <= l.end1
    PROVE  Partitioned(l)
<1> DEFINE c == chunk_size(l)
           n == l.numThread
           s == l.start1
           e == l.end1
           W == 0 .. n - 2
<1>1. c \in Nat /\ n \in Nat \ {0} /\ s \in Int /\ e \in Int /\ s <= e
      /\ n * c <= e - s /\ n * c \in Nat /\ (n = 1 => c = e - s)
  BY ChunkSize DEF range
<1>2. MainRows(l) = s .. (s + c) - 1
  BY DEF MainRows, main_end1
<1> DEFINE lo(k) == s + (k + 1) * c
           hi(k) == worker_end1(l, k)
<1>3. ASSUME NEW k \in W
      PROVE  /\ WorkerRows(l, k) = lo(k) .. hi(k) - 1
             /\ k # n - 2 => hi(k) = s + (k + 2) * c
             /\ k = n - 2 => hi(k) = e
             /\ (k + 1) * c \in Nat /\ (k + 2) * c \in Nat /\ (k + 2) * c <= e - s
  BY ChunkPlaces DEF WorkerRows, range
<1> HIDE DEF c, n, s, e
<1>4. ASSUME NEW k \in W
      PROVE  /\ lo(k) \in Int /\ hi(k) \in Int
             /\ s + c <= lo(k) /\ s <= lo(k) /\ hi(k) <= e
  <2>1. 1 * c <= (k + 1) * c
    BY <1>1, TimesMonotonic
  <2> QED  BY <1>1, <1>3, <2>1
<1>5. ASSUME NEW k \in W, NEW m \in W, k < m PROVE hi(k) <= lo(m)
  <2>1. (k + 2) * c <= (m + 1) * c
    BY <1>1, <1>5, TimesMonotonic
  <2>2. hi(k) = s + (k + 2) * c
    BY <1>1, <1>3, <1>5
  <2> QED  BY <1>1, <1>3, <2>1, <2>2
<1>6. \A k \in W : WorkerRows(l, k) \subseteq s .. e - 1
  <2> HIDE DEF lo, hi
  <2> QED  BY <1>1, <1>3, <1>4
<1>7. MainRows(l) \subseteq s .. e - 1
  <2>1. 1 * c <= n * c
    BY <1>1, TimesMonotonic
  <2>2. c <= e - s
    BY <1>1, <2>1
  <2> QED  BY <1>1, <1>2, <2>2
<1>8. ASSUME NEW r \in s .. e - 1, r \notin MainRows(l)
      PROVE  \E k \in W : r \in WorkerRows(l, k)
  <2>1. n # 1 /\ n - 2 \in W
    BY <1>1, <1>2, <1>8
  <2>2. CASE s + ((n - 2) + 1) * c <= r
    <3>1. r \in WorkerRows(l, n - 2)
      BY <1>1, <1>3, <1>8, <2>1, <2>2
    <3> QED  BY <2>1, <3>1
  <2>3. CASE ~ (s + ((n - 2) + 1) * c <= r)
    <3> DEFINE o == r - s
               k == (o \div c) - 1
    <3>1. o \in Nat /\ c <= o /\ o < (n - 1) * c
      BY <1>1, <1>2, <1>8, <2>1, <2>3
    <3>2. c # 0
      BY <1>1, <3>1, SMTT(30)
    <3>3. o \div c \in Nat /\ (o \div c) * c <= o /\ o < ((o \div c) + 1) * c
      BY <1>1, <3>1, <3>2, SMTT(30)
    <3>4. o \div c >= 1
      BY <1>1, <3>1, <3>2, <3>3, SMTT(30)
    <3>5. o \div c < n - 1
      <4>1. ASSUME n - 1 <= o \div c PROVE FALSE
        <5>1. (n - 1) * c <= (o \div c) * c
          BY <1>1, <3>3, <4>1, TimesMonotonic
        <5> QED  BY <1>1, <3>1, <3>3, <5>1
      <4> QED  BY <1>1, <3>3, <4>1
    <3>6. k \in W /\ k # n - 2 /\ k + 1 = o \div c /\ k + 2 = (o \div c) + 1
      BY <1>1, <3>3, <3>4, <3>5
    <3> HIDE DEF k
    <3>7. (k + 1) * c <= o /\ o < (k + 2) * c
      BY <3>3, <3>6
    <3>8. lo(k) <= r /\ r < hi(k)
      BY <1>1, <1>3, <1>8, <3>6, <3>7
    <3> HIDE DEF lo, hi
    <3>9. r \in WorkerRows(l, k)
      BY <1>1, <1>3, <1>4, <1>8, <3>6, <3>8
    <3> QED  BY <3>6, <3>9
  <2> QED  BY <2>2, <2>3
<1>9. MainRows(l) \cup UNION {WorkerRows(l, k) : k \in W} = s .. e - 1
  BY <1>6, <1>7, <1>8
<1>10. \A k \in W : MainRows(l) \cap WorkerRows(l, k) = {}
  <2> HIDE DEF lo, hi
  <2> QED  BY <1>1, <1>2, <1>3, <1>4
<1>11. ASSUME NEW k \in W, NEW m \in W, k < m
       PROVE  WorkerRows(l, k) \cap WorkerRows(l, m) = {}
  <2> HIDE DEF lo, hi
  <2>1. hi(k) <= lo(m)
    BY <1>5, <1>11
  <2> QED  BY <1>1, <1>3, <1>4, <2>1
<1>12. \A k, m \in W : k # m => WorkerRows(l, k) \cap WorkerRows(l, m) = {}
  <2> SUFFICES ASSUME NEW k \in W, NEW m \in W, k # m
               PROVE  WorkerRows(l, k) \cap WorkerRows(l, m) = {}
    OBVIOUS
  <2>1. k < m \/ m < k
    BY <1>1
  <2> QED  BY <1>11, <2>1
<1> QED
  BY <1>9, <1>10, <1>12 DEF Partitioned, n, s, e

\* In an inverted range the chunk size is negative or zero, and no chunk begins
\* before its end.
LEMMA InvertedEmpty ==
    ASSUME NEW l, l.start1 \in Int, l.end1 \in Int, l.numThread \in Nat \ {0},
           l.start1 > l.end1
    PROVE  /\ MainRows(l) = {}
           /\ \A k \in 0 .. l.numThread - 2 : WorkerRows(l, k) = {}
<1> DEFINE n == l.numThread
           s == l.start1
           e == l.end1
           d == (s - e) \div n
<1>1. n \in Nat \ {0} /\ s \in Int /\ e \in Int /\ s > e
  OBVIOUS
<1>2. chunk_size(l) = - d
  BY DEF chunk_size, range
<1>3. d \in Nat /\ n * d <= s - e
  <2> DEFINE q == s - e
  <2>1. q \in Nat
    BY <1>1
  <2> HIDE DEF q, n
  <2>2. q \div n \in Nat /\ n * (q \div n) <= q
    BY <1>1, <2>1, SMTT(30)
  <2> QED  BY <2>2 DEF q, n
<1> HIDE DEF d
<1>4. main_end1(l) = s - d
  BY <1>1, <1>2, <1>3 DEF main_end1
<1>5. MainRows(l) = {}
  BY <1>1, <1>3, <1>4 DEF MainRows
<1>6. ASSUME NEW k \in 0 .. n - 2 PROVE WorkerRows(l, k) = {}
  <2>1. worker_start1(l, k) = (s - d) + k * (- d) /\ k * (- d) = - (k * d) /\ k * d \in Nat
    BY <1>1, <1>2, <1>3, <1>4, SMTT(30) DEF worker_start1
  <2>2. worker_end1(l, k) <= worker_start1(l, k)
    <3>1. CASE k = n - 2
      <4>1. (k + 1) * d <= n * d /\ (k + 1) * d = k * d + d
        <5> HIDE DEF n
        <5> QED  BY <1>1, <1>3, <3>1, TimesMonotonic, SMTT(30)
      <4>2. n * d \in Nat
        BY <1>1, <1>3
      <4>3. worker_end1(l, k) = e
        BY <3>1 DEF worker_end1
      <4> HIDE DEF n, s, e
      <4> QED  BY <1>1, <1>3, <2>1, <4>1, <4>2, <4>3
    <3>2. CASE k # n - 2
      BY <1>1, <1>2, <1>3, <2>1, <3>2 DEF worker_end1
    <3> QED  BY <3>1, <3>2
  <2>3. worker_end1(l, k) \in Int /\ worker_start1(l, k) \in Int
    BY <1>1, <1>2, <1>3, <2>1 DEF worker_end1
  <2> QED  BY <2>2, <2>3 DEF WorkerRows
<1> QED
  BY <1>5, <1>6

\* The chunks of the main thread and the created ones cover the range of the
\* loop, stay inside it and do not overlap, for every range, also an empty or
\* inverted one, and every positive numThread: each row is done by exactly one
\* thread (parallel_for).
THEOREM ChunksPartition ==
    ASSUME NEW l \in Loop, l.numThread > 0
    PROVE  Partitioned(l)
<1>1. l.start1 \in Int /\ l.end1 \in Int /\ l.numThread \in Nat \ {0}
  BY DEF Loop
<1>2. CASE l.start1 <= l.end1
  BY <1>1, <1>2, ForwardPartition
<1>3. CASE l.start1 > l.end1
  <2>1. l.start1 .. l.end1 - 1 = {}
    BY <1>1, <1>3
  <2>2. UNION {WorkerRows(l, k) : k \in 0 .. l.numThread - 2} = {}
    BY <1>1, <1>3, InvertedEmpty
  <2> QED  BY <1>1, <1>3, <2>1, <2>2, InvertedEmpty DEF Partitioned
<1> QED
  BY <1>1, <1>2, <1>3

-----------------------------------------------------------------------------
\* The strengthening of NoThreadOutlivesCall: an entry of thread_ids below
\* main's loop variable that got a thread names that thread, so the join loop
\* cannot pass it while the thread runs, whatever the other entries hold.
JoinInv ==
    /\ main \in {"enter", "returned"} => \A k \in Worker : worker[k] # "running"
    /\ main = "chunk" => \A k \in Worker : worker[k] = "none"
    /\ main \in {"chunk", "create", "join"} => loop.numThread > 0
    /\ main \in {"create", "join"} =>
          /\ i \in Nat
          /\ \A k \in Worker : worker[k] # "none" => thread_ids[k] = k
    /\ main = "create" =>
          \A k \in Worker : k >= i \/ k >= loop.numThread - 1 => worker[k] = "none"
    /\ main = "join" =>
          \A k \in Worker : k < i \/ k >= loop.numThread - 1 => worker[k] # "running"

IInv == TypeOK /\ JoinInv

\* The loop the main thread is in has integer bounds, and its threads have
\* indices in Worker.
LEMMA LoopType ==
    ASSUME program \in Programs, call \in DOMAIN program
    PROVE  /\ loop \in Loop
           /\ program \in Seq(Loop) /\ call \in 1 .. Len(program)
           /\ 0 .. loop.numThread - 2 \subseteq Worker
<1>1. program \in Seq(Loop)
  BY ProgramAssumption
<1>2. call \in 1 .. Len(program)
  BY <1>1
<1> QED
  BY <1>1, <1>2, ProgramAssumption DEF loop

\* Chunk arithmetic stays within the integers when there is a thread.
LEMMA ChunkType ==
    ASSUME NEW l \in Loop, l.numThread > 0, NEW k \in Int
    PROVE  /\ main_end1(l) \in Int
           /\ worker_start1(l, k) \in Int /\ worker_end1(l, k) \in Int
<1>1. range(l) \in Int /\ l.numThread \in Int
  BY DEF Loop, range
<1>2. chunk_size(l) \in Int
  BY <1>1 DEF chunk_size
<1>3. k * chunk_size(l) \in Int
  BY <1>2
<1> QED
  BY <1>2, <1>3 DEF Loop, main_end1, worker_start1, worker_end1

\* lambda keeps the type of ran, also for a position that is not a cell.
LEMMA LambdaType ==
    ASSUME TypeOK, NEW r, NEW c, lambda(r, c)
    PROVE  ran' \in [DOMAIN program -> [Cell -> Nat]]
<1> DEFINE f == ran[call]
           g == [f EXCEPT ![<<r, c>>] = @ + 1]
<1>1. f \in [Cell -> Nat] /\ call \in DOMAIN program
  BY DEF TypeOK
<1>2. g \in [Cell -> Nat]
  <2>1. CASE <<r, c>> \in Cell
    BY <1>1, <2>1
  <2>2. CASE <<r, c>> \notin Cell
    BY <1>1, <2>2
  <2> QED  BY <2>1, <2>2
<1>3. ran' = [ran EXCEPT ![call] = g]
  BY DEF lambda
<1> HIDE DEF g
<1> QED
  BY <1>1, <1>2, <1>3 DEF TypeOK

\* after gives integer positions.
LEMMA AfterType ==
    ASSUME loop \in Loop, NEW r \in Int, NEW c \in Int
    PROVE  after(r, c) \in Int \X Int
BY DEF after, Loop

\* IInv holds initially.
LEMMA InitInductive == Init => IInv
<1> SUFFICES ASSUME Init PROVE IInv
  OBVIOUS
<1>1. call \in DOMAIN program
  BY ProgramAssumption DEF Init
<1>2. TypeOK
  BY <1>1 DEF Init, TypeOK
<1>3. JoinInv
  BY DEF Init, JoinInv
<1> QED
  BY <1>2, <1>3 DEF IInv

\* IInv is inductive.
LEMMA Inductive == IInv /\ [Next]_vars => IInv'
<1> SUFFICES ASSUME IInv, [Next]_vars PROVE IInv'
  OBVIOUS
<1> USE DEF threadVars
<1>1. TypeOK /\ JoinInv
  BY DEF IInv
<1>2. /\ loop \in Loop /\ loop.numThread \in Int /\ 0 .. loop.numThread - 2 \subseteq Worker
      /\ call \in DOMAIN program /\ i \in Int /\ j \in Int
  BY <1>1, LoopType DEF TypeOK, Loop
<1>3. ASSUME program' = program, call' = call PROVE loop' = loop
  BY <1>3 DEF loop
<1>4. CASE enter
  <2>1. i' \in Int /\ j' \in Int
    BY <1>2, <1>4 DEF enter, Loop
  <2>2. TypeOK'
    BY <1>1, <1>4, <2>1 DEF enter, TypeOK
  <2>3. JoinInv'
    BY <1>1, <1>3, <1>4 DEF enter, JoinInv, TypeOK
  <2> QED  BY <2>2, <2>3 DEF IInv
<1>5. CASE enter_undefined
  <2>1. TypeOK'
    BY <1>1, <1>5 DEF enter_undefined, TypeOK
  <2>2. JoinInv'
    BY <1>1, <1>5 DEF enter_undefined, JoinInv
  <2> QED  BY <2>1, <2>2 DEF IInv
<1>6. CASE main_chunk
  <2>1. after(i, j) \in Int \X Int
    BY <1>2, AfterType
  <2>2. ran' \in [DOMAIN program -> [Cell -> Nat]]
    BY <1>1, <1>6, LambdaType DEF main_chunk
  <2>3. TypeOK'
    BY <1>1, <1>6, <2>1, <2>2 DEF main_chunk, TypeOK
  <2>4. JoinInv'
    BY <1>1, <1>3, <1>6 DEF main_chunk, JoinInv
  <2> QED  BY <2>3, <2>4 DEF IInv
<1>7. CASE main_chunk_done
  <2>1. loop' = loop /\ TypeOK'
    BY <1>1, <1>3, <1>7 DEF main_chunk_done, TypeOK
  <2>2. loop.numThread > 0
    BY <1>1, <1>7 DEF main_chunk_done, JoinInv
  <2>3. JoinInv'
    BY <1>1, <1>7, <2>1, <2>2 DEF main_chunk_done, JoinInv
  <2> QED  BY <2>1, <2>3 DEF IInv
<1>8. ASSUME main = "create", i < loop.numThread - 1
      PROVE  i \in Worker /\ i \in Nat /\ loop.numThread > 0
  BY <1>1, <1>2, <1>8 DEF JoinInv
<1>9. ASSUME set_args, i \in Worker, loop.numThread > 0
      PROVE  /\ args' \in [Worker -> [start1 : Int, end1 : Int]]
             /\ args'[i].start1 \in Int
  <2>1. worker_start1(loop, i) \in Int /\ worker_end1(loop, i) \in Int
    BY <1>2, <1>9, ChunkType
  <2> QED  BY <1>1, <1>9, <2>1 DEF set_args, TypeOK
<1>10. CASE pthread_create
  <2>1. i \in Worker /\ i \in Nat /\ loop.numThread > 0
    BY <1>8, <1>10 DEF pthread_create
  <2>2. /\ args' \in [Worker -> [start1 : Int, end1 : Int]]
        /\ args'[i].start1 \in Int
    BY <1>9, <1>10, <2>1 DEF pthread_create
  <2>3. at' \in [Worker -> Int \X Int]
    BY <1>1, <1>2, <1>10, <2>2 DEF pthread_create, TypeOK, Loop
  <2>4. TypeOK'
    BY <1>1, <1>10, <2>1, <2>2, <2>3 DEF pthread_create, TypeOK
  <2>5. loop' = loop
    BY <1>3, <1>10 DEF pthread_create
  <2>6. /\ worker' = [worker EXCEPT ![i] = "running"] /\ i' = i + 1
        /\ thread_ids' = [thread_ids EXCEPT ![i] = i]
        /\ main = "create" /\ main' = "create" /\ i < loop.numThread - 1
    BY <1>10 DEF pthread_create
  <2>7. JoinInv'
    BY <1>1, <1>2, <2>1, <2>5, <2>6, WorkerAssumption DEF JoinInv, TypeOK
  <2> QED  BY <2>4, <2>7 DEF IInv
<1>11. CASE pthread_create_fails
  <2>1. i \in Worker /\ i \in Nat /\ loop.numThread > 0
    BY <1>8, <1>11 DEF pthread_create_fails
  <2>2. args' \in [Worker -> [start1 : Int, end1 : Int]]
    BY <1>9, <1>11, <2>1 DEF pthread_create_fails
  <2>3. TypeOK'
    <3>1. failed' \subseteq (DOMAIN program) \X Worker
      BY <1>1, <1>11, <2>1 DEF pthread_create_fails, TypeOK
    <3>2. thread_ids' \in [Worker -> Worker \cup {garbage}]
      BY <1>1, <1>11, <2>1 DEF pthread_create_fails, TypeOK
    <3>3. i' \in Int /\ UNCHANGED <<program, call, main, j, worker, at, ran>>
      BY <1>11, <2>1 DEF pthread_create_fails
    <3> QED  BY <1>1, <2>2, <3>1, <3>2, <3>3 DEF TypeOK
  <2>4. loop' = loop
    BY <1>3, <1>11 DEF pthread_create_fails
  <2>5. worker[i] = "none"
    BY <1>1, <1>11, <2>1 DEF pthread_create_fails, JoinInv
  <2>6. JoinInv'
    BY <1>1, <1>2, <1>11, <2>1, <2>4, <2>5, WorkerAssumption
       DEF pthread_create_fails, JoinInv, TypeOK
  <2> QED  BY <2>3, <2>6 DEF IInv
<1>12. CASE create_done
  <2>1. loop' = loop /\ TypeOK'
    BY <1>1, <1>3, <1>12 DEF create_done, TypeOK
  <2>2. JoinInv'
    BY <1>1, <1>2, <1>12, <2>1, WorkerAssumption DEF create_done, JoinInv
  <2> QED  BY <2>1, <2>2 DEF IInv
<1>13. ASSUME main = "join", i < loop.numThread - 1 PROVE i \in Worker /\ i \in Nat
  BY <1>1, <1>2, <1>13 DEF JoinInv
<1>14. CASE pthread_join
  <2>1. i \in Worker /\ i \in Nat /\ thread_ids[i] \in Worker
    BY <1>1, <1>13, <1>14 DEF pthread_join, TypeOK
  <2>2. loop' = loop
    BY <1>3, <1>14 DEF pthread_join
  <2>3. worker[i] # "running"
    BY <1>1, <1>14, <2>1 DEF pthread_join, JoinInv
  <2>4. TypeOK'
    BY <1>1, <1>14, <2>1 DEF pthread_join, TypeOK
  <2>5. /\ main = "join" /\ main' = "join" /\ i' = i + 1 /\ thread_ids' = thread_ids
        /\ worker[thread_ids[i]] = "returned"
        /\ worker' = [worker EXCEPT ![thread_ids[i]] = "joined"]
    BY <1>14 DEF pthread_join
  <2>6. \A k \in Worker : /\ worker'[k] = "running" => worker[k] = "running"
                          /\ worker'[k] # "none" => worker[k] # "none"
    BY <1>1, <2>1, <2>5 DEF TypeOK
  <2>7. \A k \in Worker : k < i + 1 => k < i \/ k = i
    BY <2>1, WorkerAssumption
  <2>8. JoinInv'
    BY <1>1, <1>2, <2>1, <2>2, <2>3, <2>5, <2>6, <2>7 DEF JoinInv
  <2> QED  BY <2>4, <2>8 DEF IInv
<1>15. CASE pthread_join_undefined
  <2>1. i \in Worker /\ i \in Nat
    BY <1>13, <1>15 DEF pthread_join_undefined
  <2>2. loop' = loop
    BY <1>3, <1>15 DEF pthread_join_undefined
  <2>3. worker[i] # "running"
    BY <1>1, <1>15, <2>1, WorkerAssumption DEF pthread_join_undefined, JoinInv
  <2>4. TypeOK'
    BY <1>1, <1>2, <1>15 DEF pthread_join_undefined, TypeOK
  <2>5. JoinInv'
    BY <1>1, <1>2, <1>15, <2>1, <2>2, <2>3, WorkerAssumption
       DEF pthread_join_undefined, JoinInv
  <2> QED  BY <2>4, <2>5 DEF IInv
<1>16. CASE join_done
  <2>1. TypeOK'
    BY <1>1, <1>16 DEF join_done, TypeOK
  <2>2. \A k \in Worker : worker[k] # "running"
    BY <1>1, <1>2, <1>16, WorkerAssumption DEF join_done, JoinInv
  <2>3. JoinInv'
    BY <1>16, <2>2 DEF join_done, JoinInv
  <2> QED  BY <2>1, <2>3 DEF IInv
<1>17. CASE next_call
  <2>1. program \in Seq(Loop) /\ call \in 1 .. Len(program)
    BY <1>1, LoopType DEF TypeOK
  <2>2. call' \in DOMAIN program
    BY <1>17, <2>1 DEF next_call
  <2>3. TypeOK'
    BY <1>1, <1>17, <2>2 DEF next_call, TypeOK
  <2>4. JoinInv'
    BY <1>1, <1>17 DEF next_call, JoinInv
  <2> QED  BY <2>3, <2>4 DEF IInv
<1>18. ASSUME NEW k \in Worker, thread_lambda(k) PROVE IInv'
  <2>1. ran' \in [DOMAIN program -> [Cell -> Nat]]
    BY <1>1, <1>18, LambdaType DEF thread_lambda
  <2>2. at[k][1] \in Int /\ at[k][2] \in Int
    BY <1>1 DEF TypeOK
  <2>3. after(at[k][1], at[k][2]) \in Int \X Int
    BY <1>2, <2>2, AfterType
  <2>4. at' \in [Worker -> Int \X Int]
    BY <1>1, <1>18, <2>3 DEF thread_lambda, TypeOK
  <2>5. TypeOK'
    BY <1>1, <1>18, <2>1, <2>4 DEF thread_lambda, TypeOK
  <2>6. loop' = loop
    BY <1>3, <1>18 DEF thread_lambda
  <2>7. JoinInv'
    BY <1>1, <1>18, <2>6 DEF thread_lambda, JoinInv
  <2> QED  BY <2>5, <2>7 DEF IInv
<1>19. ASSUME NEW k \in Worker, thread_returns(k) PROVE IInv'
  <2>1. TypeOK'
    BY <1>1, <1>19 DEF thread_returns, TypeOK
  <2>2. loop' = loop
    BY <1>3, <1>19 DEF thread_returns
  <2>3. JoinInv'
    BY <1>1, <1>19, <2>2 DEF thread_returns, JoinInv, TypeOK
  <2> QED  BY <2>1, <2>3 DEF IInv
<1>20. CASE UNCHANGED vars
  <2>1. loop' = loop
    BY <1>3, <1>20 DEF vars
  <2> QED  BY <1>1, <1>20, <2>1 DEF vars, IInv, TypeOK, JoinInv
<1> QED
  BY <1>4, <1>5, <1>6, <1>7, <1>10, <1>11, <1>12, <1>14, <1>15, <1>16, <1>17,
     <1>18, <1>19, <1>20 DEF Next, parallel_for, thread_func

\* TypeOK holds in every reachable state of every program: parallel_for never
\* indexes args or thread_ids outside the entries it declared.
THEOREM TypeCorrect == Spec => []TypeOK
<1>1. IInv => TypeOK
  BY DEF IInv
<1> QED
  BY <1>1, InitInductive, Inductive, PTL DEF Spec

\* NoThreadOutlivesCall holds in every reachable state of every program,
\* whichever pthread_create calls fail and whatever the unwritten thread ids
\* hold: the frame of parallel_for is never freed under a running thread.
THEOREM FrameOutlivesThreads == Spec => [](TypeOK /\ NoThreadOutlivesCall)
<1>1. IInv => TypeOK /\ NoThreadOutlivesCall
  BY DEF IInv, JoinInv, NoThreadOutlivesCall
<1> QED
  BY <1>1, InitInductive, Inductive, PTL DEF Spec

-----------------------------------------------------------------------------
(* What the lambda is applied to.                                          *)

\* A thread applies its lambda row by row, and in a row column by column.
Before(cell, pos) == cell[1] < pos[1] \/ (cell[1] = pos[1] /\ cell[2] < pos[2])

\* The cells of the current call that the main thread and a created one have done.
MainDone ==
    {cell \in CellsOf(loop) : /\ cell[1] \in MainRows(loop)
                              /\ main = "chunk" => Before(cell, <<i, j>>)}
WorkerDone(k) ==
    {cell \in CellsOf(loop) : /\ worker[k] # "none"
                              /\ cell[1] \in WorkerRows(loop, k) /\ Before(cell, at[k])}
Done == MainDone \cup UNION {WorkerDone(k) : k \in Worker}

\* The cells of a call that is over: all but those of the threads that failed.
Missed(c) == {k \in Worker : <<c, k>> \in failed}
Covered(c) ==
    IF program[c].numThread > 0
    THEN {cell \in CellsOf(program[c]) :
             \A k \in Missed(c) : cell[1] \notin WorkerRows(program[c], k)}
    ELSE {}

\* In call c the lambda ran once for each cell of S and never for another one.
RanOnce(c, S) == \A cell \in Cell : ran[c][cell] = IF cell \in S THEN 1 ELSE 0

HasThread(k) == worker[k] # "none"
Columns == loop.start2 .. loop.end2 - 1

\* Where the threads of the current call are in their rows.
MainPlace ==
    main = "chunk" => i >= loop.start1 /\ (loop.start2 < loop.end2 => j \in Columns)

ThreadPlace(k) ==
    /\ k \in 0 .. loop.numThread - 2
    /\ args[k] = [start1 |-> worker_start1(loop, k), end1 |-> worker_end1(loop, k)]
    /\ at[k][1] >= args[k].start1
    /\ loop.start2 < loop.end2 => at[k][2] \in Columns
    /\ worker[k] # "running" => ~ rows_left(k)

ThreadPlaces ==
    main \in {"chunk", "create", "join"} => \A k \in Worker : HasThread(k) => ThreadPlace(k)

\* The threads that the current call lacks are those of its failed creates.
MissedInv ==
    /\ \A c \in DOMAIN program : \A k \in Missed(c) :
           c <= call /\ k \in 0 .. program[c].numThread - 2
    /\ main \in {"enter", "chunk"} => Missed(call) = {}
    /\ main = "create" =>
           \A k \in 0 .. loop.numThread - 2 : k \in Missed(call) <=> k < i /\ ~ HasThread(k)
    /\ main = "join" =>
           \A k \in 0 .. loop.numThread - 2 : k \in Missed(call) <=> ~ HasThread(k)

\* What the lambda was applied to, in the calls that are over or still to come
\* and in the current one.
OtherCalls ==
    \A c \in DOMAIN program :
        /\ c < call => RanOnce(c, Covered(c))
        /\ c > call => RanOnce(c, {})

ThisCall ==
    /\ main = "enter" => RanOnce(call, {})
    /\ main \in {"chunk", "create", "join"} => RanOnce(call, Done)
    /\ main = "returned" => RanOnce(call, Covered(call))
    /\ main = "crashed" => \E S \in SUBSET CellsOf(loop) : RanOnce(call, S)

RanInv == OtherCalls /\ ThisCall

PlaceInv == MainPlace /\ ThreadPlaces /\ MissedInv

\* The next position is behind the current one, and nothing is in between.
LEMMA BeforeAfter ==
    ASSUME loop \in Loop, NEW r \in Int, NEW c \in Columns,
           NEW row \in Int, NEW col \in Columns
    PROVE  Before(<<row, col>>, after(r, c))
               <=> Before(<<row, col>>, <<r, c>>) \/ <<row, col>> = <<r, c>>
BY DEF Before, after, Columns, Loop

\* The cells of a call are cells of ran, and pairs of integers.
LEMMA CellsType ==
    ASSUME TypeOK, NEW c \in DOMAIN program
    PROVE  /\ program[c] \in Loop
           /\ CellsOf(program[c]) \subseteq Cell
           /\ CellsOf(program[c]) \subseteq Int \X Int
           /\ program[c].numThread > 0 => Partitioned(program[c])
<1>1. program \in Seq(Loop) /\ program \in Programs
  BY ProgramAssumption DEF TypeOK
<1>2. program[c] \in Loop
  BY <1>1
<1>3. CellsOf(program[c]) \subseteq Cell
  BY <1>1, CellAssumption
<1>4. CellsOf(program[c]) \subseteq Int \X Int
  BY <1>2 DEF CellsOf, Loop
<1> QED
  BY <1>2, <1>3, <1>4, ChunksPartition

\* One application of the lambda.
LEMMA LambdaOnce ==
    ASSUME TypeOK, NEW r, NEW c, lambda(r, c), NEW S, RanOnce(call, S),
           <<r, c>> \in Cell, <<r, c>> \notin S
    PROVE  /\ \A cell \in Cell : ran'[call][cell] = IF cell \in S \cup {<<r, c>>} THEN 1 ELSE 0
           /\ \A d \in DOMAIN program : d # call => ran'[d] = ran[d]
<1> DEFINE f == ran[call]
           g == [f EXCEPT ![<<r, c>>] = @ + 1]
<1>1. call \in DOMAIN program /\ ran \in [DOMAIN program -> [Cell -> Nat]] /\ f \in [Cell -> Nat]
  BY DEF TypeOK
<1>2. ran' = [ran EXCEPT ![call] = g]
  BY DEF lambda
<1>3. ASSUME NEW cell \in Cell PROVE g[cell] = IF cell \in S \cup {<<r, c>>} THEN 1 ELSE 0
  <2>1. f[cell] = IF cell \in S THEN 1 ELSE 0
    BY DEF RanOnce
  <2>2. CASE cell = <<r, c>>
    BY <1>1, <2>1, <2>2
  <2>3. CASE cell # <<r, c>>
    BY <1>1, <2>1, <2>3
  <2> QED  BY <2>2, <2>3
<1> HIDE DEF g
<1>4. ran'[call] = g /\ \A d \in DOMAIN program : d # call => ran'[d] = ran[d]
  BY <1>1, <1>2
<1> QED
  BY <1>3, <1>4

\* The next position is in the same row or the next one, and in the columns.
LEMMA AfterPlace ==
    ASSUME loop.start2 \in Int, loop.end2 \in Int, NEW r \in Int, NEW c \in Int
    PROVE  /\ after(r, c)[1] \in Int /\ after(r, c)[1] >= r
           /\ loop.start2 < loop.end2 /\ c \in Columns => after(r, c)[2] \in Columns
BY DEF after, Columns

LEMMA PlaceStep == IInv /\ PlaceInv /\ [Next]_vars => PlaceInv'
<1> SUFFICES ASSUME TypeOK, JoinInv, MainPlace, ThreadPlaces, MissedInv, [Next]_vars
             PROVE  MainPlace' /\ ThreadPlaces' /\ MissedInv'
  BY DEF IInv, PlaceInv
<1> USE DEF threadVars
<1>1. /\ loop \in Loop /\ 0 .. loop.numThread - 2 \subseteq Worker
      /\ call \in DOMAIN program /\ program \in Seq(Loop) /\ i \in Int /\ j \in Int
      /\ loop.start1 \in Int /\ loop.end1 \in Int /\ loop.start2 \in Int /\ loop.end2 \in Int
      /\ loop.numThread \in Int
  BY LoopType DEF TypeOK, Loop
<1>2. ASSUME program' = program, call' = call PROVE loop' = loop /\ Columns' = Columns
  BY <1>2 DEF loop, Columns
<1>3. ASSUME UNCHANGED <<program, call, failed>>
      PROVE  Missed(call)' = Missed(call) /\ \A c \in DOMAIN program : Missed(c)' = Missed(c)
  BY <1>3 DEF Missed
<1>4. ASSUME NEW k \in Worker, ThreadPlace(k), program' = program, call' = call,
             args'[k] = args[k], at'[k] = at[k], worker'[k] = worker[k]
      PROVE  ThreadPlace(k)'
  BY <1>2, <1>4 DEF ThreadPlace, rows_left
<1>5. CASE enter
  <2>1. \A k \in Worker : ~ HasThread(k)'
    BY <1>5 DEF enter, HasThread
  <2>2. MainPlace'
    BY <1>1, <1>2, <1>5 DEF enter, MainPlace, Columns
  <2>3. MissedInv'
    BY <1>2, <1>3, <1>5 DEF enter, MissedInv
  <2> QED  BY <2>1, <2>2, <2>3 DEF ThreadPlaces
<1>6. CASE enter_undefined
  <2>1. MissedInv'
    BY <1>2, <1>3, <1>6 DEF enter_undefined, MissedInv
  <2> QED  BY <1>6, <2>1 DEF enter_undefined, MainPlace, ThreadPlaces
<1>7. CASE main_chunk
  <2>1. \A k \in Worker : ~ HasThread(k)'
    BY <1>7 DEF main_chunk, HasThread, JoinInv
  <2>2. MainPlace'
    BY <1>1, <1>2, <1>7 DEF main_chunk, MainPlace, Columns, after
  <2>3. MissedInv'
    BY <1>2, <1>3, <1>7 DEF main_chunk, MissedInv
  <2> QED  BY <2>1, <2>2, <2>3 DEF ThreadPlaces
<1>8. CASE main_chunk_done
  <2>1. \A k \in Worker : ~ HasThread(k)'
    BY <1>8 DEF main_chunk_done, HasThread, JoinInv
  <2>2. MissedInv'
    BY <1>1, <1>2, <1>3, <1>8 DEF main_chunk_done, MissedInv
  <2> QED  BY <1>8, <2>1, <2>2 DEF main_chunk_done, MainPlace, ThreadPlaces
<1>9. ASSUME main = "create", i < loop.numThread - 1
      PROVE  i \in Worker /\ i \in 0 .. loop.numThread - 2 /\ ~ HasThread(i)
  <2>1. i \in Nat /\ i \in 0 .. loop.numThread - 2
    BY <1>1, <1>9 DEF JoinInv
  <2> QED  BY <1>1, <1>9, <2>1 DEF JoinInv, HasThread
<1>10. CASE pthread_create
  <2>1. /\ i \in Worker /\ i \in 0 .. loop.numThread - 2 /\ ~ HasThread(i)
        /\ loop' = loop /\ Columns' = Columns
        /\ main = "create" /\ main' = "create" /\ i' = i + 1 /\ worker'[i] = "running"
        /\ args'[i] = [start1 |-> worker_start1(loop, i), end1 |-> worker_end1(loop, i)]
        /\ at'[i] = <<args'[i].start1, loop.start2>>
        /\ \A k \in Worker \ {i} : /\ args'[k] = args[k] /\ at'[k] = at[k]
                                   /\ worker'[k] = worker[k]
    BY <1>2, <1>9, <1>10 DEF pthread_create, set_args, TypeOK
  <2>2. ThreadPlaces'
    <3>1. ASSUME NEW k \in Worker, k = i PROVE ThreadPlace(k)'
      <4>1. loop.numThread > 0 /\ i \in Int
        BY <1>10 DEF JoinInv, pthread_create, TypeOK
      <4>2. worker_start1(loop, i) \in Int
        BY <1>1, <4>1, ChunkType
      <4>3. at'[k][1] = worker_start1(loop, k) /\ at'[k][2] = loop.start2
        BY <2>1, <3>1
      <4>4. args'[k].start1 = worker_start1(loop, k)
        BY <2>1, <3>1
      <4>5. loop.start2 < loop.end2 => loop.start2 \in Columns
        BY <1>1 DEF Columns
      <4> QED  BY <2>1, <3>1, <4>2, <4>3, <4>4, <4>5 DEF ThreadPlace
    <3>2. ASSUME NEW k \in Worker \ {i}, HasThread(k)' PROVE ThreadPlace(k)'
      BY <1>4, <1>10, <2>1, <3>2 DEF ThreadPlaces, HasThread, pthread_create
    <3> QED  BY <3>1, <3>2 DEF ThreadPlaces
  <2>3. MissedInv'
    BY <1>1, <1>3, <1>10, <2>1 DEF pthread_create, MissedInv, HasThread
  <2> QED  BY <2>1, <2>2, <2>3 DEF MainPlace
<1>11. CASE pthread_create_fails
  <2>1. /\ i \in Worker /\ i \in 0 .. loop.numThread - 2 /\ ~ HasThread(i)
        /\ loop' = loop /\ main = "create" /\ main' = "create" /\ i' = i + 1
        /\ failed' = failed \cup {<<call, i>>}
        /\ UNCHANGED <<program, call, worker, at>>
        /\ \A k \in Worker \ {i} : args'[k] = args[k]
    BY <1>2, <1>9, <1>11 DEF pthread_create_fails, set_args, TypeOK
  <2>2. /\ Missed(call)' = Missed(call) \cup {i}
        /\ \A c \in DOMAIN program : c # call => Missed(c)' = Missed(c)
    BY <2>1 DEF Missed
  <2>3. ThreadPlaces'
    <3>1. ASSUME NEW k \in Worker, HasThread(k)' PROVE ThreadPlace(k)'
      <4>1. k # i /\ HasThread(k) /\ ThreadPlace(k)
        BY <2>1, <3>1 DEF ThreadPlaces, HasThread
      <4> QED  BY <1>4, <2>1, <4>1
    <3> QED  BY <3>1 DEF ThreadPlaces
  <2>4. MissedInv'
    <3>1. call \in Int /\ loop = program[call]
      BY <1>1 DEF loop
    <3>2. ASSUME NEW c \in DOMAIN program, NEW k \in Missed(c)'
          PROVE  c <= call /\ k \in 0 .. program[c].numThread - 2
      BY <2>1, <2>2, <3>1, <3>2 DEF MissedInv
    <3>3. ASSUME NEW k \in 0 .. loop.numThread - 2
          PROVE  k \in Missed(call)' <=> k < i + 1 /\ ~ HasThread(k)
      BY <1>1, <2>1, <2>2 DEF MissedInv
    <3> QED  BY <2>1, <3>2, <3>3 DEF MissedInv, HasThread
  <2> QED  BY <2>1, <2>3, <2>4 DEF MainPlace
<1>12. CASE create_done
  <2>1. ThreadPlaces'
    BY <1>4, <1>12 DEF create_done, ThreadPlaces, HasThread
  <2>2. \A k \in 0 .. loop.numThread - 2 : k < i
    BY <1>1, <1>12 DEF create_done, Loop
  <2>3. MissedInv'
    BY <1>2, <1>3, <1>12, <2>2 DEF create_done, MissedInv, HasThread
  <2> QED  BY <1>12, <2>1, <2>3 DEF create_done, MainPlace
<1>13. CASE pthread_join
  <2>1. PICK m \in Worker : worker[m] = "returned" /\ worker' = [worker EXCEPT ![m] = "joined"]
    <3>1. i \in Worker
      <4>1. i \in Nat /\ i < loop.numThread - 1
        BY <1>13 DEF pthread_join, JoinInv
      <4> QED  BY <1>1, <4>1
    <3> QED  BY <1>13, <3>1 DEF pthread_join, TypeOK
  <2>2. /\ \A k \in Worker : HasThread(k)' <=> HasThread(k)
        /\ \A k \in Worker : k # m => worker'[k] = worker[k]
        /\ worker'[m] = "joined"
    BY <2>1 DEF TypeOK, HasThread
  <2>3. UNCHANGED <<program, call, main, args, at, failed>> /\ main = "join"
    BY <1>13 DEF pthread_join
  <2>4. ThreadPlaces'
    <3>1. ThreadPlace(m)'
      <4>1. ThreadPlace(m)
        BY <2>1, <2>3 DEF ThreadPlaces, HasThread
      <4> QED  BY <1>2, <2>1, <2>2, <2>3, <4>1 DEF ThreadPlace, rows_left
    <3>2. ASSUME NEW k \in Worker, k # m, HasThread(k)' PROVE ThreadPlace(k)'
      BY <1>4, <2>2, <2>3, <3>2 DEF ThreadPlaces
    <3> QED  BY <3>1, <3>2 DEF ThreadPlaces
  <2>5. MissedInv'
    BY <1>1, <1>2, <1>3, <2>2, <2>3 DEF MissedInv
  <2> QED  BY <2>3, <2>4, <2>5 DEF MainPlace
<1>14. CASE pthread_join_undefined \/ join_done
  <2>1. /\ UNCHANGED <<program, call, args, worker, at, failed>> /\ main = "join"
        /\ main' \in {"join", "crashed", "returned"}
    BY <1>14 DEF pthread_join_undefined, join_done
  <2>2. ThreadPlaces'
    BY <1>4, <2>1 DEF ThreadPlaces, HasThread
  <2>3. MissedInv'
    BY <1>2, <1>3, <2>1 DEF MissedInv, HasThread
  <2> QED  BY <2>1, <2>2, <2>3 DEF MainPlace
<1>15. CASE next_call
  <2>1. main' = "enter" /\ call' = call + 1 /\ UNCHANGED <<program, failed>>
    BY <1>15 DEF next_call
  <2>2. MissedInv'
    <3>1. call \in Int /\ \A c \in DOMAIN program : c \in Int
      BY <1>1
    <3>2. \A c \in DOMAIN program : Missed(c)' = Missed(c)
      BY <2>1 DEF Missed
    <3>3. Missed(call)' = {}
      <4>1. call' \in DOMAIN program
        BY <1>1, <1>15 DEF next_call
      <4>2. ~ (call' <= call)
        BY <2>1, <3>1
      <4> QED  BY <2>1, <4>1, <4>2 DEF MissedInv, Missed
    <3>4. ASSUME NEW c \in DOMAIN program, NEW k \in Missed(c)
          PROVE  c <= call + 1 /\ k \in 0 .. program[c].numThread - 2
      BY <3>1 DEF MissedInv
    <3> QED  BY <2>1, <3>2, <3>3, <3>4 DEF MissedInv
  <2> QED  BY <2>1, <2>2 DEF MainPlace, ThreadPlaces
<1>16. ASSUME NEW m \in Worker, thread_lambda(m), main # "crashed" PROVE MainPlace' /\ ThreadPlaces' /\ MissedInv'
  <2>1. /\ UNCHANGED <<program, call, main, i, j, args, worker, failed>>
        /\ worker[m] = "running" /\ rows_left(m)
        /\ at' = [at EXCEPT ![m] = after(at[m][1], at[m][2])]
    BY <1>16 DEF thread_lambda
  <2>2. ThreadPlaces'
    <3> SUFFICES ASSUME main \in {"chunk", "create", "join"}, NEW k \in Worker, HasThread(k)
                 PROVE  ThreadPlace(k)'
      BY <2>1 DEF ThreadPlaces, HasThread
    <3>1. ThreadPlace(k)
      BY DEF ThreadPlaces
    <3>2. CASE k # m
      BY <1>4, <2>1, <3>1, <3>2 DEF TypeOK
    <3>3. CASE k = m
      <4>1. at'[m] = after(at[m][1], at[m][2]) /\ at[m][1] \in Int /\ at[m][2] \in Int
        BY <2>1 DEF TypeOK
      <4>2. args[m].start1 \in Int
        BY DEF TypeOK
      <4>3. /\ at'[m][1] \in Int /\ at'[m][1] >= at[m][1]
            /\ loop.start2 < loop.end2 /\ at[m][2] \in Columns => at'[m][2] \in Columns
        BY <1>1, <4>1, AfterPlace
      <4>4. at[m][1] >= args[m].start1 /\ (loop.start2 < loop.end2 => at[m][2] \in Columns)
        BY <3>1, <3>3 DEF ThreadPlace
      <4>5. at'[m][1] >= args[m].start1 /\ (loop.start2 < loop.end2 => at'[m][2] \in Columns)
        BY <4>1, <4>2, <4>3, <4>4
      <4> QED  BY <1>2, <2>1, <3>1, <3>3, <4>5 DEF ThreadPlace
    <3> QED  BY <3>2, <3>3
  <2>3. MissedInv'
    BY <1>2, <1>3, <2>1 DEF MissedInv, HasThread
  <2> QED  BY <1>2, <2>1, <2>2, <2>3 DEF MainPlace
<1>17. ASSUME NEW m \in Worker, thread_returns(m) PROVE MainPlace' /\ ThreadPlaces' /\ MissedInv'
  <2>1. /\ UNCHANGED <<program, call, main, i, j, args, at, failed>>
        /\ worker[m] = "running" /\ ~ rows_left(m)
        /\ worker' = [worker EXCEPT ![m] = "returned"]
    BY <1>17 DEF thread_returns
  <2>2. /\ \A k \in Worker : HasThread(k)' <=> HasThread(k)
        /\ \A k \in Worker : k # m => worker'[k] = worker[k]
    BY <2>1 DEF TypeOK, HasThread
  <2>3. ThreadPlaces'
    <3> SUFFICES ASSUME main \in {"chunk", "create", "join"}, NEW k \in Worker, HasThread(k)
                 PROVE  ThreadPlace(k)'
      BY <2>1, <2>2 DEF ThreadPlaces
    <3>1. ThreadPlace(k)
      BY DEF ThreadPlaces
    <3>2. CASE k # m
      BY <1>4, <2>1, <2>2, <3>1, <3>2
    <3>3. CASE k = m
      BY <1>2, <2>1, <3>1, <3>3 DEF ThreadPlace, rows_left
    <3> QED  BY <3>2, <3>3
  <2>4. MissedInv'
    BY <1>1, <1>2, <1>3, <2>1, <2>2 DEF MissedInv
  <2> QED  BY <1>2, <2>1, <2>3, <2>4 DEF MainPlace
<1>18. CASE UNCHANGED vars
  <2>1. UNCHANGED <<program, call, main, i, j, args, at, worker, failed>>
    BY <1>18 DEF vars
  <2>2. ThreadPlaces'
    BY <1>4, <2>1 DEF ThreadPlaces, HasThread
  <2>3. MissedInv'
    BY <1>2, <1>3, <2>1 DEF MissedInv, HasThread
  <2> QED  BY <1>2, <2>1, <2>2, <2>3 DEF MainPlace
<1> QED
  BY <1>5, <1>6, <1>7, <1>8, <1>10, <1>11, <1>12, <1>13, <1>14, <1>15, <1>16, <1>17, <1>18
     DEF Next, parallel_for, thread_func

\* When all threads are done, the cells that were done are those of the main
\* thread and of the threads that were created.
LEMMA JoinedDone ==
    ASSUME TypeOK, JoinInv, ThreadPlaces, MissedInv, main = "join", i >= loop.numThread - 1
    PROVE  Done = Covered(call)
<1>1. /\ loop \in Loop /\ 0 .. loop.numThread - 2 \subseteq Worker
      /\ call \in DOMAIN program /\ i \in Nat /\ loop.numThread > 0
      /\ loop.numThread \in Int /\ program[call] = loop
  BY LoopType DEF TypeOK, JoinInv, Loop, loop
<1>2. /\ CellsOf(loop) \subseteq Int \X Int /\ Partitioned(loop)
  BY <1>1, CellsType DEF loop
<1> DEFINE W == 0 .. loop.numThread - 2
<1>3. \A k \in Worker : HasThread(k) => k \in W /\ ~ rows_left(k)
  <2> SUFFICES ASSUME NEW k \in Worker, HasThread(k) PROVE k \in W /\ ~ rows_left(k)
    OBVIOUS
  <2>1. k \in W /\ (worker[k] # "running" => ~ rows_left(k))
    BY DEF ThreadPlaces, ThreadPlace
  <2>2. k < i
    BY <1>1, <2>1
  <2>3. worker[k] # "running"
    BY <2>2 DEF JoinInv
  <2> QED  BY <2>1, <2>3
<1>4. \A k \in W : k \in Missed(call) <=> ~ HasThread(k)
  BY DEF MissedInv
<1>5. \A k \in Missed(call) : k \in W /\ k \in Worker
  BY <1>1 DEF MissedInv, Missed
<1>6. ASSUME NEW k \in Worker, HasThread(k)
      PROVE  WorkerDone(k) = {cell \in CellsOf(loop) : cell[1] \in WorkerRows(loop, k)}
  <2>1. /\ args[k] = [start1 |-> worker_start1(loop, k), end1 |-> worker_end1(loop, k)]
        /\ at[k][1] \in Int
    BY <1>6 DEF ThreadPlaces, ThreadPlace, TypeOK
  <2>2. worker_start1(loop, k) \in Int /\ worker_end1(loop, k) \in Int
    BY <1>1, <1>3, <1>6, ChunkType
  <2>3. at[k][1] >= worker_end1(loop, k) \/ CellsOf(loop) = {}
    <3>1. loop.start2 \in Int /\ loop.end2 \in Int
      BY <1>1 DEF Loop
    <3>2. ~ (loop.start2 < loop.end2) => CellsOf(loop) = {}
      BY <3>1 DEF CellsOf
    <3> QED  BY <1>3, <1>6, <2>1, <2>2, <3>2 DEF rows_left
  <2>4. ASSUME NEW cell \in CellsOf(loop), cell[1] \in WorkerRows(loop, k)
        PROVE  Before(cell, at[k])
    BY <1>2, <2>1, <2>2, <2>3, <2>4 DEF WorkerRows, Before
  <2> QED  BY <1>6, <2>4 DEF WorkerDone, HasThread
<1>7. MainDone = {cell \in CellsOf(loop) : cell[1] \in MainRows(loop)}
  BY DEF MainDone
<1>8. ASSUME NEW cell \in CellsOf(loop) PROVE cell \in Done <=> cell \in Covered(call)
  <2>1. cell[1] \in loop.start1 .. loop.end1 - 1
    BY DEF CellsOf
  <2>2. cell \in Covered(call) <=> \A k \in Missed(call) : cell[1] \notin WorkerRows(loop, k)
    BY <1>1 DEF Covered
  <2>3. CASE cell[1] \in MainRows(loop)
    <3>1. \A k \in W : cell[1] \notin WorkerRows(loop, k)
      BY <1>2, <2>3 DEF Partitioned
    <3> QED  BY <1>5, <1>7, <2>2, <2>3, <3>1 DEF Done
  <2>4. CASE cell[1] \notin MainRows(loop)
    <3>1. PICK m \in W : cell[1] \in WorkerRows(loop, m)
      BY <1>2, <2>1, <2>4 DEF Partitioned
    <3>2. \A k \in W : k # m => cell[1] \notin WorkerRows(loop, k)
      BY <1>2, <3>1 DEF Partitioned
    <3>3. m \in Worker
      BY <1>1
    <3>4. cell \in Covered(call) <=> HasThread(m)
      BY <1>4, <1>5, <2>2, <3>1, <3>2
    <3>5. cell \in Done <=> HasThread(m)
      <4>1. cell \notin MainDone
        BY <1>7, <2>4
      <4>2. \A k \in Worker : k # m => cell \notin WorkerDone(k)
        BY <1>3, <3>2 DEF WorkerDone, HasThread
      <4>3. cell \in WorkerDone(m) <=> HasThread(m)
        BY <1>6, <3>1, <3>3 DEF WorkerDone, HasThread
      <4> QED  BY <3>3, <4>1, <4>2, <4>3 DEF Done
    <3> QED  BY <3>4, <3>5
  <2> QED  BY <2>3, <2>4
<1>9. Done \subseteq CellsOf(loop) /\ Covered(call) \subseteq CellsOf(loop)
  BY <1>1 DEF Done, MainDone, WorkerDone, Covered
<1> QED
  BY <1>8, <1>9

LEMMA RanStep == IInv /\ PlaceInv /\ RanInv /\ [Next]_vars => RanInv'
<1> SUFFICES ASSUME TypeOK, JoinInv, MainPlace, ThreadPlaces, MissedInv, OtherCalls, ThisCall,
                    [Next]_vars
             PROVE  OtherCalls' /\ ThisCall'
  BY DEF IInv, PlaceInv, RanInv
<1> USE DEF threadVars
<1>1. /\ loop \in Loop /\ 0 .. loop.numThread - 2 \subseteq Worker
      /\ call \in DOMAIN program /\ program \in Seq(Loop) /\ i \in Int /\ j \in Int
      /\ loop.start1 \in Int /\ loop.end1 \in Int /\ loop.start2 \in Int /\ loop.end2 \in Int
      /\ loop.numThread \in Int /\ loop = program[call]
      /\ call \in Int /\ \A c \in DOMAIN program : c \in Int
  <2>1. /\ loop \in Loop /\ 0 .. loop.numThread - 2 \subseteq Worker
        /\ call \in DOMAIN program /\ program \in Seq(Loop) /\ i \in Int /\ j \in Int
    BY LoopType DEF TypeOK
  <2>2. /\ loop.start1 \in Int /\ loop.end1 \in Int /\ loop.start2 \in Int /\ loop.end2 \in Int
        /\ loop.numThread \in Int
    BY <2>1 DEF Loop
  <2>3. call \in Int /\ \A c \in DOMAIN program : c \in Int
    BY <2>1
  <2> QED  BY <2>1, <2>2, <2>3 DEF loop
<1>2. /\ CellsOf(loop) \subseteq Cell /\ CellsOf(loop) \subseteq Int \X Int
      /\ loop.numThread > 0 => Partitioned(loop)
  BY <1>1, CellsType
<1>3. ASSUME UNCHANGED <<program, call>>,
             \A c \in DOMAIN program : c # call => ran'[c] = ran[c] /\ Missed(c)' = Missed(c)
      PROVE  OtherCalls'
  <2> SUFFICES ASSUME NEW c \in DOMAIN program
               PROVE  /\ c < call => RanOnce(c, Covered(c))'
                      /\ c > call => RanOnce(c, {})'
    BY <1>3 DEF OtherCalls
  <2>1. CASE c = call
    BY <1>1, <2>1
  <2>2. CASE c # call
    <3>1. ran'[c] = ran[c] /\ Covered(c)' = Covered(c)
      BY <1>3, <2>2 DEF Covered
    <3> QED  BY <3>1 DEF OtherCalls, RanOnce
  <2> QED  BY <2>1, <2>2
<1>4. ASSUME UNCHANGED <<program, call, ran, failed>> PROVE OtherCalls'
  BY <1>3, <1>4 DEF Missed
<1>5. ASSUME UNCHANGED <<program, call, ran>>, main' \in {"chunk", "create", "join"},
             main \in {"chunk", "create", "join"}, Done' = Done
      PROVE  ThisCall'
  BY <1>5 DEF ThisCall, RanOnce
<1>6. ASSUME UNCHANGED <<program, call, at>>, \A k \in Worker : HasThread(k)' <=> HasThread(k)
      PROVE  \A k \in Worker : WorkerDone(k)' = WorkerDone(k)
  BY <1>6 DEF WorkerDone, HasThread, loop
<1>7. ASSUME NEW r \in Int, NEW c \in Columns, <<r, c>> \in CellsOf(loop), <<r, c>> \notin Done,
             lambda(r, c), UNCHANGED <<program, call, main, failed>>,
             main \in {"chunk", "create", "join"}, Done' = Done \cup {<<r, c>>}
      PROVE  OtherCalls' /\ ThisCall'
  <2>1. RanOnce(call, Done) /\ <<r, c>> \in Cell
    BY <1>2, <1>7 DEF ThisCall
  <2>2. /\ \A cell \in Cell : ran'[call][cell] = IF cell \in Done \cup {<<r, c>>} THEN 1 ELSE 0
        /\ \A d \in DOMAIN program : d # call => ran'[d] = ran[d]
    BY <1>7, <2>1, LambdaOnce
  <2>3. OtherCalls'
    BY <1>3, <1>7, <2>2 DEF Missed
  <2>4. ThisCall'
    BY <1>7, <2>2 DEF ThisCall, RanOnce
  <2> QED  BY <2>3, <2>4
<1>8. CASE enter
  <2>1. /\ main = "enter" /\ main' = "chunk" /\ i' = loop.start1 /\ j' = loop.start2
        /\ UNCHANGED <<program, call, ran, failed>> /\ \A k \in Worker : worker'[k] = "none"
    BY <1>8 DEF enter
  <2>2. Done' = {}
    <3>1. loop' = loop
      BY <2>1 DEF loop
    <3>2. MainDone' = {}
      BY <1>1, <2>1, <3>1 DEF MainDone, Before, CellsOf
    <3>3. \A k \in Worker : WorkerDone(k)' = {}
      BY <2>1 DEF WorkerDone
    <3> QED  BY <3>2, <3>3 DEF Done
  <2>3. ThisCall'
    BY <2>1, <2>2 DEF ThisCall, RanOnce
  <2> QED  BY <1>4, <2>1, <2>3
<1>9. CASE enter_undefined
  <2>1. /\ main = "enter" /\ main' \in {"crashed", "returned"} /\ loop.numThread <= 0
        /\ UNCHANGED <<program, call, ran, failed>>
    BY <1>9 DEF enter_undefined
  <2>2. Covered(call)' = {} /\ RanOnce(call, {})'
    BY <1>1, <2>1 DEF Covered, ThisCall, RanOnce
  <2>3. ThisCall'
    BY <2>1, <2>2 DEF ThisCall
  <2> QED  BY <1>4, <2>1, <2>3
<1>10. CASE main_chunk
  <2>1. /\ main = "chunk" /\ i < main_end1(loop) /\ loop.start2 < loop.end2 /\ lambda(i, j)
        /\ i' = after(i, j)[1] /\ j' = after(i, j)[2]
        /\ UNCHANGED <<program, call, main, at, worker, failed>>
    BY <1>10 DEF main_chunk
  <2>2. i >= loop.start1 /\ j \in Columns /\ loop.numThread > 0
    BY <2>1 DEF MainPlace, JoinInv
  <2>3. i \in MainRows(loop) /\ <<i, j>> \in CellsOf(loop)
    <3>1. main_end1(loop) \in Int
      BY <1>1, <2>2, ChunkType
    <3>2. i \in MainRows(loop)
      BY <1>1, <2>1, <2>2, <3>1 DEF MainRows
    <3>3. i \in loop.start1 .. loop.end1 - 1
      BY <1>2, <2>2, <3>2 DEF Partitioned
    <3> QED  BY <2>2, <3>2, <3>3 DEF CellsOf, Columns
  <2>4. \A k \in Worker : WorkerDone(k) = {} /\ WorkerDone(k)' = {}
    BY <2>1 DEF JoinInv, WorkerDone
  <2>5. MainDone' = MainDone \cup {<<i, j>>} /\ <<i, j>> \notin MainDone
    <3>1. loop' = loop /\ after(i, j) = <<i', j'>>
      BY <1>1, <2>1, AfterType DEF loop, after
    <3>2. ASSUME NEW cell \in CellsOf(loop)
          PROVE  Before(cell, after(i, j)) <=> Before(cell, <<i, j>>) \/ cell = <<i, j>>
      <4>1. PICK row \in Int, col \in Columns : cell = <<row, col>>
        BY <1>1 DEF CellsOf, Columns
      <4>2. PICK r \in Int, c \in Columns : r = i /\ c = j
        BY <1>1, <2>2
      <4>3. loop \in Loop
        BY <1>1
      <4>4. Before(<<row, col>>, after(r, c))
               <=> Before(<<row, col>>, <<r, c>>) \/ <<row, col>> = <<r, c>>
        BY <1>1 DEF Before, after, Columns
      <4> QED  BY <4>1, <4>2, <4>4
    <3>3. ~ Before(<<i, j>>, <<i, j>>)
      BY <1>1 DEF Before
    <3> QED  BY <2>1, <2>3, <3>1, <3>2, <3>3 DEF MainDone
  <2>6. Done' = Done \cup {<<i, j>>} /\ <<i, j>> \notin Done
    BY <2>4, <2>5 DEF Done
  <2> QED  BY <1>1, <1>7, <2>1, <2>2, <2>3, <2>6
<1>11. CASE main_chunk_done
  <2>1. /\ main = "chunk" /\ main' = "create" /\ (i >= main_end1(loop) \/ loop.start2 >= loop.end2)
        /\ UNCHANGED <<program, call, at, worker, ran, failed>>
    BY <1>11 DEF main_chunk_done
  <2>2. MainDone' = MainDone
    <3>1. loop' = loop
      BY <2>1 DEF loop
    <3>2. ASSUME NEW cell \in CellsOf(loop), cell[1] \in MainRows(loop)
          PROVE  Before(cell, <<i, j>>)
      <4>1. main_end1(loop) \in Int
        BY <1>1, <2>1, ChunkType DEF JoinInv
      <4>2. loop.start2 < loop.end2
        BY <1>1 DEF CellsOf
      <4> QED  BY <1>1, <2>1, <3>2, <4>1, <4>2 DEF MainRows, Before
    <3> QED  BY <2>1, <3>1, <3>2 DEF MainDone
  <2>3. \A k \in Worker : WorkerDone(k)' = WorkerDone(k)
    BY <1>6, <2>1 DEF HasThread
  <2>4. Done' = Done
    BY <2>2, <2>3 DEF Done
  <2>5. OtherCalls'
    BY <1>4, <2>1
  <2>6. ThisCall'
    BY <1>5, <2>1, <2>4
  <2> QED  BY <2>5, <2>6
<1>12. ASSUME UNCHANGED <<program, call>>, main \in {"create", "join"}, main' \in {"create", "join"}
       PROVE  MainDone' = MainDone
  BY <1>12 DEF MainDone, loop
<1>13. CASE pthread_create
  <2>1. /\ main = "create" /\ main' = "create" /\ i < loop.numThread - 1
        /\ UNCHANGED <<program, call, ran, failed>>
    BY <1>13 DEF pthread_create
  <2>2. i \in Worker /\ ~ HasThread(i) /\ loop.numThread > 0
    <3>1. /\ i \in Nat /\ loop.numThread > 0
          /\ \A k \in Worker : k >= i \/ k >= loop.numThread - 1 => worker[k] = "none"
      BY <2>1 DEF JoinInv
    <3>2. i \in 0 .. loop.numThread - 2
      BY <1>1, <2>1, <3>1
    <3> QED  BY <1>1, <3>1, <3>2 DEF HasThread
  <2>3. /\ at'[i] = <<worker_start1(loop, i), loop.start2>>
        /\ \A k \in Worker \ {i} : at'[k] = at[k] /\ worker'[k] = worker[k]
    BY <1>13, <2>2 DEF pthread_create, set_args, TypeOK
  <2>4. ASSUME NEW k \in Worker PROVE WorkerDone(k)' = WorkerDone(k)
    <3>1. loop' = loop
      BY <2>1 DEF loop
    <3>2. CASE k # i
      BY <2>3, <3>1, <3>2 DEF WorkerDone
    <3>3. CASE k = i
      <4>1. WorkerDone(k) = {}
        BY <2>2, <3>3 DEF WorkerDone, HasThread
      <4>2. worker_start1(loop, i) \in Int /\ worker_end1(loop, i) \in Int
        BY <1>1, <2>2, ChunkType
      <4>3. ASSUME NEW cell \in CellsOf(loop), cell[1] \in WorkerRows(loop, k)
            PROVE  ~ Before(cell, at'[k])
        BY <1>1, <2>3, <3>3, <4>2, <4>3 DEF WorkerRows, CellsOf, Before
      <4> QED  BY <3>1, <4>1, <4>3 DEF WorkerDone
    <3> QED  BY <3>2, <3>3
  <2>5. Done' = Done
    BY <1>12, <2>1, <2>4 DEF Done
  <2> QED  BY <1>4, <1>5, <2>1, <2>5
<1>14. CASE pthread_create_fails
  <2>1. /\ main = "create" /\ main' = "create" /\ failed' = failed \cup {<<call, i>>}
        /\ UNCHANGED <<program, call, worker, at, ran>>
    BY <1>14 DEF pthread_create_fails
  <2>2. OtherCalls'
    BY <1>3, <2>1 DEF Missed
  <2>3. Done' = Done
    BY <1>6, <1>12, <2>1 DEF Done, HasThread
  <2> QED  BY <1>5, <2>1, <2>2, <2>3
<1>15. CASE create_done
  <2>1. /\ main = "create" /\ main' = "join" /\ UNCHANGED <<program, call, worker, at, ran, failed>>
    BY <1>15 DEF create_done
  <2>2. Done' = Done
    BY <1>6, <1>12, <2>1 DEF Done, HasThread
  <2> QED  BY <1>4, <1>5, <2>1, <2>2
<1>16. CASE pthread_join
  <2>1. /\ main = "join" /\ main' = "join" /\ UNCHANGED <<program, call, at, ran, failed>>
    BY <1>16 DEF pthread_join
  <2>2. \A k \in Worker : HasThread(k)' <=> HasThread(k)
    <3>1. i \in Worker
      BY <1>1, <1>16 DEF pthread_join, JoinInv
    <3>2. thread_ids[i] \in Worker
      BY <1>16, <3>1 DEF pthread_join, TypeOK
    <3> QED  BY <1>16, <3>2 DEF pthread_join, TypeOK, HasThread
  <2>3. Done' = Done
    BY <1>6, <1>12, <2>1, <2>2 DEF Done
  <2> QED  BY <1>4, <1>5, <2>1, <2>3
<1>17. CASE pthread_join_undefined
  <2>1. /\ main = "join" /\ main' \in {"join", "crashed"}
        /\ UNCHANGED <<program, call, worker, at, ran, failed>>
    BY <1>17 DEF pthread_join_undefined
  <2>2. CASE main' = "join"
    <3>1. Done' = Done
      BY <1>6, <1>12, <2>1, <2>2 DEF Done, HasThread
    <3> QED  BY <1>4, <1>5, <2>1, <2>2, <3>1
  <2>3. CASE main' = "crashed"
    <3>1. Done \in SUBSET CellsOf(loop) /\ RanOnce(call, Done)
      BY <2>1 DEF ThisCall, Done, MainDone, WorkerDone
    <3>2. ThisCall'
      BY <2>1, <2>3, <3>1 DEF ThisCall, RanOnce, loop
    <3> QED  BY <1>4, <2>1, <3>2
  <2> QED  BY <2>1, <2>2, <2>3
<1>18. CASE join_done
  <2>1. /\ main = "join" /\ main' = "returned" /\ UNCHANGED <<program, call, ran, failed>>
    BY <1>18 DEF join_done
  <2>2. Done = Covered(call)
    BY <1>18, JoinedDone DEF join_done
  <2>3. Covered(call)' = Covered(call)
    BY <2>1 DEF Covered, Missed
  <2>4. ThisCall'
    BY <2>1, <2>2, <2>3 DEF ThisCall, RanOnce
  <2> QED  BY <1>4, <2>1, <2>4
<1>19. CASE next_call
  <2>1. /\ main = "returned" /\ main' = "enter" /\ call' = call + 1 /\ call < Len(program)
        /\ UNCHANGED <<program, ran, failed>>
    BY <1>19 DEF next_call
  <2>2. call + 1 \in DOMAIN program
    BY <1>1, <2>1
  <2>3. RanOnce(call, Covered(call)) /\ RanOnce(call + 1, {})
    BY <1>1, <2>1, <2>2 DEF ThisCall, OtherCalls
  <2>4. \A c \in DOMAIN program : Covered(c)' = Covered(c)
    BY <2>1 DEF Covered, Missed
  <2>5. OtherCalls'
    <3> SUFFICES ASSUME NEW c \in DOMAIN program
                 PROVE  /\ c < call + 1 => RanOnce(c, Covered(c))'
                        /\ c > call + 1 => RanOnce(c, {})'
      BY <2>1 DEF OtherCalls
    <3>1. c < call + 1 => c < call \/ c = call
      BY <1>1
    <3>2. c < call + 1 => RanOnce(c, Covered(c))
      BY <2>3, <3>1 DEF OtherCalls
    <3>3. c > call + 1 => RanOnce(c, {})
      BY <1>1 DEF OtherCalls
    <3> QED  BY <2>1, <2>4, <3>2, <3>3 DEF RanOnce
  <2>6. ThisCall'
    BY <2>1, <2>3 DEF ThisCall, RanOnce
  <2> QED  BY <2>5, <2>6
<1>20. ASSUME NEW m \in Worker, thread_lambda(m), main # "crashed" PROVE OtherCalls' /\ ThisCall'
  <2> DEFINE r == at[m][1]
             c == at[m][2]
  <2>1. /\ UNCHANGED <<program, call, main, worker, failed>>
        /\ worker[m] = "running" /\ HasThread(m) /\ rows_left(m) /\ lambda(r, c)
        /\ at' = [at EXCEPT ![m] = after(r, c)]
    BY <1>20 DEF thread_lambda, HasThread
  <2>2. main \in {"create", "join"} /\ loop.numThread > 0
    BY <1>20, <2>1 DEF TypeOK, JoinInv
  <2>3. /\ m \in 0 .. loop.numThread - 2
        /\ args[m] = [start1 |-> worker_start1(loop, m), end1 |-> worker_end1(loop, m)]
        /\ r >= worker_start1(loop, m) /\ r < worker_end1(loop, m)
        /\ loop.start2 < loop.end2 /\ c \in Columns
    BY <2>1, <2>2 DEF ThreadPlaces, ThreadPlace, rows_left
  <2>4. r \in Int /\ at[m] = <<r, c>>
    BY DEF TypeOK
  <2> HIDE DEF r, c
  <2>5. r \in WorkerRows(loop, m) /\ <<r, c>> \in CellsOf(loop)
    <3>1. worker_start1(loop, m) \in Int /\ worker_end1(loop, m) \in Int
      BY <1>1, <2>2, <2>3, ChunkType
    <3>2. r \in WorkerRows(loop, m)
      BY <2>3, <2>4, <3>1 DEF WorkerRows
    <3>3. r \in loop.start1 .. loop.end1 - 1
      BY <1>2, <2>2, <2>3, <3>2 DEF Partitioned
    <3> QED  BY <2>3, <3>2, <3>3 DEF CellsOf, Columns
  <2>6. <<r, c>> \notin Done
    <3>1. <<r, c>> \notin MainDone
      BY <1>2, <2>2, <2>3, <2>5 DEF MainDone, Partitioned
    <3>2. ASSUME NEW k \in Worker, k # m PROVE <<r, c>> \notin WorkerDone(k)
      <4>1. HasThread(k) => k \in 0 .. loop.numThread - 2
        BY <2>2 DEF ThreadPlaces, ThreadPlace
      <4> QED  BY <1>2, <2>2, <2>3, <2>5, <3>2, <4>1 DEF WorkerDone, Partitioned, HasThread
    <3>3. <<r, c>> \notin WorkerDone(m)
      <4>1. c \in Int
        BY <1>1, <2>3 DEF Columns
      <4> QED  BY <2>4, <4>1 DEF WorkerDone, Before
    <3> QED  BY <3>1, <3>2, <3>3 DEF Done
  <2>7. Done' = Done \cup {<<r, c>>}
    <3>1. loop' = loop
      BY <2>1 DEF loop
    <3>2. at'[m] = after(r, c) /\ \A k \in Worker \ {m} : at'[k] = at[k]
      BY <2>1 DEF TypeOK
    <3>3. ASSUME NEW cell \in CellsOf(loop)
          PROVE  Before(cell, after(r, c)) <=> Before(cell, <<r, c>>) \/ cell = <<r, c>>
      <4>1. PICK row \in Int, col \in Columns : cell = <<row, col>>
        BY <1>1 DEF CellsOf, Columns
      <4> QED  BY <1>1, <2>3, <2>4, <4>1, BeforeAfter
    <3>4. WorkerDone(m)' = WorkerDone(m) \cup {<<r, c>>}
      BY <2>1, <2>4, <2>5, <3>1, <3>2, <3>3 DEF WorkerDone, HasThread
    <3>5. \A k \in Worker \ {m} : WorkerDone(k)' = WorkerDone(k)
      BY <2>1, <3>1, <3>2 DEF WorkerDone
    <3>6. MainDone' = MainDone
      BY <1>12, <2>1, <2>2
    <3> QED  BY <3>4, <3>5, <3>6 DEF Done
  <2> QED  BY <1>7, <2>1, <2>2, <2>3, <2>4, <2>5, <2>6, <2>7
<1>21. ASSUME NEW m \in Worker, thread_returns(m), main # "crashed" PROVE OtherCalls' /\ ThisCall'
  <2>1. /\ UNCHANGED <<program, call, main, i, j, at, ran, failed>>
        /\ worker[m] = "running" /\ worker' = [worker EXCEPT ![m] = "returned"]
    BY <1>21 DEF thread_returns
  <2>2. main \in {"create", "join"}
    BY <1>21, <2>1 DEF TypeOK, JoinInv
  <2>3. \A k \in Worker : HasThread(k)' <=> HasThread(k)
    BY <2>1 DEF TypeOK, HasThread
  <2>4. Done' = Done
    BY <1>6, <1>12, <2>1, <2>2, <2>3 DEF Done
  <2> QED  BY <1>4, <1>5, <2>1, <2>2, <2>4
<1>22. CASE UNCHANGED vars
  <2>1. UNCHANGED <<program, call, main, i, j, at, worker, ran, failed>>
    BY <1>22 DEF vars
  <2>2. Done' = Done /\ Covered(call)' = Covered(call) /\ loop' = loop
    BY <2>1 DEF Done, MainDone, WorkerDone, loop, Covered, Missed
  <2>3. ThisCall'
    BY <2>1, <2>2 DEF ThisCall, RanOnce
  <2> QED  BY <1>4, <2>1, <2>3
<1> QED
  BY <1>8, <1>9, <1>10, <1>11, <1>13, <1>14, <1>15, <1>16, <1>17, <1>18, <1>19, <1>20, <1>21, <1>22
     DEF Next, parallel_for, thread_func

\* Both hold initially.
LEMMA InitPlaceRan == Init => PlaceInv /\ RanInv
<1> SUFFICES ASSUME Init PROVE PlaceInv /\ RanInv
  OBVIOUS
<1>1. TypeOK /\ program \in Seq(Loop) /\ call = 1 /\ main = "enter"
  BY InitInductive, ProgramAssumption DEF IInv, Init
<1>2. PlaceInv
  BY <1>1 DEF Init, PlaceInv, MainPlace, ThreadPlaces, MissedInv, Missed
<1>3. \A c \in DOMAIN program : RanOnce(c, {})
  BY <1>1 DEF Init, RanOnce
<1>4. \A c \in DOMAIN program : ~ (c < call)
  BY <1>1
<1>5. RanInv
  BY <1>1, <1>3, <1>4 DEF RanInv, OtherCalls, ThisCall, TypeOK
<1> QED
  BY <1>2, <1>5

\* The three invariants together.
RanIInv == IInv /\ PlaceInv /\ RanInv

LEMMA RanInductive == Spec => []RanIInv
<1>1. Init => RanIInv
  BY InitInductive, InitPlaceRan DEF RanIInv
<1>2. RanIInv /\ [Next]_vars => RanIInv'
  BY Inductive, PlaceStep, RanStep DEF RanIInv
<1> QED
  BY <1>1, <1>2, PTL DEF Spec

\* AtMostOnce holds in every reachable state of every program: whichever creates
\* fail and however the threads interleave, the lambda is never applied twice to
\* a row and column in one call, nor to one outside the range.
THEOREM AtMostOnceCorrect == Spec => []AtMostOnce
<1>1. RanIInv => AtMostOnce
  <2> SUFFICES ASSUME TypeOK, OtherCalls, ThisCall, NEW c \in DOMAIN program, NEW cell \in Cell
               PROVE  ran[c][cell] <= (IF cell \in CellsOf(program[c]) THEN 1 ELSE 0)
    BY DEF RanIInv, IInv, RanInv, AtMostOnce
  <2>1. call \in Int /\ c \in Int /\ loop = program[call]
    BY LoopType DEF TypeOK, loop
  <2>2. \E S \in SUBSET CellsOf(program[c]) : RanOnce(c, S)
    <3>1. Covered(c) \in SUBSET CellsOf(program[c])
      BY DEF Covered
    <3>2. c = call => Done \in SUBSET CellsOf(program[c])
      BY <2>1 DEF Done, MainDone, WorkerDone
    <3>3. CASE c < call
      BY <3>1, <3>3 DEF OtherCalls
    <3>4. CASE c > call
      BY <3>4 DEF OtherCalls
    <3>5. CASE c = call
      BY <2>1, <3>1, <3>2, <3>5 DEF ThisCall, TypeOK
    <3> QED  BY <2>1, <3>3, <3>4, <3>5
  <2> QED  BY <2>2 DEF RanOnce
<1> QED
  BY <1>1, RanInductive, PTL

\* ReturnsComplete holds in every reachable state of every program: a call that
\* has returned has applied its lambda to every cell of its range but those of
\* the threads that could not be created.
THEOREM ReturnsCompleteCorrect == Spec => []ReturnsComplete
<1>1. RanIInv => ReturnsComplete
  <2> SUFFICES ASSUME TypeOK, ThisCall, main = "returned", loop.numThread > 0,
                      NEW cell \in CellsOf(loop)
               PROVE  ran[call][cell] = 0
                         <=> \E k \in Worker : /\ <<call, k>> \in failed
                                               /\ cell[1] \in WorkerRows(loop, k)
    BY DEF RanIInv, IInv, RanInv, ReturnsComplete
  <2>1. call \in DOMAIN program /\ loop = program[call]
    BY DEF TypeOK, loop
  <2>2. cell \in Cell
    BY <2>1, CellsType
  <2>3. RanOnce(call, Covered(call))
    BY DEF ThisCall
  <2>4. cell \in Covered(call) <=> \A k \in Missed(call) : cell[1] \notin WorkerRows(loop, k)
    BY <2>1 DEF Covered
  <2>5. ran[call][cell] = 0 <=> cell \notin Covered(call)
    BY <2>2, <2>3 DEF RanOnce
  <2>6. \A k \in Worker : k \in Missed(call) <=> <<call, k>> \in failed
    BY DEF Missed
  <2>7. Missed(call) \subseteq Worker
    BY DEF Missed
  <2> QED  BY <2>4, <2>5, <2>6, <2>7
<1> QED
  BY <1>1, RanInductive, PTL

\* PhasesOrdered holds of every step of every program: an application of the
\* lambda of one call finds the ranges of the calls before it covered, which is
\* what matrix.cpp relies on when it allocates, multiplies and frees.
THEOREM PhasesCorrect == Spec => PhasesOrdered
<1>1. ASSUME RanIInv, [Next]_vars, NEW c \in DOMAIN program, ran'[c] # ran[c], failed = {},
             NEW b \in 1 .. c - 1, program[b].numThread > 0, NEW cell \in CellsOf(program[b])
      PROVE  ran[b][cell] = 1
  <2> USE DEF threadVars
  <2>1. TypeOK /\ OtherCalls
    BY <1>1 DEF RanIInv, IInv, RanInv
  <2>2. c = call
    <3>1. \/ ran' = ran
          \/ \E row, col : lambda(row, col)
      BY <1>1 DEF Next, parallel_for, thread_func, vars, enter, enter_undefined, main_chunk,
                  main_chunk_done, pthread_create, pthread_create_fails, create_done,
                  pthread_join, pthread_join_undefined, join_done, next_call, thread_lambda,
                  thread_returns
    <3>2. ran \in [DOMAIN program -> [Cell -> Nat]]
      BY <2>1 DEF TypeOK
    <3> QED  BY <1>1, <3>1, <3>2 DEF lambda
  <2>3. call \in 1 .. Len(program) /\ program \in Seq(Loop)
    BY <2>1, LoopType DEF TypeOK
  <2>4. b \in DOMAIN program /\ b < call
    BY <1>1, <2>2, <2>3
  <2>5. RanOnce(b, Covered(b)) /\ cell \in Cell
    BY <1>1, <2>1, <2>4, CellsType DEF OtherCalls
  <2>6. Covered(b) = CellsOf(program[b])
    BY <1>1 DEF Covered, Missed
  <2> QED  BY <1>1, <2>5, <2>6 DEF RanOnce
<1>2. RanIInv /\ [Next]_vars =>
          [\A c \in DOMAIN program :
              ran'[c] # ran[c] /\ failed = {} =>
                  \A b \in 1 .. c - 1 : program[b].numThread > 0 =>
                      \A cell \in CellsOf(program[b]) : ran[b][cell] = 1]_vars
  BY <1>1
<1> QED
  BY <1>2, RanInductive, PTL DEF Spec, PhasesOrdered
=============================================================================
