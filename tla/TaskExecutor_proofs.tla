------------------------- MODULE TaskExecutor_proofs -------------------------
(***************************************************************************)
(* Proofs about TaskExecutor for every number of items and tasks, every    *)
(* output of the tasks and every interleaving of the threads.              *)
(***************************************************************************)
EXTENDS TaskExecutor, SequenceTheorems, TLAPS

-----------------------------------------------------------------------------
(* The inductive invariant.                                                *)

\* The items handed out to the first k batches, in closed form: all batches
\* get in.size() / workers items and the first in.size() % workers get one more.
Extra(k) == IF k <= inSize % Workers THEN k ELSE inSize % Workers

Cut(k) == k * (inSize \div Workers) + Extra(k)

\* The items before worker w's iterator whose output has been pushed.
Pushed(w) == pos[w] + (IF wpc[w] = "count" THEN 1 ELSE 0)

PhaseInv ==
  /\ NothingToDo => pc \in {"execute", "done"} /\ spawned = 0 /\ rpc = "idle"
  /\ pc = "execute" => spawned = 0
  /\ pc = "spawn" => ~Sequential
  /\ pc \in {"join", "merge"} => spawned = Counters
  /\ pc = "merge" => ~Sequential /\ AllJoined
  /\ pc = "done" /\ ~NothingToDo =>
       /\ spawned = Counters
       /\ AllJoined
       /\ ~Sequential => merged = Workers
  /\ ~NothingToDo => spawned <= Counters /\ summed <= Counters
  /\ pc \notin {"merge", "done"} => merged = 0
  /\ merged <= spawned
  /\ Sequential => merged = 0

CutInv ==
  /\ spawned = 0 => end = 0
  /\ spawned > 0 => end = IF Sequential THEN inSize ELSE Cut(spawned)

BatchInv ==
  /\ \A w \in 1..spawned :
       /\ first[w] <= pos[w] /\ pos[w] <= last[w] /\ last[w] <= end
       /\ wpc[w] # "idle"
       /\ wpc[w] = "count" => pos[w] < last[w]
       /\ wpc[w] = "exit" => pos[w] = last[w]
       /\ counter[w] = pos[w] - first[w]
  /\ \A w \in Worker : w > spawned =>
       wpc[w] = "idle" /\ counter[w] = 0 /\ pos[w] = 0 /\ storage[w] = << >>
  /\ spawned > 0 => first[1] = 0 /\ last[spawned] = end
  /\ \A v, w \in 1..spawned : v < w => last[v] <= first[w]
  /\ \A w \in 1..spawned : w + 1 <= spawned => last[w] = first[w + 1]

StorageInv ==
  ~Sequential =>
    \A w \in 1..spawned : LoopOut[first[w]] \o storage[w] = LoopOut[Pushed(w)]

OutInv == out = LoopOut[Appended]

IInv == TypeOK /\ PhaseInv /\ CutInv /\ BatchInv /\ StorageInv /\ OutInv

-----------------------------------------------------------------------------
(* Arithmetic of taskBatches.                                              *)

\* Division with remainder by a positive divisor.
LEMMA DivMod ==
  \A n \in Int, m \in Nat \ {0} :
    n \div m \in Int /\ n % m \in 0..(m - 1) /\ n = m * (n \div m) + (n % m)
  OBVIOUS

\* Multiplication distributes: the form in which the provers need it.
LEMMA Distribute ==
  \A a, b, c \in Int :
    a * (b - c) = a * b - a * c /\ (a + 1) * b = a * b + b
  OBVIOUS

\* A multiple of m strictly between -m and m is 0.
LEMMA SmallMultiple ==
  \A m \in Nat \ {0}, z \in Int : m * z < m /\ m * z > 0 - m => z = 0
<1> TAKE m \in Nat \ {0}, z \in Int
<1>1. CASE z >= 1
  BY <1>1
<1>2. CASE z <= 0 - 1
  BY <1>2
<1> QED  BY <1>1, <1>2

\* Quotient and remainder are unique.
LEMMA DivModUnique ==
  ASSUME NEW a \in Int, NEW m \in Nat \ {0}, NEW x \in Int, NEW y \in 0..(m - 1),
         a = m * x + y
  PROVE  a \div m = x /\ a % m = y
<1> DEFINE d == a \div m
           e == a % m
<1>1. d \in Int /\ e \in 0..(m - 1) /\ a = m * d + e
  BY DivMod
<1> HIDE DEF d, e
<1>2. m * (x - d) = m * x - m * d
  BY <1>1, Distribute
<1>3. m * (x - d) = e - y
  BY <1>1, <1>2
<1>4. x - d = 0
  BY <1>1, <1>3, SmallMultiple
<1>5. x = d
  BY <1>1, <1>4
<1>6. e = y
  BY <1>1, <1>5
<1> QED  BY <1>5, <1>6 DEF d, e

\* (n-k)/m + ((n-k)%m != 0), the size taskBatches gives to batch k, is n/m,
\* plus one for the first n%m batches.
LEMMA CeilingOfShifted ==
  ASSUME NEW n \in Nat, NEW m \in Nat \ {0}, NEW k \in 0..(m - 1)
  PROVE  (n - k) \div m + (IF (n - k) % m # 0 THEN 1 ELSE 0)
           = IF k < n % m THEN (n \div m) + 1 ELSE n \div m
<1> DEFINE q == n \div m
           r == n % m
           a == n - k
<1>1. q \in Int /\ r \in 0..(m - 1) /\ n = m * q + r
  BY DivMod
<1>2. a \in Int /\ a = n - k
  OBVIOUS
<1> HIDE DEF q, r, a
<1>3. CASE k <= r
  <2> DEFINE y == r - k
  <2>1. y \in 0..(m - 1) /\ (y = 0 <=> k = r)
    BY <1>1, <1>3
  <2>2. a = m * q + y
    BY <1>1, <1>2
  <2> HIDE DEF y
  <2>3. a \div m = q /\ a % m = y
    BY <1>1, <1>2, <2>1, <2>2, DivModUnique
  <2> QED  BY <2>1, <2>3, <1>1, <1>3 DEF a, q, r
<1>4. CASE k > r
  <2> DEFINE y == m + r - k
             p == q - 1
  <2>1. y \in 1..(m - 1) /\ p \in Int /\ q = p + 1
    BY <1>1, <1>4
  <2>2. m * p = m * q - m
    BY <1>1, Distribute
  <2>3. a = m * p + y
    BY <1>1, <1>2, <2>2
  <2> HIDE DEF y, p
  <2>4. a \div m = p /\ a % m = y
    BY <1>1, <1>2, <2>1, <2>3, DivModUnique
  <2> QED  BY <2>1, <2>4, <1>1, <1>4 DEF a, q, r
<1> QED  BY <1>1, <1>3, <1>4 DEF q, r

\* Adding batch k moves the cut from Cut(k) to Cut(k+1), and the last cut is
\* the end of the input: the asserts of taskBatches, for all sizes.
LEMMA CutStep ==
  ASSUME inSize \in Nat, Workers \in Nat \ {0}
  PROVE  /\ Cut(0) = 0
         /\ Cut(Workers) = inSize
         /\ \A k \in 0..(Workers - 1) :
              /\ Cut(k + 1) = Cut(k) + TaskBatch(k)
              /\ TaskBatch(k) \in Nat
         /\ \A k \in 0..Workers : Cut(k) \in 0..inSize
<1> DEFINE n == inSize
           m == Workers
           q == n \div m
           r == n % m
<1>1. q \in Int /\ r \in 0..(m - 1) /\ n = m * q + r
  BY DivMod
<1>2. m \in Nat \ {0} /\ n \in Nat
  OBVIOUS
<1> DEFINE X(k) == IF k <= r THEN k ELSE r
<1>3. \A k : Cut(k) = k * q + X(k)
  BY DEF Cut, Extra
<1>4. \A k \in 0..(m - 1) : TaskBatch(k) = IF k < r THEN q + 1 ELSE q
  <2> TAKE k \in 0..(m - 1)
  <2>1. (n - k) \div m + (IF (n - k) % m # 0 THEN 1 ELSE 0)
          = IF k < n % m THEN (n \div m) + 1 ELSE n \div m
    BY <1>2, CeilingOfShifted
  <2> QED  BY <2>1 DEF TaskBatch
<1> HIDE DEF n, m, q, r
<1>5. q \in Nat
  <2>1. CASE q <= 0 - 1
    <3>1. m * q <= 0 - m
      BY <2>1, <1>1, <1>2
    <3> QED  BY <3>1, <1>1, <1>2
  <2> QED  BY <2>1, <1>1
<1>6. Cut(0) = 0
  BY <1>1, <1>3, <1>5
<1>7. Cut(m) = n
  BY <1>1, <1>2, <1>3, <1>5
<1>8. \A k \in 0..(m - 1) :
        Cut(k + 1) = Cut(k) + TaskBatch(k) /\ TaskBatch(k) \in Nat
  <2> TAKE k \in 0..(m - 1)
  <2>1. (k + 1) * q = k * q + q
    BY <1>2, <1>5, Distribute
  <2>2. X(k + 1) = X(k) + (IF k < r THEN 1 ELSE 0)
    BY <1>1, <1>2
  <2>3. k * q \in Int /\ X(k) \in Int
    BY <1>1, <1>2, <1>5
  <2> HIDE DEF X
  <2> QED  BY <2>1, <2>2, <2>3, <1>3, <1>4, <1>5
<1>9. \A k \in 0..m : Cut(k) \in 0..n
  <2> TAKE k \in 0..m
  <2>1. k * q \in Nat
    BY <1>2, <1>5
  <2>2. m * q = k * q + (m - k) * q
    BY <1>2, <1>5
  <2>3. (m - k) * q \in Nat
    BY <1>2, <1>5
  <2>4. X(k) \in 0..r
    BY <1>1, <1>2
  <2> HIDE DEF X
  <2> QED  BY <2>1, <2>2, <2>3, <2>4, <1>1, <1>2, <1>3
<1> QED  BY <1>6, <1>7, <1>8, <1>9 DEF n, m

-----------------------------------------------------------------------------
(* The invariant holds initially and every action preserves it.            *)

USE BoundsAssumption DEF Worker

\* Facts about sizes that most steps need.
LEMMA Sizes ==
  ASSUME MainTypeOK
  PROVE  /\ Workers \in 0..inSize /\ Workers \in 0..taskCount
         /\ ~NothingToDo => /\ Workers \in Nat \ {0}
                            /\ Counters \in 1..MaxTasks
                            /\ Counters <= Workers
  BY DEF MainTypeOK, Workers, Counters, NothingToDo, Sequential

\* In the initial state no thread runs and out is empty.
LEMMA InitIInv == Init => IInv
<1> SUFFICES ASSUME Init PROVE IInv
  OBVIOUS
<1>1. TypeOK
  BY DEF Init, TypeOK, MainTypeOK, WorkTypeOK, ReportTypeOK, DataTypeOK
<1>2. PhaseInv /\ CutInv
  BY <1>1, Sizes
     DEF Init, TypeOK, PhaseInv, CutInv, NothingToDo, Sequential, Counters
<1>3. BatchInv
  BY DEF Init, BatchInv
<1>4. StorageInv
  BY DEF Init, StorageInv
<1>5. Appended = 0
  BY DEF Init, Appended, NothingToDo, Sequential
<1>6. OutInv
  BY <1>5, LoopOutAssumption DEF Init, OutInv
<1> QED  BY <1>1, <1>2, <1>3, <1>4, <1>6 DEF IInv

\* The end iterator never leaves the input.
LEMMA EndInRange ==
  ASSUME MainTypeOK, PhaseInv, CutInv
  PROVE  end <= inSize
<1>1. CASE spawned = 0
  BY <1>1 DEF MainTypeOK, CutInv
<1>2. CASE spawned > 0 /\ Sequential
  BY <1>2 DEF MainTypeOK, CutInv
<1>3. CASE spawned > 0 /\ ~Sequential
  <2>1. ~NothingToDo /\ spawned \in 0..Workers
    BY <1>3, Sizes DEF MainTypeOK, PhaseInv, Counters
  <2>2. Cut(spawned) \in 0..inSize
    BY <2>1, Sizes, CutStep DEF MainTypeOK
  <2> QED  BY <1>3, <2>2 DEF CutInv
<1> QED  BY <1>1, <1>2, <1>3 DEF MainTypeOK

\* Starting a task on the next n items, with n inside the input, keeps the
\* batches consecutive.
LEMMA StartTaskBatches ==
  ASSUME MainTypeOK, WorkTypeOK, BatchInv, CutInv,
         NEW n \in Nat, end + n <= inSize, spawned < MaxTasks,
         StartTask(n), UNCHANGED << storage, counter >>
  PROVE  /\ BatchInv'
         /\ WorkTypeOK'
         /\ spawned' = spawned + 1 /\ end' = end + n
         /\ spawned' \in 0..MaxTasks /\ end' \in 0..MaxIn
<1> DEFINE x == spawned + 1
<1>1. /\ x \in Worker /\ x \in Nat /\ spawned \in Nat
      /\ 1..x = (1..spawned) \cup {x} /\ \A w \in 1..spawned : w \in Worker /\ w < x
  BY DEF MainTypeOK
<1>2. end + n \in 0..MaxIn /\ end \in 0..MaxIn
  BY DEF MainTypeOK
<1>3. /\ spawned' = x /\ end' = end + n
      /\ first' = [first EXCEPT ![x] = end] /\ pos' = [pos EXCEPT ![x] = end]
      /\ last' = [last EXCEPT ![x] = end + n]
      /\ wpc' = [wpc EXCEPT ![x] = "item"]
      /\ counter' = counter /\ storage' = storage
  BY DEF StartTask
<1> HIDE DEF x
<1>4. \A w \in Worker : w # x =>
        /\ first'[w] = first[w] /\ last'[w] = last[w]
        /\ pos'[w] = pos[w] /\ wpc'[w] = wpc[w]
  BY <1>3 DEF WorkTypeOK
<1>5. first'[x] = end /\ last'[x] = end + n /\ pos'[x] = end /\ wpc'[x] = "item"
  BY <1>1, <1>3 DEF WorkTypeOK
<1>6. WorkTypeOK'
  BY <1>1, <1>2, <1>3 DEF WorkTypeOK
<1>7. counter[x] = 0
  BY <1>1 DEF BatchInv, x
<1>8. \A w \in Worker : first[w] \in Nat /\ last[w] \in Nat /\ pos[w] \in Nat
  BY DEF WorkTypeOK
<1>9. BatchInv'
  <2>1. \A w \in 1..x :
          /\ first'[w] <= pos'[w] /\ pos'[w] <= last'[w] /\ last'[w] <= end'
          /\ wpc'[w] # "idle"
          /\ wpc'[w] = "count" => pos'[w] < last'[w]
          /\ wpc'[w] = "exit" => pos'[w] = last'[w]
          /\ counter'[w] = pos'[w] - first'[w]
    <3> TAKE w \in 1..x
    <3>1. CASE w = x
      BY <3>1, <1>2, <1>3, <1>5, <1>7
    <3>2. CASE w # x
      <4>1. /\ w \in 1..spawned /\ w \in Worker
            /\ first'[w] = first[w] /\ last'[w] = last[w]
            /\ pos'[w] = pos[w] /\ wpc'[w] = wpc[w] /\ counter'[w] = counter[w]
        BY <3>2, <1>1, <1>3, <1>4
      <4>2. /\ first[w] <= pos[w] /\ pos[w] <= last[w] /\ last[w] <= end
            /\ wpc[w] # "idle"
            /\ wpc[w] = "count" => pos[w] < last[w]
            /\ wpc[w] = "exit" => pos[w] = last[w]
            /\ counter[w] = pos[w] - first[w]
        BY <4>1 DEF BatchInv
      <4> QED  BY <4>1, <4>2, <1>2, <1>3, <1>8
    <3> QED  BY <3>1, <3>2
  <2>2. \A w \in Worker : w > x =>
          wpc'[w] = "idle" /\ counter'[w] = 0 /\ pos'[w] = 0 /\ storage'[w] = << >>
    BY <1>1, <1>3, <1>4 DEF BatchInv, x
  <2>3. first'[1] = 0 /\ last'[x] = end'
    <3>1. CASE spawned = 0
      BY <3>1, <1>3, <1>5 DEF x, CutInv
    <3>2. CASE spawned > 0
      BY <3>2, <1>1, <1>3, <1>4, <1>5 DEF x, BatchInv
    <3> QED  BY <3>1, <3>2, <1>1
  <2>4. \A v, w \in 1..x : v < w => last'[v] <= first'[w]
    <3> SUFFICES ASSUME NEW v \in 1..x, NEW w \in 1..x, v < w
                 PROVE  last'[v] <= first'[w]
      OBVIOUS
    <3>1. v \in 1..spawned /\ last'[v] = last[v]
      BY <1>1, <1>4
    <3>2. CASE w = x
      BY <3>1, <3>2, <1>5 DEF BatchInv
    <3>3. CASE w # x
      BY <3>1, <3>3, <1>1, <1>4 DEF BatchInv
    <3> QED  BY <3>2, <3>3
  <2>5. \A w \in 1..x : w + 1 <= x => last'[w] = first'[w + 1]
    <3> SUFFICES ASSUME NEW w \in 1..x, w + 1 <= x
                 PROVE  last'[w] = first'[w + 1]
      OBVIOUS
    <3>1. w \in 1..spawned /\ last'[w] = last[w]
      BY <1>1, <1>4
    <3>2. CASE w = spawned
      BY <3>1, <3>2, <1>1, <1>5 DEF BatchInv, x
    <3>3. CASE w # spawned
      BY <3>1, <3>3, <1>1, <1>4 DEF BatchInv, x
    <3> QED  BY <3>2, <3>3
  <2> QED  BY <2>1, <2>2, <2>3, <2>4, <2>5, <1>3 DEF BatchInv
<1> QED  BY <1>1, <1>2, <1>3, <1>6, <1>9 DEF x

\* What a step that touches neither the batches nor the workers preserves.
LEMMA Frame ==
  ASSUME IInv, UNCHANGED << inSize, taskCount, spawned, end, first, last, workVars >>
  PROVE  /\ WorkTypeOK' /\ CutInv' /\ BatchInv' /\ StorageInv'
         /\ UNCHANGED << merged, out >> => OutInv' /\ DataTypeOK'
<1> USE DEF workVars
<1>1. WorkTypeOK'
  BY DEF IInv, TypeOK, WorkTypeOK
<1>2. CutInv'
  BY DEF IInv, CutInv, Cut, Extra, Workers, Sequential
<1>3. BatchInv'
  BY DEF IInv, BatchInv
<1>4. StorageInv'
  BY DEF IInv, StorageInv, Pushed, Sequential
<1>5. ASSUME UNCHANGED << merged, out >>
      PROVE  OutInv' /\ DataTypeOK'
  BY <1>5 DEF IInv, TypeOK, DataTypeOK, OutInv, Appended, NothingToDo, Sequential
<1> QED  BY <1>1, <1>2, <1>3, <1>4, <1>5

\* The steps of the calling thread that only move its pc.
LEMMA MainFrame ==
  ASSUME IInv,
         \/ EarlyReturn \/ ExecuteInParallel \/ SpawnReporter \/ Join \/ Return
  PROVE  IInv'
<1> USE DEF EarlyReturn, ExecuteInParallel, SpawnReporter, Join, Return,
            StartReporter
<1>1. UNCHANGED << inSize, taskCount, spawned, end, first, last, workVars >>
  OBVIOUS
<1>2. UNCHANGED << merged, out, summed, current, previousValue >>
  BY DEF reportVars
<1>3. WorkTypeOK' /\ CutInv' /\ BatchInv' /\ StorageInv' /\ OutInv' /\ DataTypeOK'
  BY <1>1, <1>2, Frame
<1>4. MainTypeOK' /\ ReportTypeOK'
  BY <1>1, <1>2 DEF IInv, TypeOK, MainTypeOK, ReportTypeOK, reportVars
<1>5. PhaseInv'
  <2> USE <1>1, <1>2, Sizes DEF workVars, reportVars, IInv, TypeOK, PhaseInv,
          NothingToDo, Sequential, Counters, Workers, AllJoined
  <2>1. CASE EarlyReturn
    BY <2>1
  <2>2. CASE ExecuteInParallel
    BY <2>2
  <2>3. CASE SpawnReporter
    BY <2>3
  <2>4. CASE Join
    BY <2>4
  <2>5. CASE Return
    BY <2>5
  <2> QED  BY <2>1, <2>2, <2>3, <2>4, <2>5
<1> QED  BY <1>3, <1>4, <1>5 DEF IInv, TypeOK

\* A step of the reporter changes its own sum and nothing the batches depend on.
LEMMA ReporterStep ==
  ASSUME IInv, Reporter
  PROVE  IInv'
<1> USE DEF Reporter, ReadCounter, ReportRound, mainVars
<1>1. UNCHANGED << inSize, taskCount, pc, spawned, end, first, last, workVars,
                   merged, out >>
  OBVIOUS
<1>2. WorkTypeOK' /\ CutInv' /\ BatchInv' /\ StorageInv' /\ OutInv' /\ DataTypeOK'
  BY <1>1, Frame
<1>3. ~NothingToDo
  BY DEF IInv, PhaseInv
<1>4. rpc = "read" /\ summed \in Nat /\ Counters \in 1..MaxTasks
  BY <1>3, Sizes DEF IInv, TypeOK, ReportTypeOK
<1>5. MainTypeOK'
  BY <1>1 DEF IInv, TypeOK, MainTypeOK
<1>6. ReportTypeOK' /\ summed' \in 0..Counters /\ rpc' # "idle"
  <2>1. CASE ReadCounter
    <3>1. summed + 1 \in Worker
      BY <2>1, <1>4
    <3>2. counter[summed + 1] \in Nat
      BY <3>1 DEF IInv, TypeOK, WorkTypeOK
    <3> QED  BY <2>1, <3>2, <1>4 DEF IInv, TypeOK, ReportTypeOK
  <2>2. CASE ReportRound
    BY <2>2, <1>4 DEF IInv, TypeOK, ReportTypeOK
  <2> QED  BY <2>1, <2>2
<1>7. Counters' = Counters /\ (AllJoined => AllJoined')
  BY <1>1, <1>4 DEF Counters, Workers, Sequential, AllJoined, workVars
<1>8. PhaseInv'
  BY <1>1, <1>3, <1>4, <1>6, <1>7
     DEF IInv, PhaseInv, NothingToDo, Sequential, Workers
<1> QED  BY <1>2, <1>5, <1>6, <1>8 DEF IInv, TypeOK

\* A new worker starts with an empty storage at the beginning of its batch.
LEMMA StartTaskStorage ==
  ASSUME IInv, NEW n \in Nat, spawned < MaxTasks, StartTask(n), end \in 0..MaxIn,
         UNCHANGED << inSize, taskCount, storage >>
  PROVE  StorageInv'
<1> SUFFICES ASSUME ~Sequential, NEW w \in 1..spawned'
             PROVE  LoopOut[first'[w]] \o storage'[w] = LoopOut[Pushed(w)']
  BY DEF StorageInv, Sequential
<1>1. spawned \in Nat /\ spawned' = spawned + 1 /\ spawned + 1 \in Worker
  BY DEF StartTask, IInv, TypeOK, MainTypeOK
<1>2. CASE w = spawned + 1
  <2>1. first'[w] = end /\ pos'[w] = end /\ wpc'[w] = "item"
    BY <1>1, <1>2 DEF StartTask, IInv, TypeOK, WorkTypeOK
  <2>2. Pushed(w)' = end
    BY <2>1 DEF Pushed
  <2>3. storage'[w] = << >>
    BY <1>1, <1>2 DEF IInv, BatchInv
  <2>4. LoopOut[end] \in Seq(Result)
    BY LoopOutAssumption
  <2> QED  BY <2>1, <2>2, <2>3, <2>4, ConcatEmptySeq
<1>3. CASE w # spawned + 1
  <2>1. w \in 1..spawned /\ w \in Worker
    BY <1>1, <1>3
  <2>2. first'[w] = first[w] /\ pos'[w] = pos[w] /\ wpc'[w] = wpc[w]
    BY <2>1, <1>3 DEF StartTask, IInv, TypeOK, WorkTypeOK
  <2>3. Pushed(w)' = Pushed(w)
    BY <2>2 DEF Pushed
  <2> QED  BY <2>1, <2>2, <2>3 DEF IInv, StorageInv
<1> QED  BY <1>2, <1>3

\* The spawn loop starts the next worker on the next batch.
LEMMA SpawnWorkerStep ==
  ASSUME IInv, SpawnWorker
  PROVE  IInv'
<1> DEFINE n == TaskBatch(spawned)
<1>1. ~NothingToDo /\ ~Sequential /\ merged = 0
  BY DEF SpawnWorker, IInv, PhaseInv
<1>2. /\ Workers \in Nat \ {0} /\ Counters = Workers /\ Workers <= MaxTasks
      /\ spawned \in 0..(Workers - 1)
  BY <1>1, Sizes DEF SpawnWorker, IInv, TypeOK, MainTypeOK, Counters
<1>3. end = Cut(spawned) /\ inSize \in Nat
  BY <1>1, <1>2, CutStep DEF IInv, TypeOK, MainTypeOK, CutInv
<1>4. /\ n \in Nat /\ Cut(spawned + 1) = Cut(spawned) + n
      /\ Cut(spawned + 1) \in 0..inSize
  BY <1>2, <1>3, CutStep
<1>5. StartTask(n) /\ UNCHANGED << inSize, taskCount, pc, storage, counter,
                                   reportVars, merged, out >>
  BY DEF SpawnWorker
<1> HIDE DEF n
<1>6. end + n <= inSize /\ spawned < MaxTasks /\ end \in 0..MaxIn
  BY <1>2, <1>3, <1>4 DEF IInv, TypeOK, MainTypeOK
<1>7. /\ BatchInv' /\ WorkTypeOK'
      /\ spawned' = spawned + 1 /\ end' = end + n
      /\ spawned' \in 0..MaxTasks /\ end' \in 0..MaxIn
  BY <1>4, <1>5, <1>6, StartTaskBatches DEF IInv, TypeOK
<1>8. StorageInv'
  BY <1>4, <1>5, <1>6, StartTaskStorage
<1>9. MainTypeOK' /\ ReportTypeOK' /\ DataTypeOK'
  BY <1>5, <1>7
     DEF IInv, TypeOK, MainTypeOK, ReportTypeOK, DataTypeOK, reportVars
<1>10. CutInv'
  <2>1. Cut(spawned + 1)' = Cut(spawned' + 1) /\ Workers' = Workers /\ ~Sequential'
    BY <1>1, <1>5 DEF Workers, Sequential, Cut, Extra
  <2>2. Cut(spawned)' = Cut(spawned')
    BY <1>5, <2>1 DEF Cut, Extra
  <2> QED  BY <1>2, <1>3, <1>4, <1>7, <2>1, <2>2 DEF CutInv
<1>11. PhaseInv'
  BY <1>1, <1>2, <1>5, <1>7
     DEF SpawnWorker, IInv, PhaseInv, NothingToDo, Sequential, Counters, Workers,
         reportVars
<1>12. OutInv'
  BY <1>1, <1>5 DEF IInv, OutInv, Appended, NothingToDo, Sequential
<1> QED  BY <1>7, <1>8, <1>9, <1>10, <1>11, <1>12 DEF IInv, TypeOK

\* The sequential case starts one task on the whole input.
LEMMA ExecuteSequentiallyStep ==
  ASSUME IInv, ExecuteSequentially
  PROVE  IInv'
<1>1. /\ ~NothingToDo /\ Sequential /\ spawned = 0 /\ merged = 0 /\ end = 0
      /\ pc = "execute"
  BY DEF ExecuteSequentially, IInv, PhaseInv, CutInv
<1>2. /\ StartTask(inSize) /\ rpc' = "read" /\ pc' = "join"
      /\ UNCHANGED << inSize, taskCount, storage, counter,
                      summed, current, previousValue, merged, out >>
  BY DEF ExecuteSequentially, StartReporter
<1>3. inSize \in Nat /\ end + inSize <= inSize /\ spawned < MaxTasks /\ 1 \in Worker
  BY <1>1 DEF IInv, TypeOK, MainTypeOK, NothingToDo
<1>4. /\ BatchInv' /\ WorkTypeOK'
      /\ spawned' = 1 /\ end' = inSize
      /\ spawned' \in 0..MaxTasks /\ end' \in 0..MaxIn
  BY <1>1, <1>2, <1>3, StartTaskBatches DEF IInv, TypeOK
<1>5. StorageInv' /\ CutInv'
  <2>1. Sequential' /\ inSize' = inSize
    BY <1>1, <1>2 DEF Sequential
  <2>2. StorageInv'
    BY <2>1 DEF StorageInv
  <2>3. CutInv'
    BY <2>1, <1>4 DEF CutInv
  <2> QED  BY <2>2, <2>3
<1>6. MainTypeOK' /\ ReportTypeOK' /\ DataTypeOK'
  BY <1>2, <1>4 DEF IInv, TypeOK, MainTypeOK, ReportTypeOK, DataTypeOK
<1>7. PhaseInv'
  BY <1>1, <1>2, <1>4
     DEF IInv, PhaseInv, NothingToDo, Sequential, Counters, Workers
<1>8. OutInv'
  <2>1. pos[1] = 0 /\ wpc[1] = "idle" /\ pos'[1] = 0 /\ wpc'[1] = "item"
    BY <1>1, <1>2, <1>3 DEF IInv, TypeOK, WorkTypeOK, BatchInv, StartTask
  <2>2. Appended = 0 /\ Appended' = 0
    BY <2>1, <1>1, <1>2 DEF Appended, NothingToDo, Sequential
  <2> QED  BY <2>2, <1>2 DEF IInv, OutInv
<1> QED  BY <1>4, <1>5, <1>6, <1>7, <1>8 DEF IInv, TypeOK

\* The storage that is moved continues out where it ends.
LEMMA MergeStorageStep ==
  ASSUME IInv, MergeStorage
  PROVE  /\ IInv'
         /\ Appended <= Appended' /\ Appended' \in 0..inSize /\ Appended \in Nat
<1> DEFINE j == merged + 1
<1>1. /\ ~NothingToDo /\ ~Sequential /\ AllJoined /\ spawned = Workers
      /\ merged \in 0..(Workers - 1) /\ Workers <= MaxTasks /\ Workers \in Nat
  BY Sizes DEF MergeStorage, IInv, TypeOK, MainTypeOK, PhaseInv, Counters
<1>2. j \in 1..spawned /\ j \in Worker /\ merged \in Nat
  BY <1>1
<1>3. /\ out' = out \o storage[j] /\ merged' = j
      /\ UNCHANGED << inSize, taskCount, pc, spawned, end, first, last,
                      workVars, reportVars >>
  BY DEF MergeStorage, mainVars
<1> HIDE DEF j
<1>4. WorkTypeOK' /\ CutInv' /\ BatchInv' /\ StorageInv'
  BY <1>3, Frame
<1>5. MainTypeOK' /\ ReportTypeOK'
  BY <1>1, <1>2, <1>3
     DEF IInv, TypeOK, MainTypeOK, ReportTypeOK, reportVars, j
<1>6. PhaseInv'
  BY <1>1, <1>2, <1>3, <1>4
     DEF MergeStorage, IInv, PhaseInv, NothingToDo, Sequential, Counters, Workers,
         AllJoined, workVars, reportVars
<1>7. Appended = first[j] /\ first[j] \in 0..MaxIn
  <2>1. first[j] \in 0..MaxIn
    BY <1>2 DEF IInv, TypeOK, WorkTypeOK
  <2>2. CASE merged = 0
    <3>1. j = 1 /\ spawned > 0
      BY <2>2, <1>1, <1>2 DEF j
    <3>2. first[1] = 0
      BY <3>1 DEF IInv, BatchInv
    <3> QED  BY <2>1, <2>2, <3>1, <3>2, <1>1 DEF Appended
  <2>3. CASE merged # 0
    <3>1. merged \in 1..spawned /\ merged + 1 <= spawned
      BY <2>3, <1>1, <1>2 DEF j
    <3>2. last[merged] = first[merged + 1]
      BY <3>1 DEF IInv, BatchInv
    <3>3. Appended = last[merged]
      BY <2>3, <1>1 DEF Appended
    <3> QED  BY <2>1, <3>2, <3>3 DEF j
  <2> QED  BY <2>2, <2>3
<1>8. /\ Pushed(j) = last[j] /\ last[j] \in 0..MaxIn /\ first[j] <= last[j]
      /\ last[j] <= end
  BY <1>1, <1>2
     DEF AllJoined, Pushed, IInv, TypeOK, WorkTypeOK, BatchInv
<1>9. Appended' = last[j]
  BY <1>1, <1>2, <1>3 DEF Appended, NothingToDo, Sequential, j
<1>10. out' = LoopOut[last[j]]
  BY <1>1, <1>2, <1>3, <1>7, <1>8 DEF IInv, OutInv, StorageInv
<1>11. OutInv' /\ DataTypeOK'
  <2>1. LoopOut[last[j]] \in Seq(Result)
    BY <1>8, LoopOutAssumption
  <2> QED  BY <2>1, <1>3, <1>9, <1>10
           DEF OutInv, DataTypeOK, IInv, TypeOK, workVars
<1>12. end <= inSize
  BY EndInRange DEF IInv, TypeOK
<1>13. Appended <= Appended' /\ Appended' \in 0..inSize /\ Appended \in Nat
  BY <1>7, <1>8, <1>9, <1>12 DEF IInv, TypeOK, MainTypeOK
<1> QED  BY <1>4, <1>5, <1>6, <1>11, <1>13 DEF IInv, TypeOK

\* A task at work: an item's output extends the storage (or out, when the
\* calling thread runs the only task) by exactly that item.
LEMMA ProcessItemStep ==
  ASSUME IInv, NEW w \in Worker, ProcessItem(w)
  PROVE  /\ IInv'
         /\ Appended <= Appended' /\ Appended' \in 0..inSize /\ Appended \in Nat
<1> DEFINE i == pos[w] + 1
<1>1. /\ wpc[w] = "item" /\ pos[w] < last[w]
      /\ wpc' = [wpc EXCEPT ![w] = "count"]
      /\ UNCHANGED << inSize, taskCount, pc, spawned, end, first, last,
                      pos, counter, reportVars, merged >>
  BY DEF ProcessItem, mainVars
<1>2. w \in 1..spawned /\ spawned \in Nat
  BY <1>1 DEF IInv, TypeOK, MainTypeOK, BatchInv
<1>3. last[w] <= end /\ end <= inSize
  BY <1>2, EndInRange DEF IInv, TypeOK, BatchInv
<1>4. /\ i \in 1..inSize /\ i \in 1..MaxIn /\ pos[w] \in 0..MaxIn
      /\ pos[w] = i - 1 /\ first[w] \in 0..MaxIn
  <2>1. pos[w] \in 0..MaxIn /\ first[w] \in 0..MaxIn /\ last[w] \in 0..MaxIn
    BY DEF IInv, TypeOK, WorkTypeOK
  <2>2. inSize \in 0..MaxIn /\ end \in 0..MaxIn
    BY DEF IInv, TypeOK, MainTypeOK
  <2> QED  BY <2>1, <2>2, <1>1, <1>3, BoundsAssumption
<1>5. /\ Output[i] \in Seq(Result) /\ LoopOut[pos[w]] \in Seq(Result)
      /\ LoopOut[i] \in Seq(Result) /\ LoopOut[first[w]] \in Seq(Result)
      /\ LoopOut[i] = LoopOut[pos[w]] \o Output[i]
  <2> HIDE DEF i
  <2>1. i - 1 \in 0..MaxIn
    BY <1>4
  <2>2. Output[i] \in Seq(Result) /\ LoopOut[i] = LoopOut[i - 1] \o Output[i]
    BY <1>4, LoopOutAssumption, OutputAssumption
  <2>3. LoopOut[i] \in Seq(Result) /\ LoopOut[i - 1] \in Seq(Result)
    BY <1>4, <2>1, LoopOutAssumption
  <2>4. LoopOut[first[w]] \in Seq(Result)
    BY <1>4, LoopOutAssumption
  <2> QED  BY <2>2, <2>3, <2>4, <1>4
<1>6. wpc'[w] = "count" /\ \A v \in Worker : v # w => wpc'[v] = wpc[v]
  BY <1>1 DEF IInv, TypeOK, WorkTypeOK
<1>7. Pushed(w) = pos[w] /\ Pushed(w)' = i
  BY <1>1, <1>4, <1>6 DEF Pushed
<1>8. ~NothingToDo /\ pc \notin {"merge", "done"}
  <2>1. ~NothingToDo
    BY <1>2 DEF IInv, PhaseInv
  <2>2. ~AllJoined
    BY <1>1, <1>2 DEF AllJoined
  <2> QED  BY <2>1, <2>2 DEF IInv, PhaseInv
<1>9. MainTypeOK' /\ ReportTypeOK' /\ WorkTypeOK'
  BY <1>1, <1>6
     DEF IInv, TypeOK, MainTypeOK, ReportTypeOK, WorkTypeOK, reportVars
<1>10. PhaseInv'
  BY <1>1, <1>8
     DEF IInv, PhaseInv, NothingToDo, Sequential, Counters, Workers, reportVars
<1>11. CutInv'
  BY <1>1 DEF IInv, CutInv, Cut, Extra, Workers, Sequential
<1>12. /\ storage' \in [Worker -> Seq(Result)]
       /\ \A v \in Worker : v # w => storage'[v] = storage[v]
  <2>1. storage \in [Worker -> Seq(Result)]
    BY DEF IInv, TypeOK, DataTypeOK
  <2>2. storage[w] \o Output[i] \in Seq(Result)
    BY <2>1, <1>5, ConcatProperties
  <2>3. storage' = storage \/ storage' = [storage EXCEPT ![w] = @ \o Output[i]]
    BY DEF ProcessItem
  <2> QED  BY <2>1, <2>2, <2>3
<1>13. BatchInv'
  <2>1. \A v \in 1..spawned :
          /\ first[v] <= pos[v] /\ pos[v] <= last[v] /\ last[v] <= end
          /\ wpc'[v] # "idle"
          /\ wpc'[v] = "count" => pos[v] < last[v]
          /\ wpc'[v] = "exit" => pos[v] = last[v]
          /\ counter[v] = pos[v] - first[v]
    BY <1>1, <1>6 DEF IInv, TypeOK, MainTypeOK, BatchInv
  <2>2. \A v \in Worker : v > spawned =>
          wpc'[v] = "idle" /\ counter[v] = 0 /\ pos[v] = 0 /\ storage'[v] = << >>
    BY <1>2, <1>6, <1>12 DEF IInv, BatchInv
  <2> QED  BY <1>1, <2>1, <2>2 DEF IInv, BatchInv
<1>14. CASE Sequential
  <2>1. w = 1
    BY <1>2, <1>8, <1>14 DEF IInv, TypeOK, MainTypeOK, PhaseInv, Counters
  <2>2. out' = out \o Output[i] /\ storage' = storage
    BY <1>14 DEF ProcessItem
  <2>3. Appended = pos[w] /\ Appended' = i
    BY <1>1, <1>4, <1>6, <1>8, <1>14, <2>1 DEF Appended, NothingToDo, Sequential
  <2>4. out' = LoopOut[i]
    BY <2>2, <2>3, <1>5 DEF IInv, OutInv
  <2>5. OutInv' /\ DataTypeOK'
    BY <2>3, <2>4, <1>5, <1>12 DEF OutInv, DataTypeOK
  <2>6. StorageInv'
    BY <1>1, <1>14 DEF StorageInv, Sequential
  <2> QED  BY <2>3, <2>5, <2>6, <1>4, <1>9, <1>10, <1>11, <1>13 DEF IInv, TypeOK
<1>15. CASE ~Sequential
  <2>1. storage' = [storage EXCEPT ![w] = @ \o Output[i]] /\ out' = out
    BY <1>15 DEF ProcessItem
  <2>2. merged = 0
    BY <1>8 DEF IInv, PhaseInv
  <2>3. Appended = 0 /\ Appended' = 0
    BY <2>2, <1>1, <1>8, <1>15 DEF Appended, NothingToDo, Sequential
  <2>4. OutInv' /\ DataTypeOK'
    BY <2>1, <2>3, <1>12 DEF IInv, OutInv, TypeOK, DataTypeOK
  <2>5. storage[w] \in Seq(Result) /\ storage'[w] = storage[w] \o Output[i]
    BY <2>1 DEF IInv, TypeOK, DataTypeOK
  <2>6. LoopOut[first[w]] \o storage[w] = LoopOut[pos[w]]
    BY <1>2, <1>7, <1>15 DEF IInv, StorageInv
  <2>7. LoopOut[first[w]] \o storage'[w] = LoopOut[i]
    <3> DEFINE a == LoopOut[first[w]]
               b == storage[w]
               c == Output[i]
    <3>1. a \in Seq(Result) /\ b \in Seq(Result) /\ c \in Seq(Result)
      BY <1>5, <2>5
    <3>2. a \o b = LoopOut[pos[w]] /\ storage'[w] = b \o c
      BY <2>5, <2>6
    <3>3. (a \o b) \o c = LoopOut[i]
      BY <1>5, <3>2
    <3> HIDE DEF a, b, c
    <3>4. (a \o b) \o c = a \o (b \o c)
      BY <3>1, ConcatAssociative
    <3>5. a \o storage'[w] = LoopOut[i]
      BY <3>2, <3>3, <3>4
    <3> QED  BY <3>5 DEF a
  <2>8. \A v \in 1..spawned : LoopOut[first[v]] \o storage'[v] = LoopOut[Pushed(v)']
    <3> TAKE v \in 1..spawned
    <3>1. CASE v = w
      BY <3>1, <2>7, <1>7
    <3>2. CASE v # w
      <4>1. v \in Worker /\ storage'[v] = storage[v] /\ wpc'[v] = wpc[v]
        BY <3>2, <1>2, <1>6, <1>12 DEF IInv, TypeOK, MainTypeOK
      <4>2. Pushed(v)' = Pushed(v)
        BY <4>1, <1>1 DEF Pushed
      <4> QED  BY <4>1, <4>2, <1>15 DEF IInv, StorageInv
    <3> QED  BY <3>1, <3>2
  <2>9. StorageInv'
    BY <2>8, <1>1 DEF StorageInv
  <2>10. inSize \in Nat
    BY DEF IInv, TypeOK, MainTypeOK
  <2> QED  BY <2>3, <2>4, <2>9, <2>10, <1>9, <1>10, <1>11, <1>13 DEF IInv, TypeOK
<1> QED  BY <1>14, <1>15

\* The two bookkeeping steps of a task.
LEMMA TaskFrameStep ==
  ASSUME IInv, NEW w \in Worker, Increment(w) \/ FinishTask(w)
  PROVE  IInv' /\ Appended' = Appended
<1>1. /\ UNCHANGED << inSize, taskCount, pc, spawned, end, first, last,
                      storage, reportVars, merged, out >>
      /\ wpc[w] \in {"item", "count"}
  BY DEF Increment, FinishTask, mainVars
<1>2. w \in 1..spawned /\ spawned \in Nat
  BY <1>1 DEF IInv, TypeOK, MainTypeOK, BatchInv
<1>3. ~NothingToDo /\ pc \notin {"merge", "done"}
  <2>1. ~NothingToDo
    BY <1>2 DEF IInv, PhaseInv
  <2>2. ~AllJoined
    BY <1>1, <1>2 DEF AllJoined
  <2> QED  BY <2>1, <2>2 DEF IInv, PhaseInv
<1>4. /\ first[w] \in 0..MaxIn /\ pos[w] \in 0..MaxIn /\ last[w] \in 0..MaxIn
      /\ first[w] <= pos[w] /\ pos[w] <= last[w]
      /\ wpc[w] = "count" => pos[w] < last[w]
      /\ counter[w] = pos[w] - first[w]
  BY <1>2 DEF IInv, TypeOK, WorkTypeOK, BatchInv
<1>5. /\ \A v \in Worker : v # w =>
           pos'[v] = pos[v] /\ wpc'[v] = wpc[v] /\ counter'[v] = counter[v]
      /\ WorkTypeOK'
      /\ pos[w] <= pos'[w] /\ pos'[w] <= last[w] /\ pos'[w] \in 0..MaxIn
      /\ wpc'[w] \in {"item", "exit"}
      /\ wpc'[w] = "exit" => pos'[w] = last[w]
      /\ counter'[w] = pos'[w] - first[w]
      /\ pos'[w] = Pushed(w)
  <2>1. CASE Increment(w)
    <3>1. wpc[w] = "count" /\ pos[w] + 1 \in 0..MaxIn /\ counter[w] + 1 \in 0..MaxIn
      BY <2>1, <1>4 DEF Increment
    <3>2. /\ pos' = [pos EXCEPT ![w] = pos[w] + 1]
          /\ counter' = [counter EXCEPT ![w] = counter[w] + 1]
          /\ wpc' = [wpc EXCEPT ![w] = "item"]
      BY <2>1 DEF Increment
    <3>3. /\ pos'[w] = pos[w] + 1 /\ counter'[w] = counter[w] + 1
          /\ wpc'[w] = "item"
          /\ \A v \in Worker : v # w =>
               pos'[v] = pos[v] /\ wpc'[v] = wpc[v] /\ counter'[v] = counter[v]
      BY <3>2 DEF IInv, TypeOK, WorkTypeOK
    <3>4. WorkTypeOK'
      BY <3>1, <3>2, <1>1 DEF IInv, TypeOK, WorkTypeOK
    <3>5. Pushed(w) = pos[w] + 1
      BY <3>1 DEF Pushed
    <3> QED  BY <3>1, <3>3, <3>4, <3>5, <1>4
  <2>2. CASE FinishTask(w)
    BY <2>2, <1>1, <1>4 DEF FinishTask, Pushed, IInv, TypeOK, WorkTypeOK
  <2> QED  BY <2>1, <2>2
<1>6. \A v \in 1..spawned : v \in Worker /\ Pushed(v)' = Pushed(v)
  <2> TAKE v \in 1..spawned
  <2>1. v \in Worker
    BY DEF IInv, TypeOK, MainTypeOK
  <2>2. CASE v = w
    BY <2>2, <1>5 DEF Pushed
  <2>3. CASE v # w
    BY <2>1, <2>3, <1>5 DEF Pushed
  <2> QED  BY <2>1, <2>2, <2>3
<1>7. MainTypeOK' /\ ReportTypeOK' /\ DataTypeOK'
  BY <1>1 DEF IInv, TypeOK, MainTypeOK, ReportTypeOK, DataTypeOK, reportVars
<1>8. PhaseInv'
  BY <1>1, <1>3
     DEF IInv, PhaseInv, NothingToDo, Sequential, Counters, Workers, reportVars
<1>9. CutInv'
  BY <1>1 DEF IInv, CutInv, Cut, Extra, Workers, Sequential
<1>10. BatchInv'
  <2>1. \A v \in 1..spawned :
          /\ first[v] <= pos'[v] /\ pos'[v] <= last[v] /\ last[v] <= end
          /\ wpc'[v] # "idle"
          /\ wpc'[v] = "count" => pos'[v] < last[v]
          /\ wpc'[v] = "exit" => pos'[v] = last[v]
          /\ counter'[v] = pos'[v] - first[v]
    <3> TAKE v \in 1..spawned
    <3>1. CASE v = w
      BY <3>1, <1>4, <1>5 DEF IInv, BatchInv
    <3>2. CASE v # w
      BY <3>2, <1>5, <1>6 DEF IInv, BatchInv
    <3> QED  BY <3>1, <3>2
  <2>2. \A v \in Worker : v > spawned =>
          wpc'[v] = "idle" /\ counter'[v] = 0 /\ pos'[v] = 0 /\ storage[v] = << >>
    BY <1>2, <1>5 DEF IInv, BatchInv
  <2> QED  BY <1>1, <2>1, <2>2 DEF IInv, BatchInv
<1>11. StorageInv'
  BY <1>1, <1>6 DEF IInv, StorageInv, Sequential
<1>12. Appended' = Appended
  <2>1. CASE Sequential
    <3>1. 1 \in 1..spawned
      BY <1>2
    <3>2. Appended = Pushed(1) /\ Appended' = Pushed(1)'
      BY <2>1, <1>1, <1>3 DEF Appended, Pushed, NothingToDo, Sequential
    <3> QED  BY <3>1, <3>2, <1>6
  <2>2. CASE ~Sequential
    BY <2>2, <1>1 DEF Appended, NothingToDo, Sequential
  <2> QED  BY <2>1, <2>2
<1>13. OutInv'
  BY <1>1, <1>12 DEF IInv, OutInv
<1> QED  BY <1>5, <1>7, <1>8, <1>9, <1>10, <1>11, <1>12, <1>13 DEF IInv, TypeOK

\* Every step preserves the invariant.
LEMMA NextIInv ==
  ASSUME IInv, [Next]_vars
  PROVE  IInv'
<1>1. CASE Main
  <2>1. CASE EarlyReturn \/ ExecuteInParallel \/ SpawnReporter \/ Join \/ Return
    BY <2>1, MainFrame
  <2>2. CASE ExecuteSequentially
    BY <2>2, ExecuteSequentiallyStep
  <2>3. CASE SpawnWorker
    BY <2>3, SpawnWorkerStep
  <2>4. CASE MergeStorage
    BY <2>4, MergeStorageStep
  <2> QED  BY <1>1, <2>1, <2>2, <2>3, <2>4 DEF Main
<1>2. ASSUME NEW w \in Worker, Task(w)
      PROVE  IInv'
  BY <1>2, ProcessItemStep, TaskFrameStep DEF Task
<1>3. CASE Reporter
  BY <1>3, ReporterStep
<1>4. CASE UNCHANGED vars
  <2>1. UNCHANGED << inSize, taskCount, spawned, end, first, last, workVars,
                     merged, out >>
    BY <1>4 DEF vars, mainVars
  <2>2. WorkTypeOK' /\ CutInv' /\ BatchInv' /\ StorageInv' /\ OutInv' /\ DataTypeOK'
    BY <2>1, Frame
  <2>3. MainTypeOK' /\ ReportTypeOK' /\ PhaseInv'
    BY <1>4 DEF vars, mainVars, reportVars, workVars, IInv, TypeOK, MainTypeOK,
                ReportTypeOK, PhaseInv, NothingToDo, Sequential, Counters,
                Workers, AllJoined
  <2> QED  BY <2>2, <2>3 DEF IInv, TypeOK
<1> QED  BY <1>1, <1>2, <1>3, <1>4 DEF Next, Done

\* The inductive invariant holds in every reachable state.
THEOREM Invariance == Spec => []IInv
  BY InitIInv, NextIInv, PTL DEF Spec

-----------------------------------------------------------------------------
(* What the invariant implies.                                             *)

\* Iterators, counters and sequences stay in their types: no batch ever reaches
\* past in.end(), for any number of items and tasks.
THEOREM TypeCorrect == Spec => []TypeOK
<1>1. IInv => TypeOK
  BY DEF IInv
<1> QED  BY <1>1, Invariance, PTL

\* The batches of two workers never share an item.
THEOREM BatchesExclusive == Spec => []ExclusiveItems
<1>1. IInv => ExclusiveItems
  <2> SUFFICES ASSUME IInv, NEW v \in 1..spawned, NEW w \in 1..spawned, v # w
               PROVE  last[v] <= first[w] \/ last[w] <= first[v]
    BY DEF ExclusiveItems
  <2>1. v \in Int /\ w \in Int
    BY DEF IInv, TypeOK, MainTypeOK
  <2>2. v < w \/ w < v
    BY <2>1
  <2> QED  BY <2>2 DEF IInv, BatchInv
<1> QED  BY <1>1, Invariance, PTL

\* Facts about a finished parallel or sequential run.
LEMMA FinalCut ==
  ASSUME IInv, ~NothingToDo, pc \in {"join", "merge", "done"}
  PROVE  end = inSize /\ spawned = Counters /\ spawned > 0
<1>1. /\ spawned = Counters /\ Counters \in 1..MaxTasks
      /\ Workers \in Nat \ {0} /\ inSize \in Nat
  BY Sizes DEF IInv, TypeOK, MainTypeOK, PhaseInv
<1>2. CASE Sequential
  BY <1>1, <1>2 DEF IInv, CutInv
<1>3. CASE ~Sequential
  BY <1>1, <1>3, CutStep DEF IInv, CutInv, Counters
<1> QED  BY <1>1, <1>2, <1>3

\* When the storages are moved, the batches cover the whole input and every
\* worker has finished its own.
THEOREM MergeComplete == Spec => []MergeIsComplete
<1>1. IInv => MergeIsComplete
  <2> SUFFICES ASSUME IInv, pc = "merge"
               PROVE  /\ end = inSize
                      /\ \A w \in 1..Workers : pos[w] = last[w] /\ wpc[w] = "exit"
    BY DEF MergeIsComplete
  <2>1. ~NothingToDo /\ ~Sequential /\ AllJoined
    BY DEF IInv, PhaseInv
  <2>2. end = inSize /\ spawned = Workers
    BY <2>1, FinalCut DEF Counters
  <2>3. \A w \in 1..spawned : pos[w] = last[w] /\ wpc[w] = "exit"
    BY <2>1 DEF AllJoined, IInv, BatchInv
  <2> QED  BY <2>2, <2>3
<1> QED  BY <1>1, Invariance, PTL

\* Once the threads are joined and the storages moved, out is complete.
LEMMA AppendedAll ==
  ASSUME IInv,
         \/ NothingToDo
         \/ /\ pc \in {"join", "merge", "done"} /\ AllJoined
            /\ ~Sequential => merged = Workers
  PROVE  Appended = IF taskCount = 0 THEN 0 ELSE inSize
<1>1. CASE NothingToDo
  BY <1>1 DEF Appended, NothingToDo
<1>2. CASE ~NothingToDo
  <2>1. /\ AllJoined /\ end = inSize /\ spawned = Counters /\ spawned > 0
        /\ ~Sequential => merged = Workers
    BY <1>2, FinalCut
  <2>2. last[spawned] = end
    BY <2>1 DEF IInv, BatchInv
  <2>3. CASE Sequential
    <3>1. spawned = 1
      BY <2>1, <2>3 DEF Counters
    <3>2. wpc[1] = "exit" /\ pos[1] = last[1]
      BY <3>1, <2>1 DEF AllJoined, IInv, BatchInv
    <3>3. inSize \in Int
      BY DEF IInv, TypeOK, MainTypeOK
    <3> QED  BY <1>2, <2>1, <2>2, <2>3, <3>1, <3>2, <3>3 DEF Appended, NothingToDo
  <2>4. CASE ~Sequential
    BY <1>2, <2>1, <2>2, <2>4 DEF Appended, NothingToDo, Counters
  <2> QED  BY <2>3, <2>4
<1> QED  BY <1>1, <1>2

\* out is what a loop over in would have produced, for every number of items
\* and tasks and every schedule.
THEOREM OutputCorrect == Spec => []OutputInOrder
<1>1. IInv => OutputInOrder
  <2> SUFFICES ASSUME IInv, pc = "done"
               PROVE  out = IF taskCount = 0 THEN << >> ELSE LoopOut[inSize]
    BY DEF OutputInOrder
  <2>1. Appended = IF taskCount = 0 THEN 0 ELSE inSize
    BY AppendedAll DEF IInv, PhaseInv
  <2> QED  BY <2>1, LoopOutAssumption DEF IInv, OutInv
<1> QED  BY <1>1, Invariance, PTL

-----------------------------------------------------------------------------
(* Refinement.                                                             *)

\* The initial state is an initial state of the loop.
LEMMA LoopInit == Init => Loop!Init
<1> SUFFICES ASSUME Init PROVE Loop!Init
  OBVIOUS
<1>1. Appended = 0
  BY DEF Init, Appended, NothingToDo, Sequential
<1> QED  BY <1>1 DEF Init, Loop!Init

\* Every step of the executor is a step of the loop or leaves it as it is.
LEMMA LoopStep ==
  ASSUME IInv, IInv', [Next]_vars
  PROVE  [Loop!Next]_(Loop!absVars)
<1> USE DEF Loop!Next, Loop!absVars
<1>1. /\ out = LoopOut[Appended] /\ out' = LoopOut[Appended']
      /\ inSize' = inSize /\ taskCount' = taskCount
      /\ inSize \in Nat
  <2>1. inSize' = inSize /\ taskCount' = taskCount
    BY DEF Next, Main, Task, Reporter, Done, vars, mainVars, EarlyReturn,
           ExecuteSequentially, ExecuteInParallel, SpawnWorker, SpawnReporter,
           Join, MergeStorage, Return, ProcessItem, Increment, FinishTask,
           ReadCounter, ReportRound
  <2> QED  BY <2>1 DEF IInv, OutInv, TypeOK, MainTypeOK
\* A step inside a run that takes out from one prefix of the loop to another.
<1>2. ASSUME taskCount # 0, Appended <= Appended', Appended' \in 0..inSize,
             Appended \in Nat, pc # "done", pc' # "done"
      PROVE  [Loop!Next]_(Loop!absVars)
  <2>1. CASE Appended' = Appended
    BY <2>1, <1>1, <1>2
  <2>2. CASE Appended' # Appended
    <3>1. Appended' \in (Appended + 1)..inSize
      BY <2>2, <1>2
    <3>2. Loop!AppendChunk
      BY <3>1, <1>1, <1>2 DEF Loop!AppendChunk
    <3> QED  BY <3>2
  <2> QED  BY <2>1, <2>2
\* A step that leaves out alone.
<1>3. ASSUME UNCHANGED << out, Appended, pc >>
      PROVE  [Loop!Next]_(Loop!absVars)
  BY <1>1, <1>3
<1>4. ASSUME UNCHANGED << out, Appended >>, pc # "done", pc' # "done"
      PROVE  [Loop!Next]_(Loop!absVars)
  BY <1>1, <1>4
<1>5. ASSUME UNCHANGED << out, Appended >>, pc # "done", pc' = "done",
             Appended = IF taskCount = 0 THEN 0 ELSE inSize
      PROVE  [Loop!Next]_(Loop!absVars)
  BY <1>1, <1>5 DEF Loop!Return
<1>6. CASE Main
  <2>1. CASE EarlyReturn \/ ExecuteInParallel \/ SpawnReporter \/ Join \/ Return
    <3>1. UNCHANGED << out, Appended >> /\ pc # "done"
      BY <2>1 DEF EarlyReturn, ExecuteInParallel, SpawnReporter, Join, Return,
                  Appended, NothingToDo, Sequential, workVars
    <3>2. CASE pc' = "done"
      <4>1. Appended = IF taskCount = 0 THEN 0 ELSE inSize
        BY <2>1, <3>2, AppendedAll
           DEF EarlyReturn, ExecuteInParallel, SpawnReporter, Join, Return,
               IInv, PhaseInv
      <4> QED  BY <3>1, <3>2, <4>1, <1>5
    <3> QED  BY <3>1, <3>2, <1>4
  <2>2. CASE SpawnWorker
    <3>1. ~Sequential /\ merged = 0 /\ UNCHANGED << merged, out >> /\ pc = "spawn"
             /\ pc' = "spawn"
      BY <2>2 DEF SpawnWorker, IInv, PhaseInv
    <3>2. UNCHANGED << out, Appended >>
      BY <3>1, <1>1 DEF Appended, NothingToDo, Sequential
    <3> QED  BY <3>1, <3>2, <1>4
  <2>3. CASE ExecuteSequentially
    <3>1. /\ pc = "execute" /\ pc' = "join" /\ out' = out /\ spawned = 0 /\ end = 0
          /\ ~NothingToDo /\ Sequential /\ StartTask(inSize)
      BY <2>3 DEF ExecuteSequentially, IInv, PhaseInv, CutInv
    <3>2. 1 \in Worker
      BY <3>1 DEF NothingToDo, IInv, TypeOK, MainTypeOK
    <3>3. pos[1] = 0 /\ wpc[1] = "idle" /\ pos'[1] = 0 /\ wpc'[1] = "item"
      BY <3>1, <3>2 DEF StartTask, IInv, TypeOK, WorkTypeOK, BatchInv
    <3>4. UNCHANGED Appended
      BY <3>1, <3>3, <1>1 DEF Appended, NothingToDo, Sequential
    <3> QED  BY <3>1, <3>4, <1>4
  <2>4. CASE MergeStorage
    <3>1. pc = "merge" /\ pc' = "merge" /\ taskCount # 0
      BY <2>4 DEF MergeStorage, mainVars, IInv, PhaseInv, NothingToDo
    <3> QED  BY <2>4, <3>1, <1>2, MergeStorageStep
  <2> QED  BY <1>6, <2>1, <2>2, <2>3, <2>4 DEF Main
<1>7. ASSUME NEW w \in Worker, Task(w)
      PROVE  [Loop!Next]_(Loop!absVars)
  <2>1. CASE ProcessItem(w)
    <3>1. w \in 1..spawned /\ wpc[w] = "item" /\ pc' = pc
      BY <2>1 DEF ProcessItem, mainVars, IInv, TypeOK, MainTypeOK, BatchInv
    <3>2. taskCount # 0 /\ pc # "done"
      BY <3>1 DEF IInv, PhaseInv, NothingToDo, AllJoined
    <3> QED  BY <2>1, <3>1, <3>2, <1>2, ProcessItemStep
  <2>2. CASE Increment(w) \/ FinishTask(w)
    <3>1. pc' = pc /\ out' = out
      BY <2>2 DEF Increment, FinishTask, mainVars
    <3> QED  BY <2>2, <3>1, <1>3, TaskFrameStep
  <2> QED  BY <1>7, <2>1, <2>2 DEF Task
<1>8. CASE Reporter \/ UNCHANGED vars
  <2>1. UNCHANGED << inSize, taskCount, pc, last, workVars, merged, out >>
    BY <1>8 DEF Reporter, ReadCounter, ReportRound, vars, mainVars
  <2>2. UNCHANGED Appended
    BY <2>1 DEF Appended, NothingToDo, Sequential, workVars
  <2> QED  BY <2>1, <2>2, <1>3
<1> QED  BY <1>6, <1>7, <1>8 DEF Next, Done

\* The executor implements the plain loop over in.
THEOREM LoopImplemented == Spec => ImplementsLoop
<1>1. Init => Loop!Init
  BY LoopInit
<1>2. IInv /\ IInv' /\ [Next]_vars => [Loop!Next]_(Loop!absVars)
  BY LoopStep
<1> QED  BY <1>1, <1>2, Invariance, PTL DEF Spec, ImplementsLoop, Loop!Spec
=============================================================================
