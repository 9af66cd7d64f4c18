----------------------- MODULE MutationFilters_proofs -----------------------
(***************************************************************************)
(* Proofs about MutationFilters, for any number of workers, any program    *)
(* and any command line.  No worker uses an AST that another has replaced; *)
(* at every stage of the filters exactly the points are left that the      *)
(* filters so far accept, so the survivors are those of the source's own   *)
(* operators and their mutants the documented replacements; the white list *)
(* of the AST search agrees with junk detection; a point has its own       *)
(* source info, and an AST the flags of its own file's command.            *)
(***************************************************************************)
EXTENDS MutationFilters, FiniteSetTheorems, SequenceTheorems, WellFoundedInduction, TLAPS

-----------------------------------------------------------------------------
(* The ASTs.                                                               *)

\* The variables of the workers are functions of the workers.
WorkerType ==
  /\ worker = [w \in Worker |-> worker[w]]
  /\ \A w \in Worker : worker[w] = [pc |-> worker[w].pc, unit |-> worker[w].unit,
                                    node |-> worker[w].node]
  /\ queue = [w \in Worker |-> queue[w]]

\* A worker is busy only during a task, with the first item of its queue.
BusyInv(w) ==
  worker[w].pc # "idle" => phase \in {"ASTSearch", "filter"} /\ queue[w] # << >>

\* A worker parses a file only while it holds the mutex, and nobody has before ...
ParseInv(w) ==
  worker[w].pc = "parse" => astMutex = w /\ PathOf(w) \notin DOMAIN astUnits

\* ... and visits what the table has for its file.
VisitInv(w) ==
  worker[w].pc = "visit" =>
    PathOf(w) \in DOMAIN astUnits /\ worker[w].unit = astUnits[PathOf(w)]

WorkerInv(w) == BusyInv(w) /\ ParseInv(w) /\ VisitInv(w)

UnitsInv == Running => WorkerType /\ \A w \in Worker : WorkerInv(w)

\* The path a worker asks for depends on its task and its item.
LEMMA SamePath ==
  ASSUME NEW w, UNCHANGED << program, phase >>, queue'[w] = queue[w]
  PROVE  PathOf(w)' = PathOf(w)
BY DEF PathOf, UnitOf, Item, Searching, SourceFileName, UnitPath, Filename

\* The updates of a worker.
LEMMA WorkerUpdates ==
  ASSUME NEW r, r = [pc |-> r.pc, unit |-> r.unit, node |-> r.node], NEW a, NEW b
  PROVE  /\ [r EXCEPT !.pc = a] = [pc |-> a, unit |-> r.unit, node |-> r.node]
         /\ [r EXCEPT !.pc = a, !.unit = b] = [pc |-> a, unit |-> b, node |-> r.node]
         /\ [r EXCEPT !.pc = a, !.node = b] = [pc |-> a, unit |-> r.unit, node |-> b]
<1>1. PICK p, u, n : p = r.pc /\ u = r.unit /\ n = r.node
  OBVIOUS
<1>2. r = [pc |-> p, unit |-> u, node |-> n]
  BY <1>1, Zenon
<1>3. PICK q : q = [pc |-> p, unit |-> u, node |-> n]
  OBVIOUS
<1>4. [q EXCEPT !.pc = a] = [pc |-> a, unit |-> u, node |-> n]
  BY <1>3
<1>5. [q EXCEPT !.pc = a, !.unit = b] = [pc |-> a, unit |-> b, node |-> n]
  <2>1. PICK v : v = [pc |-> a, unit |-> u, node |-> n]
    OBVIOUS
  <2>2. [v EXCEPT !.unit = b] = [pc |-> a, unit |-> b, node |-> n]
    BY <2>1
  <2>3. [q EXCEPT !.pc = a, !.unit = b] = [[q EXCEPT !.pc = a] EXCEPT !.unit = b]
    OBVIOUS
  <2> QED BY <1>4, <2>1, <2>2, <2>3, Zenon
<1>6. [q EXCEPT !.pc = a, !.node = b] = [pc |-> a, unit |-> u, node |-> b]
  <2>1. PICK v : v = [pc |-> a, unit |-> u, node |-> n]
    OBVIOUS
  <2>2. [v EXCEPT !.node = b] = [pc |-> a, unit |-> u, node |-> b]
    BY <2>1
  <2>3. [q EXCEPT !.pc = a, !.node = b] = [[q EXCEPT !.pc = a] EXCEPT !.node = b]
    OBVIOUS
  <2> QED BY <1>4, <2>1, <2>2, <2>3, Zenon
<1> QED BY <1>1, <1>2, <1>3, <1>4, <1>5, <1>6, Zenon

\* A step that leaves a worker, its item and the ASTs of others alone.
LEMMA OtherWorker ==
  ASSUME NEW w, WorkerInv(w), UNCHANGED << program, phase >>,
         queue'[w] = queue[w], worker'[w] = worker[w],
         worker[w].pc = "parse" => astMutex' = astMutex /\ UNCHANGED astUnits,
         worker[w].pc = "visit" /\ PathOf(w) \in DOMAIN astUnits =>
           PathOf(w) \in DOMAIN astUnits' /\ astUnits'[PathOf(w)] = astUnits[PathOf(w)]
  PROVE  WorkerInv(w)'
<1>1. PathOf(w)' = PathOf(w)
  BY SamePath
<1>2. BusyInv(w)'
  BY DEF WorkerInv, BusyInv
<1>3. ParseInv(w)'
  BY <1>1 DEF WorkerInv, ParseInv
<1>4. VisitInv(w)'
  BY <1>1 DEF WorkerInv, VisitInv
<1> QED BY <1>2, <1>3, <1>4 DEF WorkerInv

\* A worker that becomes idle.
LEMMA IdleWorker ==
  ASSUME NEW w, worker'[w].pc = "idle"
  PROVE  WorkerInv(w)'
BY DEF WorkerInv, BusyInv, ParseInv, VisitInv

\* Between two tasks all workers are idle.
LEMMA AllIdle ==
  ASSUME \A w \in Worker : WorkerInv(w),
         phase \notin {"ASTSearch", "filter"} \/ AllDone,
         NEW w \in Worker
  PROVE  worker[w].pc = "idle"
BY DEF WorkerInv, BusyInv, AllDone

\* A step of main.
LEMMA MainKeepsUnits ==
  ASSUME UnitsInv, MainStep
  PROVE  UnitsInv'
<1>1. WorkerType /\ \A w \in Worker : WorkerInv(w)
  BY DEF MainStep, UnitsInv
<1>2. UNCHANGED worker /\ (phase \notin {"ASTSearch", "filter"} \/ AllDone)
  BY DEF MainStep, CreateFinder, StartASTSearch, FinishASTSearch, SearchMutationPoints,
         FinishFilter, Report, Tasks
<1>3. \A w \in Worker : worker'[w].pc = "idle"
  BY <1>1, <1>2, AllIdle
<1>4. queue' = queue \/ \E items : Distribute(items)
  BY DEF MainStep, CreateFinder, StartASTSearch, FinishASTSearch, SearchMutationPoints,
         FinishFilter, Report, Tasks
<1>5. queue' = [w \in Worker |-> queue'[w]]
  <2>1. CASE queue' = queue
    BY <1>1, <2>1 DEF WorkerType
  <2>2. ASSUME NEW items, Distribute(items) PROVE queue' = [w \in Worker |-> queue'[w]]
    BY <2>2 DEF Distribute
  <2> QED BY <1>4, <2>1, <2>2
<1>6. WorkerType'
  BY <1>1, <1>2, <1>5 DEF WorkerType
<1> QED BY <1>3, <1>6, IdleWorker DEF UnitsInv

\* A worker is done with its item.
LEMMA FinishKeepsUnits ==
  ASSUME UnitsInv, Running, NEW w \in Worker, NEW keep, Finish(w, keep),
         UNCHANGED << program, phase, astMutex, astUnits >>
  PROVE  UnitsInv'
<1>1. WorkerType /\ \A v \in Worker : WorkerInv(v)
  BY DEF UnitsInv
<1>2. /\ queue' = [queue EXCEPT ![w] = Tail(@)]
      /\ worker' = [worker EXCEPT ![w] = Idle]
  BY DEF Finish
<1>3. WorkerType'
  BY <1>1, <1>2 DEF WorkerType, Idle
<1>4. worker'[w].pc = "idle"
  BY <1>1, <1>2 DEF WorkerType, Idle
<1>5. \A v \in Worker : v # w => queue'[v] = queue[v] /\ worker'[v] = worker[v]
  BY <1>1, <1>2 DEF WorkerType
<1>6. ASSUME NEW v \in Worker PROVE WorkerInv(v)'
  <2>1. CASE v = w
    BY <1>4, <2>1, IdleWorker
  <2>2. CASE v # w
    BY <1>1, <1>5, <2>2, OtherWorker
  <2> QED BY <2>1, <2>2
<1> QED BY <1>3, <1>6 DEF UnitsInv

\* Whatever else happens to the worker, the others do not see it.
LEMMA TurnKeepsUnits ==
  ASSUME UnitsInv, Running, NEW w \in Worker, NEW x, worker' = [worker EXCEPT ![w] = x],
         x = [pc |-> x.pc, unit |-> x.unit, node |-> x.node],
         UNCHANGED << program, phase, queue >>, WorkerInv(w)',
         \A v \in Worker : v # w =>
           /\ worker[v].pc = "parse" => astMutex' = astMutex /\ UNCHANGED astUnits
           /\ worker[v].pc = "visit" /\ PathOf(v) \in DOMAIN astUnits =>
                PathOf(v) \in DOMAIN astUnits' /\ astUnits'[PathOf(v)] = astUnits[PathOf(v)]
  PROVE  UnitsInv'
<1>1. WorkerType /\ \A v \in Worker : WorkerInv(v)
  BY DEF UnitsInv
<1>2. WorkerType'
  BY <1>1 DEF WorkerType
<1>3. \A v \in Worker : v # w => worker'[v] = worker[v]
  BY <1>1 DEF WorkerType
<1>4. ASSUME NEW v \in Worker, v # w PROVE WorkerInv(v)'
  BY <1>1, <1>3, <1>4, OtherWorker
<1> QED BY <1>2, <1>4 DEF UnitsInv

\* findAST up to the parser.
LEMMA FindKeepsUnits ==
  ASSUME UnitsInv, Running, NEW w \in Worker, FindAST(w)
  PROVE  UnitsInv'
<1>1. WorkerType /\ \A v \in Worker : WorkerInv(v)
  BY DEF UnitsInv
<1>2. /\ queue[w] # << >> /\ phase \in {"ASTSearch", "filter"} /\ astMutex = Free
      /\ UNCHANGED << program, phase, queue, astUnits >>
  BY DEF FindAST, NeedsAST, Turn, ASTMutexFree, Filtering, Searching, main
<1>3. \A v \in Worker : worker[v].pc # "parse"
  <2>1. Workers \in Nat \ {0}
    BY MutationFiltersAssumption, Zenon
  <2>2. \A v \in Worker : v # Free
    BY <2>1 DEF Worker, Free
  <2> QED BY <1>1, <1>2, <2>2, Zenon DEF WorkerInv, ParseInv
<1>4. PathOf(w)' = PathOf(w)
  BY <1>2, SamePath
<1>5. CASE PathOf(w) \in DOMAIN astUnits
  <2>1. PICK x : x = [worker[w] EXCEPT !.pc = "visit", !.unit = astUnits[PathOf(w)]]
    OBVIOUS
  <2>2. worker' = [worker EXCEPT ![w] = x]
    BY <1>5, <2>1 DEF FindAST
  <2>3. /\ x = [pc |-> x.pc, unit |-> x.unit, node |-> x.node]
        /\ x.pc = "visit" /\ x.unit = astUnits[PathOf(w)]
    <3>1. PICK r, b : r = worker[w] /\ b = astUnits[PathOf(w)]
      OBVIOUS
    <3>2. r = [pc |-> r.pc, unit |-> r.unit, node |-> r.node]
      BY <1>1, <3>1 DEF WorkerType
    <3>3. x = [pc |-> "visit", unit |-> b, node |-> r.node]
      BY <2>1, <3>1, <3>2, WorkerUpdates, Zenon
    <3> QED BY <3>1, <3>3
  <2>4. worker'[w] = x
    BY <1>1, <2>2 DEF WorkerType
  <2>5. WorkerInv(w)'
    BY <1>2, <1>4, <1>5, <2>3, <2>4 DEF WorkerInv, BusyInv, ParseInv, VisitInv
  <2> QED BY <1>2, <1>3, <2>2, <2>3, <2>5, TurnKeepsUnits
<1>6. CASE PathOf(w) \notin DOMAIN astUnits
  <2>1. PICK x : x = [worker[w] EXCEPT !.pc = "parse"]
    OBVIOUS
  <2>2. worker' = [worker EXCEPT ![w] = x] /\ astMutex' = w
    BY <1>6, <2>1 DEF FindAST
  <2>3. x = [pc |-> x.pc, unit |-> x.unit, node |-> x.node] /\ x.pc = "parse"
    BY <1>1, <2>1 DEF WorkerType
  <2>4. worker'[w] = x
    BY <1>1, <2>2 DEF WorkerType
  <2>5. WorkerInv(w)'
    BY <1>2, <1>4, <1>6, <2>2, <2>3, <2>4 DEF WorkerInv, BusyInv, ParseInv, VisitInv
  <2> QED BY <1>2, <1>3, <2>2, <2>3, <2>5, TurnKeepsUnits
<1> QED BY <1>5, <1>6

\* A file has been parsed: the AST is new in the table, so nobody loses one.
LEMMA LoadKeepsUnits ==
  ASSUME UnitsInv, Running, NEW w \in Worker, LoadAST(w)
  PROVE  UnitsInv'
<1>1. WorkerType /\ \A v \in Worker : WorkerInv(v)
  BY DEF UnitsInv
<1>2. PICK unit : unit = [by |-> w, flags |-> CompilationFlagsForFile(PathOf(w)),
                          ok |-> PathOf(w) \notin program.missing /\ UnitOf(w) \notin program.broken]
  OBVIOUS
<1>3. PICK x : x = [worker[w] EXCEPT !.pc = "visit", !.unit = unit]
  OBVIOUS
<1>4. /\ worker[w].pc = "parse"
      /\ astUnits' = [path \in DOMAIN astUnits \union {PathOf(w)} |->
                        IF path = PathOf(w) THEN unit ELSE astUnits[path]]
      /\ UNCHANGED << program, phase, queue >>
      /\ worker' = [worker EXCEPT ![w] = x]
  BY <1>2, <1>3 DEF LoadAST, main
<1>5. /\ astMutex = w /\ PathOf(w) \notin DOMAIN astUnits
      /\ phase \in {"ASTSearch", "filter"} /\ queue[w] # << >>
  BY <1>1, <1>4 DEF WorkerInv, ParseInv, BusyInv
<1>6. PICK mine : mine = PathOf(w)
  OBVIOUS
<1>7. /\ DOMAIN astUnits' = {mine} \union DOMAIN astUnits
      /\ astUnits'[mine] = unit
      /\ \A q \in DOMAIN astUnits : q # mine => astUnits'[q] = astUnits[q]
  BY <1>4, <1>6
<1>8. /\ x = [pc |-> x.pc, unit |-> x.unit, node |-> x.node]
      /\ x.pc = "visit" /\ x.unit = unit /\ worker'[w] = x
  <2>1. PICK r : r = worker[w]
    OBVIOUS
  <2>2. r = [pc |-> r.pc, unit |-> r.unit, node |-> r.node]
    BY <1>1, <2>1 DEF WorkerType
  <2>3. x = [pc |-> "visit", unit |-> unit, node |-> r.node]
    BY <1>3, <2>1, <2>2, WorkerUpdates, Zenon
  <2>4. worker'[w] = x
    BY <1>1, <1>4 DEF WorkerType
  <2> QED BY <2>3, <2>4
<1>9. PathOf(w)' = mine
  BY <1>4, <1>6, SamePath
<1>10. WorkerInv(w)'
  BY <1>4, <1>5, <1>7, <1>8, <1>9 DEF WorkerInv, BusyInv, ParseInv, VisitInv
<1>11. ASSUME NEW v \in Worker, v # w
       PROVE  /\ worker[v].pc # "parse"
              /\ worker[v].pc = "visit" /\ PathOf(v) \in DOMAIN astUnits =>
                   PathOf(v) \in DOMAIN astUnits' /\ astUnits'[PathOf(v)] = astUnits[PathOf(v)]
  <2>1. worker[v].pc # "parse"
    BY <1>1, <1>5, <1>11 DEF WorkerInv, ParseInv
  <2>2. PathOf(v) \in DOMAIN astUnits => PathOf(v) # mine
    BY <1>5, <1>6
  <2> QED BY <1>7, <2>1, <2>2
<1> QED BY <1>4, <1>8, <1>10, <1>11, TurnKeepsUnits

\* The visitor.
LEMMA VisitKeepsUnits ==
  ASSUME UnitsInv, Running, NEW w \in Worker, VisitAST(w)
  PROVE  UnitsInv'
<1>1. WorkerType /\ \A v \in Worker : WorkerInv(v)
  BY DEF UnitsInv
<1>2. worker[w].pc = "visit" /\ UNCHANGED << program, astMutex, astUnits >>
  BY DEF VisitAST
<1>3. phase \in {"ASTSearch", "filter"} /\ queue[w] # << >>
  BY <1>1, <1>2 DEF WorkerInv, BusyInv
<1>4. \/ abort' # None
      \/ (\E keep : Finish(w, keep)) /\ UNCHANGED phase
      \/ /\ worker' = [worker EXCEPT ![w].pc = "save", ![w].node = NodeOf(Item(w))]
         /\ UNCHANGED << queue, phase >>
  BY Zenon DEF VisitAST, Abort
<1>5. CASE abort' # None
  BY <1>5 DEF UnitsInv, Running
<1>6. ASSUME NEW keep, Finish(w, keep), UNCHANGED phase PROVE UnitsInv'
  BY <1>2, <1>6, FinishKeepsUnits
<1>7. CASE /\ worker' = [worker EXCEPT ![w].pc = "save", ![w].node = NodeOf(Item(w))]
           /\ UNCHANGED << queue, phase >>
  <2>1. PICK node : node = NodeOf(Item(w))
    OBVIOUS
  <2>2. PICK x : x = [worker[w] EXCEPT !.pc = "save", !.node = node]
    OBVIOUS
  <2>3. worker' = [worker EXCEPT ![w] = x]
    BY <1>7, <2>1, <2>2
  <2>4. x = [pc |-> x.pc, unit |-> x.unit, node |-> x.node] /\ x.pc = "save"
    <3>1. PICK r : r = worker[w]
      OBVIOUS
    <3>2. r = [pc |-> r.pc, unit |-> r.unit, node |-> r.node]
      BY <1>1, <3>1 DEF WorkerType
    <3>3. x = [pc |-> "save", unit |-> r.unit, node |-> node]
      BY <2>2, <3>1, <3>2, WorkerUpdates, Zenon
    <3> QED BY <3>3
  <2>5. worker'[w] = x
    BY <1>1, <2>3 DEF WorkerType
  <2>6. WorkerInv(w)'
    BY <1>3, <1>7, <2>4, <2>5 DEF WorkerInv, BusyInv, ParseInv, VisitInv
  <2> QED BY <1>2, <1>7, <2>3, <2>4, <2>6, TurnKeepsUnits
<1> QED BY <1>4, <1>5, <1>6, <1>7

\* Every step preserves the invariant.
LEMMA UnitsStep ==
  ASSUME UnitsInv, [Next]_vars
  PROVE  UnitsInv'
<1>1. CASE MainStep
  BY <1>1, MainKeepsUnits
<1>2. ASSUME NEW w \in Worker, WorkerStep(w) PROVE UnitsInv'
  <2>1. Running
    BY <1>2 DEF WorkerStep
  <2>2. CASE NoDebugInfoFilter(w)
    BY <2>1, <2>2, FinishKeepsUnits DEF NoDebugInfoFilter, main
  <2>3. CASE FilePathFilter(w)
    BY <2>1, <2>3, FinishKeepsUnits DEF FilePathFilter, main
  <2>4. CASE ASTMutationFilter(w)
    <3>1. \/ abort' # None
          \/ (\E keep : Finish(w, keep)) /\ UNCHANGED phase
      BY <2>4 DEF ASTMutationFilter, Abort, None
    <3>2. UNCHANGED << program, astMutex, astUnits >>
      BY <2>4 DEF ASTMutationFilter
    <3>3. CASE abort' # None
      BY <3>3 DEF UnitsInv, Running
    <3>4. ASSUME NEW keep, Finish(w, keep), UNCHANGED phase PROVE UnitsInv'
      BY <2>1, <3>2, <3>4, FinishKeepsUnits
    <3> QED BY <3>1, <3>3, <3>4
  <2>5. CASE SkipUnit(w)
    BY <2>1, <2>5, FinishKeepsUnits DEF SkipUnit, main
  <2>6. CASE FindAST(w)
    BY <2>1, <2>6, FindKeepsUnits
  <2>7. CASE LoadAST(w)
    BY <2>1, <2>7, LoadKeepsUnits
  <2>8. CASE VisitAST(w)
    BY <2>1, <2>8, VisitKeepsUnits
  <2>9. CASE SaveMutant(w)
    BY <2>1, <2>9, FinishKeepsUnits DEF SaveMutant, main
  <2>10. CASE InvalidUnit(w)
    BY <2>10 DEF InvalidUnit, Abort, UnitsInv, Running, None
  <2> QED
    BY <1>2, <2>2, <2>3, <2>4, <2>5, <2>6, <2>7, <2>8, <2>9, <2>10 DEF WorkerStep
<1>3. CASE UNCHANGED vars
  <2>1. UNCHANGED << program, phase, queue, worker, astMutex, astUnits, abort >>
    BY <1>3 DEF vars
  <2>2. \A w \in Worker : PathOf(w)' = PathOf(w)
    BY <2>1, SamePath
  <2> QED BY <2>1, <2>2 DEF UnitsInv, Running, WorkerType, WorkerInv, BusyInv, ParseInv, VisitInv
<1> QED BY <1>1, <1>2, <1>3 DEF Next, Ended

\* The first state.
LEMMA UnitsInit == Init => UnitsInv
<1> SUFFICES ASSUME Init PROVE UnitsInv
  OBVIOUS
<1>1. \A w \in Worker : worker[w] = Idle
  BY DEF Init
<1>2. WorkerType
  BY <1>1 DEF Init, WorkerType, Idle
<1>3. \A w \in Worker : worker[w].pc = "idle"
  BY <1>1 DEF Idle
<1> QED BY <1>2, <1>3 DEF UnitsInv, WorkerInv, BusyInv, ParseInv, VisitInv

\* No worker uses an AST that another worker has replaced in the meantime: the mutex of
\* ASTStorage, held from the lookup to the insertion, makes each AST once.
THEOREM UnitsStayHolds == Spec => []UnitsStay
<1>1. Init => UnitsInv
  BY UnitsInit
<1>2. UnitsInv /\ [Next]_vars => UnitsInv'
  BY UnitsStep
<1>3. UnitsInv => UnitsStay
  BY DEF UnitsInv, UnitsStay, WorkerInv, VisitInv
<1> QED BY <1>1, <1>2, <1>3, PTL DEF Spec

-----------------------------------------------------------------------------
(* The keys of ASTMutationStorage.                                         *)

\* Half of n * (n + 1).
LEMMA Triangle ==
  ASSUME NEW n \in Nat
  PROVE  /\ (n * (n + 1)) \div 2 \in Nat
         /\ 2 * ((n * (n + 1)) \div 2) = n * (n + 1)
<1>1. PICK k \in Nat : n = 2 * k \/ n = 2 * k + 1
  <2>1. n \div 2 \in Nat /\ (n = 2 * (n \div 2) \/ n = 2 * (n \div 2) + 1)
    OBVIOUS
  <2> QED BY <2>1
<1>2. PICK m \in Nat : n * (n + 1) = 2 * m
  <2>1. CASE n = 2 * k
    <3>1. k * (2 * k + 1) \in Nat
      OBVIOUS
    <3>2. (2 * k) * (2 * k + 1) = 2 * (k * (2 * k + 1))
      OBVIOUS
    <3> QED BY <2>1, <3>1, <3>2
  <2>2. CASE n = 2 * k + 1
    <3>1. (2 * k + 1) * (k + 1) \in Nat
      OBVIOUS
    <3>2. (2 * k + 1) * (2 * k + 1 + 1) = 2 * ((2 * k + 1) * (k + 1))
      OBVIOUS
    <3> QED BY <2>2, <3>1, <3>2
  <2> QED BY <1>1, <2>1, <2>2
<1>3. (2 * m) \div 2 = m
  OBVIOUS
<1> QED BY <1>2, <1>3

\* It grows by more than n from n to any larger number.
LEMMA TriangleGrows ==
  ASSUME NEW n \in Nat, NEW m \in Nat, n < m
  PROVE  (n * (n + 1)) \div 2 + n < (m * (m + 1)) \div 2
<1>1. PICK d \in Nat : m = n + 1 + d
  <2>1. m - n - 1 \in Nat /\ m = n + 1 + (m - n - 1)
    OBVIOUS
  <2> QED BY <2>1
<1>2. m * (m + 1) >= n * (n + 1) + 2 * n + 2
  <2>1. (n + 1 + d) * (n + 1 + d + 1) = n * (n + 1) + 2 * n + 2 + (2 * (n * d) + 3 * d + d * d)
    OBVIOUS
  <2>2. n * d \in Nat /\ d * d \in Nat
    OBVIOUS
  <2> QED BY <1>1, <2>1, <2>2
<1>3. PICK a \in Nat : a = (n * (n + 1)) \div 2 /\ 2 * a = n * (n + 1)
  BY Triangle
<1>4. PICK b \in Nat : b = (m * (m + 1)) \div 2 /\ 2 * b = m * (m + 1)
  BY Triangle
<1>5. 2 * b >= 2 * a + 2 * n + 2
  BY <1>2, <1>3, <1>4
<1> QED BY <1>3, <1>4, <1>5

\* What is an int does not wrap around.
LEMMA WrapIsInt ==
  ASSUME NEW n \in Nat, n <= IntMax
  PROVE  Wrap(n) = n
<1>1. PICK m \in Nat \ {0} : m = IntMax + 1
  BY MutationFiltersAssumption
<1>2. n + m \in Nat /\ n + m < 2 * m
  BY <1>1, MutationFiltersAssumption
<1>3. (n + m) % (2 * m) = n + m
  BY <1>1, <1>2
<1>4. n + IntMax + 1 = n + m /\ 2 * (IntMax + 1) = 2 * m
  BY <1>1, MutationFiltersAssumption
<1> QED BY <1>1, <1>3, <1>4, MutationFiltersAssumption DEF Wrap

\* The hash of a place that fits.
LEMMA HashOfFits ==
  ASSUME NEW place, place.line \in Nat, place.column \in Nat, Fits(place)
  PROVE  LET n == place.line + place.column
         IN  Hash(place) = (n * (n + 1)) \div 2 + place.line
<1>1. PICK n \in Nat : n = place.line + place.column
  OBVIOUS
<1>2. n * (n + 1) \in Nat /\ n * (n + 1) <= IntMax
  BY <1>1 DEF Fits
<1>3. Wrap(n * (n + 1)) = n * (n + 1)
  BY <1>2, WrapIsInt
<1>4. Hash(place) = Wrap(n * (n + 1)) \div 2 + place.line
  BY <1>1, Zenon DEF Hash, LineColumnHash
<1> QED BY <1>1, <1>3, <1>4

\* Two places of a file never share a key of ASTMutationStorage, unless the product in
\* the hash overflows.
THEOREM PlacesHaveTheirOwnKey ==
  ASSUME NEW p, p.line \in Nat, p.column \in Nat, Fits(p),
         NEW q, q.line \in Nat, q.column \in Nat, Fits(q),
         Hash(p) = Hash(q)
  PROVE  p.line = q.line /\ p.column = q.column
<1>1. PICK n \in Nat : n = p.line + p.column
  OBVIOUS
<1>2. PICK m \in Nat : m = q.line + q.column
  OBVIOUS
<1>3. PICK a \in Nat : a = (n * (n + 1)) \div 2
  BY Triangle
<1>4. PICK b \in Nat : b = (m * (m + 1)) \div 2
  BY Triangle
<1>5. a + p.line = b + q.line
  BY <1>1, <1>2, <1>3, <1>4, HashOfFits
<1>6. n < m => a + n < b
  BY <1>3, <1>4, TriangleGrows
<1>7. m < n => b + m < a
  BY <1>3, <1>4, TriangleGrows
<1>8. n = m
  BY <1>1, <1>2, <1>5, <1>6, <1>7
<1>9. a = b
  BY <1>3, <1>4, <1>8
<1> QED BY <1>1, <1>2, <1>5, <1>8, <1>9

-----------------------------------------------------------------------------
(* What the workers share out.                                             *)

\* A set of natural numbers has a least one.
LEMMA LeastNatural ==
  ASSUME NEW T \in SUBSET Nat, T # {}
  PROVE  \E x \in T : \A y \in T : x <= y
<1>1. \E x \in T : \A y \in T : ~(<< y, x >> \in OpToRel(<, Nat))
  BY WFMin, NatLessThanWellFounded, Zenon
<1>2. \A x, y \in Nat : y < x => << y, x >> \in OpToRel(<, Nat)
  BY Zenon DEF OpToRel
<1>3. \E x \in T : \A y \in T : ~(y < x)
  BY <1>1, <1>2, Zenon
<1> QED BY <1>3

\* What holds of 0 and of n + 1 whenever it holds of n.
LEMMA SetInduction ==
  ASSUME NEW P, 0 \in P, \A n \in Nat : n \in P => n + 1 \in P
  PROVE  \A n \in Nat : n \in P
<1> SUFFICES ASSUME NEW n \in Nat, n \notin P PROVE FALSE
  OBVIOUS
<1> DEFINE T == Nat \ P
<1>1. T \in SUBSET Nat /\ T # {}
  OBVIOUS
<1>2. PICK x \in T : \A y \in T : x <= y
  BY <1>1, LeastNatural
<1>3. x # 0 /\ x - 1 \in Nat /\ x - 1 \in P
  BY <1>2
<1>4. (x - 1) + 1 \in P
  BY <1>3
<1> QED BY <1>4

\* One element of a set.
Some(s) == CHOOSE x \in s : TRUE

\* The recursion of InSomeOrder on a set of sets.
Orders(f, D) ==
  /\ DOMAIN f = D
  /\ \A s \in D : f[s] = IF s = {} THEN << >> ELSE Append(f[s \ {Some(s)}], Some(s))

\* The sets with at most n of the elements of S.
UpTo(S, n) == {s \in SUBSET S : Cardinality(s) <= n}

\* What is left when one element is taken out.
LEMMA OneLess ==
  ASSUME NEW S, IsFiniteSet(S), NEW s \in SUBSET S, s # {}
  PROVE  /\ Some(s) \in s /\ s \ {Some(s)} \in SUBSET S
         /\ Cardinality(s) \in Nat /\ Cardinality(s) >= 1
         /\ Cardinality(s \ {Some(s)}) = Cardinality(s) - 1
<1>1. Some(s) \in s
  BY DEF Some
<1>2. IsFiniteSet(s)
  BY FS_Subset
<1>3. Cardinality(s) \in Nat /\ Cardinality(s) # 0
  BY <1>2, FS_CardinalityType, FS_EmptySet
<1>4. Cardinality(s \ {Some(s)}) = Cardinality(s) - 1
  BY <1>1, <1>2, FS_RemoveElement
<1> QED BY <1>1, <1>3, <1>4

\* There is a function that satisfies the recursion.
LEMMA OrdersExists ==
  ASSUME NEW S, IsFiniteSet(S)
  PROVE  \E f : Orders(f, SUBSET S)
<1> DEFINE P == {n \in Nat : \E f : Orders(f, UpTo(S, n))}
<1>1. \A s \in SUBSET S : Cardinality(s) \in Nat /\ (Cardinality(s) = 0 <=> s = {})
  BY FS_Subset, FS_CardinalityType, FS_EmptySet
<1>2. 0 \in P
  <2> DEFINE f == [s \in UpTo(S, 0) |-> << >>]
  <2>1. \A s \in UpTo(S, 0) : s = {}
    BY <1>1 DEF UpTo
  <2>2. Orders(f, UpTo(S, 0))
    BY <2>1 DEF Orders
  <2> QED BY <2>2
<1>3. ASSUME NEW n \in Nat, n \in P PROVE n + 1 \in P
  <2>1. PICK g : Orders(g, UpTo(S, n))
    BY <1>3
  <2>2. PICK D : D = UpTo(S, n + 1)
    OBVIOUS
  <2> DEFINE f == [s \in D |-> IF s = {} THEN << >>
                               ELSE Append(g[s \ {Some(s)}], Some(s))]
  <2>3. \A s \in UpTo(S, n) : s \in D /\ f[s] = g[s]
    <3>1. \A s \in UpTo(S, n) : s \in D
      BY <1>1, <2>2 DEF UpTo
    <3> QED BY <2>1, <3>1 DEF Orders
  <2>4. \A s \in D : s # {} => s \ {Some(s)} \in UpTo(S, n)
    <3> SUFFICES ASSUME NEW s \in D, s # {} PROVE s \ {Some(s)} \in UpTo(S, n)
      OBVIOUS
    <3>1. s \in SUBSET S /\ Cardinality(s) <= n + 1
      BY <2>2 DEF UpTo
    <3>2. /\ s \ {Some(s)} \in SUBSET S /\ Cardinality(s) \in Nat
          /\ Cardinality(s \ {Some(s)}) = Cardinality(s) - 1
      BY <3>1, OneLess
    <3> QED BY <3>1, <3>2 DEF UpTo
  <2>5. Orders(f, D)
    <3>1. ASSUME NEW s \in D, s # {}
          PROVE  f[s] = Append(f[s \ {Some(s)}], Some(s))
      BY <2>3, <2>4, <3>1
    <3> QED BY <3>1 DEF Orders
  <2> QED BY <2>2, <2>5
<1>4. \A n \in Nat : n \in P
  <2> HIDE DEF P
  <2> QED BY <1>2, <1>3, SetInduction
<1>5. PICK n \in Nat : n = Cardinality(S)
  BY FS_CardinalityType
<1>6. UpTo(S, n) = SUBSET S
  <2>1. \A s \in SUBSET S : Cardinality(s) <= n
    BY <1>5, FS_Subset
  <2> QED BY <2>1 DEF UpTo
<1> QED BY <1>4, <1>5, <1>6

\* InSomeOrder is a value of such a function.
LEMMA InSomeOrderIs ==
  ASSUME NEW S, IsFiniteSet(S)
  PROVE  \E f : Orders(f, SUBSET S) /\ InSomeOrder(S) = f[S]
<1> DEFINE Fix(g) == g = [s \in SUBSET S |-> IF s = {} THEN << >>
                                             ELSE Append(g[s \ {CHOOSE x \in s : TRUE}], CHOOSE x \in s : TRUE)]
           F == CHOOSE g : Fix(g)
<1>1. PICK h : Orders(h, SUBSET S)
  BY OrdersExists
<1>2. PICK f : f = [s \in SUBSET S |-> h[s]]
  OBVIOUS
<1>3. Fix(f)
  <2>1. \A s \in SUBSET S : s \ {CHOOSE x \in s : TRUE} \in SUBSET S
    OBVIOUS
  <2> QED BY <1>1, <1>2, <2>1, Zenon DEF Orders, Some
<1>4. Fix(F)
  <2> HIDE DEF Fix
  <2> QED BY <1>3
<1>5. InSomeOrder(S) = F[S]
  BY DEF InSomeOrder, FoldSet, MapThenFoldSet
<1>6. PICK g : g = F /\ Fix(g)
  BY <1>4
<1> HIDE DEF F
<1>7. Orders(g, SUBSET S)
  <2>1. DOMAIN g = SUBSET S
    BY <1>6, Zenon
  <2>2. \A s \in SUBSET S : g[s] = IF s = {} THEN << >> ELSE Append(g[s \ {Some(s)}], Some(s))
    BY <1>6, Zenon DEF Some
  <2> QED BY <2>1, <2>2 DEF Orders
<1> QED BY <1>5, <1>6, <1>7

\* It is a sequence of exactly the elements.
LEMMA InSomeOrderHasAll ==
  ASSUME NEW S, IsFiniteSet(S)
  PROVE  /\ InSomeOrder(S) \in Seq(S)
         /\ \A x \in S : \E i \in 1 .. Len(InSomeOrder(S)) : InSomeOrder(S)[i] = x
<1>1. PICK f : Orders(f, SUBSET S) /\ InSomeOrder(S) = f[S]
  BY InSomeOrderIs
<1> DEFINE All(s) == f[s] \in Seq(s) /\ \A x \in s : \E i \in 1 .. Len(f[s]) : f[s][i] = x
           P == {n \in Nat : \A s \in UpTo(S, n) : All(s)}
<1>2. \A s \in SUBSET S : Cardinality(s) \in Nat /\ (Cardinality(s) = 0 <=> s = {})
  BY FS_Subset, FS_CardinalityType, FS_EmptySet
<1>3. All({})
  <2>1. f[{}] = << >>
    BY <1>1 DEF Orders
  <2> QED BY <2>1
<1>4. 0 \in P
  <2>1. \A s \in UpTo(S, 0) : s = {}
    BY <1>2 DEF UpTo
  <2> QED BY <1>3, <2>1
<1>5. ASSUME NEW n \in Nat, n \in P PROVE n + 1 \in P
  <2>0. /\ \A t \in UpTo(S, n) : All(t)
        /\ (\A t \in UpTo(S, n + 1) : All(t)) => n + 1 \in P
    <3> HIDE DEF All
    <3> QED BY <1>5
  <2> SUFFICES ASSUME NEW s \in UpTo(S, n + 1), s # {} PROVE All(s)
    <3> HIDE DEF All, P
    <3> QED BY <1>3, <2>0, Zenon
  <2>1. s \in SUBSET S /\ Cardinality(s) <= n + 1
    BY DEF UpTo
  <2>2. /\ s \ {Some(s)} \in SUBSET S /\ Cardinality(s) \in Nat /\ Some(s) \in s
        /\ Cardinality(s \ {Some(s)}) = Cardinality(s) - 1
    BY <2>1, OneLess
  <2>3. s \ {Some(s)} \in UpTo(S, n)
    BY <2>1, <2>2 DEF UpTo
  <2>4. PICK x, r : x = Some(s) /\ r = s \ {x}
    OBVIOUS
  <2>5. PICK q : q = f[r] /\ q \in Seq(r) /\ \A y \in r : \E i \in 1 .. Len(q) : q[i] = y
    <3>1. All(r)
      <4> HIDE DEF All, P
      <4> QED BY <2>0, <2>3, <2>4
    <3> QED BY <3>1
  <2>6. f[s] = Append(q, x)
    BY <1>1, <2>1, <2>4, <2>5 DEF Orders
  <2>7. q \in Seq(s) /\ x \in s /\ Len(q) \in Nat
    BY <2>2, <2>4, <2>5
  <2>8. PICK a : a = Append(q, x) /\ a \in Seq(s) /\ Len(a) = Len(q) + 1
                 /\ a[Len(q) + 1] = x /\ \A i \in 1 .. Len(q) : a[i] = q[i]
    <3>1. /\ Append(q, x) \in Seq(s) /\ Len(Append(q, x)) = Len(q) + 1
          /\ Append(q, x)[Len(q) + 1] = x /\ \A i \in 1 .. Len(q) : Append(q, x)[i] = q[i]
      <4>1. q \in Seq(s) /\ x \in s
        BY <2>7
      <4>2. PICK X, y, e : X = s /\ y = q /\ e = x
        OBVIOUS
      <4>3. y \in Seq(X) /\ e \in X
        BY <4>1, <4>2, Zenon
      <4>4. /\ Append(y, e) \in Seq(X) /\ Len(Append(y, e)) = Len(y) + 1
            /\ Append(y, e)[Len(y) + 1] = e /\ \A i \in 1 .. Len(y) : Append(y, e)[i] = y[i]
        BY <4>3, AppendProperties
      <4> QED BY <4>2, <4>4, Zenon
    <3> QED BY <3>1, Zenon
  <2>9. ASSUME NEW y \in s PROVE \E i \in 1 .. Len(a) : a[i] = y
    <3>1. CASE y = x
      <4>1. Len(q) + 1 \in 1 .. Len(a)
        BY <2>7, <2>8
      <4> QED BY <2>8, <3>1, <4>1
    <3>2. CASE y # x
      <4>1. PICK i \in 1 .. Len(q) : q[i] = y
        BY <2>4, <2>5, <3>2
      <4>2. i \in 1 .. Len(a)
        BY <2>7, <2>8
      <4> QED BY <2>8, <4>1, <4>2
    <3> QED BY <3>1, <3>2
  <2> QED BY <2>6, <2>8, <2>9
<1>6. \A n \in Nat : n \in P
  <2> HIDE DEF P
  <2> QED BY <1>4, <1>5, SetInduction
<1>7. PICK n \in Nat : n = Cardinality(S)
  BY FS_CardinalityType
<1>8. S \in UpTo(S, n)
  BY <1>7 DEF UpTo
<1>9. All(S)
  BY <1>6, <1>8
<1> QED BY <1>1, <1>9

\* Quotients.
LEMMA Quotients ==
  ASSUME NEW W \in Nat \ {0}, NEW n \in Nat
  PROVE  /\ \A w \in 0 .. W : (w * n) \div W \in 0 .. n
         /\ (W * n) \div W = n /\ (0 * n) \div W = 0
<1>1. ASSUME NEW w \in 0 .. W PROVE (w * n) \div W \in 0 .. n
  <2>1. w * n \in Nat /\ w * n <= W * n
    OBVIOUS
  <2>2. PICK q \in Int : q = (w * n) \div W
    BY <2>1
  <2>3. W * q <= w * n /\ w * n < W * q + W
    BY <2>1, <2>2
  <2>4. q >= 0
    <3>1. q < 0 => W * q + W <= 0
      OBVIOUS
    <3> QED BY <2>1, <2>3, <3>1
  <2>5. q <= n
    <3>1. q > n => W * q > W * n
      OBVIOUS
    <3> QED BY <2>1, <2>3, <3>1
  <2> QED BY <2>2, <2>4, <2>5
<1>2. (W * n) \div W = n
  <2>1. PICK q \in Int : q = (W * n) \div W
    OBVIOUS
  <2>2. W * q <= W * n /\ W * n < W * q + W
    BY <2>1
  <2>3. q < n => W * q + W <= W * n
    OBVIOUS
  <2>4. q > n => W * q > W * n
    OBVIOUS
  <2> QED BY <2>1, <2>2, <2>3, <2>4
<1>3. (0 * n) \div W = 0
  OBVIOUS
<1> QED BY <1>1, <1>2, <1>3

\* The batches of the workers have every item.
LEMMA DistributeShares ==
  ASSUME NEW S, IsFiniteSet(S), Distribute(InSomeOrder(S))
  PROVE  /\ queue' = [w \in Worker |-> queue'[w]] /\ found' = [w \in Worker |-> {}]
         /\ \A w \in Worker : queue'[w] \in Seq(S)
         /\ \A x \in S : \E w \in Worker : x \in Range(queue'[w])
<1>1. PICK items : items = InSomeOrder(S)
  OBVIOUS
<1>2. items \in Seq(S) /\ \A x \in S : \E i \in 1 .. Len(items) : items[i] = x
  BY <1>1, InSomeOrderHasAll
<1>3. PICK n \in Nat : n = Len(items)
  BY <1>2
<1>4. /\ queue' = [w \in Worker |-> SubSeq(items, ((w - 1) * n) \div Workers + 1,
                                           (w * n) \div Workers)]
      /\ found' = [w \in Worker |-> {}]
  BY <1>1, <1>3 DEF Distribute
<1>5. PICK W \in Nat \ {0} : W = Workers /\ Worker = 1 .. W
  BY MutationFiltersAssumption DEF Worker
<1> DEFINE cut(w) == (w * n) \div W
<1>6. /\ \A w \in 0 .. W : cut(w) \in 0 .. n
      /\ cut(0) = 0 /\ cut(W) = n
  BY Quotients
<1> HIDE DEF cut
<1>7. \A w \in Worker : queue'[w] = SubSeq(items, cut(w - 1) + 1, cut(w))
  BY <1>4, <1>5 DEF cut
<1>8. ASSUME NEW w \in Worker
      PROVE  /\ w \in 1 .. W /\ w - 1 \in 0 .. W /\ cut(w - 1) \in 0 .. n /\ cut(w) \in 0 .. n
             /\ queue'[w] \in Seq(S)
             /\ \A k \in cut(w - 1) + 1 .. cut(w) : items[k] \in Range(queue'[w])
  <2>1. w \in 1 .. W /\ w - 1 \in 0 .. W /\ w \in 0 .. W
    BY <1>5
  <2>2. PICK a \in 0 .. n, b \in 0 .. n : a = cut(w - 1) /\ b = cut(w)
    BY <1>6, <2>1
  <2>3. PICK q : q = SubSeq(items, a + 1, b)
    OBVIOUS
  <2>4. /\ q \in Seq(S)
        /\ DOMAIN q = 1 .. Len(q) /\ Len(q) = (IF a + 1 <= b THEN b - (a + 1) + 1 ELSE 0)
        /\ \A i \in 1 .. b - (a + 1) + 1 : q[i] = items[(a + 1) + i - 1]
    BY <1>2, <1>3, <2>3, SubSeqProperties
  <2>5. ASSUME NEW k \in a + 1 .. b PROVE items[k] \in Range(q)
    <3>1. k - a \in 1 .. b - (a + 1) + 1 /\ (a + 1) + (k - a) - 1 = k /\ k - a \in DOMAIN q
      BY <2>4
    <3>2. q[k - a] = items[k]
      BY <2>4, <3>1
    <3> QED BY <3>1, <3>2 DEF Range
  <2> QED BY <1>7, <2>1, <2>2, <2>3, <2>4, <2>5
<1>9. ASSUME NEW x \in S PROVE \E w \in Worker : x \in Range(queue'[w])
  <2>1. PICK k \in 1 .. n : items[k] = x
    BY <1>2, <1>3
  <2> DEFINE T == {w \in 1 .. W : k <= cut(w)}
  <2>2. T \in SUBSET Nat /\ W \in T
    BY <1>6
  <2>3. PICK w \in T : \A v \in T : w <= v
    BY <2>2, LeastNatural
  <2>4. w \in Worker /\ cut(w) \in Int /\ cut(w - 1) \in Int
    BY <1>5, <1>8
  <2>5. cut(w - 1) < k
    <3>1. CASE w = 1
      BY <1>6, <3>1
    <3>2. CASE w # 1
      <4>1. w - 1 \in 1 .. W /\ w - 1 \notin T
        BY <2>3, <3>2
      <4> QED BY <2>4, <4>1
    <3> QED BY <3>1, <3>2
  <2>6. k \in cut(w - 1) + 1 .. cut(w)
    BY <2>3, <2>4, <2>5
  <2> QED BY <1>8, <2>1, <2>4, <2>6
<1>10. queue' = [w \in Worker |-> queue'[w]]
  BY <1>4
<1> QED BY <1>4, <1>8, <1>9, <1>10

\* What a function makes of a finite set is finite.
LEMMA FiniteImage ==
  ASSUME NEW f, IsFiniteSet(DOMAIN f)
  PROVE  IsFiniteSet({f[x] : x \in DOMAIN f})
<1>1. PICK S, T : S = DOMAIN f /\ T = {f[x] : x \in DOMAIN f}
  OBVIOUS
<1>2. PICK g : g = [x \in S |-> f[x]]
  OBVIOUS
<1>3. g \in Surjection(S, T)
  BY <1>1, <1>2 DEF Surjection
<1> QED BY <1>1, <1>3, FS_Surjection

\* A set of at most six elements.
LEMMA SixFinite == \A a, b, c, d, e, f : IsFiniteSet({a, b, c, d, e, f})
<1> TAKE a, b, c, d, e, f
<1>1. IsFiniteSet({a})
  BY FS_Singleton
<1>2. IsFiniteSet({a} \union {b})
  BY <1>1, FS_AddElement
<1>3. IsFiniteSet({a} \union {b} \union {c})
  BY <1>2, FS_AddElement
<1>4. IsFiniteSet({a} \union {b} \union {c} \union {d})
  BY <1>3, FS_AddElement
<1>5. IsFiniteSet({a} \union {b} \union {c} \union {d} \union {e})
  BY <1>4, FS_AddElement
<1>6. IsFiniteSet({a} \union {b} \union {c} \union {d} \union {e} \union {f})
  BY <1>5, FS_AddElement
<1>7. {a, b, c, d, e, f} = {a} \union {b} \union {c} \union {d} \union {e} \union {f}
  OBVIOUS
<1> QED BY <1>6, <1>7

\* Each group of mutators is finite.
LEMMA GroupsFinite ==
  /\ IsFiniteSet(NegateMutator) /\ IsFiniteSet(ReplaceCallMutator)
  /\ IsFiniteSet(RemoveVoidMutator) /\ IsFiniteSet(ScalarMutator)
  /\ IsFiniteSet(NumberMutators) /\ IsFiniteSet(AddMutators) /\ IsFiniteSet(SubMutators)
  /\ IsFiniteSet(MulMutators) /\ IsFiniteSet(DivMutators) /\ IsFiniteSet(RemMutators)
  /\ IsFiniteSet(BitMutators) /\ IsFiniteSet(ShiftMutators) /\ IsFiniteSet(MinusMutators)
  /\ IsFiniteSet(NotMutators) /\ IsFiniteSet(LogicalMutators) /\ IsFiniteSet(EqualMutators)
  /\ IsFiniteSet(ComparisonMutators) /\ IsFiniteSet(BoundaryMutators)
<1>1. \A a : IsFiniteSet({a})
  BY FS_Singleton
<1>2. \A a, b : IsFiniteSet({a, b})
  <2> TAKE a, b
  <2>1. {a, b} = {a, b, b, b, b, b}
    OBVIOUS
  <2>2. IsFiniteSet({a, b, b, b, b, b})
    BY SixFinite, Zenon
  <2> QED BY <2>1, <2>2
<1>3. \A a, b, c, d : IsFiniteSet({a, b, c, d})
  <2> TAKE a, b, c, d
  <2>1. {a, b, c, d} = {a, b, c, d, d, d}
    OBVIOUS
  <2>2. IsFiniteSet({a, b, c, d, d, d})
    BY SixFinite, Zenon
  <2> QED BY <2>1, <2>2
<1>4. /\ IsFiniteSet(NegateMutator) /\ IsFiniteSet(ReplaceCallMutator)
      /\ IsFiniteSet(RemoveVoidMutator) /\ IsFiniteSet(ScalarMutator)
      /\ IsFiniteSet(MinusMutators) /\ IsFiniteSet(NotMutators)
  BY <1>1, Zenon DEF NegateMutator, ReplaceCallMutator, RemoveVoidMutator, ScalarMutator,
                     MinusMutators, NotMutators
<1>5. /\ IsFiniteSet(NumberMutators) /\ IsFiniteSet(MulMutators) /\ IsFiniteSet(DivMutators)
      /\ IsFiniteSet(RemMutators) /\ IsFiniteSet(LogicalMutators) /\ IsFiniteSet(EqualMutators)
  BY <1>2, Zenon DEF NumberMutators, MulMutators, DivMutators, RemMutators, LogicalMutators,
                     EqualMutators
<1>6. /\ IsFiniteSet(AddMutators) /\ IsFiniteSet(SubMutators) /\ IsFiniteSet(ShiftMutators)
      /\ IsFiniteSet(ComparisonMutators) /\ IsFiniteSet(BoundaryMutators)
  BY <1>3, Zenon DEF AddMutators, SubMutators, ShiftMutators, ComparisonMutators,
                     BoundaryMutators
<1>7. IsFiniteSet(BitMutators)
  BY SixFinite, Zenon DEF BitMutators
<1> QED BY <1>4, <1>5, <1>6, <1>7

\* The factory has finitely many mutators.
LEMMA MutatorsFinite == IsFiniteSet(DOMAIN AllMutators)
<1>1. \A S, T : IsFiniteSet(S) /\ IsFiniteSet(T) => IsFiniteSet(S \union T)
  BY FS_Union
<1>2. IsFiniteSet(Created)
  <2>1. IsFiniteSet(NegateMutator \union ReplaceCallMutator \union RemoveVoidMutator
                    \union ScalarMutator \union NumberMutators \union AddMutators)
    BY <1>1, GroupsFinite, Zenon
  <2>2. IsFiniteSet(NegateMutator \union ReplaceCallMutator \union RemoveVoidMutator
                    \union ScalarMutator \union NumberMutators \union AddMutators
                    \union SubMutators \union MulMutators \union DivMutators
                    \union RemMutators \union BitMutators \union ShiftMutators)
    BY <1>1, <2>1, GroupsFinite, Zenon
  <2>3. IsFiniteSet(NegateMutator \union ReplaceCallMutator \union RemoveVoidMutator
                    \union ScalarMutator \union NumberMutators \union AddMutators
                    \union SubMutators \union MulMutators \union DivMutators
                    \union RemMutators \union BitMutators \union ShiftMutators
                    \union MinusMutators \union NotMutators \union LogicalMutators
                    \union EqualMutators \union ComparisonMutators \union BoundaryMutators)
    BY <1>1, <2>2, GroupsFinite, Zenon
  <2> QED BY <2>3, Zenon DEF Created
<1>3. PICK f : f = [m \in Created |-> m.id]
  OBVIOUS
<1>4. DOMAIN AllMutators = {f[m] : m \in DOMAIN f} /\ DOMAIN f = Created
  BY <1>3 DEF AllMutators
<1> QED BY <1>2, <1>4, FiniteImage

-----------------------------------------------------------------------------
(* The mutation points.                                                    *)

\* The nodes of a unit.
LEMMA NodesOf ==
  ASSUME program \in Program, NEW u \in DOMAIN program.unit
  PROVE  /\ DOMAIN program.unit[u] = 1 .. Len(program.unit[u]) /\ Len(program.unit[u]) \in Nat
         /\ Exprs(u) \subseteq 1 .. Len(program.unit[u])
         /\ Decls(u) \subseteq 1 .. Len(program.unit[u])
         /\ \A i \in Exprs(u) : At(u, i) \in Expression
         /\ \A i \in Decls(u) : At(u, i) \in Declaration
<1>1. program.unit[u] \in Seq(Declaration \union Expression)
  BY MutationFiltersAssumption DEF WellFormed
<1>2. PICK n \in Nat : n = Len(program.unit[u]) /\ DOMAIN program.unit[u] = 1 .. n
  BY <1>1
<1>3. \A i \in 1 .. n : At(u, i) \in Declaration \union Expression
  BY <1>1, <1>2 DEF At
<1>4. \A i : i \in Declaration => i.what = "decl"
  BY DEF Declaration
<1>5. \A i : i \in Expression => i.what = "expr"
  BY DEF Expression
<1> QED BY <1>2, <1>3, <1>4, <1>5 DEF Exprs, Decls

\* What a mutation point is.
IsPoint(p) ==
  /\ p = [mutator |-> p.mutator, unit |-> p.unit, index |-> p.index]
  /\ p.unit \in DOMAIN program.unit /\ p.index \in Exprs(p.unit)
  /\ p.mutator \in mutators
  /\ ~Excluded(Node(p)) /\ CanMutate(p.mutator, Node(p))

\* All points are.
LEMMA PointFacts ==
  ASSUME NEW p \in AllPoints
  PROVE  IsPoint(p)
<1>1. PICK u \in DOMAIN program.unit : \E i \in Exprs(u) : ~Excluded(At(u, i)) /\ p \in PointsAt(u, i)
  BY DEF AllPoints
<1>2. PICK i \in Exprs(u) : ~Excluded(At(u, i)) /\ p \in PointsAt(u, i)
  BY <1>1
<1>3. PICK id \in mutators : CanMutate(id, At(u, i)) /\ p = [mutator |-> id, unit |-> u, index |-> i]
  BY <1>2 DEF PointsAt
<1>4. Node(p) = At(u, i)
  BY <1>3 DEF Node, At
<1> QED BY <1>2, <1>3, <1>4 DEF IsPoint

\* There are finitely many.
LEMMA PointsFinite ==
  ASSUME program \in Program, mutators \subseteq DOMAIN AllMutators
  PROVE  IsFiniteSet(AllPoints)
<1>1. IsFiniteSet(mutators)
  BY MutatorsFinite, FS_Subset
<1>2. ASSUME NEW u, NEW i PROVE IsFiniteSet(PointsAt(u, i))
  <2> DEFINE Takes(k) == CanMutate(k, At(u, i)) /\ (At(u, i).debug \/ k \in LogicalMutator)
             K == {k \in mutators : Takes(k)}
             point(id) == [mutator |-> id, unit |-> u, index |-> i]
  <2>1. PointsAt(u, i) = {point(id) : id \in K}
    BY Zenon DEF PointsAt
  <2> HIDE DEF Takes
  <2>2. K \subseteq mutators
    OBVIOUS
  <2> HIDE DEF K, point
  <2>3. PICK f : f = [id \in K |-> point(id)]
    OBVIOUS
  <2>4. IsFiniteSet(K)
    BY <1>1, <2>2, FS_Subset
  <2>5. PointsAt(u, i) = {f[id] : id \in DOMAIN f} /\ DOMAIN f = K
    BY <2>1, <2>3
  <2> QED BY <2>4, <2>5, FiniteImage
<1>3. ASSUME NEW u \in DOMAIN program.unit
      PROVE  IsFiniteSet(UNION {PointsAt(u, i) : i \in {j \in Exprs(u) : ~Excluded(At(u, j))}})
  <2>1. PICK I : I = {j \in Exprs(u) : ~Excluded(At(u, j))}
    OBVIOUS
  <2>2. IsFiniteSet(I)
    <3>1. PICK n \in Nat : Exprs(u) \subseteq 1 .. n
      BY NodesOf
    <3>2. IsFiniteSet(1 .. n)
      BY FS_Interval
    <3> QED BY <2>1, <3>1, <3>2, FS_Subset
  <2>3. PICK f : f = [i \in I |-> PointsAt(u, i)]
    OBVIOUS
  <2>4. {PointsAt(u, i) : i \in I} = {f[i] : i \in DOMAIN f} /\ DOMAIN f = I
    BY <2>3
  <2>5. IsFiniteSet({PointsAt(u, i) : i \in I})
    BY <2>2, <2>4, FiniteImage
  <2>6. \A T \in {PointsAt(u, i) : i \in I} : IsFiniteSet(T)
    BY <1>2
  <2> QED BY <2>1, <2>5, <2>6, FS_UNION
<1>4. PICK f : f = [u \in DOMAIN program.unit |->
                      UNION {PointsAt(u, i) : i \in {j \in Exprs(u) : ~Excluded(At(u, j))}}]
  OBVIOUS
<1>5. IsFiniteSet(DOMAIN f) /\ DOMAIN f = DOMAIN program.unit
  BY <1>4, MutationFiltersAssumption DEF WellFormed
<1>6. AllPoints = UNION {f[u] : u \in DOMAIN f}
  <2> DEFINE P(u) == UNION {PointsAt(u, i) : i \in {j \in Exprs(u) : ~Excluded(At(u, j))}}
  <2>1. AllPoints = UNION {P(u) : u \in DOMAIN program.unit}
    BY Zenon DEF AllPoints
  <2>2. f = [u \in DOMAIN program.unit |-> P(u)]
    BY <1>4, Zenon
  <2> HIDE DEF P
  <2> QED BY <1>5, <2>1, <2>2
<1>7. \A T \in {f[u] : u \in DOMAIN f} : IsFiniteSet(T)
  BY <1>3, <1>4
<1> QED BY <1>5, <1>6, <1>7, FiniteImage, FS_UNION

-----------------------------------------------------------------------------
(* What each filter leaves, in terms of the program and the command line.  *)

\* What the AST search records when it is done with all units.
Searched == IF "main" \in options.excluded THEN {} ELSE DOMAIN program.unit
Recorded ==
  [path \in {SourceFileName(u) : u \in Searched} |->
     SingleUnitMutations(CHOOSE u \in Searched : SourceFileName(u) = path)]
PathOfPoint(p) == FilePath(p.unit, Node(p))
IsRecorded(p) ==
  PathOfPoint(p) \in DOMAIN Recorded /\ p.mutator \in DOMAIN Recorded[PathOfPoint(p)]
Whitelisted(p) ==
  IsRecorded(p) /\ Hash(Node(p)) \in DOMAIN Recorded[PathOfPoint(p)][p.mutator]

\* The points after each filter.
Located == {p \in AllPoints : Node(p).debug}
Included == {p \in Located : ~Excluded(Node(p))}
Listed == IF ASTSearchEnabled THEN {p \in Included : Whitelisted(p)} ELSE Included
Real == IF CompilationInfoAvailable THEN {p \in Listed : ~IsJunkMutation(p)} ELSE Listed

\* None of this changes while the program, the options and the mutators are the same.
LEMMA SameNodes ==
  ASSUME UNCHANGED << program, options >>
  PROVE  /\ \A p : Node(p)' = Node(p) /\ (Excluded(Node(p)) <=> Excluded(Node(p))')
         /\ \A p : PathOfPoint(p)' = PathOfPoint(p)
         /\ \A p : IsJunkMutation(p)' <=> IsJunkMutation(p)
         /\ \A p : NodeOf(p)' = NodeOf(p) /\ PlaceOf(p)' = PlaceOf(p)
         /\ CompilationInfoAvailable' <=> CompilationInfoAvailable
         /\ ASTSearchEnabled' <=> ASTSearchEnabled
         /\ Searched' = Searched
         /\ \A u : SourceFileName(u)' = SourceFileName(u) /\ UnitPath(u)' = UnitPath(u)
<1>1. \A u : UnitPath(u)' = UnitPath(u)
  BY DEF UnitPath
<1>2. \A p : Node(p)' = Node(p) /\ (Excluded(Node(p)) <=> Excluded(Node(p))')
  BY DEF Node, Excluded
<1>3. \A p : PathOfPoint(p)' = PathOfPoint(p)
  BY DEF PathOfPoint, FilePath, HeaderPath, UnitPath, Node
<1>4. \A p : NodeOf(p)' = NodeOf(p) /\ PlaceOf(p)' = PlaceOf(p)
  <2>1. \A p : PlaceOf(p)' = PlaceOf(p)
    BY DEF PlaceOf, Place, At
  <2>2. \A id, u, place : FoundMutant(id, u, place)' = FoundMutant(id, u, place)
    BY DEF FoundMutant, InstructionRangeVisitor, LocationInRange, GetDecl, RecordedDecls, Covers,
           At, Exprs, Decls, InSystemHeader
  <2> QED BY <2>1, <2>2 DEF NodeOf
<1>5. \A p : IsJunkMutation(p)' <=> IsJunkMutation(p)
  <2>1. \A u, at : GetDecl(u, at)' = GetDecl(u, at)
    BY DEF GetDecl, RecordedDecls, Covers, At, Decls, InSystemHeader
  <2> QED BY <1>4, <2>1 DEF IsJunkMutation
<1>6. CompilationInfoAvailable' <=> CompilationInfoAvailable
  BY DEF CompilationInfoAvailable, BitcodeCompilationFlags, UnitPath
<1>7. Searched' = Searched /\ \A u : SourceFileName(u)' = SourceFileName(u)
  BY DEF Searched, SourceFileName, UnitPath, Filename
<1> QED BY <1>1, <1>2, <1>3, <1>4, <1>5, <1>6, <1>7 DEF ASTSearchEnabled

\* The same of the points.
LEMMA SamePoints ==
  ASSUME UNCHANGED << program, options, mutators, astKinds >>
  PROVE  /\ AllPoints' = AllPoints /\ Recorded' = Recorded
         /\ \A p : (IsRecorded(p)' <=> IsRecorded(p)) /\ (Whitelisted(p)' <=> Whitelisted(p))
         /\ Located' = Located /\ Included' = Included /\ Listed' = Listed /\ Real' = Real
<1>1. AllPoints' = AllPoints
  BY DEF AllPoints, PointsAt, At, Exprs, Excluded
<1>2. Recorded' = Recorded
  BY DEF Recorded, Searched, SourceFileName, Filename, UnitPath, SingleUnitMutations, Saved, VisitExpr,
         ShouldSkipCurrentFunction, InSystemHeader, Excluded, BinaryKind, At, Exprs, Decls
<1>4. \A p : (IsRecorded(p)' <=> IsRecorded(p)) /\ (Whitelisted(p)' <=> Whitelisted(p))
  BY <1>2, SameNodes DEF IsRecorded, Whitelisted
<1>5. Located' = Located /\ Included' = Included
  BY <1>1, SameNodes DEF Located, Included
<1>6. Listed' = Listed /\ Real' = Real
  BY <1>4, <1>5, SameNodes DEF Listed, Real
<1> QED BY <1>1, <1>2, <1>4, <1>5, <1>6

-----------------------------------------------------------------------------
(* The tasks, from one filter to the next.                                 *)

\* What the filter of this name lets pass.
Passes(name, p) ==
  \/ name = "NoDebugInfo" /\ Node(p).debug
  \/ name = "FilePath" /\ ~Excluded(Node(p))
  \/ name = "AST" /\ Whitelisted(p)
  \/ name = "junk" /\ ~IsJunkMutation(p)

\* What the workers process, and what they keep of it.
Items == IF Searching THEN DOMAIN program.unit ELSE points
Accepts(x) == IF Searching THEN "main" \notin options.excluded ELSE Passes(Head(filters), x)

\* The program, the options and the mutators.
SetupInv ==
  /\ program \in Program /\ options \in Options
  /\ mutators \subseteq DOMAIN AllMutators
  /\ abort # None <=> phase = "end"
  /\ phase \in {"kinds", "ASTSearch"} => ASTSearchEnabled
  /\ phase # "mutators" => mutators = FactoryMutators(SelectedGroups)
  /\ phase \notin {"mutators", "kinds"} /\ ASTSearchEnabled => astKinds = mutators

FirstFilters ==
  << "NoDebugInfo", "FilePath" >> \o
  (IF ASTSearchEnabled THEN << "AST" >> ELSE << >>) \o
  (IF CompilationInfoAvailable THEN << "junk" >> ELSE << >>)

\* Where main is in the list of the filters, and the points it has left.
Stage ==
  \/ filters = FirstFilters /\ points = AllPoints
  \/ filters = Tail(FirstFilters) /\ points = Located
  \/ ASTSearchEnabled /\ filters = << "AST", "junk" >> /\ points = Included
  \/ CompilationInfoAvailable /\ filters = << "junk" >> /\ points = Listed

Narrowed == phase \in {"report", "done"} \/ abort = "SourceInfo"

StagesInv ==
  /\ phase \in {"kinds", "ASTSearch", "search"} => filters = FirstFilters
  /\ phase = "filter" => Stage
  /\ Narrowed => points = Real
  /\ ASTSearchEnabled /\ (Filtering("junk") \/ Narrowed) => \A p \in Included : IsRecorded(p)

\* What the AST search has left in the storage, until junk detection adds to it.
First == IF ASTSearchEnabled THEN Recorded ELSE Empty
StorageInv ==
  /\ phase \in {"mutators", "kinds", "ASTSearch"} => storage = Empty
  /\ phase = "search" \/ (phase = "filter" /\ filters # << "junk" >>) => storage = First

\* No item is lost: it is still in a queue, or the worker that had it has kept it
\* exactly if it is accepted.
QueuesInv ==
  /\ found = [w \in Worker |-> found[w]]
  /\ \A w \in Worker : queue[w] \in Seq(Items) /\ found[w] \subseteq {x \in Items : Accepts(x)}
  /\ \A x \in Items : \/ \E w \in Worker : x \in Range(queue[w])
                      \/ /\ Accepts(x) => x \in Results
                         /\ Filtering("AST") => IsRecorded(x)

\* What a busy worker is busy with.
TaskInv(w) ==
  /\ worker[w].pc # "idle" =>
       Filtering("junk") \/ (Searching /\ "main" \notin options.excluded)
  /\ worker[w].pc = "save" =>
       /\ Filtering("junk") /\ ~IsJunkMutation(Item(w))
       /\ worker[w].node = NodeOf(Item(w))

PipelineInv ==
  /\ SetupInv /\ StagesInv /\ StorageInv
  /\ phase \in {"ASTSearch", "filter"} => QueuesInv
  /\ Running => \A w \in Worker : TaskInv(w)

\* What does not change while main waits for the workers.
LEMMA SameTask ==
  ASSUME UNCHANGED << program, options, mutators, astKinds, phase, filters, points >>
  PROVE  /\ Items' = Items /\ (Searching' <=> Searching)
         /\ \A x : Accepts(x)' <=> Accepts(x)
         /\ \A name : Filtering(name)' <=> Filtering(name)
         /\ First' = First
<1>1. \A name, p : Passes(name, p)' <=> Passes(name, p)
  BY SameNodes, SamePoints DEF Passes
<1>2. Items' = Items /\ (Searching' <=> Searching)
  BY DEF Items, Searching
<1>3. \A x : Accepts(x)' <=> Accepts(x)
  BY <1>1 DEF Accepts, Searching
<1>4. \A name : Filtering(name)' <=> Filtering(name)
  BY DEF Filtering
<1>5. First' = First
  BY SameNodes, SamePoints DEF First, Empty
<1> QED BY <1>2, <1>3, <1>4, <1>5

\* Nor does main's part of the invariant.
LEMMA SameMain ==
  ASSUME UNCHANGED << program, options, mutators, astKinds, phase, filters, points, abort >>,
         SetupInv, StagesInv
  PROVE  SetupInv' /\ StagesInv'
<1>1. SetupInv'
  <2>1. FactoryMutators(SelectedGroups)' = FactoryMutators(SelectedGroups)
    BY DEF FactoryMutators, SelectedGroups
  <2> QED BY <2>1, SameNodes DEF SetupInv
<1>2. FirstFilters' = FirstFilters
  BY SameNodes DEF FirstFilters
<1>3. Stage' <=> Stage
  BY <1>2, SameNodes, SamePoints DEF Stage
<1>4. Narrowed' <=> Narrowed
  BY DEF Narrowed
<1>5. StagesInv'
  BY <1>2, <1>3, <1>4, SameNodes, SamePoints, SameTask DEF StagesInv
<1> QED BY <1>1, <1>5

\* The first item of a queue, and the others.
LEMMA Dequeued ==
  ASSUME NEW S, NEW q \in Seq(S), q # << >>
  PROVE  /\ Head(q) \in S /\ Tail(q) \in Seq(S)
         /\ \A x \in Range(q) : x = Head(q) \/ x \in Range(Tail(q))
<1>1. PICK n \in Nat : n = Len(q) /\ DOMAIN q = 1 .. n /\ n # 0
  OBVIOUS
<1>2. Head(q) = q[1] /\ Head(q) \in S /\ Tail(q) \in Seq(S) /\ Len(Tail(q)) = n - 1
  BY <1>1
<1>3. DOMAIN Tail(q) = 1 .. n - 1 /\ \A i \in 1 .. n - 1 : Tail(q)[i] = q[i + 1]
  BY <1>1, <1>2
<1>4. ASSUME NEW i \in 1 .. n, i # 1 PROVE q[i] \in Range(Tail(q))
  <2>1. i - 1 \in 1 .. n - 1 /\ Tail(q)[i - 1] = q[i]
    BY <1>3, <1>4
  <2> QED BY <1>3, <2>1 DEF Range
<1> QED BY <1>1, <1>2, <1>4 DEF Range

\* A worker is done with its item.
LEMMA FinishKeepsQueues ==
  ASSUME QueuesInv, WorkerType, NEW w \in Worker, NEW keep \in BOOLEAN, Finish(w, keep),
         queue[w] # << >>, keep <=> Accepts(Item(w)),
         Filtering("AST") => IsRecorded(Item(w)),
         UNCHANGED << program, options, mutators, astKinds, phase, filters, points >>
  PROVE  QueuesInv' /\ Item(w) \in Items /\ (Item(w) \in Results' <=> Item(w) \in Results \/ keep)
         /\ \A x : x \in Results' <=> x \in Results \/ (x = Item(w) /\ keep)
<1>1. PICK q, x : q = queue[w] /\ x = Item(w)
  OBVIOUS
<1>2. /\ q \in Seq(Items) /\ q # << >> /\ x = Head(q)
      /\ x \in Items /\ Tail(q) \in Seq(Items)
      /\ \A y \in Range(q) : y = x \/ y \in Range(Tail(q))
  <2>1. q \in Seq(Items) /\ q # << >> /\ x = Head(q)
    BY <1>1 DEF QueuesInv, Item
  <2> QED BY <2>1, Dequeued
<1>3. /\ queue'[w] = Tail(q) /\ \A v \in Worker : v # w => queue'[v] = queue[v]
      /\ found' = [v \in Worker |-> found'[v]]
      /\ found'[w] = (IF keep THEN found[w] \union {x} ELSE found[w])
      /\ \A v \in Worker : v # w => found'[v] = found[v]
  BY <1>1 DEF Finish, WorkerType, QueuesInv
<1>4. \A y : y \in Results' <=> y \in Results \/ (y = x /\ keep)
  BY <1>3 DEF Results
<1>5. \A v \in Worker : queue'[v] \in Seq(Items) /\ found'[v] \subseteq {y \in Items : Accepts(y)}
  BY <1>1, <1>2, <1>3 DEF QueuesInv
<1>6. ASSUME NEW y \in Items
      PROVE  \/ \E v \in Worker : y \in Range(queue'[v])
             \/ (Accepts(y) => y \in Results') /\ (Filtering("AST") => IsRecorded(y))
  <2>1. CASE y = x
    BY <1>1, <1>4, <2>1
  <2>2. ASSUME NEW v \in Worker, y \in Range(queue[v]), y # x
        PROVE  \E z \in Worker : y \in Range(queue'[z])
    <3>1. CASE v = w
      BY <1>1, <1>2, <1>3, <2>2, <3>1
    <3>2. CASE v # w
      BY <1>3, <2>2, <3>2
    <3> QED BY <3>1, <3>2
  <2>3. CASE (Accepts(y) => y \in Results) /\ (Filtering("AST") => IsRecorded(y))
    BY <1>4, <2>3
  <2> QED BY <2>1, <2>2, <2>3 DEF QueuesInv
<1>7. QueuesInv'
  BY <1>3, <1>5, <1>6, SameTask, SamePoints DEF QueuesInv
<1> QED BY <1>1, <1>2, <1>4, <1>7

\* Nor do the queues change while nobody finishes anything.
LEMMA SameQueues ==
  ASSUME QueuesInv, UNCHANGED << program, options, mutators, astKinds, phase, filters, points,
                                 queue, found >>
  PROVE  QueuesInv'
<1>1. Results' = Results
  BY DEF Results
<1> QED BY <1>1, SameTask, SamePoints DEF QueuesInv

\* When all are done, they have found what is accepted.
LEMMA AllFound ==
  ASSUME QueuesInv, AllDone
  PROVE  /\ Results = {x \in Items : Accepts(x)}
         /\ Filtering("AST") => \A x \in Items : IsRecorded(x)
<1>1. \A w \in Worker : Range(queue[w]) = {}
  BY DEF AllDone, Range
<1>2. Results \subseteq {x \in Items : Accepts(x)}
  BY DEF Results, QueuesInv
<1>3. \A x \in Items : Accepts(x) => x \in Results
  BY <1>1 DEF QueuesInv
<1>4. Filtering("AST") => \A x \in Items : IsRecorded(x)
  BY <1>1 DEF QueuesInv
<1> QED BY <1>2, <1>3, <1>4

\* Short lists: what follows the first element.
LEMMA TailOf4 == \A a, b, c, d : Tail(<< a, b, c, d >>) = << b, c, d >>
<1> TAKE a, b, c, d
<1>1. PICK S : S = {a, b, c, d}
  OBVIOUS
<1>2. PICK s, t, r : s = << a, b, c, d >> /\ t = Tail(s) /\ r = << b, c, d >>
  OBVIOUS
<1>3. s \in Seq(S) /\ Len(s) = 4 /\ r \in Seq(S) /\ Len(r) = 3
  BY <1>1, <1>2
<1>4. t \in Seq(S) /\ Len(t) = 3 /\ \A i \in 1 .. 3 : t[i] = s[i + 1]
  BY <1>2, <1>3
<1>5. \A i \in 1 .. 3 : t[i] = r[i]
  BY <1>2, <1>4
<1>6. t = r
  BY <1>3, <1>4, <1>5
<1> QED BY <1>2, <1>6

\* The same of three.
LEMMA TailOf3 == \A a, b, c : Tail(<< a, b, c >>) = << b, c >>
<1> TAKE a, b, c
<1>1. PICK S : S = {a, b, c}
  OBVIOUS
<1>2. PICK s, t, r : s = << a, b, c >> /\ t = Tail(s) /\ r = << b, c >>
  OBVIOUS
<1>3. s \in Seq(S) /\ Len(s) = 3 /\ r \in Seq(S) /\ Len(r) = 2
  BY <1>1, <1>2
<1>4. t \in Seq(S) /\ Len(t) = 2 /\ \A i \in 1 .. 2 : t[i] = s[i + 1]
  BY <1>2, <1>3
<1>5. \A i \in 1 .. 2 : t[i] = r[i]
  BY <1>2, <1>4
<1>6. t = r
  BY <1>3, <1>4, <1>5
<1> QED BY <1>2, <1>6

\* A list with one more element.
LEMMA ListOf4 == \A a, b, c, d : << a, b, c >> \o << d >> = << a, b, c, d >>
<1> TAKE a, b, c, d
<1>1. PICK S : S = {a, b, c, d}
  OBVIOUS
<1>2. PICK s, t, r, q : s = << a, b, c >> /\ t = << d >> /\ r = << a, b, c, d >> /\ q = s \o t
  OBVIOUS
<1>3. /\ s \in Seq(S) /\ Len(s) = 3 /\ t \in Seq(S) /\ Len(t) = 1
      /\ r \in Seq(S) /\ Len(r) = 4
  BY <1>1, <1>2
<1>4. q \in Seq(S) /\ Len(q) = 4 /\ \A i \in 1 .. 4 : q[i] = r[i]
  BY <1>2, <1>3
<1>5. q = r
  BY <1>3, <1>4
<1> QED BY <1>2, <1>5

\* The same of two.
LEMMA ListOf3 == \A a, b, c : << a, b >> \o << c >> = << a, b, c >>
<1> TAKE a, b, c
<1>1. PICK S : S = {a, b, c}
  OBVIOUS
<1>2. PICK s, t, r, q : s = << a, b >> /\ t = << c >> /\ r = << a, b, c >> /\ q = s \o t
  OBVIOUS
<1>3. /\ s \in Seq(S) /\ Len(s) = 2 /\ t \in Seq(S) /\ Len(t) = 1
      /\ r \in Seq(S) /\ Len(r) = 3
  BY <1>1, <1>2
<1>4. q \in Seq(S) /\ Len(q) = 3 /\ \A i \in 1 .. 3 : q[i] = r[i]
  BY <1>2, <1>3
<1>5. q = r
  BY <1>3, <1>4
<1> QED BY <1>2, <1>5

\* The filters main installs.
LEMMA FirstFiltersAre ==
  /\ ASTSearchEnabled => CompilationInfoAvailable
  /\ ASTSearchEnabled => FirstFilters = << "NoDebugInfo", "FilePath", "AST", "junk" >>
  /\ ~ASTSearchEnabled /\ CompilationInfoAvailable =>
       FirstFilters = << "NoDebugInfo", "FilePath", "junk" >>
  /\ ~CompilationInfoAvailable => FirstFilters = << "NoDebugInfo", "FilePath" >>
<1>1. ASTSearchEnabled => CompilationInfoAvailable
  BY DEF ASTSearchEnabled
<1>2. CASE ASTSearchEnabled
  <2>1. FirstFilters = << "NoDebugInfo", "FilePath" >> \o << "AST" >> \o << "junk" >>
    BY <1>1, <1>2, Zenon DEF FirstFilters
  <2>2. << "NoDebugInfo", "FilePath" >> \o << "AST" >> = << "NoDebugInfo", "FilePath", "AST" >>
    BY ListOf3, Zenon
  <2>3. FirstFilters = << "NoDebugInfo", "FilePath", "AST", "junk" >>
    BY <2>1, <2>2, ListOf4, Zenon
  <2> QED BY <1>1, <1>2, <2>3
<1>3. CASE ~ASTSearchEnabled /\ CompilationInfoAvailable
  <2>1. FirstFilters = << "NoDebugInfo", "FilePath" >> \o << >> \o << "junk" >>
    BY <1>3, Zenon DEF FirstFilters
  <2>2. << "NoDebugInfo", "FilePath" >> \o << >> = << "NoDebugInfo", "FilePath" >>
    OBVIOUS
  <2> QED BY <1>3, <2>1, <2>2, ListOf3, Zenon
<1>4. CASE ~CompilationInfoAvailable
  <2>1. FirstFilters = << "NoDebugInfo", "FilePath" >> \o << >> \o << >>
    BY <1>1, <1>4, Zenon DEF FirstFilters
  <2>2. << "NoDebugInfo", "FilePath" >> \o << >> = << "NoDebugInfo", "FilePath" >>
    OBVIOUS
  <2> QED BY <1>1, <1>4, <2>1, <2>2, Zenon
<1> QED BY <1>1, <1>2, <1>3, <1>4

\* The first, the second and what follows.
LEMMA FirstFiltersTail ==
  /\ Head(FirstFilters) = "NoDebugInfo" /\ Len(FirstFilters) # 1 /\ FirstFilters # << "junk" >>
  /\ Head(Tail(FirstFilters)) = "FilePath" /\ Tail(FirstFilters) # << "junk" >>
  /\ Len(Tail(FirstFilters)) = 1 <=> ~CompilationInfoAvailable
  /\ ASTSearchEnabled => Tail(Tail(FirstFilters)) = << "AST", "junk" >>
  /\ ~ASTSearchEnabled /\ CompilationInfoAvailable => Tail(Tail(FirstFilters)) = << "junk" >>
<1>1. CASE ASTSearchEnabled
  <2>1. FirstFilters = << "NoDebugInfo", "FilePath", "AST", "junk" >>
    BY <1>1, FirstFiltersAre
  <2>2. Tail(FirstFilters) = << "FilePath", "AST", "junk" >>
    BY <2>1, TailOf4, Zenon
  <2>3. PICK s, t : s = FirstFilters /\ t = Tail(FirstFilters)
    OBVIOUS
  <2>4. t = << "FilePath", "AST", "junk" >>
    BY <2>2, <2>3, Zenon
  <2>5. Head(s) = "NoDebugInfo" /\ Len(s) # 1 /\ s # << "junk" >>
    BY <2>1, <2>3
  <2>6. Head(t) = "FilePath" /\ t # << "junk" >> /\ Len(t) # 1
    BY <2>4
  <2>7. Tail(t) = << "AST", "junk" >>
    BY <2>4, TailOf3, Zenon
  <2> QED BY <1>1, <2>3, <2>5, <2>6, <2>7, FirstFiltersAre, Zenon
<1>2. CASE ~ASTSearchEnabled /\ CompilationInfoAvailable
  <2>1. FirstFilters = << "NoDebugInfo", "FilePath", "junk" >>
    BY <1>2, FirstFiltersAre
  <2>2. Tail(FirstFilters) = << "FilePath", "junk" >>
    BY <2>1, TailOf3, Zenon
  <2>3. PICK s, t : s = FirstFilters /\ t = Tail(FirstFilters)
    OBVIOUS
  <2>4. t = << "FilePath", "junk" >>
    BY <2>2, <2>3, Zenon
  <2>5. Head(s) = "NoDebugInfo" /\ Len(s) # 1 /\ s # << "junk" >>
    BY <2>1, <2>3
  <2>6. Head(t) = "FilePath" /\ t # << "junk" >> /\ Len(t) # 1
    BY <2>4
  <2>7. Tail(t) = << "junk" >>
    BY <2>4
  <2> QED BY <1>2, <2>3, <2>5, <2>6, <2>7, FirstFiltersAre, Zenon
<1>3. CASE ~CompilationInfoAvailable
  <2>1. FirstFilters = << "NoDebugInfo", "FilePath" >>
    BY <1>3, FirstFiltersAre
  <2>2. Tail(FirstFilters) = << "FilePath" >>
    BY <2>1
  <2>3. PICK s, t : s = FirstFilters /\ t = Tail(FirstFilters)
    OBVIOUS
  <2>4. t = << "FilePath" >>
    BY <2>2, <2>3, Zenon
  <2>5. Head(s) = "NoDebugInfo" /\ Len(s) # 1 /\ s # << "junk" >>
    BY <2>1, <2>3
  <2>6. Head(t) = "FilePath" /\ t # << "junk" >> /\ Len(t) = 1
    BY <2>4
  <2>7. Tail(t) = << >>
    BY <2>4
  <2> QED BY <1>3, <2>3, <2>5, <2>6, <2>7, FirstFiltersAre, Zenon
<1> QED BY <1>1, <1>2, <1>3, FirstFiltersAre

\* What is being filtered, by which filter, and what comes next.
LEMMA StageFacts ==
  ASSUME StagesInv, phase = "filter"
  PROVE  /\ \/ /\ Head(filters) = "NoDebugInfo" /\ points = AllPoints
               /\ Tail(filters) = Tail(FirstFilters) /\ Len(filters) # 1
            \/ /\ Head(filters) = "FilePath" /\ points = Located
               /\ Tail(filters) = Tail(Tail(FirstFilters))
               /\ Len(filters) = 1 <=> ~CompilationInfoAvailable
            \/ /\ Head(filters) = "AST" /\ points = Included /\ ASTSearchEnabled
               /\ Tail(filters) = << "junk" >> /\ Len(filters) # 1
            \/ /\ Head(filters) = "junk" /\ points = Listed /\ CompilationInfoAvailable
               /\ filters = << "junk" >> /\ Len(filters) = 1
         /\ Filtering("junk") <=> filters = << "junk" >>
<1>1. Stage
  BY DEF StagesInv
<1>2. CASE filters = FirstFilters /\ points = AllPoints
  BY <1>2, FirstFiltersTail, Zenon DEF Filtering
<1>3. CASE filters = Tail(FirstFilters) /\ points = Located
  BY <1>3, FirstFiltersTail, Zenon DEF Filtering
<1>4. CASE ASTSearchEnabled /\ filters = << "AST", "junk" >> /\ points = Included
  BY <1>4 DEF Filtering
<1>5. CASE CompilationInfoAvailable /\ filters = << "junk" >> /\ points = Listed
  BY <1>5 DEF Filtering
<1> QED BY <1>1, <1>2, <1>3, <1>4, <1>5 DEF Stage

\* A worker that is left alone.
LEMMA OtherTask ==
  ASSUME NEW w, TaskInv(w), queue'[w] = queue[w], worker'[w] = worker[w],
         UNCHANGED << program, options, phase, filters >>
  PROVE  TaskInv(w)'
<1>1. Item(w)' = Item(w)
  BY DEF Item
<1>2. \A name : Filtering(name)' <=> Filtering(name)
  BY DEF Filtering
<1>3. (Searching' <=> Searching)
  BY DEF Searching
<1>4. PICK x : x = Item(w)
  OBVIOUS
<1> QED BY <1>1, <1>2, <1>3, <1>4, SameNodes DEF TaskInv

\* A worker finishes its item.
LEMMA FinishKeepsPipeline ==
  ASSUME PipelineInv, WorkerType, Running, NEW w \in Worker, NEW keep \in BOOLEAN, Finish(w, keep),
         phase \in {"ASTSearch", "filter"}, queue[w] # << >>, keep <=> Accepts(Item(w)),
         Filtering("AST") => IsRecorded(Item(w)),
         UNCHANGED << program, options, mutators, astKinds, phase, filters, points, abort >>,
         UNCHANGED storage \/ Filtering("junk")
  PROVE  PipelineInv'
<1>1. SetupInv' /\ StagesInv'
  BY SameMain DEF PipelineInv
<1>2. QueuesInv'
  BY FinishKeepsQueues DEF PipelineInv
<1>3. StorageInv'
  <2>1. CASE UNCHANGED storage
    BY <2>1, SameTask DEF PipelineInv, StorageInv
  <2>2. CASE Filtering("junk")
    BY <2>2, StageFacts DEF Filtering, PipelineInv, StorageInv
  <2> QED BY <2>1, <2>2
<1>4. ASSUME NEW v \in Worker PROVE TaskInv(v)'
  <2>1. CASE v = w
    <3>1. worker'[v].pc = "idle"
      BY <2>1 DEF Finish, WorkerType, Idle
    <3> QED BY <3>1 DEF TaskInv
  <2>2. CASE v # w
    <3>1. queue'[v] = queue[v] /\ worker'[v] = worker[v]
      BY <2>2 DEF Finish, WorkerType
    <3> QED BY <3>1, OtherTask DEF PipelineInv
  <2> QED BY <2>1, <2>2
<1> QED BY <1>1, <1>2, <1>3, <1>4 DEF PipelineInv

\* A worker goes on with its item.
LEMMA TurnKeepsPipeline ==
  ASSUME PipelineInv, WorkerType, Running, NEW w \in Worker, NEW x,
         worker' = [worker EXCEPT ![w] = x],
         UNCHANGED << program, options, mutators, astKinds, phase, filters, points, abort, queue,
                      found, storage >>,
         TaskInv(w)'
  PROVE  PipelineInv'
<1>1. SetupInv' /\ StagesInv'
  BY SameMain DEF PipelineInv
<1>2. phase \in {"ASTSearch", "filter"} => QueuesInv'
  BY SameQueues DEF PipelineInv
<1>3. StorageInv'
  BY SameTask DEF PipelineInv, StorageInv
<1>4. ASSUME NEW v \in Worker, v # w PROVE TaskInv(v)'
  <2>1. queue'[v] = queue[v] /\ worker'[v] = worker[v]
    BY <1>4 DEF WorkerType
  <2> QED BY <2>1, OtherTask DEF PipelineInv
<1> QED BY <1>1, <1>2, <1>3, <1>4 DEF PipelineInv

\* A worker ends the program.
LEMMA AbortKeepsPipeline ==
  ASSUME PipelineInv, Running, NEW why, why \notin {None, "SourceInfo"}, Abort(why),
         phase \in {"ASTSearch", "filter"},
         UNCHANGED << program, options, mutators, astKinds >>
  PROVE  PipelineInv'
<1>1. phase' = "end" /\ abort' = why
  BY DEF Abort
<1>2. SetupInv'
  <2>1. FactoryMutators(SelectedGroups)' = FactoryMutators(SelectedGroups)
    BY DEF FactoryMutators, SelectedGroups
  <2> QED BY <1>1, <2>1, SameNodes DEF PipelineInv, SetupInv
<1>3. StagesInv' /\ StorageInv'
  BY <1>1 DEF StagesInv, StorageInv, Narrowed, Filtering
<1> QED BY <1>1, <1>2, <1>3 DEF PipelineInv, Running

\* An item of a queue is a point that main has left.
LEMMA ItemIsPoint ==
  ASSUME PipelineInv, NEW w \in Worker, queue[w] # << >>, phase = "filter"
  PROVE  Item(w) \in points /\ ~Searching
<1>1. ~Searching /\ QueuesInv
  BY DEF Searching, PipelineInv
<1>2. queue[w] \in Seq(points)
  BY <1>1 DEF QueuesInv, Items
<1> QED BY <1>1, <1>2, Dequeued DEF Item

\* A step of a worker.
LEMMA WorkerKeepsPipeline ==
  ASSUME PipelineInv, UnitsInv, NEW w \in Worker, WorkerStep(w)
  PROVE  PipelineInv'
<1>1. Running /\ WorkerType /\ WorkerInv(w) /\ TaskInv(w)
  BY DEF WorkerStep, UnitsInv, PipelineInv
<1>2. CASE NoDebugInfoFilter(w)
  <2>1. /\ Filtering("NoDebugInfo") /\ queue[w] # << >> /\ Finish(w, Node(Item(w)).debug)
        /\ UNCHANGED << program, options, mutators, astKinds, phase, filters, points, abort, storage >>
    BY <1>2 DEF NoDebugInfoFilter, Turn, main
  <2>2. phase = "filter" /\ Head(filters) = "NoDebugInfo" /\ ~Filtering("AST") /\ ~Searching
    BY <2>1 DEF Filtering, Searching
  <2>3. PICK keep \in BOOLEAN : keep <=> Node(Item(w)).debug
    OBVIOUS
  <2>4. Finish(w, keep)
    BY <2>1, <2>3 DEF Finish
  <2>5. keep <=> Accepts(Item(w))
    BY <2>2, <2>3 DEF Accepts, Passes
  <2> QED BY <1>1, <2>1, <2>2, <2>4, <2>5, FinishKeepsPipeline
<1>3. CASE FilePathFilter(w)
  <2>1. /\ Filtering("FilePath") /\ queue[w] # << >> /\ Finish(w, ~Excluded(Node(Item(w))))
        /\ UNCHANGED << program, options, mutators, astKinds, phase, filters, points, abort, storage >>
    BY <1>3 DEF FilePathFilter, Turn, main
  <2>2. phase = "filter" /\ Head(filters) = "FilePath" /\ ~Filtering("AST") /\ ~Searching
    BY <2>1 DEF Filtering, Searching
  <2>3. PICK keep \in BOOLEAN : keep <=> ~Excluded(Node(Item(w)))
    OBVIOUS
  <2>4. Finish(w, keep)
    BY <2>1, <2>3 DEF Finish
  <2>5. keep <=> Accepts(Item(w))
    BY <2>2, <2>3 DEF Accepts, Passes
  <2> QED BY <1>1, <2>1, <2>2, <2>4, <2>5, FinishKeepsPipeline
<1>4. CASE ASTMutationFilter(w)
  <2> DEFINE p == Item(w)
             path == FilePath(p.unit, Node(p))
             there == MutationExists(path, p.mutator, Hash(Node(p)))
  <2>1. /\ Filtering("AST") /\ queue[w] # << >>
        /\ UNCHANGED << program, options, mutators, astKinds, filters, points, storage >>
    BY <1>4 DEF ASTMutationFilter, Turn
  <2>2. phase = "filter" /\ Head(filters) = "AST" /\ ~Searching
    BY <2>1 DEF Filtering, Searching
  <2>3. storage = Recorded
    <3>1. ASTSearchEnabled /\ filters # << "junk" >>
      BY <2>2, StageFacts DEF PipelineInv, Filtering
    <3> QED BY <2>2, <3>1 DEF PipelineInv, StorageInv, First
  <2>4. CASE Node(p).whole /\ path \notin program.missing /\ Answered(path, p.mutator)
    <3>1. Finish(w, there) /\ UNCHANGED << phase, abort >>
      BY <1>4, <2>4 DEF ASTMutationFilter
    <3>2. IsRecorded(p)
      BY <2>3, <2>4 DEF IsRecorded, PathOfPoint, Answered
    <3>3. PICK keep \in BOOLEAN : keep <=> there
      OBVIOUS
    <3>4. Finish(w, keep)
      BY <3>1, <3>3 DEF Finish
    <3>5. keep <=> Accepts(p)
      BY <2>2, <2>3, <3>2, <3>3 DEF Accepts, Passes, Whitelisted, PathOfPoint, MutationExists
    <3> QED BY <1>1, <2>1, <2>2, <3>1, <3>2, <3>4, <3>5, FinishKeepsPipeline
  <2>5. CASE ~(Node(p).whole /\ path \notin program.missing /\ Answered(path, p.mutator))
    <3>1. PICK why \in {"location", "file", "lookup"} : Abort(why)
      BY <1>4, <2>5 DEF ASTMutationFilter
    <3> QED BY <1>1, <2>1, <2>2, <3>1, AbortKeepsPipeline DEF None
  <2> QED BY <2>4, <2>5
<1>5. CASE SkipUnit(w)
  <2>1. /\ Searching /\ queue[w] # << >> /\ Finish(w, FALSE) /\ "main" \in options.excluded
        /\ UNCHANGED << program, options, mutators, astKinds, phase, filters, points, abort, storage >>
    BY <1>5 DEF SkipUnit, Turn, main
  <2>2. phase = "ASTSearch" /\ ~Filtering("AST")
    BY <2>1 DEF Filtering, Searching
  <2>3. FALSE <=> Accepts(Item(w))
    BY <2>1 DEF Accepts
  <2> QED BY <1>1, <2>1, <2>2, <2>3, FinishKeepsPipeline
<1>6. CASE FindAST(w)
  <2>1. /\ Filtering("junk") \/ (Searching /\ "main" \notin options.excluded)
        /\ UNCHANGED << program, options, mutators, astKinds, phase, filters, points, abort, queue,
                        found, storage >>
    BY <1>6 DEF FindAST, NeedsAST, main
  <2>2. PICK x : worker' = [worker EXCEPT ![w] = x] /\ x.pc # "save"
    <3>1. CASE PathOf(w) \in DOMAIN astUnits
      <4>1. PICK x, b, r : /\ x = [worker[w] EXCEPT !.pc = "visit", !.unit = astUnits[PathOf(w)]]
                           /\ b = astUnits[PathOf(w)] /\ r = worker[w]
        OBVIOUS
      <4>2. x = [pc |-> "visit", unit |-> b, node |-> r.node]
        BY <1>1, <4>1, WorkerUpdates, Zenon DEF WorkerType
      <4>3. worker' = [worker EXCEPT ![w] = x]
        BY <1>6, <3>1, <4>1 DEF FindAST
      <4>4. x.pc = "visit"
        BY <4>2
      <4> QED BY <4>3, <4>4
    <3>2. CASE PathOf(w) \notin DOMAIN astUnits
      <4>1. PICK x : x = [worker[w] EXCEPT !.pc = "parse"]
        OBVIOUS
      <4>2. x.pc = "parse"
        BY <1>1, <4>1 DEF WorkerType
      <4>3. worker' = [worker EXCEPT ![w] = x]
        BY <1>6, <3>2, <4>1 DEF FindAST
      <4> QED BY <4>2, <4>3
    <3> QED BY <3>1, <3>2
  <2>3. worker'[w].pc # "save"
    BY <1>1, <2>2 DEF WorkerType
  <2>4. TaskInv(w)'
    BY <2>1, <2>3, SameTask DEF TaskInv
  <2> QED BY <1>1, <2>1, <2>2, <2>4, TurnKeepsPipeline
<1>7. CASE LoadAST(w)
  <2>1. /\ worker[w].pc = "parse"
        /\ UNCHANGED << program, options, mutators, astKinds, phase, filters, points, abort, queue,
                        found, storage >>
    BY <1>7 DEF LoadAST, main
  <2>2. Filtering("junk") \/ (Searching /\ "main" \notin options.excluded)
    BY <1>1, <2>1 DEF TaskInv
  <2>3. PICK b : b = [by |-> w, flags |-> CompilationFlagsForFile(PathOf(w)),
                      ok |-> PathOf(w) \notin program.missing /\ UnitOf(w) \notin program.broken]
    OBVIOUS
  <2>4. PICK x, r : x = [worker[w] EXCEPT !.pc = "visit", !.unit = b] /\ r = worker[w]
    OBVIOUS
  <2>5. x = [pc |-> "visit", unit |-> b, node |-> r.node]
    BY <1>1, <2>4, WorkerUpdates, Zenon DEF WorkerType
  <2>6. worker' = [worker EXCEPT ![w] = x]
    BY <1>7, <2>3, <2>4 DEF LoadAST
  <2>7. worker'[w].pc # "save"
    BY <1>1, <2>5, <2>6 DEF WorkerType
  <2>8. TaskInv(w)'
    BY <2>1, <2>2, <2>7, SameTask DEF TaskInv
  <2> QED BY <1>1, <2>1, <2>6, <2>8, TurnKeepsPipeline
<1>8. CASE VisitAST(w)
  <2>1. /\ worker[w].pc = "visit"
        /\ UNCHANGED << program, options, mutators, astKinds, filters, points, storage >>
    BY <1>8 DEF VisitAST
  <2>2. /\ Filtering("junk") \/ (Searching /\ "main" \notin options.excluded)
        /\ phase \in {"ASTSearch", "filter"} /\ queue[w] # << >>
    BY <1>1, <2>1 DEF TaskInv, WorkerInv, BusyInv
  <2>3. ~Filtering("AST")
    BY <2>2 DEF Filtering, Searching
  <2>4. CASE VisitEnds(w) # None
    <3>1. PICK why : why = VisitEnds(w)
      OBVIOUS
    <3>2. why \notin {None, "SourceInfo"}
      BY <2>4, <3>1 DEF VisitEnds, None
    <3>3. Abort(why)
      BY <1>8, <2>4, <3>1, Zenon DEF VisitAST
    <3> QED BY <1>1, <2>1, <2>2, <3>2, <3>3, AbortKeepsPipeline
  <2>5. CASE VisitEnds(w) = None /\ Searching
    <3>1. Finish(w, TRUE) /\ UNCHANGED << phase, abort >>
      BY <1>8, <2>5, Zenon DEF VisitAST
    <3>2. TRUE <=> Accepts(Item(w))
      BY <2>2, <2>5 DEF Accepts, Filtering, Searching
    <3> QED BY <1>1, <2>1, <2>2, <2>3, <3>1, <3>2, FinishKeepsPipeline
  <2>6. CASE VisitEnds(w) = None /\ ~Searching /\ IsJunkMutation(Item(w))
    <3>1. Finish(w, FALSE) /\ UNCHANGED << phase, abort >>
      BY <1>8, <2>6, Zenon DEF VisitAST
    <3>2. FALSE <=> Accepts(Item(w))
      BY <2>2, <2>6 DEF Accepts, Filtering, Passes
    <3> QED BY <1>1, <2>1, <2>2, <2>3, <3>1, <3>2, FinishKeepsPipeline
  <2>7. CASE VisitEnds(w) = None /\ ~Searching /\ ~IsJunkMutation(Item(w))
    <3>1. PICK p, b : p = Item(w) /\ b = NodeOf(Item(w))
      OBVIOUS
    <3>2. PICK x, r : x = [worker[w] EXCEPT !.pc = "save", !.node = b] /\ r = worker[w]
      OBVIOUS
    <3>3. /\ worker' = [worker EXCEPT ![w] = x]
          /\ UNCHANGED << phase, abort, queue, found >>
      BY <1>8, <2>7, <3>1, <3>2 DEF VisitAST
    <3>4. x = [pc |-> "save", unit |-> r.unit, node |-> b]
      BY <1>1, <3>2, WorkerUpdates, Zenon DEF WorkerType
    <3>5. worker'[w].pc = "save" /\ worker'[w].node = b
      BY <1>1, <3>3, <3>4 DEF WorkerType
    <3>6. Item(w)' = p
      BY <3>1, <3>3 DEF Item
    <3>7. TaskInv(w)'
      BY <2>1, <2>2, <2>7, <3>1, <3>3, <3>5, <3>6, SameTask, SameNodes DEF TaskInv
    <3> QED BY <1>1, <2>1, <3>3, <3>7, TurnKeepsPipeline
  <2> QED BY <2>4, <2>5, <2>6, <2>7
<1>9. CASE SaveMutant(w)
  <2>1. /\ worker[w].pc = "save" /\ Finish(w, TRUE)
        /\ UNCHANGED << program, options, mutators, astKinds, phase, filters, points, abort >>
    BY <1>9 DEF SaveMutant, main
  <2>2. /\ Filtering("junk") /\ ~IsJunkMutation(Item(w))
        /\ phase \in {"ASTSearch", "filter"} /\ queue[w] # << >>
    BY <1>1, <2>1 DEF TaskInv, WorkerInv, BusyInv
  <2>3. ~Filtering("AST") /\ ~Searching
    BY <2>2 DEF Filtering, Searching
  <2>4. TRUE <=> Accepts(Item(w))
    BY <2>2, <2>3 DEF Accepts, Filtering, Passes
  <2> QED BY <1>1, <2>1, <2>2, <2>3, <2>4, FinishKeepsPipeline
<1>10. CASE InvalidUnit(w)
  <2>1. /\ phase = "ASTSearch" /\ Abort("file")
        /\ UNCHANGED << program, options, mutators, astKinds >>
    BY <1>10 DEF InvalidUnit, Searching
  <2> QED BY <1>1, <2>1, AbortKeepsPipeline DEF None
<1> QED
  BY <1>2, <1>3, <1>4, <1>5, <1>6, <1>7, <1>8, <1>9, <1>10 DEF WorkerStep

\* A task begins: every item is in a queue.
LEMMA BeginQueues ==
  ASSUME NEW S, IsFiniteSet(S), Distribute(InSomeOrder(S)), Items' = S
  PROVE  QueuesInv'
<1>1. /\ found' = [w \in Worker |-> {}]
      /\ \A w \in Worker : queue'[w] \in Seq(S)
      /\ \A x \in S : \E w \in Worker : x \in Range(queue'[w])
  BY DistributeShares
<1>2. \A w \in Worker : found'[w] = {}
  BY <1>1
<1>3. found' = [w \in Worker |-> found'[w]]
  BY <1>1
<1> QED BY <1>1, <1>2, <1>3 DEF QueuesInv

\* The mutators of the factory.
LEMMA FactoryHas ==
  ASSUME UNCHANGED options
  PROVE  /\ FactoryMutators(SelectedGroups) \subseteq DOMAIN AllMutators
         /\ FactoryMutators(SelectedGroups)' = FactoryMutators(SelectedGroups)
BY DEF FactoryMutators, SelectedGroups

\* A step of main.
LEMMA MainKeepsPipeline ==
  ASSUME PipelineInv, UnitsInv, MainStep
  PROVE  PipelineInv'
<1>1. /\ Running /\ UNCHANGED << program, options >>
      /\ SetupInv /\ StagesInv /\ StorageInv
  BY DEF MainStep, PipelineInv, CreateFinder, StartASTSearch, FinishASTSearch,
         SearchMutationPoints, FinishFilter, Report
<1>2. \A w \in Worker : TaskInv(w)'
  <2>1. UNCHANGED worker /\ (phase \notin {"ASTSearch", "filter"} \/ AllDone)
    BY DEF MainStep, CreateFinder, StartASTSearch, FinishASTSearch, SearchMutationPoints,
           FinishFilter, Report, Tasks
  <2>2. \A w \in Worker : worker'[w].pc = "idle"
    BY <1>1, <2>1, AllIdle DEF UnitsInv
  <2> QED BY <2>2 DEF TaskInv
<1>3. FirstFilters' = FirstFilters
  BY <1>1, SameNodes DEF FirstFilters
<1>4. CASE CreateFinder
  <2>1. /\ phase = "mutators" /\ mutators' = FactoryMutators(SelectedGroups)
        /\ filters' = FirstFilters
        /\ phase' = (IF ASTSearchEnabled THEN "kinds" ELSE "search")
        /\ UNCHANGED << storage, abort >>
    BY <1>4 DEF CreateFinder, FirstFilters, Tasks
  <2>2. SetupInv'
    BY <1>1, <2>1, FactoryHas, SameNodes DEF SetupInv
  <2>3. StagesInv'
    BY <1>1, <1>3, <2>1 DEF StagesInv, Narrowed, Filtering, Running, None
  <2>4. StorageInv'
    BY <1>1, <2>1, SameNodes DEF StorageInv, First, Empty
  <2> QED BY <1>2, <2>1, <2>2, <2>3, <2>4 DEF PipelineInv
<1>5. CASE StartASTSearch
  <2>1. /\ phase = "kinds" /\ astKinds' = FactoryMutators(SelectedGroups)
        /\ Distribute(InSomeOrder(DOMAIN program.unit)) /\ phase' = "ASTSearch"
        /\ UNCHANGED << mutators, storage, filters, abort >>
    BY <1>5 DEF StartASTSearch
  <2>2. SetupInv'
    BY <1>1, <2>1, FactoryHas, SameNodes DEF SetupInv
  <2>3. StagesInv'
    BY <1>1, <1>3, <2>1 DEF StagesInv, Narrowed, Filtering, Running, None
  <2>4. StorageInv'
    BY <1>1, <2>1 DEF StorageInv, Empty
  <2>5. QueuesInv'
    <3>1. IsFiniteSet(DOMAIN program.unit)
      BY <1>1, MutationFiltersAssumption DEF SetupInv, WellFormed
    <3>2. Items' = DOMAIN program.unit
      BY <1>1, <2>1 DEF Items, Searching
    <3> QED BY <2>1, <3>1, <3>2, BeginQueues
  <2> QED BY <1>2, <2>1, <2>2, <2>3, <2>4, <2>5 DEF PipelineInv
<1>6. CASE FinishASTSearch
  <2>1. /\ phase = "ASTSearch" /\ AllDone /\ phase' = "search"
        /\ storage' = [path \in {SourceFileName(u) : u \in Results} |->
                         SingleUnitMutations(CHOOSE u \in Results : SourceFileName(u) = path)]
        /\ UNCHANGED << mutators, astKinds, filters, points, abort >>
    BY <1>6 DEF FinishASTSearch
  <2>2. ASTSearchEnabled
    BY <1>1, <2>1 DEF SetupInv
  <2>3. SetupInv'
    BY <1>1, <2>1, FactoryHas, SameNodes DEF SetupInv
  <2>4. StagesInv'
    BY <1>1, <1>3, <2>1 DEF StagesInv, Narrowed, Filtering, Running, None
  <2>5. Results = Searched
    <3>1. Results = {x \in Items : Accepts(x)}
      BY <2>1, AllFound DEF PipelineInv
    <3>2. Items = DOMAIN program.unit /\ \A x : Accepts(x) <=> "main" \notin options.excluded
      BY <2>1 DEF Items, Accepts, Searching
    <3> QED BY <3>1, <3>2 DEF Searched
  <2>6. storage' = Recorded
    <3> DEFINE Merged(S) == [path \in {SourceFileName(u) : u \in S} |->
                               SingleUnitMutations(CHOOSE u \in S : SourceFileName(u) = path)]
    <3>1. storage' = Merged(Results)
      BY <2>1, Zenon
    <3>2. Recorded = Merged(Searched)
      BY Zenon DEF Recorded
    <3> HIDE DEF Merged
    <3> QED BY <2>5, <3>1, <3>2
  <2>7. First' = Recorded
    BY <1>1, <2>1, <2>2, SameNodes, SamePoints DEF First
  <2>8. StorageInv'
    BY <2>1, <2>6, <2>7 DEF StorageInv
  <2> QED BY <1>2, <2>1, <2>3, <2>4, <2>8 DEF PipelineInv
<1>7. CASE SearchMutationPoints
  <2>1. /\ phase = "search" /\ points' = AllPoints /\ Distribute(InSomeOrder(AllPoints))
        /\ phase' = "filter" /\ UNCHANGED << mutators, astKinds, storage, filters, abort >>
    BY <1>7 DEF SearchMutationPoints
  <2>2. SetupInv'
    BY <1>1, <2>1, FactoryHas, SameNodes DEF SetupInv
  <2>3. AllPoints' = AllPoints /\ First' = First
    <3>1. First' = First
      BY <1>1, <2>1, SameNodes, SamePoints DEF First, Empty
    <3> QED BY <1>1, <2>1, <3>1, SamePoints
  <2>4. Stage' /\ filters' = FirstFilters
    BY <1>1, <1>3, <2>1, <2>3 DEF StagesInv, Stage
  <2>5. ~Filtering("junk")'
    <3>1. Head(FirstFilters) = "NoDebugInfo"
      BY FirstFiltersAre
    <3> QED BY <2>4, <3>1 DEF Filtering
  <2>6. StagesInv'
    BY <1>1, <2>1, <2>4, <2>5 DEF StagesInv, Narrowed, Running, None
  <2>7. StorageInv'
    BY <1>1, <2>1, <2>3 DEF StorageInv
  <2>8. QueuesInv'
    <3>1. IsFiniteSet(AllPoints)
      BY <1>1, PointsFinite DEF SetupInv
    <3>2. Items' = AllPoints
      BY <2>1 DEF Items, Searching
    <3> QED BY <2>1, <3>1, <3>2, BeginQueues
  <2> QED BY <1>2, <2>1, <2>2, <2>6, <2>7, <2>8 DEF PipelineInv
<1>8. CASE FinishFilter
  <2>1. /\ phase = "filter" /\ AllDone /\ points' = Results /\ filters' = Tail(filters)
        /\ Distribute(InSomeOrder(Results))
        /\ phase' = (IF Len(filters) = 1 THEN "report" ELSE "filter")
        /\ UNCHANGED << mutators, astKinds, storage, abort >>
    BY <1>8 DEF FinishFilter
  <2>2. SetupInv'
    BY <1>1, <2>1, FactoryHas, SameNodes DEF SetupInv
  <2>3. /\ Results = {x \in points : Passes(Head(filters), x)}
        /\ Filtering("AST") => \A x \in points : IsRecorded(x)
    <3>1. Items = points /\ \A x : Accepts(x) <=> Passes(Head(filters), x)
      BY <2>1 DEF Items, Accepts, Searching
    <3> QED BY <2>1, <3>1, AllFound DEF PipelineInv
  <2>4. /\ Located' = Located /\ Included' = Included /\ Listed' = Listed /\ Real' = Real
        /\ \A p : IsRecorded(p)' <=> IsRecorded(p)
        /\ ASTSearchEnabled' <=> ASTSearchEnabled
        /\ CompilationInfoAvailable' <=> CompilationInfoAvailable
    BY <1>1, <2>1, SameNodes, SamePoints
  <2>5. StagesInv' /\ (phase' = "filter" /\ filters' # << "junk" >> => filters # << "junk" >>)
    <3>1. CASE /\ Head(filters) = "NoDebugInfo" /\ points = AllPoints
               /\ Tail(filters) = Tail(FirstFilters) /\ Len(filters) # 1
      <4>1. Results = Located
        BY <2>3, <3>1 DEF Passes, Located
      <4>2. phase' = "filter" /\ Stage' /\ filters # << "junk" >>
        BY <1>3, <2>1, <2>4, <3>1, <4>1 DEF Stage
      <4>3. ~Filtering("junk")'
        <5>1. Head(Tail(FirstFilters)) = "FilePath"
          BY FirstFiltersTail
        <5> QED BY <2>1, <3>1, <5>1 DEF Filtering
      <4> QED BY <1>1, <2>1, <4>2, <4>3 DEF StagesInv, Narrowed, Running, None
    <3>2. CASE /\ Head(filters) = "FilePath" /\ points = Located
               /\ Tail(filters) = Tail(Tail(FirstFilters))
               /\ Len(filters) = 1 <=> ~CompilationInfoAvailable
      <4>1. Results = Included
        BY <2>3, <3>2 DEF Passes, Included
      <4>2. filters # << "junk" >>
        BY <3>2
      <4>3. CASE ~CompilationInfoAvailable
        <5>1. ~ASTSearchEnabled /\ phase' = "report"
          BY <2>1, <3>2, <4>3, FirstFiltersAre
        <5>2. Real = Included
          BY <4>3, <5>1 DEF Real, Listed
        <5> QED BY <1>1, <2>1, <2>4, <4>1, <4>2, <5>1, <5>2 DEF StagesInv, Filtering
      <4>4. CASE ASTSearchEnabled
        <5>1. filters' = << "AST", "junk" >> /\ CompilationInfoAvailable
          BY <2>1, <3>2, <4>4, FirstFiltersTail, FirstFiltersAre
        <5>2. phase' = "filter" /\ Stage'
          BY <2>1, <2>4, <3>2, <4>1, <4>4, <5>1 DEF Stage
        <5>3. ~Filtering("junk")'
          BY <5>1 DEF Filtering
        <5> QED BY <1>1, <2>1, <4>2, <5>2, <5>3 DEF StagesInv, Narrowed, Running, None
      <4>5. CASE CompilationInfoAvailable /\ ~ASTSearchEnabled
        <5>1. filters' = << "junk" >>
          BY <2>1, <3>2, <4>5, FirstFiltersTail
        <5>2. Listed = Included
          BY <4>5 DEF Listed
        <5>3. phase' = "filter" /\ Stage'
          BY <2>1, <2>4, <3>2, <4>1, <4>5, <5>1, <5>2 DEF Stage
        <5> QED BY <1>1, <2>1, <2>4, <4>2, <4>5, <5>3 DEF StagesInv, Narrowed, Running, None
      <4> QED BY <4>3, <4>4, <4>5
    <3>3. CASE /\ Head(filters) = "AST" /\ points = Included /\ ASTSearchEnabled
               /\ Tail(filters) = << "junk" >> /\ Len(filters) # 1
      <4>1. Results = Listed
        BY <2>3, <3>3 DEF Passes, Listed
      <4>2. \A p \in Included : IsRecorded(p)
        BY <2>1, <2>3, <3>3 DEF Filtering
      <4>3. phase' = "filter" /\ Stage'
        BY <2>1, <2>4, <3>3, <4>1, FirstFiltersAre DEF Stage
      <4> QED BY <1>1, <2>1, <2>4, <3>3, <4>2, <4>3 DEF StagesInv, Narrowed, Running, None
    <3>4. CASE /\ Head(filters) = "junk" /\ points = Listed /\ CompilationInfoAvailable
               /\ filters = << "junk" >> /\ Len(filters) = 1
      <4>1. Results = Real
        BY <2>3, <3>4 DEF Passes, Real
      <4>2. ASTSearchEnabled => \A p \in Included : IsRecorded(p)
        BY <1>1, <2>1, <3>4 DEF StagesInv, Filtering
      <4> QED BY <1>1, <2>1, <2>4, <3>4, <4>1, <4>2 DEF StagesInv
    <3> QED BY <1>1, <2>1, <3>1, <3>2, <3>3, <3>4, StageFacts
  <2>6. StorageInv'
    <3>1. First' = First
      BY <1>1, <2>1, SameNodes, SamePoints DEF First, Empty
    <3> QED BY <1>1, <2>1, <2>5, <3>1 DEF StorageInv
  <2>7. QueuesInv'
    <3>1. IsFiniteSet(Results)
      <4>1. Results \subseteq AllPoints
        <5>1. Listed \subseteq Included /\ Included \subseteq Located /\ Located \subseteq AllPoints
          BY DEF Listed, Included, Located
        <5> QED BY <1>1, <2>1, <2>3, <5>1, StageFacts
      <4> QED BY <1>1, <4>1, PointsFinite, FS_Subset DEF SetupInv
    <3>2. Items' = Results
      BY <2>1 DEF Items, Searching
    <3> QED BY <2>1, <3>1, <3>2, BeginQueues
  <2> QED BY <1>2, <2>1, <2>2, <2>5, <2>6, <2>7 DEF PipelineInv
<1>9. CASE Report
  <2>1. /\ phase = "report" /\ UNCHANGED << mutators, astKinds, points, storage >>
        /\ \/ abort' = "SourceInfo" /\ phase' = "end"
           \/ phase' = "done" /\ UNCHANGED abort
    BY <1>9 DEF Report, Tasks
  <2>2. SetupInv'
    BY <1>1, <2>1, FactoryHas, SameNodes DEF SetupInv, Running, None
  <2>3. StagesInv'
    BY <1>1, <2>1, SameNodes, SamePoints DEF StagesInv, Narrowed, Filtering
  <2>4. StorageInv'
    BY <2>1 DEF StorageInv
  <2> QED BY <1>2, <2>1, <2>2, <2>3, <2>4 DEF PipelineInv
<1> QED BY <1>4, <1>5, <1>6, <1>7, <1>8, <1>9 DEF MainStep

\* The tasks are as the invariant says.
LEMMA PipelineHolds == Spec => [](PipelineInv /\ UnitsInv)
<1>1. Init => PipelineInv
  <2> SUFFICES ASSUME Init PROVE PipelineInv
    OBVIOUS
  <2>1. \A w \in Worker : worker[w].pc = "idle"
    BY DEF Init, Idle
  <2>2. SetupInv
    BY DEF Init, SetupInv, None
  <2>3. StagesInv /\ StorageInv
    BY DEF Init, StagesInv, StorageInv, Narrowed, Filtering, None
  <2> QED BY <2>1, <2>2, <2>3 DEF Init, PipelineInv, TaskInv
<1>2. PipelineInv /\ UnitsInv /\ [Next]_vars => PipelineInv'
  <2> SUFFICES ASSUME PipelineInv, UnitsInv, [Next]_vars PROVE PipelineInv'
    OBVIOUS
  <2>1. CASE MainStep
    BY <2>1, MainKeepsPipeline
  <2>2. ASSUME NEW w \in Worker, WorkerStep(w) PROVE PipelineInv'
    BY <2>2, WorkerKeepsPipeline
  <2>3. CASE UNCHANGED vars
    <3>1. UNCHANGED << program, options, mutators, astKinds, phase, filters, points, abort, queue,
                       found, storage, worker >>
      BY <2>3 DEF vars
    <3>2. SetupInv' /\ StagesInv'
      BY <3>1, SameMain DEF PipelineInv
    <3>3. StorageInv'
      BY <3>1, SameTask DEF PipelineInv, StorageInv
    <3>4. phase' \in {"ASTSearch", "filter"} => QueuesInv'
      BY <3>1, SameQueues DEF PipelineInv
    <3>5. Running' => \A w \in Worker : TaskInv(w)'
      BY <3>1, OtherTask DEF PipelineInv, Running
    <3> QED BY <3>2, <3>3, <3>4, <3>5 DEF PipelineInv
  <2> QED BY <2>1, <2>2, <2>3 DEF Next, Ended
<1>3. UnitsInv /\ [Next]_vars => UnitsInv'
  BY UnitsStep
<1> QED BY <1>1, <1>2, <1>3, UnitsInit, PTL DEF Spec

-----------------------------------------------------------------------------
(* Where the entries of ASTMutationStorage come from.                      *)

Has(st, path, id, h) == path \in DOMAIN st /\ id \in DOMAIN st[path] /\ h \in DOMAIN st[path][id]

\* saveMutation adds one entry, unless it is there, and changes no other.
LEMMA SaveMutationAdds ==
  ASSUME NEW st, NEW path, NEW id, NEW hash, NEW node
  PROVE  \A p, k, h :
           /\ Has(SaveMutation(st, path, id, hash, node), p, k, h) <=>
                Has(st, p, k, h) \/ (p = path /\ k = id /\ h = hash)
           /\ Has(st, p, k, h) => SaveMutation(st, path, id, hash, node)[p][k][h] = st[p][k][h]
           /\ ~Has(st, p, k, h) /\ p = path /\ k = id /\ h = hash =>
                SaveMutation(st, path, id, hash, node)[p][k][h] = node
<1>1. PICK unit : unit = BucketOf(st, path)
  OBVIOUS
<1>2. PICK old : old = BucketOf(unit, id)
  OBVIOUS
<1>3. PICK bucket : bucket = Emplace(old, hash, node)
  OBVIOUS
<1>4. PICK units : units = [k \in DOMAIN unit \union {id} |-> IF k = id THEN bucket ELSE unit[k]]
  OBVIOUS
<1>5. PICK all : all = SaveMutation(st, path, id, hash, node)
  OBVIOUS
<1>6. all = [p \in DOMAIN st \union {path} |-> IF p = path THEN units ELSE st[p]]
  BY <1>1, <1>2, <1>3, <1>4, <1>5, Zenon DEF SaveMutation
<1>7. /\ DOMAIN bucket = DOMAIN old \union {hash}
      /\ \A h \in DOMAIN old : bucket[h] = old[h]
      /\ hash \notin DOMAIN old => bucket[hash] = node
  BY <1>3 DEF Emplace
<1>8. /\ DOMAIN units = DOMAIN unit \union {id} /\ units[id] = bucket
      /\ \A k \in DOMAIN unit : k # id => units[k] = unit[k]
  BY <1>4
<1>9. /\ DOMAIN all = DOMAIN st \union {path} /\ all[path] = units
      /\ \A p \in DOMAIN st : p # path => all[p] = st[p]
  BY <1>6
<1>10. \A k, h : k \in DOMAIN unit /\ h \in DOMAIN unit[k] <=> Has(st, path, k, h)
  <2>1. CASE path \in DOMAIN st
    BY <1>1, <2>1 DEF BucketOf, Has
  <2>2. CASE path \notin DOMAIN st
    <3>1. DOMAIN unit = {}
      BY <1>1, <2>2 DEF BucketOf, Empty
    <3> QED BY <2>2, <3>1 DEF Has
  <2> QED BY <2>1, <2>2
<1>11. \A k, h : Has(st, path, k, h) => unit[k][h] = st[path][k][h]
  BY <1>1 DEF BucketOf, Has
<1>12. \A h : h \in DOMAIN old <=> id \in DOMAIN unit /\ h \in DOMAIN unit[id]
  <2>1. CASE id \in DOMAIN unit
    BY <1>2, <2>1 DEF BucketOf
  <2>2. CASE id \notin DOMAIN unit
    <3>1. DOMAIN old = {}
      BY <1>2, <2>2 DEF BucketOf, Empty
    <3> QED BY <2>2, <3>1
  <2> QED BY <2>1, <2>2
<1>13. \A h \in DOMAIN old : old[h] = unit[id][h]
  BY <1>2, <1>12 DEF BucketOf
<1>14. ASSUME NEW p, NEW k, NEW h
       PROVE  /\ Has(all, p, k, h) <=> Has(st, p, k, h) \/ (p = path /\ k = id /\ h = hash)
              /\ Has(st, p, k, h) => all[p][k][h] = st[p][k][h]
              /\ ~Has(st, p, k, h) /\ p = path /\ k = id /\ h = hash => all[p][k][h] = node
  <2>1. CASE p # path
    BY <1>9, <2>1 DEF Has
  <2>2. CASE p = path /\ k # id
    <3>1. Has(all, p, k, h) <=> k \in DOMAIN unit /\ h \in DOMAIN unit[k]
      BY <1>8, <1>9, <2>2 DEF Has
    <3>2. Has(st, p, k, h) => all[p][k][h] = unit[k][h]
      BY <1>8, <1>9, <1>10, <2>2
    <3> QED BY <1>10, <1>11, <2>2, <3>1, <3>2
  <2>3. CASE p = path /\ k = id
    <3>1. Has(all, p, k, h) <=> h \in DOMAIN bucket
      BY <1>8, <1>9, <2>3 DEF Has
    <3>2. h \in DOMAIN old <=> Has(st, p, k, h)
      BY <1>10, <1>12, <2>3
    <3>3. all[p][k] = bucket
      BY <1>8, <1>9, <2>3
    <3>4. Has(st, p, k, h) => bucket[h] = st[p][k][h]
      BY <1>7, <1>11, <1>13, <2>3, <3>2
    <3> QED BY <1>7, <2>3, <3>1, <3>2, <3>3, <3>4
  <2> QED BY <2>1, <2>2, <2>3
<1> QED BY <1>5, <1>14

\* The entry of a point.
Filed(p) == Has(storage, UnitPath(p.unit), p.mutator, Hash(PlaceOf(p)))
FromPoint(q, path, id, h, node) ==
  /\ UnitPath(q.unit) = path /\ q.mutator = id /\ Hash(PlaceOf(q)) = h
  /\ node = NodeOf(q)

\* An entry is that of the AST search, or junk detection has made it for a point.
OriginInv ==
  \A path, id, h :
    Has(storage, path, id, h) =>
      \/ Has(First, path, id, h) /\ storage[path][id][h] = First[path][id][h]
      \/ \E q \in AllPoints : FromPoint(q, path, id, h, storage[path][id][h])

\* And what junk detection has let pass has one.
SourceInv ==
  /\ phase \in {"search", "filter"} \/ Narrowed => OriginInv
  /\ Filtering("junk") => \A p \in Results : Filed(p)
  /\ Narrowed /\ CompilationInfoAvailable => \A p \in points : Filed(p)

\* The storage stays as it is.
LEMMA SameStorage ==
  ASSUME UNCHANGED << program, options, mutators, astKinds, storage >>
  PROVE  /\ OriginInv => OriginInv'
         /\ \A p : Filed(p)' <=> Filed(p)
<1>1. First' = First
  BY SameNodes, SamePoints DEF First, Empty
<1>2. \A p : Filed(p)' <=> Filed(p)
  BY SameNodes DEF Filed, Has
<1>3. \A q, path, id, h, node : FromPoint(q, path, id, h, node)' <=> FromPoint(q, path, id, h, node)
  BY SameNodes DEF FromPoint
<1> QED BY <1>1, <1>2, <1>3, SamePoints DEF OriginInv, Has

\* What main does.
LEMMA MainKeepsSource ==
  ASSUME PipelineInv, PipelineInv', SourceInv, MainStep
  PROVE  SourceInv'
<1>1. /\ Running /\ UNCHANGED << program, options >>
      /\ SetupInv /\ StagesInv /\ StorageInv'
  BY DEF MainStep, PipelineInv, CreateFinder, StartASTSearch, FinishASTSearch,
         SearchMutationPoints, FinishFilter, Report
<1>2. storage' = First' => OriginInv'
  BY DEF OriginInv
<1>3. CASE CreateFinder \/ StartASTSearch \/ FinishASTSearch
  <2>1. phase' \in {"kinds", "ASTSearch", "search"} /\ UNCHANGED abort
    BY <1>3 DEF CreateFinder, StartASTSearch, FinishASTSearch
  <2>2. phase' = "search" => OriginInv'
    BY <1>1, <1>2 DEF StorageInv
  <2> QED BY <1>1, <2>1, <2>2 DEF SourceInv, Narrowed, Filtering, Running, None
<1>4. CASE SearchMutationPoints
  <2>1. /\ phase = "search" /\ phase' = "filter" /\ Distribute(InSomeOrder(AllPoints))
        /\ UNCHANGED << mutators, astKinds, storage, abort >>
    BY <1>4 DEF SearchMutationPoints
  <2>2. Results' = {}
    BY <2>1 DEF Distribute, Results
  <2> QED BY <1>1, <2>1, <2>2, SameStorage DEF SourceInv, Narrowed, Running, None
<1>5. CASE FinishFilter
  <2>1. /\ phase = "filter" /\ points' = Results /\ Distribute(InSomeOrder(Results))
        /\ phase' = (IF Len(filters) = 1 THEN "report" ELSE "filter")
        /\ UNCHANGED << mutators, astKinds, storage, abort >>
    BY <1>5 DEF FinishFilter
  <2>2. Results' = {}
    BY <2>1 DEF Distribute, Results
  <2>3. Narrowed' /\ CompilationInfoAvailable => Filtering("junk")
    BY <1>1, <2>1, StageFacts DEF Narrowed, Running, None, Filtering
  <2> QED BY <1>1, <2>1, <2>2, <2>3, SameStorage, SameNodes DEF SourceInv
<1>6. CASE Report
  <2>1. /\ phase = "report" /\ phase' \in {"done", "end"}
        /\ UNCHANGED << mutators, astKinds, storage, points >>
    BY <1>6 DEF Report, Tasks
  <2>2. Narrowed
    BY <2>1 DEF Narrowed
  <2> QED BY <1>1, <2>1, <2>2, SameStorage, SameNodes DEF SourceInv, Filtering
<1> QED BY <1>3, <1>4, <1>5, <1>6 DEF MainStep

\* What the workers do.
LEMMA WorkerKeepsSource ==
  ASSUME PipelineInv, UnitsInv, SourceInv, NEW w \in Worker, WorkerStep(w)
  PROVE  SourceInv'
<1>1. Running /\ WorkerType /\ WorkerInv(w) /\ TaskInv(w)
  BY DEF WorkerStep, UnitsInv, PipelineInv
<1>2. UNCHANGED << program, options, mutators, astKinds, filters, points >>
  BY DEF WorkerStep, NoDebugInfoFilter, FilePathFilter, ASTMutationFilter, SkipUnit, InvalidUnit,
         FindAST, LoadAST, VisitAST, SaveMutant, main
<1>3. ASSUME UNCHANGED << storage, phase, abort >>,
             ~Filtering("junk") \/ Results' = Results
      PROVE  SourceInv'
  BY <1>2, <1>3, SameStorage, SameNodes, SameTask DEF SourceInv, Narrowed
<1>4. ASSUME NEW why, why \notin {None, "SourceInfo"}, Abort(why) PROVE SourceInv'
  BY <1>4 DEF Abort, SourceInv, Narrowed, Filtering
<1>5. CASE NoDebugInfoFilter(w) \/ FilePathFilter(w) \/ SkipUnit(w)
  BY <1>3, <1>5 DEF NoDebugInfoFilter, FilePathFilter, SkipUnit, main, Filtering, Searching
<1>6. CASE ASTMutationFilter(w)
  BY <1>3, <1>4, <1>6 DEF ASTMutationFilter, Filtering, None
<1>7. CASE FindAST(w) \/ LoadAST(w)
  BY <1>3, <1>7 DEF FindAST, LoadAST, main, Results
<1>8. CASE VisitAST(w)
  <2>1. \/ VisitEnds(w) # None /\ Abort(VisitEnds(w))
        \/ Searching /\ UNCHANGED << storage, phase, abort >>
        \/ (Finish(w, FALSE) \/ UNCHANGED found) /\ UNCHANGED << storage, phase, abort >>
    BY <1>8, Zenon DEF VisitAST
  <2>2. CASE VisitEnds(w) # None /\ Abort(VisitEnds(w))
    <3>1. VisitEnds(w) \notin {None, "SourceInfo"}
      BY <2>2 DEF VisitEnds, None
    <3> QED BY <1>4, <2>2, <3>1
  <2>3. CASE Searching /\ UNCHANGED << storage, phase, abort >>
    BY <1>3, <2>3 DEF Searching, Filtering
  <2>4. CASE (Finish(w, FALSE) \/ UNCHANGED found) /\ UNCHANGED << storage, phase, abort >>
    <3>1. Filtering("junk") => found = [v \in Worker |-> found[v]]
      BY DEF PipelineInv, QueuesInv, Filtering
    <3>2. Filtering("junk") => found' = found
      BY <2>4, <3>1 DEF Finish
    <3> QED BY <1>3, <2>4, <3>2 DEF Results
  <2> QED BY <2>1, <2>2, <2>3, <2>4
<1>9. CASE SaveMutant(w)
  <2>1. PICK p, node : p = Item(w) /\ node = worker[w].node
    OBVIOUS
  <2>2. PICK path, h : path = UnitPath(p.unit) /\ h = Hash(PlaceOf(p))
    OBVIOUS
  <2>3. /\ worker[w].pc = "save" /\ Finish(w, TRUE) /\ UNCHANGED << phase, abort >>
        /\ storage' = SaveMutation(storage, path, p.mutator, h, node)
    BY <1>9, <2>1, <2>2 DEF SaveMutant, main
  <2>4. Filtering("junk") /\ phase = "filter" /\ node = NodeOf(p)
    BY <1>1, <2>1, <2>3 DEF TaskInv, Filtering
  <2>5. p \in AllPoints
    <3>1. queue[w] # << >>
      BY <1>1, <2>3 DEF WorkerInv, BusyInv
    <3>2. p \in points
      BY <2>1, <2>4, <3>1, ItemIsPoint
    <3>3. points = Listed
      BY <2>4, StageFacts DEF PipelineInv, Filtering
    <3> QED BY <3>2, <3>3 DEF Listed, Included, Located
  <2>6. \A a, k, b : /\ Has(storage', a, k, b) <=>
                          Has(storage, a, k, b) \/ (a = path /\ k = p.mutator /\ b = h)
                     /\ Has(storage, a, k, b) => storage'[a][k][b] = storage[a][k][b]
                     /\ ~Has(storage, a, k, b) /\ a = path /\ k = p.mutator /\ b = h =>
                          storage'[a][k][b] = node
    BY <2>3, SaveMutationAdds
  <2>7. OriginInv'
    <3>1. OriginInv /\ First' = First /\ AllPoints' = AllPoints
      BY <1>2, <2>3, <2>4, SameTask, SamePoints DEF SourceInv
    <3>2. \A q, a, k, b, n : FromPoint(q, a, k, b, n)' <=> FromPoint(q, a, k, b, n)
      BY <1>2, SameNodes DEF FromPoint
    <3>3. FromPoint(p, path, p.mutator, h, node)
      BY <2>2, <2>4 DEF FromPoint
    <3>4. ASSUME NEW a, NEW k, NEW b, Has(storage', a, k, b)
          PROVE  \/ Has(First, a, k, b) /\ storage'[a][k][b] = First[a][k][b]
                 \/ \E q \in AllPoints : FromPoint(q, a, k, b, storage'[a][k][b])
      <4>1. CASE Has(storage, a, k, b)
        BY <2>6, <3>1, <4>1 DEF OriginInv
      <4>2. CASE ~Has(storage, a, k, b)
        BY <2>5, <2>6, <3>3, <3>4, <4>2
      <4> QED BY <4>1, <4>2
    <3> QED BY <3>1, <3>2, <3>4 DEF OriginInv, Has
  <2>8. \A q \in Results' : Filed(q)'
    <3>1. \A q \in Results' : q \in Results \/ q = p
      BY <1>1, <2>1, <2>3 DEF Results, Finish
    <3>2. \A q : Filed(q)' <=> Has(storage', UnitPath(q.unit), q.mutator, Hash(PlaceOf(q)))
      BY <1>2, SameNodes DEF Filed, Has
    <3>3. \A q \in Results : Filed(q)
      BY <2>4 DEF SourceInv
    <3> QED BY <2>2, <2>6, <3>1, <3>2, <3>3 DEF Filed
  <2> QED BY <1>1, <2>3, <2>4, <2>7, <2>8 DEF SourceInv, Narrowed, Running, None
<1>10. CASE InvalidUnit(w)
  BY <1>4, <1>10 DEF InvalidUnit, None
<1> QED BY <1>5, <1>6, <1>7, <1>8, <1>9, <1>10 DEF WorkerStep

\* Every entry has its origin.
LEMMA SourceHolds == Spec => [](PipelineInv /\ SourceInv)
<1>1. Init => SourceInv
  BY DEF Init, SourceInv, Narrowed, Filtering, None
<1>2. PipelineInv /\ UnitsInv /\ PipelineInv' /\ SourceInv /\ [Next]_vars => SourceInv'
  <2> SUFFICES ASSUME PipelineInv, UnitsInv, PipelineInv', SourceInv, [Next]_vars
               PROVE  SourceInv'
    OBVIOUS
  <2>1. CASE MainStep
    BY <2>1, MainKeepsSource
  <2>2. ASSUME NEW w \in Worker, WorkerStep(w) PROVE SourceInv'
    BY <2>2, WorkerKeepsSource
  <2>3. CASE UNCHANGED vars
    <3>1. UNCHANGED << program, options, mutators, astKinds, phase, filters, points, abort, found,
                       storage >>
      BY <2>3 DEF vars
    <3> QED BY <3>1, SameStorage, SameNodes, SameTask DEF SourceInv, Narrowed, Results
  <2> QED BY <2>1, <2>2, <2>3 DEF Next, Ended
<1> QED BY <1>1, <1>2, PipelineHolds, PTL DEF Spec

-----------------------------------------------------------------------------
(* The source info.                                                        *)

\* The least of a set of numbers.
LEMMA MinIs ==
  ASSUME NEW S \in SUBSET Nat, S # {}
  PROVE  Min(S) \in S /\ \A x \in S : Min(S) <= x
<1>1. \E x \in S : \A y \in S : x <= y
  BY LeastNatural
<1> QED BY <1>1 DEF Min

\* The mutator of the AST search for an operator is one that its table has and that is on.
LEMMA BinaryKindIs ==
  ASSUME NEW op
  PROVE  \/ BinaryKind(op) = None
         \/ \E i \in DOMAIN BINARY_MUTATIONS :
              /\ BINARY_MUTATIONS[i][1] = op /\ BINARY_MUTATIONS[i][2] \in astKinds
              /\ BinaryKind(op) = BINARY_MUTATIONS[i][2]
<1> DEFINE hits == {i \in DOMAIN BINARY_MUTATIONS :
                      BINARY_MUTATIONS[i][1] = op /\ BINARY_MUTATIONS[i][2] \in astKinds}
<1>1. hits \in SUBSET Nat
  <2>1. DOMAIN BINARY_MUTATIONS = 1 .. 32
    BY DEF BINARY_MUTATIONS
  <2> QED BY <2>1
<1>2. BinaryKind(op) = IF hits = {} THEN None ELSE BINARY_MUTATIONS[Min(hits)][2]
  BY Zenon DEF BinaryKind
<1>3. CASE hits # {}
  <2>1. Min(hits) \in hits
    BY <1>1, <1>3, MinIs
  <2> QED BY <1>2, <1>3, <2>1
<1> QED BY <1>2, <1>3

\* An entry of the factory is one of the mutators it creates.
LEMMA MutatorIs ==
  ASSUME NEW id \in DOMAIN AllMutators
  PROVE  AllMutators[id] \in Created /\ AllMutators[id].id = id
<1>1. \E m \in Created : m.id = id
  BY DEF AllMutators
<1>2. AllMutators[id] = CHOOSE m \in Created : m.id = id
  BY DEF AllMutators
<1> QED BY <1>1, <1>2

\* The mutator of calls takes calls that return a number, and nothing else.
LEMMA CallsOnly ==
  ASSUME NEW n, n.op \in Operator, n.type \in {"signed", "unsigned", "float"},
         "replace_call_mutator" \in DOMAIN AllMutators,
         CanMutate("replace_call_mutator", n)
  PROVE  n.op = "f()"
<1>1. PICK m \in Created : m = AllMutators["replace_call_mutator"] /\ m.id = "replace_call_mutator"
  BY MutatorIs
<1>2. m \in ReplaceCallMutator
  <2>1. \A k \in NegateMutator \union RemoveVoidMutator \union ScalarMutator \union NumberMutators
                 \union AddMutators \union SubMutators : k.id # "replace_call_mutator"
    <3>1. \A k \in NegateMutator \union ScalarMutator : k.id # "replace_call_mutator"
      BY DEF NegateMutator, ScalarMutator, Mutator
    <3>2. \A k \in RemoveVoidMutator \union NumberMutators : k.id # "replace_call_mutator"
      BY DEF RemoveVoidMutator, NumberMutators, Mutator
    <3>3. \A k \in AddMutators \union SubMutators : k.id # "replace_call_mutator"
      BY DEF AddMutators, SubMutators, Mutator
    <3> QED BY <3>1, <3>2, <3>3
  <2>2. \A k \in MulMutators \union DivMutators \union RemMutators \union BitMutators
                 \union ShiftMutators \union MinusMutators : k.id # "replace_call_mutator"
    BY DEF MulMutators, DivMutators, RemMutators, BitMutators, ShiftMutators, MinusMutators, Mutator
  <2>3. \A k \in NotMutators \union LogicalMutators \union EqualMutators
                 \union ComparisonMutators \union BoundaryMutators : k.id # "replace_call_mutator"
    BY DEF NotMutators, LogicalMutators, EqualMutators, ComparisonMutators, BoundaryMutators, Mutator
  <2> QED BY <1>1, <2>1, <2>2, <2>3 DEF Created
<1>3. DOMAIN m.ir = {"call_int", "call_float", "call_double"}
  BY <1>2 DEF ReplaceCallMutator, Mutator
<1>4. PICK o : o \in Opcodes(n) /\ o \in {"call_int", "call_float", "call_double"}
  BY <1>1, <1>3 DEF CanMutate
<1> QED BY <1>4 DEF Opcodes, Typed, Operator, Integral

\* The nodes of a unit, and the order of its expressions.
LEMMA Nesting ==
  ASSUME program \in Program, NEW u \in DOMAIN program.unit, NEW i \in Exprs(u)
  PROVE  /\ i \in Nat /\ At(u, i).last \in Nat /\ i <= At(u, i).last
         /\ \A j \in Exprs(u) : i < j /\ j <= At(u, i).last => At(u, j).last <= At(u, i).last
<1>1. i \in DOMAIN program.unit[u] /\ At(u, i).what = "expr"
  BY DEF Exprs
<1>2. i \in Nat /\ At(u, i) \in Expression
  BY NodesOf
<1>3. At(u, i).last \in Nat
  BY <1>2 DEF Expression
<1>4. i <= At(u, i).last
  BY <1>1, MutationFiltersAssumption DEF WellFormed, At
<1>5. \A j \in Exprs(u) : i < j /\ j <= At(u, i).last => At(u, j).last <= At(u, i).last
  BY <1>1, MutationFiltersAssumption DEF WellFormed, At, Exprs
<1> QED BY <1>2, <1>3, <1>4, <1>5

\* Around a call in a function, the smallest call is this one.
LEMMA CallIsSmallest ==
  ASSUME program \in Program, NEW u \in DOMAIN program.unit, NEW i \in Exprs(u),
         At(u, i).op = "f()", ~At(u, i).begin.macro, GetDecl(u, i) # {},
         NEW place, place.at = i, place.file = At(u, i).file
  PROVE  InstructionRangeVisitor("replace_call_mutator", u, place) = {<< u, i >>}
<1> DEFINE id == "replace_call_mutator"
           around == {j \in Exprs(u) : /\ LocationInRange(u, j, place) /\ RangeMatch(id, At(u, j))
                                       /\ \E d \in GetDecl(u, place.at) : Covers(u, d, j)}
           size(j) == At(u, j).last - j
           best == {j \in around : \A k \in around : size(j) <= size(k)}
<1>1. InstructionRangeVisitor(id, u, place) =
        {<< u, j >> : j \in {k \in best : \A l \in best : l <= k}}
  BY DEF InstructionRangeVisitor
<1>2. i \in around
  <2>1. LocationInRange(u, i, place)
    BY Nesting DEF LocationInRange, Covers
  <2>2. RangeMatch(id, At(u, i))
    BY DEF RangeMatch, ReplaceCallVisitor
  <2>3. PICK d \in GetDecl(u, i) : TRUE
    OBVIOUS
  <2>4. Covers(u, d, i)
    <3>1. d \in Decls(u) /\ d < i /\ i < At(u, d).last
      BY <2>3 DEF GetDecl, RecordedDecls
    <3>2. d \in Nat /\ i \in Nat /\ At(u, d).last \in Nat
      BY <3>1, NodesOf, Nesting DEF Declaration
    <3> QED BY <3>1, <3>2 DEF Covers
  <2> QED BY <2>1, <2>2, <2>3, <2>4
<1>3. ASSUME NEW j \in around, j # i PROVE size(i) < size(j)
  <2>1. j \in Exprs(u) /\ j <= i /\ i <= At(u, j).last
    BY DEF LocationInRange, Covers
  <2>2. /\ j \in Nat /\ At(u, j).last \in Nat /\ i \in Nat /\ At(u, i).last \in Nat
        /\ At(u, i).last <= At(u, j).last
    BY <1>3, <2>1, Nesting
  <2> QED BY <1>3, <2>1, <2>2
<1>4. \A j \in around : size(j) \in Int
  BY Nesting
<1> HIDE DEF around, size
<1>5. best = {i}
  BY <1>2, <1>3, <1>4
<1>6. {k \in best : \A l \in best : l <= k} = {i}
  BY <1>5, Nesting
<1> QED BY <1>1, <1>6

\* The places of an expression are numbers.
LEMMA PlacesAre ==
  ASSUME program \in Program, NEW u \in DOMAIN program.unit, NEW i \in Exprs(u)
  PROVE  \A place \in {Place(u, i), SavedAt(At(u, i))} : place.line \in Nat /\ place.column \in Nat
<1>1. PICK n \in Expression : n = At(u, i)
  BY NodesOf
<1>2. /\ n.line \in Nat /\ n.column \in Nat /\ n.begin.line \in Nat /\ n.begin.column \in Nat
      /\ n.twin.line \in Nat /\ n.twin.column \in Nat
  BY DEF Expression
<1>3. Place(u, i).line \in Nat /\ Place(u, i).column \in Nat
  BY <1>1, <1>2 DEF Place
<1>4. SavedAt(At(u, i)).line \in Nat /\ SavedAt(At(u, i)).column \in Nat
  BY <1>1, <1>2 DEF SavedAt
<1> QED BY <1>3, <1>4

\* A point whose file has one name is taken for what it is.
LEMMA OwnPlace ==
  ASSUME NEW p, SameName(p)
  PROVE  /\ PlaceOf(p).at = p.index /\ PlaceOf(p).file = Node(p).file
         /\ PlaceOf(p).line = Node(p).line /\ PlaceOf(p).column = Node(p).column
         /\ Hash(PlaceOf(p)) = Hash(Node(p)) /\ (Fits(PlaceOf(p)) <=> Fits(Node(p)))
<1>1. /\ PlaceOf(p).at = p.index /\ PlaceOf(p).file = Node(p).file
      /\ PlaceOf(p).line = Node(p).line /\ PlaceOf(p).column = Node(p).column
  BY DEF SameName, PlaceOf, Place, At, Node
<1> QED BY <1>1 DEF Hash, Fits

\* Nothing else has the key of a point that is alone.
LEMMA AloneHasItsKey ==
  ASSUME program \in Program, NEW p, p.unit \in DOMAIN program.unit, p.index \in Exprs(p.unit),
         Alone(p), SameName(p), NEW i \in Exprs(p.unit),
         NEW place \in {Place(p.unit, i), SavedAt(At(p.unit, i))}, Hash(place) = Hash(Node(p))
  PROVE  i = p.index
<1>1. Node(p) = At(p.unit, p.index)
  BY DEF Node, At
<1>2. Node(p).line \in Nat /\ Node(p).column \in Nat
  BY <1>1, NodesOf DEF Expression
<1>3. place.line \in Nat /\ place.column \in Nat
  BY PlacesAre
<1>4. Fits(place)
  BY DEF Alone
<1>5. Fits(Node(p))
  <2>1. Fits(PlaceOf(p))
    BY DEF Alone, PlaceOf
  <2> QED BY <2>1, OwnPlace
<1>6. place.line = Node(p).line /\ place.column = Node(p).column
  BY <1>2, <1>3, <1>4, <1>5, PlacesHaveTheirOwnKey
<1> QED BY <1>6 DEF Alone

\* The table of the AST search has no mutators of calls, conditions and constants.
LEMMA BinaryMutators ==
  ASSUME NEW i \in DOMAIN BINARY_MUTATIONS
  PROVE  /\ BINARY_MUTATIONS[i][2] \notin RangeVisitors
         /\ BINARY_MUTATIONS[i][2] # "remove_void_function_mutator"
<1>1. i \in 1 .. 8 \/ i \in 9 .. 16 \/ i \in 17 .. 24 \/ i \in 25 .. 32
  BY SMTT(60) DEF BINARY_MUTATIONS
<1>2. CASE i \in 1 .. 8
  BY <1>2, SMTT(60) DEF BINARY_MUTATIONS, RangeVisitors
<1>3. CASE i \in 9 .. 16
  BY <1>3, SMTT(60) DEF BINARY_MUTATIONS, RangeVisitors
<1>4. CASE i \in 17 .. 24
  BY <1>4, SMTT(60) DEF BINARY_MUTATIONS, RangeVisitors
<1>5. CASE i \in 25 .. 32
  BY <1>5, SMTT(60) DEF BINARY_MUTATIONS, RangeVisitors
<1> QED BY <1>1, <1>2, <1>3, <1>4, <1>5

\* Only a call is recorded by the AST search for a mutator whose visitor looks for the
\* smallest expression.
LEMMA RangeMutatorsRecorded ==
  ASSUME NEW u, NEW i, VisitExpr(u, i) \in RangeVisitors
  PROVE  VisitExpr(u, i) = "replace_call_mutator"
<1>1. \A op : BinaryKind(op) \notin RangeVisitors
  BY BinaryMutators, BinaryKindIs DEF RangeVisitors, None
<1> QED BY <1>1 DEF VisitExpr, RangeVisitors, None

\* What the AST search has recorded for a unit that is the only one of its file.
LEMMA RecordedFor ==
  ASSUME program \in Program, NEW p, p.unit \in DOMAIN program.unit, Alone(p),
         UnitPath(p.unit) \in DOMAIN Recorded
  PROVE  Recorded[UnitPath(p.unit)] = SingleUnitMutations(p.unit) /\ p.unit \in Searched
<1>1. PICK path : path = UnitPath(p.unit)
  OBVIOUS
<1>2. \A u \in DOMAIN program.unit :
        UnitPath(u) \in [dir : STRING \ {"", "include"}, name : STRING, dots : BOOLEAN]
  BY MutationFiltersAssumption DEF WellFormed, UnitPath
<1>3. PICK v \in Searched : SourceFileName(v) = path
  BY <1>1 DEF Recorded
<1>4. \A u \in Searched : u \in DOMAIN program.unit
  BY DEF Searched
<1>5. ~program.relative
  <2>1. SUFFICES ASSUME program.relative PROVE FALSE
    OBVIOUS
  <2>2. PICK a : a = UnitPath(v)
    OBVIOUS
  <2>3. path = [dir |-> "", name |-> a.name, dots |-> FALSE]
    BY <1>3, <2>1, <2>2 DEF SourceFileName, Filename
  <2>4. path.dir = ""
    BY <2>3
  <2>5. path.dir # ""
    BY <1>1, <1>2
  <2> QED BY <2>4, <2>5
<1>6. \A u : SourceFileName(u) = UnitPath(u)
  BY <1>5 DEF SourceFileName
<1>7. \A u \in Searched : SourceFileName(u) = path => u = p.unit
  BY <1>1, <1>4, <1>6 DEF Alone
<1>8. p.unit \in Searched /\ SourceFileName(p.unit) = path
  BY <1>3, <1>7
<1>9. (CHOOSE u \in Searched : SourceFileName(u) = path) = p.unit
  BY <1>7, <1>8
<1>10. Recorded[path] = SingleUnitMutations(CHOOSE u \in Searched : SourceFileName(u) = path)
  BY <1>1, Zenon DEF Recorded
<1> QED BY <1>1, <1>8, <1>9, <1>10

\* What the AST search records of a unit.
LEMMA UnitRecords ==
  ASSUME NEW u, NEW id
  PROVE  /\ id \in DOMAIN SingleUnitMutations(u) <=>
              \E i \in Saved(u) : VisitExpr(u, i) = id
         /\ id \in DOMAIN SingleUnitMutations(u) =>
              \A h : /\ h \in DOMAIN SingleUnitMutations(u)[id] <=>
                          \E i \in Saved(u) : VisitExpr(u, i) = id /\ Hash(SavedAt(At(u, i))) = h
                     /\ h \in DOMAIN SingleUnitMutations(u)[id] =>
                          SingleUnitMutations(u)[id][h] =
                            {<< u, Min({i \in Saved(u) : VisitExpr(u, i) = id /\ Hash(SavedAt(At(u, i))) = h}) >>}
<1> DEFINE of(k) == {i \in Saved(u) : VisitExpr(u, i) = k}
           same(k, h) == {i \in of(k) : Hash(SavedAt(At(u, i))) = h}
           bucket(k) == [h \in {Hash(SavedAt(At(u, i))) : i \in of(k)} |-> {<< u, Min(same(k, h)) >>}]
<1>1. SingleUnitMutations(u) = [k \in {VisitExpr(u, i) : i \in Saved(u)} |-> bucket(k)]
  BY Zenon DEF SingleUnitMutations
<1>2. id \in DOMAIN SingleUnitMutations(u) <=> \E i \in Saved(u) : VisitExpr(u, i) = id
  BY <1>1
<1>3. ASSUME id \in DOMAIN SingleUnitMutations(u), NEW h
      PROVE  /\ h \in DOMAIN SingleUnitMutations(u)[id] <=>
                  \E i \in Saved(u) : VisitExpr(u, i) = id /\ Hash(SavedAt(At(u, i))) = h
             /\ h \in DOMAIN SingleUnitMutations(u)[id] =>
                  SingleUnitMutations(u)[id][h] =
                    {<< u, Min({i \in Saved(u) : VisitExpr(u, i) = id /\ Hash(SavedAt(At(u, i))) = h}) >>}
  <2>1. of(id) = {i \in Saved(u) : VisitExpr(u, i) = id}
    OBVIOUS
  <2>3. same(id, h) = {i \in Saved(u) : VisitExpr(u, i) = id /\ Hash(SavedAt(At(u, i))) = h}
    BY <2>1
  <2>4. SingleUnitMutations(u)[id] = bucket(id)
    BY <1>1, <1>3, Zenon
  <2> HIDE DEF same
  <2>5. DOMAIN bucket(id) = {Hash(SavedAt(At(u, i))) : i \in of(id)}
    BY Zenon
  <2>6. h \in DOMAIN bucket(id) => bucket(id)[h] = {<< u, Min(same(id, h)) >>}
    BY Zenon
  <2>7. h \in DOMAIN bucket(id) <=> \E i \in Saved(u) : VisitExpr(u, i) = id /\ Hash(SavedAt(At(u, i))) = h
    BY <2>1, <2>5
  <2> HIDE DEF bucket
  <2> QED BY <2>3, <2>4, <2>6, <2>7
<1> QED BY <1>2, <1>3

\* The place of a point.
LEMMA PlaceOfPoint ==
  ASSUME PipelineInv, NEW p \in AllPoints
  PROVE  /\ program \in Program /\ p.unit \in DOMAIN program.unit /\ p.index \in Exprs(p.unit)
         /\ Node(p) = At(p.unit, p.index) /\ Node(p) \in Expression
         /\ p.mutator \in mutators /\ p.mutator \in DOMAIN AllMutators
         /\ ~Excluded(Node(p)) /\ CanMutate(p.mutator, Node(p))
<1>1. IsPoint(p) /\ program \in Program /\ mutators \subseteq DOMAIN AllMutators
  BY PointFacts DEF PipelineInv, SetupInv
<1>2. Node(p) = At(p.unit, p.index)
  BY DEF Node, At
<1> QED BY <1>1, <1>2, NodesOf DEF IsPoint

\* The source info that the AST search has recorded for a point is the point's own.
LEMMA RecordedIsOwn ==
  ASSUME PipelineInv, NEW p \in AllPoints, Alone(p), SameName(p), ~IsJunkMutation(p),
         Has(Recorded, UnitPath(p.unit), p.mutator, Hash(Node(p)))
  PROVE  Recorded[UnitPath(p.unit)][p.mutator][Hash(Node(p))] = NodeOf(p)
<1>1. PICK u, i, id, h : u = p.unit /\ i = p.index /\ id = p.mutator /\ h = Hash(Node(p))
  OBVIOUS
<1>2. /\ program \in Program /\ u \in DOMAIN program.unit /\ i \in Exprs(u)
      /\ Node(p) = At(u, i) /\ At(u, i) \in Expression
      /\ id \in DOMAIN AllMutators /\ CanMutate(id, At(u, i))
  BY <1>1, PlaceOfPoint
<1>3. Recorded[UnitPath(p.unit)] = SingleUnitMutations(u)
  BY <1>1, <1>2, RecordedFor DEF Has
<1>4. id \in DOMAIN SingleUnitMutations(u) /\ h \in DOMAIN SingleUnitMutations(u)[id]
  BY <1>1, <1>3 DEF Has
<1>5. PICK S : S = {j \in Saved(u) : VisitExpr(u, j) = id /\ Hash(SavedAt(At(u, j))) = h}
  OBVIOUS
<1>6. SingleUnitMutations(u)[id][h] = {<< u, Min(S) >>} /\ S # {}
  BY <1>4, <1>5, UnitRecords
<1>7. ASSUME NEW j \in S PROVE j = i
  <2>1. j \in Exprs(u) /\ Hash(SavedAt(At(u, j))) = Hash(Node(p))
    BY <1>1, <1>5 DEF Saved
  <2> QED BY <1>1, <1>2, <2>1, AloneHasItsKey
<1>8. S = {i} /\ VisitExpr(u, i) = id /\ VisitExpr(u, i) # None
  BY <1>5, <1>6, <1>7 DEF Saved
<1>9. Min(S) = i
  <2>1. S \in SUBSET Nat
    BY <1>2, <1>8, Nesting
  <2> QED BY <1>8, <2>1, MinIs
<1>10. NodeOf(p) = {<< u, i >>}
  <2>1. PICK place : place = PlaceOf(p)
    OBVIOUS
  <2>2. place.at = i /\ place.file = At(u, i).file
    BY <1>1, <1>2, <2>1, OwnPlace
  <2>3. NodeOf(p) = FoundMutant(id, u, place)
    BY <1>1, <2>1 DEF NodeOf
  <2>4. NodeOf(p) # {} /\ GetDecl(u, i) # {}
    BY <1>1, <2>1, <2>2 DEF IsJunkMutation
  <2>5. CASE id \notin RangeVisitors
    BY <1>2, <2>2, <2>3, <2>4, <2>5 DEF FoundMutant
  <2>6. CASE id \in RangeVisitors
    <3>1. id = "replace_call_mutator"
      BY <1>8, <2>6, RangeMutatorsRecorded
    <3>2. At(u, i).op \in Operator /\ At(u, i).type \in {"signed", "unsigned", "float"}
      BY <1>2 DEF Expression
    <3>3. At(u, i).op = "f()"
      BY <1>2, <3>1, <3>2, CallsOnly
    <3>4. ~At(u, i).begin.macro
      BY <1>8 DEF VisitExpr
    <3>5. InstructionRangeVisitor(id, u, place) = {<< u, i >>}
      BY <1>2, <2>2, <2>4, <3>1, <3>3, <3>4, CallIsSmallest
    <3> QED BY <2>3, <2>6, <3>5 DEF FoundMutant
  <2> QED BY <2>5, <2>6
<1> QED BY <1>1, <1>3, <1>6, <1>9, <1>10

\* When junk detection has run, the Elements reporter finds the source info of every
\* point in a file that clang has under the same name, and unless another unit or another
\* expression has the same place, or the hash overflows, it is that of the point's own
\* AST node, whichever workers recorded it in whichever order.
THEOREM SourceInfoIsOwnHolds == Spec => []SourceInfoIsOwn
<1>1. PipelineInv /\ SourceInv => SourceInfoIsOwn
  <2> SUFFICES ASSUME PipelineInv, SourceInv, CompilationInfoAvailable,
                      phase = "done" \/ abort = "SourceInfo", NEW p \in points,
                      SameName(p)
               PROVE  /\ Answered(UnitPath(p.unit), p.mutator)
                      /\ MutationExists(UnitPath(p.unit), p.mutator, Hash(Node(p)))
                      /\ Alone(p) => storage[UnitPath(p.unit)][p.mutator][Hash(Node(p))] =
                                       NodeOf(p)
    BY Zenon DEF SourceInfoIsOwn
  <2>1. Narrowed /\ points = Real
    BY DEF Narrowed, PipelineInv, StagesInv
  <2>2. Filed(p) /\ OriginInv
    BY <2>1 DEF SourceInv
  <2>3. p \in AllPoints /\ ~IsJunkMutation(p)
    BY <2>1 DEF Real, Listed, Included, Located
  <2>4. ASSUME Alone(p)
        PROVE  storage[UnitPath(p.unit)][p.mutator][Hash(Node(p))] = NodeOf(p)
    <3>1. PICK path, id, h : /\ path = UnitPath(p.unit) /\ id = p.mutator
                             /\ h = Hash(Node(p)) /\ h = Hash(PlaceOf(p))
      BY OwnPlace
    <3>2. \/ Has(First, path, id, h) /\ storage[path][id][h] = First[path][id][h]
          \/ \E q \in AllPoints : FromPoint(q, path, id, h, storage[path][id][h])
      BY <2>2, <3>1 DEF Filed, OriginInv
    <3>3. CASE Has(First, path, id, h) /\ storage[path][id][h] = First[path][id][h]
      <4>1. First = Recorded
        BY <3>3 DEF First, Has, Empty
      <4> QED BY <2>3, <2>4, <3>1, <3>3, <4>1, RecordedIsOwn
    <3>4. ASSUME NEW q \in AllPoints, FromPoint(q, path, id, h, storage[path][id][h])
          PROVE  storage[path][id][h] = NodeOf(p)
      <4>1. /\ program \in Program /\ p.unit \in DOMAIN program.unit /\ p.index \in Exprs(p.unit)
            /\ q.unit \in DOMAIN program.unit /\ q.index \in Exprs(q.unit)
            /\ Node(q) = At(q.unit, q.index)
        BY <2>3, <3>4, PlaceOfPoint
      <4>2. q.unit = p.unit
        BY <2>4, <3>1, <3>4, <4>1 DEF Alone, FromPoint
      <4>3. q.index = p.index
        <5>1. PICK place : place = Place(p.unit, q.index)
          OBVIOUS
        <5>2. Hash(place) = Hash(Node(p)) /\ q.index \in Exprs(p.unit)
          BY <3>1, <3>4, <4>1, <4>2, <5>1 DEF FromPoint, PlaceOf
        <5> QED BY <2>4, <4>1, <5>1, <5>2, AloneHasItsKey
      <4> QED BY <3>1, <3>4, <4>2, <4>3 DEF FromPoint, NodeOf, PlaceOf
    <3> QED BY <3>1, <3>2, <3>3, <3>4
  <2> QED BY <2>2, <2>4, OwnPlace DEF Filed, Has, Answered, MutationExists
<1> QED BY <1>1, SourceHolds, PTL

-----------------------------------------------------------------------------
(* The tables of the mutators.                                             *)

\* What the mutant is, as MutantIsTheReplacement says.
Replaces(m, n) ==
  \/ m.to \in {"x", "noop", "x--", "--x", "x++", "++x", "a=42", "T=42"}
  \/ ({m.ir[op] : op \in Opcodes(n) \intersect DOMAIN m.ir} = Opcodes([n EXCEPT !.op = m.to]))
       # Deviates(n)

\* The instructions before and after: o and r.
IsReplaced(m, n, k, o, r) ==
  /\ Opcodes(n) = {o} /\ o \in DOMAIN m.ir /\ Opcodes(k) = {r}
  /\ m.ir[o] = r <=> ~Deviates(n)

\* When there is one instruction, it is replaced by one.
LEMMA OneOpcode ==
  ASSUME NEW m, NEW n, NEW k, k = [n EXCEPT !.op = m.to], \E o, r : IsReplaced(m, n, k, o, r)
  PROVE  Replaces(m, n)
<1>1. PICK o, r : IsReplaced(m, n, k, o, r)
  OBVIOUS
<1>2. {m.ir[op] : op \in Opcodes(n) \intersect DOMAIN m.ir} = {m.ir[o]}
  BY <1>1 DEF IsReplaced
<1>3. ({m.ir[o]} = Opcodes(k)) <=> ~Deviates(n)
  BY <1>1 DEF IsReplaced
<1>4. Deviates(n) \in BOOLEAN
  BY DEF Deviates
<1> QED BY <1>2, <1>3, <1>4 DEF Replaces

\* The mutants of AddMutators, type by type.
LEMMA AddReplaces ==
  ASSUME NEW n \in Expression, n.op \in Integral => n.type # "float",
         NEW m \in AddMutators, m.from = n.op, m.from \in {"+", "+="}
  PROVE  Replaces(m, n)
<1>1. PICK k : k = [n EXCEPT !.op = m.to]
  OBVIOUS
<1>2. k.op = m.to /\ k.type = n.type /\ n.type \in {"signed", "unsigned", "float"}
  BY <1>1 DEF Expression
<1>3. CASE n.type = "signed"
  <2>1. \E o, r : IsReplaced(m, n, k, o, r)
    BY <1>2, <1>3 DEF IsReplaced, Opcodes, Typed, Deviates, Integral, AddMutators, Mutator, GetAddToSub
  <2> QED BY <1>1, <2>1, OneOpcode
<1>4. CASE n.type = "unsigned"
  <2>1. \E o, r : IsReplaced(m, n, k, o, r)
    BY <1>2, <1>4 DEF IsReplaced, Opcodes, Typed, Deviates, Integral, AddMutators, Mutator, GetAddToSub
  <2> QED BY <1>1, <2>1, OneOpcode
<1>5. CASE n.type = "float"
  <2>1. \E o, r : IsReplaced(m, n, k, o, r)
    BY <1>2, <1>5 DEF IsReplaced, Opcodes, Typed, Deviates, Integral, AddMutators, Mutator, GetAddToSub
  <2> QED BY <1>1, <2>1, OneOpcode
<1> QED BY <1>2, <1>3, <1>4, <1>5

\* The mutants of SubMutators, type by type.
LEMMA SubReplaces ==
  ASSUME NEW n \in Expression, n.op \in Integral => n.type # "float",
         NEW m \in SubMutators, m.from = n.op, m.from \in {"-", "-="}
  PROVE  Replaces(m, n)
<1>1. PICK k : k = [n EXCEPT !.op = m.to]
  OBVIOUS
<1>2. k.op = m.to /\ k.type = n.type /\ n.type \in {"signed", "unsigned", "float"}
  BY <1>1 DEF Expression
<1>3. CASE n.type = "signed"
  <2>1. \E o, r : IsReplaced(m, n, k, o, r)
    BY <1>2, <1>3 DEF IsReplaced, Opcodes, Typed, Deviates, Integral, SubMutators, Mutator, GetSubToAdd
  <2> QED BY <1>1, <2>1, OneOpcode
<1>4. CASE n.type = "unsigned"
  <2>1. \E o, r : IsReplaced(m, n, k, o, r)
    BY <1>2, <1>4 DEF IsReplaced, Opcodes, Typed, Deviates, Integral, SubMutators, Mutator, GetSubToAdd
  <2> QED BY <1>1, <2>1, OneOpcode
<1>5. CASE n.type = "float"
  <2>1. \E o, r : IsReplaced(m, n, k, o, r)
    BY <1>2, <1>5 DEF IsReplaced, Opcodes, Typed, Deviates, Integral, SubMutators, Mutator, GetSubToAdd
  <2> QED BY <1>1, <2>1, OneOpcode
<1> QED BY <1>2, <1>3, <1>4, <1>5

\* The mutants of MulMutators, type by type.
LEMMA MulReplaces ==
  ASSUME NEW n \in Expression, n.op \in Integral => n.type # "float",
         NEW m \in MulMutators, m.from = n.op
  PROVE  Replaces(m, n)
<1>1. PICK k : k = [n EXCEPT !.op = m.to]
  OBVIOUS
<1>2. k.op = m.to /\ k.type = n.type /\ n.type \in {"signed", "unsigned", "float"}
  BY <1>1 DEF Expression
<1>3. CASE n.type = "signed"
  <2>1. \E o, r : IsReplaced(m, n, k, o, r)
    BY <1>2, <1>3 DEF IsReplaced, Opcodes, Typed, Deviates, Integral, MulMutators, Mutator, GetMulToDiv
  <2> QED BY <1>1, <2>1, OneOpcode
<1>4. CASE n.type = "unsigned"
  <2>1. n.op \in {"*", "*="} /\ k.op \in {"/", "/="} /\ m.ir = GetMulToDiv
    BY <1>2 DEF MulMutators, Mutator
  <2>2. Opcodes(n) = {"mul"} /\ Opcodes(k) = {"udiv"} /\ Deviates(n)
    BY <1>2, <1>4, <2>1 DEF Opcodes, Typed, Deviates
  <2>3. "mul" \in DOMAIN m.ir /\ m.ir["mul"] = "sdiv"
    BY <2>1 DEF GetMulToDiv
  <2>4. IsReplaced(m, n, k, "mul", "udiv")
    BY <2>2, <2>3 DEF IsReplaced
  <2> QED BY <1>1, <2>4, OneOpcode
<1>5. CASE n.type = "float"
  <2>1. \E o, r : IsReplaced(m, n, k, o, r)
    BY <1>2, <1>5 DEF IsReplaced, Opcodes, Typed, Deviates, Integral, MulMutators, Mutator, GetMulToDiv
  <2> QED BY <1>1, <2>1, OneOpcode
<1> QED BY <1>2, <1>3, <1>4, <1>5

\* The mutants of DivMutators, type by type.
LEMMA DivReplaces ==
  ASSUME NEW n \in Expression, n.op \in Integral => n.type # "float",
         NEW m \in DivMutators, m.from = n.op
  PROVE  Replaces(m, n)
<1>1. PICK k : k = [n EXCEPT !.op = m.to]
  OBVIOUS
<1>2. k.op = m.to /\ k.type = n.type /\ n.type \in {"signed", "unsigned", "float"}
  BY <1>1 DEF Expression
<1>3. CASE n.type = "signed"
  <2>1. \E o, r : IsReplaced(m, n, k, o, r)
    BY <1>2, <1>3 DEF IsReplaced, Opcodes, Typed, Deviates, Integral, DivMutators, Mutator, GetDivToMul
  <2> QED BY <1>1, <2>1, OneOpcode
<1>4. CASE n.type = "unsigned"
  <2>1. \E o, r : IsReplaced(m, n, k, o, r)
    BY <1>2, <1>4 DEF IsReplaced, Opcodes, Typed, Deviates, Integral, DivMutators, Mutator, GetDivToMul
  <2> QED BY <1>1, <2>1, OneOpcode
<1>5. CASE n.type = "float"
  <2>1. \E o, r : IsReplaced(m, n, k, o, r)
    BY <1>2, <1>5 DEF IsReplaced, Opcodes, Typed, Deviates, Integral, DivMutators, Mutator, GetDivToMul
  <2> QED BY <1>1, <2>1, OneOpcode
<1> QED BY <1>2, <1>3, <1>4, <1>5

\* The mutants of RemMutators, type by type.
LEMMA RemReplaces ==
  ASSUME NEW n \in Expression, n.op \in Integral => n.type # "float",
         NEW m \in RemMutators, m.from = n.op
  PROVE  Replaces(m, n)
<1>1. PICK k : k = [n EXCEPT !.op = m.to]
  OBVIOUS
<1>2. k.op = m.to /\ k.type = n.type /\ n.type \in {"signed", "unsigned", "float"}
  BY <1>1 DEF Expression
<1>3. CASE n.type = "signed"
  <2>1. \E o, r : IsReplaced(m, n, k, o, r)
    BY <1>2, <1>3 DEF IsReplaced, Opcodes, Typed, Deviates, Integral, RemMutators, Mutator, GetRemToDiv
  <2> QED BY <1>1, <2>1, OneOpcode
<1>4. CASE n.type = "unsigned"
  <2>1. \E o, r : IsReplaced(m, n, k, o, r)
    BY <1>2, <1>4 DEF IsReplaced, Opcodes, Typed, Deviates, Integral, RemMutators, Mutator, GetRemToDiv
  <2> QED BY <1>1, <2>1, OneOpcode
<1>5. CASE n.type = "float"
  <2>1. \E o, r : IsReplaced(m, n, k, o, r)
    BY <1>2, <1>5 DEF IsReplaced, Opcodes, Typed, Deviates, Integral, RemMutators, Mutator, GetRemToDiv
  <2> QED BY <1>1, <2>1, OneOpcode
<1> QED BY <1>2, <1>3, <1>4, <1>5

\* The mutants of ShiftMutators, type by type.
LEMMA ShiftReplaces ==
  ASSUME NEW n \in Expression, n.op \in Integral => n.type # "float",
         NEW m \in ShiftMutators, m.from = n.op
  PROVE  Replaces(m, n)
<1>1. PICK k : k = [n EXCEPT !.op = m.to]
  OBVIOUS
<1>2. k.op = m.to /\ k.type = n.type /\ n.type \in {"signed", "unsigned", "float"}
  BY <1>1 DEF Expression
<1>3. CASE n.type = "signed"
  <2>1. \/ n.op \in {"<<", "<<="} /\ k.op \in {">>", ">>="} /\ m.ir = [shl |-> "lshr"]
        \/ n.op = ">>" /\ k.op = ">>" /\ m.ir = GetRShiftToLShift
        \/ n.op = ">>=" /\ k.op = "<<=" /\ m.ir = GetRShiftToLShift
    BY <1>2 DEF ShiftMutators, Mutator
  <2>2. CASE n.op \in {"<<", "<<="} /\ k.op \in {">>", ">>="} /\ m.ir = [shl |-> "lshr"]
    <3>1. Opcodes(n) = {"shl"} /\ Opcodes(k) = {"ashr"} /\ Deviates(n)
      BY <1>2, <1>3, <2>2 DEF Opcodes, Typed, Deviates
    <3>2. "shl" \in DOMAIN m.ir /\ m.ir["shl"] = "lshr"
      BY <2>2
    <3>3. IsReplaced(m, n, k, "shl", "ashr")
      BY <3>1, <3>2 DEF IsReplaced
    <3> QED BY <1>1, <3>3, OneOpcode
  <2>3. CASE n.op = ">>=" /\ k.op = "<<=" /\ m.ir = GetRShiftToLShift
    <3>1. Opcodes(n) = {"ashr"} /\ Opcodes(k) = {"shl"} /\ ~Deviates(n)
      BY <1>2, <1>3, <2>3 DEF Opcodes, Typed, Deviates
    <3>2. "ashr" \in DOMAIN m.ir /\ m.ir["ashr"] = "shl"
      BY <2>3 DEF GetRShiftToLShift
    <3>3. IsReplaced(m, n, k, "ashr", "shl")
      BY <3>1, <3>2 DEF IsReplaced
    <3> QED BY <1>1, <3>3, OneOpcode
  <2>4. CASE n.op = ">>" /\ k.op = ">>" /\ m.ir = GetRShiftToLShift
    <3>1. Opcodes(n) = {"ashr"} /\ Opcodes(k) = {"ashr"} /\ Deviates(n)
      BY <1>2, <1>3, <2>4 DEF Opcodes, Typed, Deviates
    <3>2. "ashr" \in DOMAIN m.ir /\ m.ir["ashr"] = "shl"
      BY <2>4 DEF GetRShiftToLShift
    <3>3. IsReplaced(m, n, k, "ashr", "ashr")
      BY <3>1, <3>2 DEF IsReplaced
    <3> QED BY <1>1, <3>3, OneOpcode
  <2> QED BY <2>1, <2>2, <2>3, <2>4
<1>4. CASE n.type = "unsigned"
  <2>1. \E o, r : IsReplaced(m, n, k, o, r)
    BY <1>2, <1>4 DEF IsReplaced, Opcodes, Typed, Deviates, Integral, ShiftMutators, Mutator, GetRShiftToLShift
  <2> QED BY <1>1, <2>1, OneOpcode
<1>5. CASE n.type = "float"
  <2>1. \E o, r : IsReplaced(m, n, k, o, r)
    BY <1>2, <1>5 DEF IsReplaced, Opcodes, Typed, Deviates, Integral, ShiftMutators, Mutator, GetRShiftToLShift
  <2> QED BY <1>1, <2>1, OneOpcode
<1> QED BY <1>2, <1>3, <1>4, <1>5

\* The mutants of BitMutators, type by type.
LEMMA BitReplaces ==
  ASSUME NEW n \in Expression, n.op \in Integral => n.type # "float",
         NEW m \in BitMutators, m.from = n.op
  PROVE  Replaces(m, n)
<1>1. PICK k : k = [n EXCEPT !.op = m.to]
  OBVIOUS
<1>2. k.op = m.to /\ k.type = n.type /\ n.type \in {"signed", "unsigned", "float"}
  BY <1>1 DEF Expression
<1>3. CASE n.type = "signed"
  <2>1. \E o, r : IsReplaced(m, n, k, o, r)
    BY <1>2, <1>3 DEF IsReplaced, Opcodes, Typed, Deviates, Integral, BitMutators, Mutator
  <2> QED BY <1>1, <2>1, OneOpcode
<1>4. CASE n.type = "unsigned"
  <2>1. \E o, r : IsReplaced(m, n, k, o, r)
    BY <1>2, <1>4 DEF IsReplaced, Opcodes, Typed, Deviates, Integral, BitMutators, Mutator
  <2> QED BY <1>1, <2>1, OneOpcode
<1>5. CASE n.type = "float"
  <2>1. \E o, r : IsReplaced(m, n, k, o, r)
    BY <1>2, <1>5 DEF IsReplaced, Opcodes, Typed, Deviates, Integral, BitMutators, Mutator
  <2> QED BY <1>1, <2>1, OneOpcode
<1> QED BY <1>2, <1>3, <1>4, <1>5

\* The mutants of BoundaryMutators, type by type.
LEMMA BoundaryReplaces ==
  ASSUME NEW n \in Expression, n.op \in Integral => n.type # "float",
         NEW m \in BoundaryMutators, m.from = n.op
  PROVE  Replaces(m, n)
<1>1. PICK k : k = [n EXCEPT !.op = m.to]
  OBVIOUS
<1>2. k.op = m.to /\ k.type = n.type /\ n.type \in {"signed", "unsigned", "float"}
  BY <1>1 DEF Expression
<1>3. CASE n.type = "signed"
  <2>1. \E o, r : IsReplaced(m, n, k, o, r)
    BY <1>2, <1>3 DEF IsReplaced, Opcodes, Typed, Deviates, Integral, BoundaryMutators, Mutator, LtToLe, LeToLt, GtToGe, GeToGt
  <2> QED BY <1>1, <2>1, OneOpcode
<1>4. CASE n.type = "unsigned"
  <2>1. \E o, r : IsReplaced(m, n, k, o, r)
    BY <1>2, <1>4 DEF IsReplaced, Opcodes, Typed, Deviates, Integral, BoundaryMutators, Mutator, LtToLe, LeToLt, GtToGe, GeToGt
  <2> QED BY <1>1, <2>1, OneOpcode
<1>5. CASE n.type = "float"
  <2>1. \E o, r : IsReplaced(m, n, k, o, r)
    BY <1>2, <1>5 DEF IsReplaced, Opcodes, Typed, Deviates, Integral, BoundaryMutators, Mutator, LtToLe, LeToLt, GtToGe, GeToGt
  <2> QED BY <1>1, <2>1, OneOpcode
<1> QED BY <1>2, <1>3, <1>4, <1>5

\* The mutants of EqualMutators, type by type.
LEMMA EqualReplaces ==
  ASSUME NEW n \in Expression, n.op \in Integral => n.type # "float",
         NEW m \in EqualMutators, m.from = n.op
  PROVE  Replaces(m, n)
<1>1. PICK k : k = [n EXCEPT !.op = m.to]
  OBVIOUS
<1>2. k.op = m.to /\ k.type = n.type /\ n.type \in {"signed", "unsigned", "float"}
  BY <1>1 DEF Expression
<1>3. CASE n.type = "signed"
  <2>1. \E o, r : IsReplaced(m, n, k, o, r)
    BY <1>2, <1>3 DEF IsReplaced, Opcodes, Typed, Deviates, Integral, EqualMutators, Mutator, EqToNe, NeToEq
  <2> QED BY <1>1, <2>1, OneOpcode
<1>4. CASE n.type = "unsigned"
  <2>1. \E o, r : IsReplaced(m, n, k, o, r)
    BY <1>2, <1>4 DEF IsReplaced, Opcodes, Typed, Deviates, Integral, EqualMutators, Mutator, EqToNe, NeToEq
  <2> QED BY <1>1, <2>1, OneOpcode
<1>5. CASE n.type = "float"
  <2>1. \/ n.op = "==" /\ k.op = "!=" /\ m.ir = EqToNe
        \/ n.op = "!=" /\ k.op = "==" /\ m.ir = NeToEq
    BY <1>2 DEF EqualMutators, Mutator
  <2>2. CASE n.op = "==" /\ k.op = "!=" /\ m.ir = EqToNe
    <3>1. Opcodes(n) = {"foeq"} /\ Opcodes(k) = {"fune"} /\ Deviates(n)
      BY <1>2, <1>5, <2>2 DEF Opcodes, Typed, Deviates
    <3>2. "foeq" \in DOMAIN m.ir /\ m.ir["foeq"] = "fone"
      BY <2>2 DEF EqToNe
    <3>3. IsReplaced(m, n, k, "foeq", "fune")
      BY <3>1, <3>2 DEF IsReplaced
    <3> QED BY <1>1, <3>3, OneOpcode
  <2>3. CASE n.op = "!=" /\ k.op = "==" /\ m.ir = NeToEq
    <3>1. Opcodes(n) = {"fune"} /\ Opcodes(k) = {"foeq"} /\ Deviates(n)
      BY <1>2, <1>5, <2>3 DEF Opcodes, Typed, Deviates
    <3>2. "fune" \in DOMAIN m.ir /\ m.ir["fune"] = "fueq"
      BY <2>3 DEF NeToEq
    <3>3. IsReplaced(m, n, k, "fune", "foeq")
      BY <3>1, <3>2 DEF IsReplaced
    <3> QED BY <1>1, <3>3, OneOpcode
  <2> QED BY <2>1, <2>2, <2>3
<1> QED BY <1>2, <1>3, <1>4, <1>5

\* The mutants of ComparisonMutators, type by type.
LEMMA ComparisonReplaces ==
  ASSUME NEW n \in Expression, n.op \in Integral => n.type # "float",
         NEW m \in ComparisonMutators, m.from = n.op
  PROVE  Replaces(m, n)
<1>1. PICK k : k = [n EXCEPT !.op = m.to]
  OBVIOUS
<1>2. k.op = m.to /\ k.type = n.type /\ n.type \in {"signed", "unsigned", "float"}
  BY <1>1 DEF Expression
<1>3. CASE n.type = "signed"
  <2>1. \E o, r : IsReplaced(m, n, k, o, r)
    BY <1>2, <1>3 DEF IsReplaced, Opcodes, Typed, Deviates, Integral, ComparisonMutators, Mutator, GtToLe, GeToLt, LtToGe, LeToGt
  <2> QED BY <1>1, <2>1, OneOpcode
<1>4. CASE n.type = "unsigned"
  <2>1. \E o, r : IsReplaced(m, n, k, o, r)
    BY <1>2, <1>4 DEF IsReplaced, Opcodes, Typed, Deviates, Integral, ComparisonMutators, Mutator, GtToLe, GeToLt, LtToGe, LeToGt
  <2> QED BY <1>1, <2>1, OneOpcode
<1>5. CASE n.type = "float"
  <2>1. \E o, r : IsReplaced(m, n, k, o, r)
    BY <1>2, <1>5 DEF IsReplaced, Opcodes, Typed, Deviates, Integral, ComparisonMutators, Mutator, GtToLe, GeToLt, LtToGe, LeToGt
  <2> QED BY <1>1, <2>1, OneOpcode
<1> QED BY <1>2, <1>3, <1>4, <1>5

\* The mutants of LogicalMutators, type by type.
LEMMA LogicalReplaces ==
  ASSUME NEW n \in Expression, n.op \in Integral => n.type # "float",
         NEW m \in LogicalMutators, m.from = n.op
  PROVE  Replaces(m, n)
<1>1. PICK k : k = [n EXCEPT !.op = m.to]
  OBVIOUS
<1>2. k.op = m.to /\ k.type = n.type /\ n.type \in {"signed", "unsigned", "float"}
  BY <1>1 DEF Expression
<1>3. CASE n.type = "signed"
  <2>1. \E o, r : IsReplaced(m, n, k, o, r)
    BY <1>2, <1>3 DEF IsReplaced, Opcodes, Typed, Deviates, Integral, LogicalMutators, Mutator
  <2> QED BY <1>1, <2>1, OneOpcode
<1>4. CASE n.type = "unsigned"
  <2>1. \E o, r : IsReplaced(m, n, k, o, r)
    BY <1>2, <1>4 DEF IsReplaced, Opcodes, Typed, Deviates, Integral, LogicalMutators, Mutator
  <2> QED BY <1>1, <2>1, OneOpcode
<1>5. CASE n.type = "float"
  <2>1. \E o, r : IsReplaced(m, n, k, o, r)
    BY <1>2, <1>5 DEF IsReplaced, Opcodes, Typed, Deviates, Integral, LogicalMutators, Mutator
  <2> QED BY <1>1, <2>1, OneOpcode
<1> QED BY <1>2, <1>3, <1>4, <1>5

\* The mutants of all of them.
LEMMA MutantsReplace ==
  ASSUME NEW n \in Expression, n.op \in Integral => n.type # "float",
         NEW m \in Created, m.id \notin RangeVisitors, m.from = n.op
  PROVE  Replaces(m, n)
<1>1. m \notin NegateMutator \union ReplaceCallMutator \union ScalarMutator
  BY DEF NegateMutator, ReplaceCallMutator, ScalarMutator, Mutator, RangeVisitors
<1>2. CASE m \in NumberMutators \union RemoveVoidMutator \union MinusMutators \union NotMutators
  BY <1>2 DEF NumberMutators, RemoveVoidMutator, MinusMutators, NotMutators, Mutator, Replaces
<1>3. CASE m \in AddMutators
  <2>1. m.from \in {"+", "+="} \/ m.to \in {"x--", "--x"}
    BY <1>3 DEF AddMutators, Mutator
  <2> QED BY <1>3, <2>1, AddReplaces DEF Replaces
<1>4. CASE m \in SubMutators
  <2>1. m.from \in {"-", "-="} \/ m.to \in {"x++", "++x"}
    BY <1>4 DEF SubMutators, Mutator
  <2> QED BY <1>4, <2>1, SubReplaces DEF Replaces
<1>5. CASE m \in MulMutators \union DivMutators \union RemMutators
  BY <1>5, MulReplaces, DivReplaces, RemReplaces
<1>6. CASE m \in BitMutators \union ShiftMutators \union LogicalMutators
  BY <1>6, BitReplaces, ShiftReplaces, LogicalReplaces
<1>7. CASE m \in EqualMutators \union ComparisonMutators \union BoundaryMutators
  BY <1>7, EqualReplaces, ComparisonReplaces, BoundaryReplaces
<1> QED BY <1>1, <1>2, <1>3, <1>4, <1>5, <1>6, <1>7 DEF Created

\* The visitor of a mutator accepts the operator it replaces, and no other.
VisitorFits(m) == \A op : m.from = op <=> << op, m.id >> \in ExactVisitors

\* So for every mutator whose visitor looks at the exact location.
LEMMA VisitorsFit ==
  ASSUME NEW m \in Created, m.id \notin RangeVisitors
  PROVE  VisitorFits(m)
<1> USE DEF VisitorFits, Mutator, ExactVisitors, BinaryVisitors, UnaryVisitors, VarDeclVisitor,
            RemoveVoidFunctionVisitor
<1>1. CASE m \in NumberMutators
  BY <1>1 DEF NumberMutators
<1>2. CASE m \in AddMutators
  BY <1>2 DEF AddMutators
<1>3. CASE m \in SubMutators
  BY <1>3 DEF SubMutators
<1>4. CASE m \in MulMutators
  BY <1>4 DEF MulMutators
<1>5. CASE m \in DivMutators
  BY <1>5 DEF DivMutators
<1>6. CASE m \in RemMutators
  BY <1>6 DEF RemMutators
<1>7. CASE m \in BitMutators
  BY <1>7 DEF BitMutators
<1>8. CASE m \in ShiftMutators
  BY <1>8 DEF ShiftMutators
<1>9. CASE m \in MinusMutators
  BY <1>9 DEF MinusMutators
<1>10. CASE m \in NotMutators
  BY <1>10 DEF NotMutators
<1>11. CASE m \in LogicalMutators
  BY <1>11 DEF LogicalMutators
<1>12. CASE m \in EqualMutators
  BY <1>12 DEF EqualMutators
<1>13. CASE m \in ComparisonMutators
  BY <1>13 DEF ComparisonMutators
<1>14. CASE m \in BoundaryMutators
  BY <1>14 DEF BoundaryMutators
<1>15. CASE m \in RemoveVoidMutator
  BY <1>15 DEF RemoveVoidMutator
<1>16. m \notin NegateMutator \union ReplaceCallMutator \union ScalarMutator
  BY DEF NegateMutator, ReplaceCallMutator, ScalarMutator, RangeVisitors
<1> HIDE DEF VisitorFits, Mutator, ExactVisitors, BinaryVisitors, UnaryVisitors, VarDeclVisitor,
             RemoveVoidFunctionVisitor
<1> QED BY <1>1, <1>2, <1>3, <1>4, <1>5, <1>6, <1>7, <1>8, <1>9, <1>10, <1>11, <1>12, <1>13, <1>14, <1>15, <1>16 DEF Created

\* A point that is not junk is at the operator its mutator replaces.
LEMMA FoundIsFrom ==
  ASSUME PipelineInv, NEW p \in AllPoints, p.mutator \notin RangeVisitors, SameName(p)
  PROVE  NodeOf(p) # {} <=> AllMutators[p.mutator].from = Node(p).op /\ ~Node(p).macro
<1>1. /\ p.mutator \in DOMAIN AllMutators /\ Node(p) = At(p.unit, p.index)
      /\ p.index \in Exprs(p.unit) /\ PlaceOf(p).at = p.index
  BY PlaceOfPoint, OwnPlace
<1>2. PICK m : m = AllMutators[p.mutator]
  OBVIOUS
<1>3. m \in Created /\ m.id = p.mutator
  BY <1>1, <1>2, MutatorIs
<1>4. VisitorFits(m)
  BY <1>3, VisitorsFit
<1>5. NodeOf(p) # {} <=> Visits(p.mutator, Node(p).op) /\ ~Node(p).macro
  BY <1>1 DEF NodeOf, FoundMutant
<1> QED BY <1>1, <1>2, <1>3, <1>4, <1>5 DEF VisitorFits, Visits

\* After junk detection, of the points in files that clang has under the names of the
\* debug information, exactly those are left whose operator was written at their location
\* and not in a macro, for every program: the tables of the mutators, of the factory and
\* of isJunk fit together, and no worker loses or adds a point.
THEOREM SurvivorsMatchSourceHolds == Spec => []SurvivorsMatchSource
<1>1. PipelineInv => SurvivorsMatchSource
  <2> SUFFICES ASSUME PipelineInv, phase = "done", CompilationInfoAvailable, ~ASTSearchEnabled
               PROVE  {p \in points : p.mutator \notin RangeVisitors /\ SameName(p)} =
                      {p \in AllPoints : /\ p.mutator \notin RangeVisitors /\ SameName(p)
                                         /\ InSource(p)
                                         /\ AllMutators[p.mutator].from = Node(p).op}
    BY Zenon DEF SurvivorsMatchSource
  <2>1. points = {p \in Included : ~IsJunkMutation(p)}
    BY DEF PipelineInv, StagesInv, Narrowed, Real, Listed
  <2>2. \A p : p \in points <=> p \in AllPoints /\ Node(p).debug /\ ~IsJunkMutation(p)
    BY <2>1, PlaceOfPoint DEF Included, Located
  <2>3. ASSUME NEW p \in AllPoints, p.mutator \notin RangeVisitors, SameName(p)
        PROVE  Node(p).debug /\ ~IsJunkMutation(p) <=>
                 InSource(p) /\ AllMutators[p.mutator].from = Node(p).op
    <3>1. PlaceOf(p).at = p.index /\ PlaceOf(p).file = Node(p).file
      BY <2>3, OwnPlace
    <3>2. InSystemHeader(p.unit, p.index) <=> PlaceOf(p).file = "system"
      BY <3>1 DEF InSystemHeader, At, Node
    <3>3. NodeOf(p) # {} <=> AllMutators[p.mutator].from = Node(p).op /\ ~Node(p).macro
      BY <2>3, FoundIsFrom
    <3> QED BY <3>1, <3>2, <3>3 DEF IsJunkMutation, InSource
  <2> QED BY <2>2, <2>3
<1> QED BY <1>1, PipelineHolds, PTL

\* A mutant of a binary operator is the instruction the other operator is compiled to,
\* for every program and every point left, but for the types of Deviates.
THEOREM MutantIsTheReplacementHolds == Spec => []MutantIsTheReplacement
<1>1. PipelineInv => MutantIsTheReplacement
  <2> SUFFICES ASSUME PipelineInv, phase = "done", CompilationInfoAvailable, NEW p \in points,
                      p.mutator \notin RangeVisitors, SameName(p)
               PROVE  Replaces(AllMutators[p.mutator], Node(p))
    BY Zenon DEF MutantIsTheReplacement, Replaces
  <2>1. p \in AllPoints /\ ~IsJunkMutation(p)
    BY DEF PipelineInv, StagesInv, Narrowed, Real, Listed, Included, Located
  <2>2. /\ program \in Program /\ p.unit \in DOMAIN program.unit /\ p.index \in Exprs(p.unit)
        /\ Node(p) = At(p.unit, p.index) /\ Node(p) \in Expression
        /\ p.mutator \in DOMAIN AllMutators
    BY <2>1, PlaceOfPoint
  <2>3. AllMutators[p.mutator].from = Node(p).op
    BY <2>1, FoundIsFrom DEF IsJunkMutation
  <2>4. PICK m, n : m = AllMutators[p.mutator] /\ n = Node(p)
    OBVIOUS
  <2>5. m \in Created /\ m.id \notin RangeVisitors /\ m.from = n.op
    BY <2>2, <2>3, <2>4, MutatorIs
  <2>6. n.op \in Integral => n.type # "float"
    <3>1. PICK u, i : u = p.unit /\ i = p.index
      OBVIOUS
    <3>2. u \in DOMAIN program.unit /\ i \in DOMAIN program.unit[u]
      BY <2>2, <3>1 DEF Exprs
    <3>3. program.unit[u][i] = n /\ n.what = "expr"
      BY <2>2, <2>4, <3>1 DEF At, Exprs
    <3>4. WellFormed(program)
      BY <2>2, MutationFiltersAssumption
    <3> QED BY <3>2, <3>3, <3>4 DEF WellFormed
  <2> QED BY <2>2, <2>4, <2>5, <2>6, MutantsReplace
<1> QED BY <1>1, PipelineHolds, PTL

-----------------------------------------------------------------------------
(* The white list.                                                         *)

\* The greatest of the numbers below a bound.
LEMMA MaxIs ==
  ASSUME NEW b \in Nat, NEW S \in SUBSET (0 .. b), S # {}
  PROVE  Max(S) \in S /\ \A x \in S : x <= Max(S)
<1> DEFINE T == {b - x : x \in S}
<1>1. T \in SUBSET Nat /\ T # {}
  <2>1. \A x \in S : b - x \in Nat
    OBVIOUS
  <2> QED BY <2>1
<1>2. PICK t \in T : \A y \in T : t <= y
  BY <1>1, LeastNatural
<1>3. PICK x \in S : t = b - x
  BY <1>2
<1>4. \A y \in S : x >= y
  <2>1. \A y \in S : b - y \in T /\ y \in Int
    OBVIOUS
  <2> QED BY <1>2, <1>3, <2>1
<1>5. \E z \in S : \A y \in S : z >= y
  BY <1>3, <1>4
<1>6. Max(S) \in S /\ \A y \in S : Max(S) >= y
  BY <1>5 DEF Max
<1> QED BY <1>6

\* The flag that main leaves is set between main and the next declaration.
LEMMA SkippedAfterMain ==
  ASSUME program \in Program, NEW u \in DOMAIN program.unit, NEW i \in Exprs(u)
  PROVE  ShouldSkipCurrentFunction(u, i) <=> AfterMain(u, i)
<1>1. PICK D, B : D = Decls(u) /\ B = {d \in Decls(u) : d < i}
  OBVIOUS
<1>2. i \in Nat /\ \A d \in D : d \in Nat /\ d # i
  <2>1. \A d \in D : At(u, d).what = "decl"
    BY <1>1 DEF Decls
  <2>2. At(u, i).what = "expr"
    BY DEF Exprs
  <2> QED BY <1>1, <2>1, <2>2, NodesOf
<1>3. B \in SUBSET (0 .. i)
  BY <1>1, <1>2
<1>4. CASE B = {}
  <2>1. ~ShouldSkipCurrentFunction(u, i)
    BY <1>1, <1>4 DEF ShouldSkipCurrentFunction
  <2>2. ~AfterMain(u, i)
    BY <1>1, <1>4 DEF AfterMain
  <2> QED BY <2>1, <2>2
<1>5. CASE B # {}
  <2>1. PICK m : m = Max(B)
    OBVIOUS
  <2>2. m \in B /\ \A d \in B : d <= m
    BY <1>2, <1>3, <1>5, <2>1, MaxIs
  <2>3. ShouldSkipCurrentFunction(u, i) <=> At(u, m).name = "main"
    BY <1>1, <1>5, <2>1 DEF ShouldSkipCurrentFunction
  <2>4. \A e \in D : e <= m \/ i < e
    BY <1>1, <1>2, <2>2
  <2>5. ASSUME NEW d \in D, d < i, \A e \in D : e <= d \/ i < e PROVE d = m
    BY <1>1, <1>2, <2>2, <2>5
  <2> QED BY <1>1, <2>2, <2>3, <2>4, <2>5 DEF AfterMain
<1> QED BY <1>4, <1>5

\* The mutator that the AST search has for an operator.
Kind(op) ==
  IF op \notin Calls THEN BinaryKind(op)
  ELSE IF "remove_void_function_mutator" \in astKinds
       THEN IF op = "v()" THEN "remove_void_function_mutator" ELSE None
  ELSE IF "replace_call_mutator" \in astKinds THEN "replace_call_mutator"
  ELSE None

\* It is recorded unless the expression is skipped.
LEMMA VisitIsKind ==
  ASSUME NEW u, NEW i
  PROVE  VisitExpr(u, i) =
           IF \/ ShouldSkipCurrentFunction(u, i) \/ InSystemHeader(u, i)
              \/ At(u, i).begin.macro \/ Excluded(At(u, i))
           THEN None ELSE Kind(At(u, i).op)
BY DEF VisitExpr, Kind

\* The table of the AST search agrees with the visitors of junk detection.
LEMMA BinaryMutationsFit ==
  \A i \in DOMAIN BINARY_MUTATIONS :
    /\ BINARY_MUTATIONS[i][2] \notin RangeVisitors
    /\ BINARY_MUTATIONS[i][2] # "remove_void_function_mutator"
    /\ \A op : << op, BINARY_MUTATIONS[i][2] >> \in ExactVisitors => op = BINARY_MUTATIONS[i][1]
<1>1. \A i \in DOMAIN BINARY_MUTATIONS :
        /\ BINARY_MUTATIONS[i][2] \notin RangeVisitors
        /\ BINARY_MUTATIONS[i][2] # "remove_void_function_mutator"
  BY BinaryMutators
<1>2. ASSUME NEW i \in DOMAIN BINARY_MUTATIONS, NEW op,
             << op, BINARY_MUTATIONS[i][2] >> \in ExactVisitors
      PROVE  op = BINARY_MUTATIONS[i][1]
  <2>1. PICK id : id = BINARY_MUTATIONS[i][2]
    OBVIOUS
  <2>2. CASE << op, id >> \in BinaryVisitors
    <3>1. i \in 1 .. 8 \/ i \in 9 .. 16 \/ i \in 17 .. 24 \/ i \in 25 .. 32
      BY SMTT(60) DEF BINARY_MUTATIONS
    <3>2. CASE i \in 1 .. 8
      BY <2>1, <2>2, <3>2, SMTT(60) DEF BinaryVisitors, BINARY_MUTATIONS
    <3>3. CASE i \in 9 .. 16
      BY <2>1, <2>2, <3>3, SMTT(60) DEF BinaryVisitors, BINARY_MUTATIONS
    <3>4. CASE i \in 17 .. 24
      BY <2>1, <2>2, <3>4, SMTT(60) DEF BinaryVisitors, BINARY_MUTATIONS
    <3>5. CASE i \in 25 .. 32
      BY <2>1, <2>2, <3>5, SMTT(60) DEF BinaryVisitors, BINARY_MUTATIONS
    <3> QED BY <3>1, <3>2, <3>3, <3>4, <3>5
  <2>3. CASE << op, id >> \in UnaryVisitors \union {VarDeclVisitor, RemoveVoidFunctionVisitor}
    BY <2>1, <2>3, SMTT(60) DEF UnaryVisitors, VarDeclVisitor, RemoveVoidFunctionVisitor, BINARY_MUTATIONS
  <2> QED BY <1>2, <2>1, <2>2, <2>3 DEF ExactVisitors
<1> QED BY <1>1, <1>2

\* A mutator that the AST search has for some operator, it has for the operator of each
\* of its points that are not junk.
LEMMA KindOfPoint ==
  ASSUME PipelineInv, NEW p \in AllPoints, SameName(p), ~IsJunkMutation(p),
         NEW op, p.mutator # None, Kind(op) = p.mutator
  PROVE  Kind(Node(p).op) = p.mutator /\ (Node(p).op \in Calls \/ ~Node(p).macro)
<1>1. PICK id, n : id = p.mutator /\ n = Node(p)
  OBVIOUS
<1>2. /\ id \in DOMAIN AllMutators /\ n = At(p.unit, p.index) /\ n \in Expression
      /\ CanMutate(id, n)
  BY <1>1, PlaceOfPoint
<1>3. NodeOf(p) # {} /\ PlaceOf(p).at = p.index
  BY OwnPlace DEF IsJunkMutation
<1>4. id \notin RangeVisitors => << n.op, id >> \in ExactVisitors /\ ~n.macro
  BY <1>1, <1>2, <1>3 DEF NodeOf, FoundMutant, Visits
<1>5. CASE op \notin Calls
  <2>1. BinaryKind(op) = id
    BY <1>1, <1>5 DEF Kind
  <2>2. PICK i \in DOMAIN BINARY_MUTATIONS :
          BINARY_MUTATIONS[i][1] = op /\ id = BINARY_MUTATIONS[i][2]
    BY <1>1, <2>1, BinaryKindIs
  <2>3. n.op = op /\ ~n.macro
    BY <1>4, <2>2, BinaryMutationsFit
  <2> QED BY <1>1, <2>3
<1>6. CASE op \in Calls /\ id = "remove_void_function_mutator"
  <2>1. "remove_void_function_mutator" \in astKinds
    BY <1>1, <1>6 DEF Kind, None
  <2>2. << n.op, id >> \in ExactVisitors
    BY <1>4, <1>6 DEF RangeVisitors
  <2>3. n.op = "v()"
    BY <1>6, <2>2 DEF ExactVisitors, BinaryVisitors, UnaryVisitors, VarDeclVisitor,
                      RemoveVoidFunctionVisitor
  <2> QED BY <1>1, <1>6, <2>1, <2>3 DEF Kind, Calls
<1>7. CASE op \in Calls /\ id # "remove_void_function_mutator"
  <2>1. /\ id = "replace_call_mutator" /\ "replace_call_mutator" \in astKinds
        /\ "remove_void_function_mutator" \notin astKinds
    BY <1>1, <1>7 DEF Kind, None
  <2>2. n.op \in Operator /\ n.type \in {"signed", "unsigned", "float"}
    BY <1>2 DEF Expression
  <2>3. n.op = "f()"
    BY <1>2, <2>1, <2>2, CallsOnly
  <2> QED BY <1>1, <2>1, <2>3 DEF Kind, Calls
<1> QED BY <1>5, <1>6, <1>7

\* A point whose file the AST search has recorded is in the unit's own file.
LEMMA RecordedInMain ==
  ASSUME program \in Program, NEW p, p.unit \in DOMAIN program.unit, IsRecorded(p)
  PROVE  PathOfPoint(p) = UnitPath(p.unit) /\ Node(p).file = "main" /\ SameName(p)
<1>1. PICK v \in Searched : SourceFileName(v) = PathOfPoint(p)
  BY DEF IsRecorded, Recorded
<1>2. PICK a : a = UnitPath(v)
  OBVIOUS
<1>3. a \in [dir : STRING \ {"", "include"}, name : STRING, dots : BOOLEAN]
  BY <1>1, <1>2, MutationFiltersAssumption DEF WellFormed, UnitPath, Searched
<1>4. SourceFileName(v).dir # "include"
  <2>1. CASE program.relative
    <3>1. PICK b : b = [dir |-> "", name |-> a.name, dots |-> FALSE]
      OBVIOUS
    <3>2. b.dir = ""
      BY <3>1
    <3>3. SourceFileName(v) = b
      BY <1>2, <2>1, <3>1 DEF SourceFileName, Filename
    <3>4. "" # "include"
      BY Zenon
    <3> QED BY <3>2, <3>3, <3>4, Zenon
  <2>2. CASE ~program.relative
    BY <1>2, <1>3, <2>2 DEF SourceFileName
  <2> QED BY <2>1, <2>2
<1>5. Node(p).file # "main" => PathOfPoint(p).dir = "include"
  <2>1. PICK file, b : file = Node(p).file /\ b = (file \in program.renamed)
    OBVIOUS
  <2>2. PICK h : h = [dir |-> "include", name |-> file, dots |-> FALSE]
    OBVIOUS
  <2>3. Node(p).file # "main" => PathOfPoint(p) = [h EXCEPT !.dots = b]
    BY <2>1, <2>2, Zenon DEF PathOfPoint, FilePath, HeaderPath
  <2>4. [h EXCEPT !.dots = b].dir = "include"
    BY <2>2
  <2> QED BY <2>3, <2>4
<1>6. Node(p).file = "main"
  BY <1>1, <1>4, <1>5
<1>7. "main" \notin program.renamed
  BY MutationFiltersAssumption DEF WellFormed
<1> QED BY <1>6, <1>7 DEF PathOfPoint, FilePath, SameName

\* The white list of the AST search removes no point that is not junk, except after main
\* and what begins in a macro or is saved elsewhere, for every program and every order of
\* the workers.
THEOREM WhitelistAgreesHolds == Spec => []WhitelistAgrees
<1>1. PipelineInv => WhitelistAgrees
  <2> SUFFICES ASSUME PipelineInv, phase = "done", ASTSearchEnabled
               PROVE  /\ points \subseteq AllPoints
                      /\ \A p \in AllPoints :
                           Alone(p) => (p \in points <=> /\ Node(p).debug /\ ~IsJunkMutation(p)
                                                        /\ ~AfterMain(p.unit, p.index)
                                                        /\ Visible(Node(p)))
    BY Zenon DEF WhitelistAgrees
  <2>1. CompilationInfoAvailable
    BY FirstFiltersAre
  <2>2. points = {p \in {q \in Included : Whitelisted(q)} : ~IsJunkMutation(p)}
    BY <2>1 DEF PipelineInv, StagesInv, Narrowed, Real, Listed
  <2>3. \A p \in Included : IsRecorded(p)
    BY DEF PipelineInv, StagesInv, Narrowed
  <2>4. points \subseteq AllPoints
    BY <2>2 DEF Included, Located
  <2>5. \A p \in AllPoints : p \in Included <=> Node(p).debug
    BY PlaceOfPoint DEF Included, Located
  <2>6. ASSUME NEW p \in AllPoints, Alone(p), Node(p).debug, ~IsJunkMutation(p)
        PROVE  Whitelisted(p) <=> ~AfterMain(p.unit, p.index) /\ Visible(Node(p))
    <3>1. PICK u, i, id, h : u = p.unit /\ i = p.index /\ id = p.mutator /\ h = Hash(Node(p))
      OBVIOUS
    <3>2. /\ program \in Program /\ u \in DOMAIN program.unit /\ i \in Exprs(u)
          /\ Node(p) = At(u, i) /\ ~Excluded(At(u, i))
      BY <3>1, PlaceOfPoint
    <3>3. IsRecorded(p)
      BY <2>3, <2>5, <2>6
    <3>4. PathOfPoint(p) = UnitPath(p.unit) /\ SameName(p)
      BY <3>1, <3>2, <3>3, RecordedInMain
    <3>5. Recorded[PathOfPoint(p)] = SingleUnitMutations(u)
      BY <2>6, <3>1, <3>2, <3>3, <3>4, RecordedFor DEF IsRecorded
    <3>6. id \in DOMAIN SingleUnitMutations(u)
      BY <3>1, <3>3, <3>5 DEF IsRecorded
    <3>7. PICK j \in Saved(u) : VisitExpr(u, j) = id /\ id # None
      BY <3>6, UnitRecords DEF Saved
    <3>8. Kind(At(u, j).op) = id
      BY <3>7, VisitIsKind
    <3>9. Kind(Node(p).op) = id /\ (Node(p).op \in Calls \/ ~Node(p).macro)
      BY <2>6, <3>1, <3>4, <3>7, <3>8, KindOfPoint
    <3>10. VisitExpr(u, i) = id <=> ~ShouldSkipCurrentFunction(u, i) /\ ~At(u, i).begin.macro
      <4>1. ~InSystemHeader(u, i)
        BY <2>6, <3>1, <3>4, OwnPlace DEF IsJunkMutation, InSystemHeader, At, Node
      <4> QED BY <3>2, <3>7, <3>9, <4>1, VisitIsKind
    <3>11. Whitelisted(p) <=> h \in DOMAIN SingleUnitMutations(u)[id]
      BY <3>1, <3>3, <3>5 DEF Whitelisted
    <3>12. h \in DOMAIN SingleUnitMutations(u)[id] <=>
             \E k \in Saved(u) : VisitExpr(u, k) = id /\ Hash(SavedAt(At(u, k))) = h
      BY <3>6, UnitRecords
    <3>13. ASSUME NEW k \in Saved(u), Hash(SavedAt(At(u, k))) = h PROVE k = i
      <4>1. k \in Exprs(u)
        BY DEF Saved
      <4> QED BY <2>6, <3>1, <3>2, <3>4, <3>13, <4>1, AloneHasItsKey
    <3>14. PICK place : place = SavedAt(At(u, i))
      OBVIOUS
    <3>15. Whitelisted(p) <=> i \in Saved(u) /\ VisitExpr(u, i) = id /\ Hash(place) = h
      BY <3>11, <3>12, <3>13, <3>14
    <3>16. ~At(u, i).begin.macro => ~place.macro
      BY <3>2, <3>9, <3>14 DEF SavedAt
    <3>17. VisitExpr(u, i) = id /\ ~At(u, i).begin.macro => i \in Saved(u)
      BY <3>2, <3>7, <3>14, <3>16 DEF Saved
    <3>18. Hash(place) = h <=> place.line = At(u, i).line /\ place.column = At(u, i).column
      <4>1. place.line \in Nat /\ place.column \in Nat
        BY <3>2, <3>14, PlacesAre
      <4>2. At(u, i).line \in Nat /\ At(u, i).column \in Nat
        BY <3>2, NodesOf DEF Expression
      <4>3. Fits(place) /\ Fits(PlaceOf(p))
        BY <2>6, <3>1, <3>2, <3>14 DEF Alone, PlaceOf
      <4>4. Fits(At(u, i))
        BY <3>2, <3>4, <4>3, OwnPlace
      <4>5. Hash(place) = h => place.line = At(u, i).line /\ place.column = At(u, i).column
        BY <3>1, <3>2, <4>1, <4>2, <4>3, <4>4, PlacesHaveTheirOwnKey
      <4>6. place.line = At(u, i).line /\ place.column = At(u, i).column => Hash(place) = h
        BY <3>1, <3>2 DEF Hash
      <4> QED BY <4>5, <4>6
    <3>19. Visible(Node(p)) <=> ~At(u, i).begin.macro /\ Hash(place) = h
      BY <3>2, <3>14, <3>18 DEF Visible
    <3>20. ShouldSkipCurrentFunction(u, i) <=> AfterMain(p.unit, p.index)
      BY <3>1, <3>2, SkippedAfterMain
    <3> QED BY <3>10, <3>15, <3>17, <3>19, <3>20
  <2> QED BY <2>2, <2>4, <2>5, <2>6
<1> QED BY <1>1, PipelineHolds, PTL

-----------------------------------------------------------------------------
(* The compilation flags.                                                  *)

\* Every AST was made with the flags the database has for its path.
FlagsInv ==
  /\ program \in Program /\ options \in Options
  /\ \A path \in DOMAIN astUnits : astUnits[path].flags = CompilationFlagsForFile(path)

\* The database does not change.
LEMMA SameFlags ==
  ASSUME UNCHANGED << program, options >>, NEW path
  PROVE  CompilationFlagsForFile(path)' = CompilationFlagsForFile(path)
BY DEF CompilationFlagsForFile, LookUpFlags, BitcodeFlags, Database, BitcodeCompilationFlags,
       CompilationDatabase, FlagsFromCommand, WithoutFile, ExtraFlags, UnitPath

\* A step that makes no AST.
LEMMA OtherKeepsFlags ==
  ASSUME FlagsInv, UNCHANGED << program, options, astUnits >>
  PROVE  FlagsInv'
<1>1. \A path \in DOMAIN astUnits : astUnits[path].flags = CompilationFlagsForFile(path)'
  BY SameFlags, Zenon DEF FlagsInv
<1> QED BY <1>1, Zenon DEF FlagsInv

\* A file has been parsed.
LEMMA LoadKeepsFlags ==
  ASSUME FlagsInv, NEW w \in Worker, LoadAST(w)
  PROVE  FlagsInv'
<1>1. PICK mine, flags, ok : mine = PathOf(w) /\ flags = CompilationFlagsForFile(mine)
                             /\ ok = (PathOf(w) \notin program.missing /\ UnitOf(w) \notin program.broken)
  BY Zenon
<1>2. PICK unit : unit = [by |-> w, flags |-> flags, ok |-> ok]
  OBVIOUS
<1>3. /\ astUnits' = [path \in DOMAIN astUnits \union {mine} |->
                        IF path = mine THEN unit ELSE astUnits[path]]
      /\ UNCHANGED << program, options >>
  BY <1>1, <1>2, Zenon DEF LoadAST
<1>4. /\ DOMAIN astUnits' = DOMAIN astUnits \union {mine}
      /\ astUnits'[mine] = unit
      /\ \A q \in DOMAIN astUnits : q # mine => astUnits'[q] = astUnits[q]
  BY <1>3
<1>5. unit.flags = flags
  BY <1>2
<1>6. ASSUME NEW path \in DOMAIN astUnits'
      PROVE  astUnits'[path].flags = CompilationFlagsForFile(path)
  <2>1. CASE path = mine
    BY <1>1, <1>4, <1>5, <2>1, Zenon
  <2>2. CASE path # mine
    BY <1>4, <2>2, Zenon DEF FlagsInv
  <2> QED BY <2>1, <2>2
<1>7. \A path : CompilationFlagsForFile(path)' = CompilationFlagsForFile(path)
  BY <1>3, SameFlags
<1> QED BY <1>3, <1>6, <1>7, Zenon DEF FlagsInv

\* Every step preserves the invariant.
LEMMA FlagsStep ==
  ASSUME FlagsInv, [Next]_vars
  PROVE  FlagsInv'
<1>1. \/ UNCHANGED << program, options, astUnits >>
      \/ \E w \in Worker : LoadAST(w)
  BY DEF Next, MainStep, CreateFinder, StartASTSearch, FinishASTSearch, SearchMutationPoints,
         FinishFilter, Report, Ended, Tasks, vars, WorkerStep, NoDebugInfoFilter,
         FilePathFilter, ASTMutationFilter, SkipUnit, InvalidUnit, FindAST, VisitAST, SaveMutant
<1> QED BY <1>1, OtherKeepsFlags, LoadKeepsFlags

\* It is an invariant.
LEMMA FlagsHold == Spec => []FlagsInv
<1>1. Init => FlagsInv
  BY DEF Init, FlagsInv, Empty
<1>2. FlagsInv /\ [Next]_vars => FlagsInv'
  BY FlagsStep
<1> QED BY <1>1, <1>2, PTL DEF Spec

\* All elements of a sequence are the sequence.
LEMMA PickAll ==
  ASSUME NEW S, NEW s \in Seq(S)
  PROVE  Pick(s, 1 .. Len(s)) = s
<1>1. PICK n : n = Len(s) /\ n \in Nat /\ s = [k \in 1 .. n |-> s[k]]
  OBVIOUS
<1>2. Cardinality(1 .. n) = n
  BY <1>1, FS_Interval
<1>3. ASSUME NEW i \in 1 .. n PROVE Cardinality({j \in 1 .. n : j <= i}) = i
  <2>1. {j \in 1 .. n : j <= i} = 1 .. i
    BY <1>1
  <2>2. i \in Nat /\ i >= 1
    BY <1>1
  <2>3. Cardinality(1 .. i) = i
    BY <2>2, FS_Interval
  <2> QED BY <2>1, <2>3
<1>4. ASSUME NEW k \in 1 .. n
      PROVE  (CHOOSE i \in 1 .. n : Cardinality({j \in 1 .. n : j <= i}) = k) = k
  BY <1>3, Zenon
<1>5. PICK I : I = 1 .. n
  OBVIOUS
<1>6. Pick(s, I) = [k \in I |-> s[CHOOSE i \in I : Cardinality({j \in I : j <= i}) = k]]
  BY <1>2, <1>5 DEF Pick
<1>7. [k \in I |-> s[CHOOSE i \in I : Cardinality({j \in I : j <= i}) = k]] =
      [k \in I |-> s[k]]
  <2> DEFINE at(k) == CHOOSE i \in I : Cardinality({j \in I : j <= i}) = k
  <2>1. \A k \in I : at(k) = k
    BY <1>4, <1>5
  <2> HIDE DEF at
  <2>2. [k \in I |-> s[at(k)]] = [k \in I |-> s[k]]
    BY <2>1
  <2> QED BY <2>2 DEF at
<1> QED BY <1>1, <1>5, <1>6, <1>7, Zenon

\* The elements of a set of positions, counted from below.
Counted(I) == \A k \in 1 .. Cardinality(I) : \E i \in I : Cardinality({j \in I : j <= i}) = k

\* Every position has its number.
LEMMA PositionsCounted ==
  ASSUME NEW n \in Nat, NEW I \in SUBSET (1 .. n)
  PROVE  Counted(I)
<1> DEFINE P == {m \in Nat : \A J \in SUBSET (1 .. m) : Counted(J)}
<1>1. 0 \in P
  <2>1. ASSUME NEW J \in SUBSET (1 .. 0) PROVE Counted(J)
    <3>1. J = {}
      OBVIOUS
    <3>2. Cardinality(J) = 0
      BY <3>1, FS_EmptySet
    <3> QED BY <3>2 DEF Counted
  <2> QED BY <2>1
<1>2. ASSUME NEW m \in Nat, m \in P PROVE m + 1 \in P
  <2>1. ASSUME NEW J \in SUBSET (1 .. m + 1) PROVE Counted(J)
    <3>1. CASE m + 1 \notin J
      <4>1. J \in SUBSET (1 .. m)
        BY <3>1
      <4> QED BY <1>2, <4>1
    <3>2. CASE m + 1 \in J
      <4>1. PICK K : K = J \ {m + 1}
        OBVIOUS
      <4>2. K \in SUBSET (1 .. m) /\ Counted(K)
        BY <1>2, <4>1
      <4>3. IsFiniteSet(J)
        <5>1. IsFiniteSet(1 .. m + 1)
          BY FS_Interval
        <5> QED BY <5>1, FS_Subset
      <4>4. PICK c \in Nat : c = Cardinality(J)
        BY <4>3, FS_CardinalityType
      <4>5. Cardinality(K) = c - 1
        BY <3>2, <4>1, <4>3, <4>4, FS_RemoveElement
      <4>6. {j \in J : j <= m + 1} = J
        <5>1. \A j \in J : j \in 1 .. m + 1 /\ j <= m + 1
          OBVIOUS
        <5> QED BY <5>1
      <4>7. ASSUME NEW k \in 1 .. c, k # c PROVE \E i \in J : Cardinality({j \in J : j <= i}) = k
        <5>1. PICK i \in K : Cardinality({j \in K : j <= i}) = k
          BY <4>2, <4>5, <4>7 DEF Counted
        <5>2. {j \in J : j <= i} = {j \in K : j <= i}
          BY <4>1, <4>2, <5>1
        <5> QED BY <4>1, <5>1, <5>2
      <4> QED BY <3>2, <4>4, <4>6, <4>7 DEF Counted
    <3> QED BY <3>1, <3>2
  <2> QED BY <2>1
<1> HIDE DEF P
<1>3. n \in P
  BY <1>1, <1>2, SetInduction
<1> QED BY <1>3 DEF P

\* What is picked are elements of the sequence.
LEMMA PickHas ==
  ASSUME NEW S, NEW s \in Seq(S), NEW I \in SUBSET (1 .. Len(s))
  PROVE  /\ DOMAIN Pick(s, I) = 1 .. Cardinality(I)
         /\ \A k \in DOMAIN Pick(s, I) : \E i \in I : Pick(s, I)[k] = s[i]
<1> DEFINE at(k) == CHOOSE i \in I : Cardinality({j \in I : j <= i}) = k
<1>1. Pick(s, I) = [k \in 1 .. Cardinality(I) |-> s[at(k)]]
  BY Zenon DEF Pick
<1>2. Len(s) \in Nat
  OBVIOUS
<1>3. \A k \in 1 .. Cardinality(I) : \E i \in I : Cardinality({j \in I : j <= i}) = k
  BY <1>2, PositionsCounted DEF Counted
<1>4. \A k \in 1 .. Cardinality(I) : at(k) \in I
  BY <1>3, Zenon
<1> HIDE DEF at
<1> QED BY <1>1, <1>4

\* Words without escapes and quotes stay as they are.
LEMMA PlainWord ==
  ASSUME NEW w \in Words
  PROVE  /\ ~w.joined => [w EXCEPT !.joined = FALSE] = w
         /\ ~w.escaped => [w EXCEPT !.escaped = FALSE] = w
         /\ ~w.joined /\ ~w.escaped => w = Word(w.text)
         /\ w = MinusC => w.text = "-c"
         /\ w = FileWord => w.text = "file"
BY DEF Words, Word, MinusC, FileWord

\* So does a command without quotes.
LEMMA NothingJoined ==
  ASSUME NEW words \in Seq(Words), \A i \in DOMAIN words : ~words[i].joined
  PROVE  FlagsFromString(words) = words
<1>1. \A i \in DOMAIN words : words[i] \in Words
  OBVIOUS
<1>2. \A i \in DOMAIN words : [words[i] EXCEPT !.joined = FALSE] = words[i]
  BY <1>1, PlainWord
<1>3. FlagsFromString(words) = [i \in DOMAIN words |-> words[i]]
  BY <1>2, Zenon DEF FlagsFromString
<1>4. words = [i \in DOMAIN words |-> words[i]]
  OBVIOUS
<1> QED BY <1>3, <1>4, Zenon

\* And what is picked from a command without escapes.
LEMMA NothingEscaped ==
  ASSUME NEW words \in Seq(Words), \A i \in DOMAIN words : ~words[i].escaped,
         NEW I \in SUBSET (1 .. Len(words))
  PROVE  UndoEscaping(Pick(words, I)) = Pick(words, I)
<1>1. PICK s : s = Pick(words, I)
  OBVIOUS
<1>2. s = [k \in DOMAIN s |-> s[k]]
  BY <1>1 DEF Pick
<1>3. \A k \in DOMAIN s : s[k] \in Words /\ ~s[k].escaped
  BY <1>1, PickHas
<1>4. \A k \in DOMAIN s : [s[k] EXCEPT !.escaped = FALSE] = s[k]
  BY <1>3, PlainWord
<1>5. UndoEscaping(s) = [k \in DOMAIN s |-> s[k]]
  BY <1>4, Zenon DEF UndoEscaping
<1> QED BY <1>1, <1>2, <1>5, Zenon

\* Without -c nothing is dropped.
LEMMA NothingFiltered ==
  ASSUME NEW words \in Seq(Words), \A i \in DOMAIN words : words[i] # MinusC
  PROVE  Pick(words, FilterFlags(words, 1)) = words
<1>1. FilterFlags(words, 1) = 1 .. Len(words)
  BY DEF FilterFlags
<1> QED BY <1>1, PickAll, Zenon

\* From a plain command nothing but -c and the file is dropped.
LEMMA FileFiltered ==
  ASSUME NEW words \in Seq(Words), NEW shell, Plain(words, shell)
  PROVE  {i \in FilterFlags(words, 2) : words[i] # FileWord} =
         {i \in 2 .. Len(words) : words[i].text \notin {"-c", "file", "relative"}}
<1>1. PICK n \in Nat : n = Len(words) /\ DOMAIN words = 1 .. n
  OBVIOUS
<1>2. ASSUME NEW i \in 1 .. n
      PROVE  /\ words[i].text = "-c" <=> words[i] = MinusC
             /\ words[i].text = "file" <=> words[i] = FileWord
  <2>1. words[i] \in Words
    BY <1>1
  <2>2. ~words[i].joined /\ (words[i].escaped => words[i].text \notin {"-c", "file", "relative"})
    BY <1>1 DEF Plain
  <2> QED BY <2>1, <2>2, PlainWord DEF MinusC, FileWord
<1>3. ASSUME NEW i \in 1 .. n
      PROVE  /\ words[i].text = "-c" /\ i < n =>
                  words[i + 1].text = "file" \/ words[i + 1].text = "relative"
             /\ words[i].text = "relative" => i > 2 /\ words[i - 1].text = "-c"
  BY <1>1 DEF Plain
<1>4. ASSUME NEW i \in 2 .. n
      PROVE  i \in FilterFlags(words, 2) /\ words[i] # FileWord <=>
               words[i].text \notin {"-c", "file", "relative"}
  <2>1. CASE words[i].text \in {"-c", "file"}
    <3>1. words[i] = MinusC \/ words[i] = FileWord
      BY <1>2, <1>4, <2>1
    <3> QED BY <2>1, <3>1 DEF FilterFlags
  <2>2. CASE words[i].text = "relative"
    <3>1. i > 2 /\ i - 1 \in 2 .. i - 1 /\ words[i - 1] = MinusC /\ words[i - 1].text = "-c"
      BY <1>2, <1>3, <1>4, <2>2
    <3>2. i - 1 = 2 \/ words[(i - 1) - 1] # MinusC
      <4>1. SUFFICES ASSUME i - 1 # 2, words[(i - 1) - 1] = MinusC PROVE FALSE
        OBVIOUS
      <4>2. PICK h \in 1 .. n : h = (i - 1) - 1 /\ h < n /\ h + 1 = i - 1
        BY <1>4, <3>1
      <4>3. words[h].text = "-c"
        BY <1>2, <4>1, <4>2
      <4>4. words[h + 1].text = "file" \/ words[h + 1].text = "relative"
        BY <1>3, <4>2, <4>3
      <4> QED BY <3>1, <4>2, <4>4
    <3>3. \A k \in i - 1 .. i - 1 : words[k] = MinusC
      BY <3>1
    <3>4. (i - (i - 1)) % 2 # 0
      <4>1. i - (i - 1) = 1
        OBVIOUS
      <4>2. 1 % 2 # 0
        OBVIOUS
      <4> QED BY <4>1, <4>2
    <3>5. i \notin FilterFlags(words, 2)
      BY <3>1, <3>2, <3>3, <3>4 DEF FilterFlags
    <3> QED BY <2>2, <3>5
  <2>3. CASE words[i].text \notin {"-c", "file", "relative"}
    <3>1. words[i] # MinusC /\ words[i] # FileWord
      BY <1>2, <1>4, <2>3
    <3>2. words[i - 1] # MinusC
      <4>1. i - 1 \in 1 .. n /\ i - 1 < n /\ (i - 1) + 1 = i
        BY <1>4
      <4>2. words[i - 1].text # "-c"
        <5>1. PICK h \in 1 .. n : h = i - 1 /\ h < n /\ h + 1 = i
          BY <4>1
        <5> QED BY <1>3, <2>3, <5>1
      <4> QED BY <1>2, <4>1, <4>2
    <3>3. \A j \in 2 .. i - 1 : ~ \A k \in j .. i - 1 : words[k] = MinusC
      BY <3>2
    <3>4. i \in FilterFlags(words, 2)
      BY <1>1, <1>4, <3>1, <3>3 DEF FilterFlags
    <3> QED BY <2>3, <3>1, <3>4
  <2> QED BY <2>1, <2>2, <2>3
<1>5. \A i \in FilterFlags(words, 2) : i \in 2 .. n
  BY <1>1 DEF FilterFlags
<1> QED BY <1>1, <1>4, <1>5

\* Entries have a directory, so the file name alone is never found.
LEMMA NoBareEntry ==
  ASSUME FlagsInv, NEW path
  PROVE  Filename(path) \notin DOMAIN BitcodeCompilationFlags \union DOMAIN CompilationDatabase
<1>1. PICK e : e = ""
  OBVIOUS
<1>2. Filename(path).dir = e
  <2>1. Filename(path) = [dir |-> e, name |-> path.name, dots |-> FALSE]
    BY <1>1, Zenon DEF Filename
  <2> QED BY <2>1
<1>3. ASSUME NEW q \in DOMAIN CompilationDatabase PROVE q.dir # e
  <2>1. q \in DOMAIN program.database
    BY <1>3 DEF CompilationDatabase, Empty
  <2> QED BY <1>1, <2>1, CommandsAssumption, Zenon DEF FlagsInv
<1>4. ASSUME NEW q \in DOMAIN BitcodeCompilationFlags PROVE q.dir # e
  <2>1. PICK u \in DOMAIN program.unit : q = program.path[u]
    BY <1>4 DEF BitcodeCompilationFlags, UnitPath
  <2>2. program.path \in [DOMAIN program.unit ->
                           [dir : STRING \ {e, "include"}, name : STRING, dots : BOOLEAN]]
    BY <1>1, MutationFiltersAssumption, Zenon DEF FlagsInv, WellFormed
  <2> QED BY <2>1, <2>2
<1> QED BY <1>2, <1>3, <1>4

\* What is found in a table without bare names is the entry for the path, or else the
\* one for the path without dots.
LEMMA LookUpIs ==
  ASSUME NEW entries, NEW path, Filename(path) \notin DOMAIN entries
  PROVE  /\ LookUpFlags(entries, path) = {} <=>
              {path, RemoveDots(path)} \intersect DOMAIN entries = {}
         /\ {path, RemoveDots(path)} \intersect DOMAIN entries # {} =>
              LookUpFlags(entries, path) =
                {IF path \in DOMAIN entries THEN path ELSE RemoveDots(path)}
BY DEF LookUpFlags

\* The flags of a file come from its own command: the bitcode's ...
LEMMA FlagsFromBitcode ==
  ASSUME FlagsInv, NEW path, HasEntry(BitcodeCompilationFlags, path)
  PROVE  /\ CompilationFlagsForFile(path) =
              WithoutFile(FlagsFromString(CommandOf(path).words)) \o ExtraFlags
         /\ CommandOf(path).words \in Seq(Words) /\ ~IsShell(path)
<1>1. PICK commands : commands = BitcodeCompilationFlags
  OBVIOUS
<1>2. PICK key : key = IF path \in DOMAIN commands THEN path ELSE RemoveDots(path)
  OBVIOUS
<1>3. key \in DOMAIN commands
  BY <1>1, <1>2 DEF HasEntry
<1>4. CommandOf(path).words = commands[key]
  <2>1. PICK entries : entries = [p \in DOMAIN commands |-> [array |-> FALSE, words |-> commands[p]]]
    OBVIOUS
  <2>2. Entries(path) = entries
    BY <1>1, <2>1, Zenon DEF Entries
  <2>3. DOMAIN entries = DOMAIN commands
    BY <2>1
  <2>4. CommandOf(path) = entries[key]
    BY <1>2, <2>2, <2>3, Zenon DEF CommandOf
  <2>5. entries[key] = [array |-> FALSE, words |-> commands[key]]
    BY <1>3, <2>1
  <2> QED BY <2>4, <2>5
<1>5. /\ DOMAIN BitcodeFlags = DOMAIN commands
      /\ \A q \in DOMAIN commands : BitcodeFlags[q] = WithoutFile(FlagsFromString(commands[q])) \o ExtraFlags
  BY <1>1, Zenon DEF BitcodeFlags
<1>6. LookUpFlags(BitcodeFlags, path) = {key}
  <2>1. Filename(path) \notin DOMAIN BitcodeFlags
    BY <1>1, <1>5, NoBareEntry
  <2> QED BY <1>1, <1>2, <1>5, <2>1, LookUpIs DEF HasEntry
<1>7. CompilationFlagsForFile(path) = BitcodeFlags[key]
  <2>1. (CHOOSE p \in {key} : TRUE) = key
    OBVIOUS
  <2>2. {key} # {}
    OBVIOUS
  <2> QED BY <1>6, <2>1, <2>2 DEF CompilationFlagsForFile
<1>8. commands[key] \in Seq(Words)
  <2>1. PICK u \in DOMAIN program.unit : commands[key] = program.flags[u]
    <3> DEFINE recorded == {u \in DOMAIN program.unit : program.flags[u] # << >>}
    <3>1. /\ key \in {UnitPath(u) : u \in recorded}
          /\ commands[key] = program.flags[CHOOSE u \in recorded : UnitPath(u) = key]
      BY <1>1, <1>3 DEF BitcodeCompilationFlags
    <3>2. (CHOOSE u \in recorded : UnitPath(u) = key) \in recorded
      BY <3>1
    <3> QED BY <3>1, <3>2
  <2>2. program.flags \in [DOMAIN program.unit -> Seq(Words)]
    BY CommandsAssumption, Zenon DEF FlagsInv
  <2> QED BY <2>1, <2>2
<1> QED BY <1>3, <1>4, <1>5, <1>7, <1>8, Zenon DEF IsShell

\* ... or else the compilation database's.
LEMMA FlagsFromDatabase ==
  ASSUME FlagsInv, NEW path, ~HasEntry(BitcodeCompilationFlags, path),
         HasEntry(Entries(path), path)
  PROVE  /\ CompilationFlagsForFile(path) = FlagsFromCommand(CommandOf(path))
         /\ CommandOf(path).words \in Seq(Words)
         /\ CommandOf(path).array <=> ~IsShell(path)
<1>1. PICK commands : commands = CompilationDatabase /\ Entries(path) = commands
  BY DEF Entries
<1>2. PICK key : key = IF path \in DOMAIN commands THEN path ELSE RemoveDots(path)
  OBVIOUS
<1>3. key \in DOMAIN commands /\ CommandOf(path) = commands[key]
  BY <1>1, <1>2 DEF HasEntry, CommandOf
<1>4. /\ DOMAIN Database = DOMAIN commands
      /\ \A q \in DOMAIN commands : Database[q] = FlagsFromCommand(commands[q])
  BY <1>1, Zenon DEF Database
<1>5. DOMAIN BitcodeFlags = DOMAIN BitcodeCompilationFlags
  BY Zenon DEF BitcodeFlags
<1>6. LookUpFlags(Database, path) = {key} /\ LookUpFlags(BitcodeFlags, path) = {}
  <2>1. Filename(path) \notin DOMAIN BitcodeFlags /\ Filename(path) \notin DOMAIN Database
    BY <1>1, <1>4, <1>5, NoBareEntry
  <2> QED BY <1>1, <1>2, <1>4, <1>5, <2>1, LookUpIs DEF HasEntry
<1>7. CompilationFlagsForFile(path) = Database[key]
  <2>1. (CHOOSE p \in {key} : TRUE) = key
    OBVIOUS
  <2>2. {key} # {}
    OBVIOUS
  <2> QED BY <1>6, <2>1, <2>2 DEF CompilationFlagsForFile
<1>8. commands[key] \in [array : BOOLEAN, words : Seq(Words)]
  <2>1. commands = program.database
    BY <1>1, <1>3 DEF CompilationDatabase, Empty
  <2>2. program.database \in [DOMAIN program.database -> [array : BOOLEAN, words : Seq(Words)]]
    BY CommandsAssumption, Zenon DEF FlagsInv
  <2> QED BY <1>3, <2>1, <2>2
<1>9. commands[key].words \in Seq(Words)
  BY <1>8
<1>10. CommandOf(path).array <=> ~IsShell(path)
  BY DEF IsShell
<1> QED BY <1>3, <1>4, <1>7, <1>9, <1>10, Zenon

\* Whichever worker parses a file, and whatever other files have its name, the AST has
\* the flags of its own command, if it is plain: of the words after the compiler all but
\* -c and the file, as the compiler got them, then the extra flags.
THEOREM FlagsAreTheFilesHolds == Spec => []FlagsAreTheFiles
<1>1. ASSUME FlagsInv PROVE FlagsAreTheFiles
  <2>1. SUFFICES ASSUME NEW path \in DOMAIN astUnits, NEW words, words = CommandOf(path).words,
                        HasEntry(Entries(path), path), Plain(words, IsShell(path)),
                        \A i \in DOMAIN options.flags :
                          options.flags[i] # MinusC /\ ~options.flags[i].joined
                 PROVE  astUnits[path].flags =
                          AsRun(Pick(words, {i \in 2 .. Len(words) :
                                               words[i].text \notin {"-c", "file", "relative"}}),
                                IsShell(path)) \o options.flags
    BY Zenon DEF FlagsAreTheFiles
  <2>2. PICK I : I = {i \in 2 .. Len(words) : words[i].text \notin {"-c", "file", "relative"}}
    OBVIOUS
  <2>3. astUnits[path].flags = CompilationFlagsForFile(path)
    BY <1>1, <2>1, Zenon DEF FlagsInv
  <2>4. options.flags \in Seq(Words)
    BY <1>1, CommandsAssumption, Zenon DEF FlagsInv
  <2>5. ExtraFlags = options.flags
    <3>1. FlagsFromString(options.flags) = options.flags
      BY <2>1, <2>4, NothingJoined
    <3>2. Pick(options.flags, FilterFlags(options.flags, 1)) = options.flags
      BY <2>1, <2>4, NothingFiltered
    <3> QED BY <3>1, <3>2, Zenon DEF ExtraFlags
  <2>6. words \in Seq(Words)
    BY <1>1, <2>1, FlagsFromBitcode, FlagsFromDatabase
  <2>7. WithoutFile(words) = Pick(words, I)
    BY <2>1, <2>2, <2>6, FileFiltered, Zenon DEF WithoutFile
  <2>8. FlagsFromString(words) = words
    <3>1. \A i \in DOMAIN words : ~words[i].joined
      BY <2>1 DEF Plain
    <3> QED BY <2>6, <3>1, NothingJoined
  <2>9. ~IsShell(path) => UndoEscaping(Pick(words, I)) = Pick(words, I)
    <3>1. SUFFICES ASSUME ~IsShell(path) PROVE UndoEscaping(Pick(words, I)) = Pick(words, I)
      OBVIOUS
    <3>2. \A i \in DOMAIN words : ~words[i].escaped
      BY <2>1, <3>1 DEF Plain
    <3>3. I \in SUBSET (1 .. Len(words))
      BY <2>2, <2>6
    <3> QED BY <2>6, <3>2, <3>3, NothingEscaped
  <2>10. CASE HasEntry(BitcodeCompilationFlags, path)
    <3>1. ~IsShell(path) /\ CompilationFlagsForFile(path) = Pick(words, I) \o options.flags
      BY <1>1, <2>1, <2>5, <2>7, <2>8, <2>10, FlagsFromBitcode, Zenon
    <3> QED BY <2>2, <2>3, <3>1, Zenon DEF AsRun
  <2>11. CASE ~HasEntry(BitcodeCompilationFlags, path)
    <3>1. CompilationFlagsForFile(path) = FlagsFromCommand(CommandOf(path))
      BY <1>1, <2>1, <2>11, FlagsFromDatabase, Zenon
    <3>2. FlagsFromCommand(CommandOf(path)) = UndoEscaping(Pick(words, I)) \o options.flags
      BY <2>1, <2>5, <2>7, <2>8, Zenon DEF FlagsFromCommand
    <3> QED BY <2>2, <2>3, <2>9, <3>1, <3>2, Zenon DEF AsRun
  <2> QED BY <2>10, <2>11
<1> QED BY <1>1, FlagsHold, PTL
=============================================================================
