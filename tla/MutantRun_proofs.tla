-------------------------- MODULE MutantRun_proofs --------------------------
(***************************************************************************)
(* Proofs about MutantRun for every program, every list of mutation points *)
(* and tests, every behaviour of the tests and every list of reporters.    *)
(***************************************************************************)
EXTENDS MutantRun, FiniteSetTheorems, SequenceTheorems, NaturalsInduction,
        WellFoundedInduction, TLAPS

-----------------------------------------------------------------------------
(* The inductive invariant.                                                *)

Writing == {"tests", "results", "distances", "points", "commit"}
\* The phases in which every mutant has had all its tests.
Reported == {"report", "reporting", "done", "exit"} \cup Writing
Phase == {"run", "dry", "prepare", "clone", "delete", "insert", "apply", "compile",
          "load", "point", "test"} \cup Reported

Row == [point : Point, test : Test, status : Status \cup {"FailFast", "DryRun"}]

\* What each variable may hold.
TypeOK ==
  /\ behaviour \in [Point -> [Test -> Status]]
  /\ phase \in Phase
  /\ todo \subseteq Mutated
  /\ pointsOf \in [Fn -> Seq(Point)]
  /\ body \in [Fn -> SUBSET {"no code", "forward"}]
  /\ original \in [Fn -> SUBSET {"no code", "forward"}]
  /\ clone \in [Point -> SUBSET (Point \cup {"no code", "forward"})]
  /\ trampoline \in [Fn -> Fn \cup Point \cup {Null}]
  /\ testAt \in Nat /\ testAt >= 1
  /\ results \in Seq(Row)

\* Where the loops over the points are.
LoopInv ==
  /\ phase \in {"run", "clone", "delete", "insert", "compile", "load"} => at = 1
  /\ phase \in {"dry", "prepare", "apply", "point", "test"} => at \in 1..Len(Points)
  /\ phase \notin {"run"} \cup Reported => Points # << >>
  /\ running => phase = "test" /\ testAt \in 1..Len(TestsOf(Current))

\* The preparation has handled the entries of the map that are not in todo, and
\* the points before `at`.
PointsInv ==
  \A i \in 1..Len(Points) :
    (phase = "prepare" /\ i < at) \/ phase = "clone" =>
      Points[i] \in Range(pointsOf[FnOf[Points[i]]])

BodyInv ==
  /\ \A f \in Fn \ Mutated : body[f] = {}
  /\ \A f \in Mutated :
       /\ phase \in {"run", "prepare", "clone"} => body[f] = {}
       /\ phase = "delete" /\ f \in todo => body[f] = {}
       /\ phase = "delete" /\ f \notin todo => original[f] = {}
       /\ phase = "insert" => original[f] = {}
       /\ phase = "insert" /\ f \notin todo => body[f] = Forward
       /\ phase \in {"apply", "compile"} => body[f] = Forward /\ original[f] = {}

CloneInv ==
  /\ phase = "clone" => \A p \in Point : FnOf[p] \notin todo => clone[p] = {}
  /\ phase \in {"delete", "insert"} => \A p \in Point : clone[p] = {}
  /\ phase = "apply" => \A i \in 1..Len(Points) :
       clone[Points[i]] = IF i < at THEN {Points[i]} ELSE {}
  /\ phase = "compile" => \A p \in Point : clone[p] = {p}

\* The compiled program, while mutants run.
ObjectInv ==
  phase \in {"load", "point", "test"} =>
    /\ \A f \in Fn \ Mutated : object.body[f] = {}
    /\ \A f \in Mutated : object.body[f] = Forward /\ object.original[f] = {}
    /\ \A p \in Point : object.clone[p] = {p}

\* Between two points every trampoline leads to its original; while a point is
\* under test its own leads to the clone, and what will be restored is known.
TrampolineInv ==
  /\ phase = "point" => \A f \in Mutated : trampoline[f] = f
  /\ phase = "test" =>
       /\ trampoline[FnOf[Current]] = Named(Current)
       /\ \A f \in Mutated \ {FnOf[Current]} : trampoline[f] = f
       /\ saved = FnOf[Current]

\* The pair of the i-th point and its j-th test has its result.
Handled(i, j) ==
  \/ phase \in {"dry", "point", "test"} /\ i < at
  \/ phase = "test" /\ i = at /\ j < testAt
  \/ phase \in Reported

IsRow(row, i, j) == row.point = Points[i] /\ row.test = TestsOf(Points[i])[j]

\* The results are those of the handled pairs, one for each.
RowsInv ==
  /\ \A k \in 1..Len(results) :
       \E i \in 1..Len(Points) : \E j \in 1..Len(TestsOf(Points[i])) :
         Handled(i, j) /\ IsRow(results[k], i, j)
  /\ \A i \in 1..Len(Points) : \A j \in 1..Len(TestsOf(Points[i])) :
       Handled(i, j) => \E k \in 1..Len(results) : IsRow(results[k], i, j)
  /\ \A k, l \in 1..Len(results) :
       results[k].point = results[l].point /\ results[k].test = results[l].test => k = l

\* A result is what the test did, or FailFast for a mutant detected before.
TrueRow(row) ==
  \/ row.status = behaviour[Named(row.point)][row.test]
  \/ row.status = "FailFast" /\ Detected(row.point)

StatusInv ==
  /\ phase = "dry" => dryRun
  /\ ~dryRun => \A k \in 1..Len(results) : TrueRow(results[k])
  /\ phase = "test" /\ failed => Detected(Current)

\* The content of the database after each of the insertions, of which SQLite has
\* taken the rows A, B and C.
WithTests == [NoRows EXCEPT !.tests = Test]
WithRows(A) == [WithTests EXCEPT !.rows = [i \in A |-> RowOf(i)]]
WithDistances(A, B) == [WithRows(A) EXCEPT !.distances = B]
Report(A, B, C) == [WithDistances(A, B) EXCEPT !.points = C]

\* Rows of S that are all of them unless something has been refused.
Taken(A, S) == A \subseteq S /\ (~refused => A = S)

IsReport(content) ==
  \E A, B \in SUBSET DOMAIN results : \E C \in SUBSET Ids :
    /\ content = Report(A, B, C)
    /\ Taken(A, DOMAIN results) /\ Taken(B, DOMAIN results) /\ Taken(C, Ids)

\* The transaction as far as it has come, and what is in the file.
DatabaseInv ==
  /\ phase = "tests" => pending = NoRows
  /\ phase = "results" => pending = WithTests
  /\ phase = "distances" =>
       \E A \in SUBSET DOMAIN results :
         pending = WithRows(A) /\ Taken(A, DOMAIN results)
  /\ phase = "points" =>
       \E A, B \in SUBSET DOMAIN results :
         /\ pending = WithDistances(A, B)
         /\ Taken(A, DOMAIN results) /\ Taken(B, DOMAIN results)
  /\ phase = "commit" => IsReport(pending)
  /\ \/ database \in {NoFile, NoRows, EarlierReport}
     \/ phase \in Reported /\ IsReport(database)

DetectedPoints == {p \in Point : Detected(p)}

\* What the other two reporters have written.
ListsInv ==
  /\ phase \notin Reported => printed = {} /\ elements = {}
  /\ ~dryRun =>
       /\ \A list \in printed :
            /\ list.survived = PointsIn(Point \ DetectedPoints)
            /\ list.killed \in {<< >>, PointsIn(DetectedPoints)}
       /\ \A status \in elements : \A p \in Point :
            status[p] = IF p \in DetectedPoints THEN "Killed" ELSE "Survived"

PrepareInv == PointsInv /\ BodyInv /\ CloneInv

\* Everything but the reports.
RunInv ==
  TypeOK /\ LoopInv /\ PrepareInv /\ ObjectInv /\ TrampolineInv /\ RowsInv /\ StatusInv

ReportInv == DatabaseInv /\ ListsInv

IInv == RunInv /\ ReportInv

-----------------------------------------------------------------------------
(* Facts about the constants.                                              *)

\* The list of points, their functions and the tests that reach them.
LEMMA PointFacts ==
  /\ Len(Points) \in Nat
  /\ \A i \in 1..Len(Points) : Points[i] \in Point
  /\ \A p \in Point : \E i \in 1..Len(Points) : Points[i] = p
  /\ \A p \in Point : FnOf[p] \in Fn /\ FnOf[p] \in Mutated
  /\ Mutated \subseteq Fn
  /\ \A i, j \in 1..Len(Points) : Points[i] = Points[j] => i = j
<1>1. Len(Points) \in Nat /\ DOMAIN Points = 1..Len(Points)
  BY MutantRunAssumption, LenProperties
<1>2. \A i \in 1..Len(Points) : Points[i] \in Point
  BY <1>1 DEF Point, Range
<1>3. \A p \in Point : \E i \in 1..Len(Points) : Points[i] = p
  BY <1>1 DEF Point, Range
<1>4. \A p \in Point : FnOf[p] \in Fn /\ FnOf[p] \in Mutated
  BY MutantRunAssumption DEF Mutated
<1>5. Mutated \subseteq Fn
  BY <1>4 DEF Mutated
<1>6. \A i, j \in 1..Len(Points) : Points[i] = Points[j] => i = j
  BY <1>1, MutantRunAssumption
<1> QED BY <1>1, <1>2, <1>3, <1>4, <1>5, <1>6

\* Every set of places has a first one.
LEMMA FirstPlace ==
  ASSUME NEW T \in SUBSET Nat, T # {}
  PROVE  \E x \in T : \A y \in T : x <= y
<1>1. \E x \in T : \A y \in T : ~(<< y, x >> \in OpToRel(<, Nat))
  BY WFMin, NatLessThanWellFounded, Zenon
<1>2. \A x, y \in Nat : y < x => << y, x >> \in OpToRel(<, Nat)
  BY Zenon DEF OpToRel
<1>3. \E x \in T : \A y \in T : ~(y < x)
  BY <1>1, <1>2, Zenon
<1> QED BY <1>3

\* The clone that is found under the name of a point's is one of the same function.
LEMMA NamedFacts ==
  \A p \in Point : /\ Named(p) \in Point /\ Id[Named(p)] = Id[p]
                   /\ FnOf[Named(p)] = FnOf[p]
<1> TAKE p \in Point
<1>1. DOMAIN Points = 1..Len(Points)
  BY MutantRunAssumption, LenProperties
<1>2. PICK T : T = {i \in DOMAIN Points : Id[Points[i]] = Id[p]}
  OBVIOUS
<1>3. T \in SUBSET Nat /\ T # {}
  BY <1>1, <1>2, PointFacts
<1>4. PICK i \in T : \A j \in T : i <= j
  BY <1>3, FirstPlace
<1>5. Points[i] \in Point /\ Id[Points[i]] = Id[p] /\ i \in DOMAIN Points
  BY <1>1, <1>2, <1>4, PointFacts
<1>6. \A j \in DOMAIN Points : Id[Points[j]] = Id[p] => i <= j
  BY <1>2, <1>4
<1>7. \E q \in Point :
        \E k \in DOMAIN Points :
          /\ Points[k] = q /\ Id[q] = Id[p]
          /\ \A j \in DOMAIN Points : Id[Points[j]] = Id[p] => k <= j
  BY <1>5, <1>6, Zenon
<1>8. Named(p) \in Point /\ Id[Named(p)] = Id[p]
  BY <1>7, Zenon DEF Named
<1> QED BY <1>8, MutantRunAssumption

\* Their number alone.
LEMMA PointCount == Len(Points) \in Nat
  BY PointFacts

\* A test reaches a point at one place of the list.
LEMMA TestFacts ==
  \A p \in Point :
    /\ TestsOf(p) \in Seq(Test)
    /\ Len(TestsOf(p)) \in Nat
    /\ DOMAIN TestsOf(p) = 1..Len(TestsOf(p))
    /\ \A j \in 1..Len(TestsOf(p)) : TestsOf(p)[j] \in Test
    /\ \A i, j \in 1..Len(TestsOf(p)) : TestsOf(p)[i] = TestsOf(p)[j] => i = j
<1> TAKE p \in Point
<1>1. TestsOf(p) \in Seq(Test)
  BY PointFacts, MutantRunAssumption DEF TestsOf
<1>2. Len(TestsOf(p)) \in Nat /\ DOMAIN TestsOf(p) = 1..Len(TestsOf(p))
  BY <1>1, LenProperties
<1>3. \A j \in 1..Len(TestsOf(p)) : TestsOf(p)[j] \in Test
  BY <1>1, ElementOfSeq
<1>4. \A i, j \in 1..Len(TestsOf(p)) : TestsOf(p)[i] = TestsOf(p)[j] => i = j
  BY <1>2, PointFacts, MutantRunAssumption DEF TestsOf
<1> QED BY <1>1, <1>2, <1>3, <1>4

\* The point a loop is at.
LEMMA CurrentFacts ==
  ASSUME at \in 1..Len(Points)
  PROVE  /\ Current \in Point
         /\ FnOf[Current] \in Fn
         /\ FnOf[Current] \in Mutated
         /\ at \in Nat
  BY PointFacts DEF Current

\* The element a list gets at its end is in its range, and none is lost.
LEMMA RangeAppend ==
  ASSUME NEW S, NEW s \in Seq(S), NEW e \in S
  PROVE  /\ e \in Range(Append(s, e))
         /\ \A x \in Range(s) : x \in Range(Append(s, e))
<1>1. /\ DOMAIN s = 1..Len(s) /\ Len(s) \in Nat
      /\ DOMAIN Append(s, e) = 1..(Len(s) + 1)
      /\ Append(s, e)[Len(s) + 1] = e
      /\ \A i \in 1..Len(s) : Append(s, e)[i] = s[i]
  OBVIOUS
<1> QED BY <1>1 DEF Range

-----------------------------------------------------------------------------
(* What a step that leaves a part of the state alone preserves.            *)

\* No result is added, and no pair becomes handled.
LEMMA RowsFrame ==
  ASSUME RowsInv, results' = results,
         \A i \in 1..Len(Points) : \A j \in 1..Len(TestsOf(Points[i])) :
           Handled(i, j)' <=> Handled(i, j)
  PROVE  RowsInv'
<1> HIDE DEF Handled
<1> QED BY DEF RowsInv, IsRow

\* No result is added and no configuration changes; `failed` is as it was, or
\* the loop is between two points.
LEMMA StatusFrame ==
  ASSUME StatusInv, results' = results, UNCHANGED config, phase' = "dry" => dryRun,
         phase' = "test" => \/ ~failed'
                            \/ phase = "test" /\ failed' = failed /\ at' = at
  PROVE  StatusInv'
<1>1. \A k \in 1..Len(results) : TrueRow(results[k])' <=> TrueRow(results[k])
  BY DEF TrueRow, Detected, config
<1> QED BY <1>1 DEF StatusInv, config, Detected, Current

\* A step before the reports start, or the one that starts them.
LEMMA BeforeReports ==
  ASSUME IInv, phase \notin Reported, phase' \in (Phase \ Reported) \cup {"report"},
         UNCHANGED reports
  PROVE  ReportInv'
<1>1. printed' = {} /\ elements' = {}
  BY DEF IInv, ReportInv, ListsInv, reports
<1>2. ListsInv'
  BY <1>1 DEF ListsInv
<1>3. phase' \notin Writing
  BY DEF Reported, Writing, Phase
<1>4. database' = database /\ database \in {NoFile, NoRows, EarlierReport}
  BY DEF IInv, ReportInv, DatabaseInv, reports
<1>5. DatabaseInv'
  BY <1>3, <1>4 DEF DatabaseInv, Writing
<1> QED BY <1>2, <1>5 DEF ReportInv

\* A step of the reporters.
LEMMA WhileReporting ==
  ASSUME RunInv, phase \in Reported, phase' \in Reported,
         UNCHANGED << config, todo, at, program, object, task, results >>
  PROVE  RunInv'
<1>1. TypeOK'
  BY DEF RunInv, TypeOK, config, program, task, Phase
<1>2. LoopInv'
  BY DEF RunInv, LoopInv, task, Reported, Writing
<1>3. PrepareInv' /\ ObjectInv' /\ TrampolineInv'
  BY DEF RunInv, PrepareInv, PointsInv, BodyInv, CloneInv, ObjectInv, TrampolineInv,
        program, Reported, Writing
<1>4. RowsInv'
  BY RowsFrame DEF RunInv, Handled
<1>5. StatusInv'
  BY StatusFrame DEF RunInv, Reported, Writing
<1> QED BY <1>1, <1>2, <1>3, <1>4, <1>5 DEF RunInv

-----------------------------------------------------------------------------
(* The preparation.                                                        *)

\* The initial state satisfies the invariant.
LEMMA InitIInv == Init => IInv
<1> SUFFICES ASSUME Init PROVE IInv
  OBVIOUS
<1>1. TypeOK
  <2>1. /\ results \in Seq(Row) /\ pointsOf \in [Fn -> Seq(Point)]
        /\ testAt \in Nat /\ testAt >= 1
    BY DEF Init
  <2>2. body \in [Fn -> SUBSET {"no code", "forward"}]
    BY DEF Init
  <2>3. original \in [Fn -> SUBSET {"no code", "forward"}]
    BY DEF Init, NoCode
  <2>4. clone \in [Point -> SUBSET (Point \cup {"no code", "forward"})]
    BY DEF Init, NoCode
  <2>5. /\ behaviour \in [Point -> [Test -> Status]] /\ phase \in Phase
        /\ todo \subseteq Mutated /\ trampoline \in [Fn -> Fn \cup Point \cup {Null}]
    BY DEF Init, Phase
  <2> QED BY <2>1, <2>2, <2>3, <2>4, <2>5 DEF TypeOK
<1>2. LoopInv
  BY DEF Init, LoopInv, Reported, Writing
<1>3. PrepareInv
  BY PointFacts DEF Init, PrepareInv, PointsInv, BodyInv, CloneInv
<1>4. ObjectInv /\ TrampolineInv
  BY DEF Init, ObjectInv, TrampolineInv
<1>5. RowsInv
  BY DEF Init, RowsInv, Handled, Reported, Writing
<1>6. StatusInv
  BY DEF Init, StatusInv
<1>7. ReportInv
  BY DEF Init, ReportInv, DatabaseInv, ListsInv
<1> QED BY <1>1, <1>2, <1>3, <1>4, <1>5, <1>6, <1>7 DEF IInv, RunInv

\* runMutations chooses what to do.
LEMMA RunMutationsKeeps ==
  ASSUME IInv, RunMutations
  PROVE  IInv'
<1> USE DEF IInv, RunInv
<1>1. /\ phase = "run" /\ at = 1 /\ at' = 1
      /\ phase' \in {"report", "dry", "prepare"}
      /\ phase' = "report" <=> Points = << >>
      /\ phase' = "dry" => dryRun
  BY DEF RunMutations, LoopInv
<1>2. Points # << >> => Len(Points) >= 1
  BY PointFacts, MutantRunAssumption, EmptySeq
<1>3. TypeOK'
  BY <1>1 DEF RunMutations, TypeOK, config, program, task, Phase, Reported
<1>4. LoopInv'
  BY <1>1, <1>2, PointFacts DEF RunMutations, LoopInv, task, Reported, Writing
<1>5. PrepareInv'
  BY <1>1 DEF RunMutations, PrepareInv, PointsInv, BodyInv, CloneInv, program
<1>6. ObjectInv' /\ TrampolineInv'
  BY <1>1 DEF ObjectInv, TrampolineInv
<1>7. RowsInv'
  <2>1. Points = << >> => Len(Points) = 0
    OBVIOUS
  <2>2. \A i \in 1..Len(Points) : \A j \in 1..Len(TestsOf(Points[i])) :
          Handled(i, j)' <=> Handled(i, j)
    BY <1>1, <2>1, PointFacts DEF Handled, Reported, Writing
  <2> QED BY <2>2, RowsFrame DEF RunMutations
<1>8. StatusInv'
  BY <1>1, StatusFrame DEF RunMutations
<1>9. ReportInv'
  BY <1>1, BeforeReports DEF RunMutations, Phase, Reported, Writing
<1> QED BY <1>3, <1>4, <1>5, <1>6, <1>7, <1>8, <1>9

\* addMutation appends the point to the list of its function.
LEMMA AddMutationKeeps ==
  ASSUME IInv, AddMutation
  PROVE  IInv'
<1> USE DEF IInv, RunInv
<1>1. phase = "prepare" /\ at \in 1..Len(Points) /\ phase' \in {"prepare", "clone"}
  BY DEF AddMutation, LoopInv
<1>2. /\ phase' = "prepare" => at' = at + 1 /\ at # Len(Points)
      /\ phase' = "clone" => at' = 1 /\ at = Len(Points)
  BY <1>1 DEF AddMutation
<1>3. Current \in Point /\ FnOf[Current] \in Fn /\ at \in Nat
  BY <1>1, CurrentFacts
<1>4. TypeOK'
  <2>1. pointsOf' \in [Fn -> Seq(Point)]
    <3>1. pointsOf[FnOf[Current]] \in Seq(Point)
      BY <1>3 DEF TypeOK
    <3>2. Append(pointsOf[FnOf[Current]], Current) \in Seq(Point)
      BY <1>3, <3>1
    <3> QED BY <3>2 DEF AddMutation, TypeOK
  <2> QED BY <1>1, <2>1 DEF AddMutation, TypeOK, config, task, Phase
<1>5. LoopInv'
  <2>1. ~running' /\ Points # << >>
    BY <1>1 DEF AddMutation, LoopInv, task, Reported, Writing
  <2>2. at' \in 1..Len(Points)
    BY <1>1, <1>2, <1>3, PointCount
  <2> QED BY <1>1, <1>2, <2>1, <2>2 DEF LoopInv
<1>6. PointsInv'
  <2>1. ASSUME NEW i \in 1..Len(Points), i <= at
        PROVE  Points[i] \in Range(pointsOf'[FnOf[Points[i]]])
    <3>1. Points[i] \in Point /\ FnOf[Points[i]] \in Fn
      BY PointFacts
    <3>2. CASE FnOf[Points[i]] = FnOf[Current]
      <4>1. pointsOf'[FnOf[Points[i]]] = Append(pointsOf[FnOf[Points[i]]], Current)
        BY <1>3, <3>2 DEF AddMutation, TypeOK
      <4>2. pointsOf[FnOf[Points[i]]] \in Seq(Point)
        BY <3>1 DEF TypeOK
      <4>3. CASE i = at
        BY <1>3, <4>1, <4>2, <4>3, RangeAppend DEF Current
      <4>4. CASE i < at
        <5>1. Points[i] \in Range(pointsOf[FnOf[Points[i]]])
          BY <1>1, <4>4 DEF PrepareInv, PointsInv
        <5> QED BY <1>3, <4>1, <4>2, <5>1, RangeAppend
      <4> QED BY <1>3, <2>1, <4>3, <4>4, PointFacts
    <3>3. CASE FnOf[Points[i]] # FnOf[Current]
      <4>1. pointsOf'[FnOf[Points[i]]] = pointsOf[FnOf[Points[i]]]
        BY <1>3, <3>1, <3>3 DEF AddMutation, TypeOK
      <4>2. i < at
        BY <1>3, <2>1, <3>3, PointFacts DEF Current
      <4> QED BY <1>1, <4>1, <4>2 DEF PrepareInv, PointsInv
    <3> QED BY <3>2, <3>3
  <2>2. ASSUME NEW i \in 1..Len(Points),
               (phase' = "prepare" /\ i < at') \/ phase' = "clone"
        PROVE  i <= at
    BY <1>1, <1>2, <1>3, <2>2, PointCount
  <2> QED BY <2>1, <2>2 DEF PointsInv
<1>7. BodyInv' /\ CloneInv'
  <2>1. phase' = "clone" => todo' = Mutated
    BY <1>1 DEF AddMutation
  <2> QED BY <1>1, <2>1, PointFacts DEF AddMutation, PrepareInv, BodyInv, CloneInv
<1>8. ObjectInv' /\ TrampolineInv'
  BY <1>1 DEF ObjectInv, TrampolineInv
<1>9. RowsInv'
  BY <1>1, RowsFrame DEF AddMutation, Handled, Reported, Writing
<1>10. StatusInv'
  BY <1>1, StatusFrame DEF AddMutation
<1>11. ReportInv'
  BY <1>1, BeforeReports DEF AddMutation, Phase, Reported, Writing
<1> QED BY <1>4, <1>5, <1>6, <1>7, <1>8, <1>9, <1>10, <1>11 DEF PrepareInv

\* What the steps over the entries of the maps have in common.
LEMMA EntryKeeps ==
  ASSUME IInv, NEW f \in Fn, NEW this, NEW next, Entry(f, this, next),
         << this, next >> \in {<< "clone", "delete" >>, << "delete", "insert" >>,
                               << "insert", "apply" >>}
  PROVE  /\ phase' \in {this, next} /\ phase = this /\ f \in todo
         /\ phase' = this => todo' = todo \ {f}
         /\ phase' = next => todo' = Mutated /\ todo = {f}
         /\ todo' \subseteq Mutated
         /\ f \in Mutated
         /\ LoopInv' /\ ObjectInv' /\ TrampolineInv' /\ RowsInv' /\ StatusInv' /\ ReportInv'
<1> USE DEF IInv, RunInv
<1>1. this \in {"clone", "delete", "insert"} /\ next \in {"delete", "insert", "apply"}
  OBVIOUS
<1>2. this # next
  OBVIOUS
<1>3. /\ phase' \in {this, next} /\ phase = this /\ f \in todo
      /\ phase' = this => todo' = todo \ {f}
      /\ phase' = next => todo' = Mutated /\ todo = {f}
  BY <1>2 DEF Entry
<1>4. todo' \subseteq Mutated /\ f \in Mutated
  BY <1>3 DEF TypeOK
<1>5. at = 1 /\ at' = 1 /\ Points # << >>
  BY <1>1, <1>3 DEF LoopInv, Entry, Reported, Writing
<1>6. LoopInv'
  <2>1. 1 \in 1..Len(Points)
    BY <1>5, PointFacts, MutantRunAssumption, EmptySeq
  <2> QED BY <1>1, <1>3, <1>5, <2>1 DEF LoopInv, Entry, task
<1>7. ObjectInv' /\ TrampolineInv'
  BY <1>1, <1>3 DEF ObjectInv, TrampolineInv
<1>8. RowsInv'
  BY <1>1, <1>3, RowsFrame DEF Entry, Handled, Reported, Writing
<1>9. StatusInv'
  BY <1>1, <1>3, StatusFrame DEF Entry
<1>10. ReportInv'
  BY <1>1, <1>3, BeforeReports DEF Entry, Phase, Reported, Writing
<1> QED BY <1>3, <1>4, <1>6, <1>7, <1>8, <1>9, <1>10

\* The clones of f's points are made from f as it was written.
LEMMA CloneFunctionsKeeps ==
  ASSUME IInv, NEW f \in Fn, CloneFunctions(f)
  PROVE  IInv'
<1> USE DEF IInv, RunInv
<1>1. /\ phase' \in {"clone", "delete"} /\ phase = "clone" /\ f \in todo
      /\ phase' = "clone" => todo' = todo \ {f}
      /\ phase' = "delete" => todo' = Mutated /\ todo = {f}
      /\ todo' \subseteq Mutated /\ f \in Mutated
      /\ LoopInv' /\ ObjectInv' /\ TrampolineInv' /\ RowsInv' /\ StatusInv' /\ ReportInv'
  BY EntryKeeps DEF CloneFunctions
<1>2. body[f] = {} /\ body' = body /\ original' = original
  BY <1>1 DEF CloneFunctions, PrepareInv, BodyInv
<1>3. TypeOK'
  <2>1. clone' \in [Point -> SUBSET (Point \cup {"no code", "forward"})]
    BY <1>2 DEF CloneFunctions, TypeOK
  <2> QED BY <1>1, <2>1 DEF CloneFunctions, Entry, TypeOK, config, task, Phase
<1>4. PointsInv'
  BY <1>1 DEF CloneFunctions, Entry, PrepareInv, PointsInv
<1>5. BodyInv'
  BY <1>1, <1>2 DEF PrepareInv, BodyInv
<1>6. CloneInv'
  <2>1. ASSUME NEW p \in Point, FnOf[p] = f \/ FnOf[p] \notin todo PROVE clone'[p] = {}
    <3>1. CASE p \in Range(pointsOf[f])
      BY <1>2, <3>1 DEF CloneFunctions
    <3>2. CASE p \notin Range(pointsOf[f])
      <4>1. FnOf[p] # f
        BY <1>1, <3>2, PointFacts DEF PrepareInv, PointsInv
      <4>2. clone[p] = {}
        BY <1>1, <2>1, <4>1 DEF PrepareInv, CloneInv
      <4> QED BY <3>2, <4>2 DEF CloneFunctions
    <3> QED BY <3>1, <3>2
  <2> QED BY <1>1, <2>1, PointFacts DEF CloneInv
<1> QED BY <1>1, <1>3, <1>4, <1>5, <1>6 DEF PrepareInv

\* The original is copied before its body is deleted.
LEMMA DeleteFunctionKeeps ==
  ASSUME IInv, NEW f \in Fn, DeleteFunction(f)
  PROVE  IInv'
<1> USE DEF IInv, RunInv
<1>1. /\ phase' \in {"delete", "insert"} /\ phase = "delete" /\ f \in todo
      /\ phase' = "delete" => todo' = todo \ {f}
      /\ phase' = "insert" => todo' = Mutated /\ todo = {f}
      /\ todo' \subseteq Mutated /\ f \in Mutated
      /\ LoopInv' /\ ObjectInv' /\ TrampolineInv' /\ RowsInv' /\ StatusInv' /\ ReportInv'
  BY EntryKeeps DEF DeleteFunction
<1>2. body[f] = {} /\ clone' = clone
  BY <1>1 DEF DeleteFunction, PrepareInv, BodyInv
<1>3. TypeOK'
  <2>1. body' \in [Fn -> SUBSET {"no code", "forward"}]
    BY DEF DeleteFunction, TypeOK, NoCode
  <2>2. original' \in [Fn -> SUBSET {"no code", "forward"}]
    BY <1>2 DEF DeleteFunction, TypeOK
  <2> QED BY <1>1, <2>1, <2>2 DEF DeleteFunction, Entry, TypeOK, config, task, Phase
<1>4. PointsInv' /\ CloneInv'
  BY <1>1, <1>2 DEF PrepareInv, PointsInv, CloneInv
<1>5. BodyInv'
  <2>1. \A g \in Fn \ {f} : body'[g] = body[g] /\ original'[g] = original[g]
    BY DEF DeleteFunction, TypeOK
  <2>2. original'[f] = {}
    BY <1>2 DEF DeleteFunction, TypeOK
  <2> QED BY <1>1, <2>1, <2>2, PointFacts DEF PrepareInv, BodyInv
<1> QED BY <1>1, <1>3, <1>4, <1>5 DEF PrepareInv

\* Every function with a point gets its trampoline.
LEMMA InsertTrampolineKeeps ==
  ASSUME IInv, NEW f \in Fn, InsertTrampoline(f)
  PROVE  IInv'
<1> USE DEF IInv, RunInv
<1>1. /\ phase' \in {"insert", "apply"} /\ phase = "insert" /\ f \in todo
      /\ phase' = "insert" => todo' = todo \ {f}
      /\ phase' = "apply" => todo' = Mutated /\ todo = {f}
      /\ todo' \subseteq Mutated /\ f \in Mutated
      /\ LoopInv' /\ ObjectInv' /\ TrampolineInv' /\ RowsInv' /\ StatusInv' /\ ReportInv'
  BY EntryKeeps DEF InsertTrampoline
<1>2. clone' = clone /\ original' = original /\ at' = 1
  BY <1>1 DEF InsertTrampoline, Entry, LoopInv
<1>3. TypeOK'
  <2>1. body' \in [Fn -> SUBSET {"no code", "forward"}]
    BY DEF InsertTrampoline, TypeOK, Forward
  <2> QED BY <1>1, <2>1 DEF InsertTrampoline, Entry, TypeOK, config, task, Phase
<1>4. PointsInv' /\ CloneInv'
  <2>1. PointsInv'
    BY <1>1 DEF PointsInv
  <2>2. \A p \in Point : clone'[p] = {}
    BY <1>1, <1>2 DEF PrepareInv, CloneInv
  <2>3. \A i \in 1..Len(Points) : ~(i < at') /\ Points[i] \in Point
    BY <1>2, PointFacts
  <2> QED BY <1>1, <2>1, <2>2, <2>3 DEF CloneInv
<1>5. BodyInv'
  <2>1. \A g \in Fn \ {f} : body'[g] = body[g]
    BY DEF InsertTrampoline, TypeOK
  <2>2. body'[f] = Forward
    BY DEF InsertTrampoline, TypeOK
  <2> QED BY <1>1, <1>2, <2>1, <2>2, PointFacts DEF PrepareInv, BodyInv
<1> QED BY <1>1, <1>3, <1>4, <1>5 DEF PrepareInv

\* A mutation is applied to the clone of its own point, and no clone gets two.
LEMMA ApplyMutationKeeps ==
  ASSUME IInv, ApplyMutation
  PROVE  IInv'
<1> USE DEF IInv, RunInv
<1>1. phase = "apply" /\ at \in 1..Len(Points) /\ phase' \in {"apply", "compile"}
  BY DEF ApplyMutation, LoopInv
<1>2. /\ phase' = "apply" => at' = at + 1 /\ at # Len(Points)
      /\ phase' = "compile" => at' = 1 /\ at = Len(Points)
  BY <1>1 DEF ApplyMutation
<1>3. Current \in Point /\ at \in Nat /\ Points[at] = Current
  BY <1>1, CurrentFacts DEF Current
<1>4. TypeOK'
  <2>1. clone' \in [Point -> SUBSET (Point \cup {"no code", "forward"})]
    BY <1>3 DEF ApplyMutation, TypeOK
  <2> QED BY <1>1, <2>1 DEF ApplyMutation, TypeOK, config, task, Phase
<1>5. LoopInv'
  <2>1. ~running' /\ Points # << >>
    BY <1>1 DEF ApplyMutation, LoopInv, task, Reported, Writing
  <2>2. at' \in 1..Len(Points)
    BY <1>1, <1>2, <1>3, PointCount
  <2> QED BY <1>1, <1>2, <2>1, <2>2 DEF LoopInv
<1>6. PointsInv' /\ BodyInv'
  BY <1>1 DEF ApplyMutation, PrepareInv, PointsInv, BodyInv
<1>7. CloneInv'
  <2>1. /\ clone'[Current] = clone[Current] \cup {Current}
        /\ \A p \in Point \ {Current} : clone'[p] = clone[p]
    BY <1>3 DEF ApplyMutation, TypeOK
  <2>2. ASSUME NEW i \in 1..Len(Points)
        PROVE  clone'[Points[i]] = IF i <= at THEN {Points[i]} ELSE {}
    <3>1. clone[Points[i]] = IF i < at THEN {Points[i]} ELSE {}
      BY <1>1 DEF PrepareInv, CloneInv
    <3>2. CASE i = at
      <4>1. Points[i] = Current /\ ~(i < at) /\ i <= at
        BY <1>3, <3>2
      <4>2. clone[Current] = {}
        BY <3>1, <4>1
      <4> QED BY <2>1, <4>1, <4>2
    <3>3. CASE i # at
      <4>1. Points[i] \in Point \ {Current} /\ (i < at <=> i <= at)
        BY <1>1, <1>3, <3>3, PointFacts
      <4> QED BY <2>1, <3>1, <4>1
    <3> QED BY <3>2, <3>3
  <2>3. CASE phase' = "apply"
    <3>1. \A i \in 1..Len(Points) : i < at' <=> i <= at
      BY <1>2, <1>3, <2>3, PointCount
    <3> QED BY <2>2, <2>3, <3>1 DEF CloneInv
  <2>4. CASE phase' = "compile"
    <3>1. \A i \in 1..Len(Points) : i <= at
      BY <1>2, <1>3, <2>4, PointCount
    <3>2. \A p \in Point : clone'[p] = {p}
      BY <2>2, <3>1, PointFacts
    <3> QED BY <2>4, <3>2 DEF CloneInv
  <2> QED BY <1>1, <2>3, <2>4
<1>8. ObjectInv' /\ TrampolineInv'
  BY <1>1 DEF ObjectInv, TrampolineInv
<1>9. RowsInv'
  BY <1>1, RowsFrame DEF ApplyMutation, Handled, Reported, Writing
<1>10. StatusInv'
  BY <1>1, StatusFrame DEF ApplyMutation
<1>11. ReportInv'
  BY <1>1, BeforeReports DEF ApplyMutation, Phase, Reported, Writing
<1> QED BY <1>4, <1>5, <1>6, <1>7, <1>8, <1>9, <1>10, <1>11 DEF PrepareInv

\* The object files have what the preparation has left.
LEMMA CompileKeeps ==
  ASSUME IInv, Compile
  PROVE  IInv'
<1> USE DEF IInv, RunInv
<1>1. phase = "compile" /\ phase' = "load" /\ at' = at /\ at = 1
  BY DEF Compile, LoopInv
<1>2. TypeOK'
  BY <1>1 DEF Compile, TypeOK, config, program, task, Phase
<1>3. LoopInv'
  BY <1>1 DEF Compile, LoopInv, task, Reported, Writing
<1>4. PrepareInv'
  BY <1>1 DEF Compile, program, PrepareInv, PointsInv, BodyInv, CloneInv
<1>5. ObjectInv'
  BY <1>1 DEF Compile, ObjectInv, PrepareInv, BodyInv, CloneInv
<1>6. TrampolineInv'
  BY <1>1 DEF TrampolineInv
<1>7. RowsInv'
  BY <1>1, RowsFrame DEF Compile, Handled, Reported, Writing
<1>8. StatusInv'
  BY <1>1, StatusFrame DEF Compile
<1>9. ReportInv'
  BY <1>1, BeforeReports DEF Compile, Phase, Reported, Writing
<1> QED BY <1>2, <1>3, <1>4, <1>5, <1>6, <1>7, <1>8, <1>9

-----------------------------------------------------------------------------
(* The runs of the mutants.                                                *)

\* The phases after the preparation do not touch the program.
LEMMA PrepareFrame ==
  ASSUME PrepareInv, phase' \in {"load", "point", "test"} \cup Reported \cup {"dry"},
         UNCHANGED program
  PROVE  PrepareInv'
  BY DEF PrepareInv, PointsInv, BodyInv, CloneInv, program, Reported, Writing

\* Every trampoline starts at the copy of its original.
LEMMA LoadKeeps ==
  ASSUME IInv, LoadMutatedProgram
  PROVE  IInv'
<1> USE DEF IInv, RunInv
<1>1. phase = "load" /\ phase' = "point" /\ at' = at /\ at = 1
  BY DEF LoadMutatedProgram, LoopInv
<1>2. TypeOK'
  <2>1. trampoline' \in [Fn -> Fn \cup Point \cup {Null}]
    BY DEF LoadMutatedProgram
  <2> QED BY <1>1, <2>1 DEF LoadMutatedProgram, TypeOK, config, program, Phase
<1>3. LoopInv'
  <2>1. Points # << >> /\ ~running'
    BY <1>1 DEF LoadMutatedProgram, LoopInv, Reported, Writing
  <2>2. 1 \in 1..Len(Points)
    BY <2>1, PointCount, MutantRunAssumption, EmptySeq
  <2> QED BY <1>1, <2>1, <2>2 DEF LoopInv
<1>4. PrepareInv'
  BY <1>1, PrepareFrame DEF LoadMutatedProgram
<1>5. ObjectInv'
  BY <1>1 DEF LoadMutatedProgram, ObjectInv
<1>6. TrampolineInv'
  BY <1>1, PointFacts DEF LoadMutatedProgram, TrampolineInv
<1>7. RowsInv'
  <2>1. \A i \in 1..Len(Points) : \A j \in 1..Len(TestsOf(Points[i])) :
          Handled(i, j)' <=> Handled(i, j)
    BY <1>1 DEF Handled, Reported, Writing
  <2> QED BY <2>1, RowsFrame DEF LoadMutatedProgram
<1>8. StatusInv'
  BY <1>1, StatusFrame DEF LoadMutatedProgram
<1>9. ReportInv'
  BY <1>1, BeforeReports DEF LoadMutatedProgram, Phase, Reported, Writing
<1> QED BY <1>2, <1>3, <1>4, <1>5, <1>6, <1>7, <1>8, <1>9

\* The function of the point is redirected, and its original remembered.
LEMMA SetTrampolineKeeps ==
  ASSUME IInv, SetTrampoline
  PROVE  IInv'
<1> USE DEF IInv, RunInv
<1>1. phase = "point" /\ phase' = "test" /\ at' = at /\ at \in 1..Len(Points)
  BY DEF SetTrampoline, LoopInv
<1>2. /\ Current \in Point /\ FnOf[Current] \in Fn /\ FnOf[Current] \in Mutated
      /\ Current' = Current /\ Named(Current) \in Point
  BY <1>1, CurrentFacts, NamedFacts DEF Current
<1>3. TypeOK'
  <2>1. trampoline' = [trampoline EXCEPT ![FnOf[Current]] = Named(Current)] /\ testAt' = 1
    BY DEF SetTrampoline
  <2> HIDE DEF Current, Named
  <2>2. trampoline' \in [Fn -> Fn \cup Point \cup {Null}]
    BY <1>2, <2>1 DEF TypeOK
  <2>3. testAt' \in Nat /\ testAt' >= 1
    BY <2>1
  <2> QED BY <1>1, <2>2, <2>3 DEF SetTrampoline, TypeOK, config, program, Phase
<1>4. LoopInv'
  BY <1>1 DEF SetTrampoline, LoopInv, Reported, Writing
<1>5. PrepareInv'
  BY <1>1, PrepareFrame DEF SetTrampoline
<1>6. ObjectInv'
  BY <1>1 DEF SetTrampoline, ObjectInv
<1>7. TrampolineInv'
  <2>1. saved' = FnOf[Current]
    BY <1>1, <1>2 DEF SetTrampoline, TrampolineInv
  <2>2. /\ trampoline'[FnOf[Current]] = Named(Current)
        /\ \A f \in Fn \ {FnOf[Current]} : trampoline'[f] = trampoline[f]
    BY <1>2 DEF SetTrampoline, TypeOK
  <2>3. Named(Current)' = Named(Current)
    BY <1>2 DEF Named
  <2> HIDE DEF Named
  <2> QED BY <1>1, <1>2, <2>1, <2>2, <2>3, PointFacts DEF TrampolineInv
<1>8. RowsInv'
  <2>1. testAt' = 1
    BY DEF SetTrampoline
  <2>2. \A i \in 1..Len(Points) : \A j \in 1..Len(TestsOf(Points[i])) :
          Handled(i, j)' <=> Handled(i, j)
    BY <1>1, <2>1 DEF Handled, Reported, Writing
  <2> QED BY <2>2, RowsFrame DEF SetTrampoline
<1>9. StatusInv'
  BY <1>1, StatusFrame DEF SetTrampoline
<1>10. ReportInv'
  BY <1>1, BeforeReports DEF SetTrampoline, Phase, Reported, Writing
<1> QED BY <1>3, <1>4, <1>5, <1>6, <1>7, <1>8, <1>9, <1>10

\* The result of the test at testAt is new, and completes its pair.
LEMMA RowsAppend ==
  ASSUME IInv, phase = "test", phase' = "test", at' = at, testAt' = testAt + 1,
         testAt \in 1..Len(TestsOf(Current)),
         NEW row \in Row, IsRow(row, at, testAt), results' = Append(results, row)
  PROVE  RowsInv'
<1>1. at \in 1..Len(Points) /\ results \in Seq(Row) /\ RowsInv /\ testAt \in Nat
  BY DEF IInv, RunInv, LoopInv, TypeOK
<1>2. Current \in Point /\ at \in Nat /\ Points[at] = Current
  BY <1>1, CurrentFacts DEF Current
<1>3. /\ Len(results) \in Nat /\ Len(results') = Len(results) + 1
      /\ results'[Len(results) + 1] = row
      /\ \A k \in 1..Len(results) : results'[k] = results[k]
  BY <1>1
<1>4. \A i \in 1..Len(Points) : \A j \in 1..Len(TestsOf(Points[i])) :
        Handled(i, j)' <=> Handled(i, j) \/ (i = at /\ j = testAt)
  <2> SUFFICES ASSUME NEW i \in 1..Len(Points), NEW j \in 1..Len(TestsOf(Points[i]))
               PROVE  Handled(i, j)' <=> Handled(i, j) \/ (i = at /\ j = testAt)
    OBVIOUS
  <2>1. i \in Nat /\ j \in Nat
    BY PointFacts, TestFacts
  <2> QED BY <1>1, <1>2, <2>1 DEF Handled, Reported, Writing
<1>5. ASSUME NEW k \in 1..Len(results)
      PROVE  results[k].point # row.point \/ results[k].test # row.test
  <2>1. PICK i \in 1..Len(Points) : \E j \in 1..Len(TestsOf(Points[i])) :
               Handled(i, j) /\ IsRow(results[k], i, j)
    BY <1>1 DEF RowsInv
  <2>2. PICK j \in 1..Len(TestsOf(Points[i])) : Handled(i, j) /\ IsRow(results[k], i, j)
    BY <2>1
  <2>3. SUFFICES ASSUME results[k].point = row.point, results[k].test = row.test
                 PROVE  FALSE
    OBVIOUS
  <2>4. i = at
    BY <1>1, <2>2, <2>3, PointFacts DEF IsRow
  <2>5. j = testAt
    BY <1>2, <2>2, <2>3, <2>4, TestFacts DEF IsRow
  <2> QED BY <1>1, <1>2, <2>2, <2>4, <2>5 DEF Handled, Reported, Writing
<1> HIDE DEF Handled, IsRow
<1>6. \A k \in 1..Len(results') :
        \E i \in 1..Len(Points) : \E j \in 1..Len(TestsOf(Points[i])) :
          Handled(i, j)' /\ IsRow(results'[k], i, j)
  <2> SUFFICES ASSUME NEW k \in 1..Len(results')
               PROVE  \E i \in 1..Len(Points) : \E j \in 1..Len(TestsOf(Points[i])) :
                        Handled(i, j)' /\ IsRow(results'[k], i, j)
    OBVIOUS
  <2>1. CASE k = Len(results) + 1
    BY <1>1, <1>2, <1>3, <1>4, <2>1
  <2>2. CASE k \in 1..Len(results)
    BY <1>1, <1>3, <1>4, <2>2 DEF RowsInv
  <2> QED BY <1>3, <2>1, <2>2
<1>7. \A i \in 1..Len(Points) : \A j \in 1..Len(TestsOf(Points[i])) :
        Handled(i, j)' => \E k \in 1..Len(results') : IsRow(results'[k], i, j)
  <2> SUFFICES ASSUME NEW i \in 1..Len(Points), NEW j \in 1..Len(TestsOf(Points[i])),
                      Handled(i, j)'
               PROVE  \E k \in 1..Len(results') : IsRow(results'[k], i, j)
    OBVIOUS
  <2>1. CASE Handled(i, j)
    <3>1. PICK k \in 1..Len(results) : IsRow(results[k], i, j)
      BY <1>1, <2>1 DEF RowsInv
    <3>2. k \in 1..Len(results') /\ results'[k] = results[k]
      BY <1>3
    <3> QED BY <3>1, <3>2
  <2>2. CASE i = at /\ j = testAt
    <3>1. Len(results) + 1 \in 1..Len(results')
      BY <1>3
    <3> QED BY <1>3, <2>2, <3>1
  <2> QED BY <1>4, <2>1, <2>2
<1>8. \A k, l \in 1..Len(results') :
        results'[k].point = results'[l].point /\ results'[k].test = results'[l].test =>
          k = l
  <2> SUFFICES ASSUME NEW k \in 1..Len(results'), NEW l \in 1..Len(results'),
                      results'[k].point = results'[l].point,
                      results'[k].test = results'[l].test
               PROVE  k = l
    OBVIOUS
  <2>1. CASE k \in 1..Len(results) /\ l \in 1..Len(results)
    BY <1>1, <1>3, <2>1 DEF RowsInv
  <2>2. CASE k = Len(results) + 1 /\ l \in 1..Len(results)
    BY <1>3, <1>5, <2>2
  <2>3. CASE l = Len(results) + 1 /\ k \in 1..Len(results)
    BY <1>3, <1>5, <2>3
  <2> QED BY <1>3, <2>1, <2>2, <2>3
<1> QED BY <1>6, <1>7, <1>8 DEF RowsInv, IsRow

\* The row that Result makes is one of the pair at hand.
LEMMA ResultIsRow ==
  ASSUME IInv, phase = "test", testAt \in 1..Len(TestsOf(Current)),
         NEW status \in Status \cup {"FailFast", "DryRun"}
  PROVE  /\ Result(status) \in Row /\ IsRow(Result(status), at, testAt)
         /\ Result(status).point = Current /\ Result(status).status = status
         /\ Result(status).test = TestsOf(Current)[testAt]
         /\ TestsOf(Current)[testAt] \in Test
<1>1. Current \in Point /\ at \in Nat
  BY CurrentFacts DEF IInv, RunInv, LoopInv
<1>2. TestsOf(Current)[testAt] \in Test
  BY <1>1, TestFacts
<1> QED BY <1>1, <1>2 DEF Result, Row, IsRow, Current

\* A true row keeps the statuses true.
LEMMA StatusAppend ==
  ASSUME IInv, phase = "test", phase' = "test", at' = at, UNCHANGED config,
         NEW row \in Row, results' = Append(results, row), ~dryRun => TrueRow(row),
         failed' => Detected(Current)
  PROVE  StatusInv'
<1>1. results \in Seq(Row) /\ StatusInv
  BY DEF IInv, RunInv, TypeOK
<1>2. /\ Len(results) \in Nat /\ Len(results') = Len(results) + 1
      /\ results'[Len(results) + 1] = row
      /\ \A k \in 1..Len(results) : results'[k] = results[k]
  BY <1>1
<1>3. Detected(Current)' = Detected(Current)
  BY DEF Detected, Current, config
<1>4. ASSUME ~dryRun, NEW k \in 1..Len(results') PROVE TrueRow(results[k])'
  <2>1. TrueRow(results'[k])
    <3>1. CASE k = Len(results) + 1
      BY <1>2, <1>4, <3>1
    <3>2. CASE k \in 1..Len(results)
      BY <1>1, <1>2, <1>4, <3>2 DEF StatusInv
    <3> QED BY <1>2, <3>1, <3>2
  <2> QED BY <2>1 DEF TrueRow, Detected, config
<1> QED BY <1>3, <1>4 DEF StatusInv, config

\* What the steps inside the loop over the tests have in common: they change
\* neither the program nor the trampolines.
LEMMA InsideTests ==
  ASSUME IInv, phase = "test", phase' = "test", at' = at, trampoline' = trampoline,
         saved' = saved, UNCHANGED << program, object, reports >>
  PROVE  PrepareInv' /\ ObjectInv' /\ TrampolineInv' /\ ReportInv'
<1> USE DEF IInv, RunInv
<1>1. PrepareInv'
  BY PrepareFrame
<1>2. ObjectInv'
  BY DEF ObjectInv
<1>3. TrampolineInv'
  BY DEF TrampolineInv, Current, Named
<1>4. ReportInv'
  BY BeforeReports DEF Phase, Reported, Writing
<1> QED BY <1>1, <1>2, <1>3, <1>4

\* A skipped test belongs to a mutant that an earlier test has detected.
LEMMA SkipTestKeeps ==
  ASSUME IInv, SkipTest
  PROVE  IInv'
<1> USE DEF IInv, RunInv
<1> DEFINE row == Result("FailFast")
<1>1. phase = "test" /\ phase' = "test" /\ at' = at /\ testAt' = testAt + 1 /\ ~running'
  BY DEF SkipTest
<1>2. testAt \in 1..Len(TestsOf(Current)) /\ at \in 1..Len(Points)
  <2>1. at \in 1..Len(Points) /\ testAt \in Nat /\ testAt >= 1
    BY <1>1 DEF LoopInv, TypeOK
  <2> QED BY <2>1, CurrentFacts, TestFacts DEF SkipTest
<1>3. /\ row \in Row /\ IsRow(row, at, testAt) /\ results' = Append(results, row)
      /\ row.point = Current /\ row.status = "FailFast"
  BY <1>1, <1>2, ResultIsRow DEF SkipTest
<1> HIDE DEF row
<1>4. TypeOK'
  <2>1. results' \in Seq(Row) /\ testAt' \in Nat /\ testAt' >= 1
    <3>1. results \in Seq(Row) /\ testAt \in Nat
      BY DEF TypeOK
    <3> QED BY <1>1, <1>3, <3>1
  <2> QED BY <1>1, <2>1 DEF SkipTest, TypeOK, config, program
<1>5. LoopInv'
  BY <1>1, <1>2 DEF LoopInv, Reported, Writing
<1>6. PrepareInv' /\ ObjectInv' /\ TrampolineInv' /\ ReportInv'
  BY <1>1, InsideTests DEF SkipTest
<1>7. RowsInv'
  BY <1>1, <1>2, <1>3, RowsAppend
<1>8. StatusInv'
  <2>1. Detected(Current) /\ failed' = failed
    BY <1>1 DEF SkipTest, Skipped, StatusInv
  <2>2. TrueRow(row)
    BY <1>3, <2>1 DEF TrueRow
  <2> QED BY <1>1, <1>3, <2>1, <2>2, StatusAppend DEF SkipTest
<1> QED BY <1>4, <1>5, <1>6, <1>7, <1>8

\* The sandbox starts.
LEMMA StartTestKeeps ==
  ASSUME IInv, StartTest
  PROVE  IInv'
<1> USE DEF IInv, RunInv
<1>1. phase = "test" /\ phase' = "test" /\ at' = at /\ testAt' = testAt
  BY DEF StartTest
<1>2. testAt \in 1..Len(TestsOf(Current)) /\ at \in 1..Len(Points)
  <2>1. at \in 1..Len(Points) /\ testAt \in Nat /\ testAt >= 1
    BY <1>1 DEF LoopInv, TypeOK
  <2> QED BY <2>1, CurrentFacts, TestFacts DEF StartTest
<1>3. TypeOK'
  BY <1>1 DEF StartTest, TypeOK, config, program
<1>4. LoopInv'
  BY <1>1, <1>2 DEF LoopInv, Reported, Writing, Current
<1>5. PrepareInv' /\ ObjectInv' /\ TrampolineInv' /\ ReportInv'
  BY <1>1, InsideTests DEF StartTest
<1>6. RowsInv'
  BY <1>1, RowsFrame DEF StartTest, Handled
<1>7. StatusInv'
  BY <1>1, StatusFrame DEF StartTest
<1> QED BY <1>3, <1>4, <1>5, <1>6, <1>7

\* The test has done to this mutant what `behaviour` says.
LEMMA FinishTestKeeps ==
  ASSUME IInv, FinishTest
  PROVE  IInv'
<1> USE DEF IInv, RunInv
<1> DEFINE test == TestsOf(Current)[testAt]
           status == behaviour[trampoline[FnOf[Current]]][test]
           row == Result(status)
<1>1. phase = "test" /\ phase' = "test" /\ at' = at /\ testAt' = testAt + 1 /\ ~running'
  BY DEF FinishTest, LoopInv
<1>2. testAt \in 1..Len(TestsOf(Current)) /\ at \in 1..Len(Points)
  BY <1>1 DEF FinishTest, LoopInv
<1>3. Current \in Point /\ test \in Test /\ Named(Current) \in Point
  BY <1>2, CurrentFacts, TestFacts, NamedFacts
<1>4. trampoline[FnOf[Current]] = Named(Current) /\ status \in Status
  <2>1. trampoline[FnOf[Current]] = Named(Current)
    BY <1>1 DEF TrampolineInv
  <2> QED BY <1>3, <2>1 DEF TypeOK
<1>5. results' = Append(results, row) /\ failed' = (failed \/ status # "Passed")
  BY DEF FinishTest
<1>6. /\ row \in Row /\ IsRow(row, at, testAt)
      /\ row.point = Current /\ row.test = test /\ row.status = status
  BY <1>1, <1>2, <1>4, ResultIsRow
<1>7. StatusInv'
  <2>1. TrueRow(row)
    BY <1>4, <1>6 DEF TrueRow
  <2>2. status # "Passed" => Detected(Current)
    <3>1. test \in Range(TestsOf(Current))
      BY <1>2, <1>3, TestFacts DEF Range
    <3> QED BY <1>4, <3>1 DEF Detected
  <2>3. failed => Detected(Current)
    BY <1>1 DEF StatusInv
  <2> HIDE DEF row, status
  <2>4. failed' => Detected(Current)
    BY <1>5, <2>2, <2>3
  <2> QED BY <1>1, <1>5, <1>6, <2>1, <2>4, StatusAppend DEF FinishTest
<1> HIDE DEF row, status, test
<1>8. TypeOK'
  <2>1. results' \in Seq(Row) /\ testAt' \in Nat /\ testAt' >= 1
    <3>1. results \in Seq(Row) /\ testAt \in Nat
      BY DEF TypeOK
    <3> QED BY <1>1, <1>5, <1>6, <3>1
  <2> QED BY <1>1, <2>1 DEF FinishTest, TypeOK, config, program
<1>9. LoopInv'
  BY <1>1, <1>2 DEF LoopInv, Reported, Writing
<1>10. PrepareInv' /\ ObjectInv' /\ TrampolineInv' /\ ReportInv'
  BY <1>1, InsideTests DEF FinishTest
<1>11. RowsInv'
  BY <1>1, <1>2, <1>5, <1>6, RowsAppend
<1> QED BY <1>7, <1>8, <1>9, <1>10, <1>11

\* The function gets back the address it had; all pairs of the point are handled.
LEMMA RestoreTrampolineKeeps ==
  ASSUME IInv, RestoreTrampoline
  PROVE  IInv'
<1> USE DEF IInv, RunInv
<1>1. phase = "test" /\ at \in 1..Len(Points) /\ at' = at + 1 /\ ~running'
  BY DEF RestoreTrampoline, LoopInv
<1>2. /\ phase' \in {"point", "report"}
      /\ phase' = "report" <=> at = Len(Points)
  BY DEF RestoreTrampoline
<1>3. /\ Current \in Point /\ FnOf[Current] \in Fn /\ at \in Nat
      /\ Points[at] = Current
  BY <1>1, CurrentFacts DEF Current
<1>4. saved = FnOf[Current]
  BY <1>1 DEF TrampolineInv
<1>5. /\ trampoline' = [trampoline EXCEPT ![FnOf[Current]] = FnOf[Current]]
      /\ testAt > Len(TestsOf(Current))
  BY <1>4 DEF RestoreTrampoline
<1>6. TypeOK'
  <2>1. trampoline' \in [Fn -> Fn \cup Point \cup {Null}]
    BY <1>3, <1>5 DEF TypeOK
  <2> QED BY <1>2, <2>1 DEF RestoreTrampoline, TypeOK, config, program, Phase, Reported
<1>7. LoopInv'
  <2>1. phase' = "point" => at' \in 1..Len(Points)
    BY <1>1, <1>2, <1>3, PointCount
  <2>2. Points # << >>
    BY <1>1 DEF LoopInv, Reported, Writing
  <2> QED BY <1>1, <1>2, <2>1, <2>2 DEF LoopInv
<1>8. PrepareInv'
  BY <1>2, PrepareFrame DEF RestoreTrampoline, Reported
<1>9. ObjectInv'
  BY <1>1, <1>2 DEF RestoreTrampoline, ObjectInv
<1>10. TrampolineInv'
  <2>1. /\ trampoline'[FnOf[Current]] = FnOf[Current]
        /\ \A f \in Fn \ {FnOf[Current]} : trampoline'[f] = trampoline[f]
    BY <1>3, <1>5 DEF TypeOK
  <2> QED BY <1>1, <1>2, <2>1, PointFacts DEF TrampolineInv
<1>11. RowsInv'
  <2>1. ASSUME NEW i \in 1..Len(Points), NEW j \in 1..Len(TestsOf(Points[i]))
        PROVE  Handled(i, j)' <=> Handled(i, j)
    <3>0. testAt \in Nat
      BY DEF TypeOK
    <3>1. i \in Nat /\ j \in Nat /\ testAt \in Nat /\ i <= Len(Points)
      BY <3>0, PointFacts, TestFacts
    <3>2. i = at => j < testAt
      BY <1>3, <1>5, <3>1, TestFacts
    <3>3. Handled(i, j) <=> i <= at
      BY <1>1, <1>3, <3>1, <3>2 DEF Handled, Reported, Writing
    <3>4. Handled(i, j)' <=> i <= at
      BY <1>1, <1>2, <1>3, <3>1, PointCount DEF Handled, Reported, Writing
    <3> QED BY <3>3, <3>4
  <2> HIDE DEF Handled
  <2> QED BY <2>1, RowsFrame DEF RestoreTrampoline
<1>12. StatusInv'
  BY <1>2, StatusFrame DEF RestoreTrampoline
<1>13. ReportInv'
  BY <1>1, <1>2, BeforeReports DEF RestoreTrampoline, Phase, Reported, Writing
<1> QED BY <1>6, <1>7, <1>8, <1>9, <1>10, <1>11, <1>12, <1>13

\* The dry run adds the rows of all pairs of the point at once.
LEMMA DryRunPointKeeps ==
  ASSUME IInv, DryRunPoint
  PROVE  IInv'
<1> USE DEF IInv, RunInv
<1> DEFINE tests == TestsOf(Current)
           n == Len(results)
           m == Len(tests)
           block == [j \in 1..m |-> [point |-> Current, test |-> tests[j], status |-> "DryRun"]]
<1>1. /\ phase = "dry" /\ at \in 1..Len(Points) /\ at' = at + 1 /\ dryRun
      /\ phase' \in {"dry", "report"}
      /\ phase' = "report" <=> at = Len(Points)
  BY DEF DryRunPoint, LoopInv, StatusInv
<1>2. Current \in Point /\ at \in Nat /\ Points[at] = Current
  BY <1>1, CurrentFacts DEF Current
<1>3. /\ m \in Nat /\ DOMAIN tests = 1..m
      /\ \A j \in 1..m : tests[j] \in Test
      /\ \A i, j \in 1..m : tests[i] = tests[j] => i = j
  BY <1>2, TestFacts
<1>4. /\ results \in Seq(Row) /\ n \in Nat /\ RowsInv
  BY LenProperties DEF TypeOK
<1>5. results' = results \o block
  BY <1>3 DEF DryRunPoint
<1>6. block \in Seq(Row) /\ Len(block) = m
  <2>1. \A j \in 1..m : [point |-> Current, test |-> tests[j], status |-> "DryRun"] \in Row
    BY <1>2, <1>3 DEF Row
  <2> QED BY <1>3, <2>1
<1>7. \A j \in 1..m : /\ IsRow(block[j], at, j)
                      /\ block[j].point = Current /\ block[j].test = tests[j]
  BY <1>2 DEF IsRow
<1> HIDE DEF block, m, n, tests
<1>8. /\ results' \in Seq(Row) /\ Len(results') = n + m
      /\ \A k \in 1..n : results'[k] = results[k]
      /\ \A j \in 1..m : results'[n + j] = block[j]
  <2>1. /\ results' \in Seq(Row) /\ Len(results') = n + m
        /\ \A k \in 1..(n + m) : results'[k] = IF k <= n THEN results[k] ELSE block[k - n]
    BY <1>4, <1>5, <1>6, ConcatProperties DEF n
  <2>2. ASSUME NEW k \in 1..n PROVE results'[k] = results[k]
    BY <1>3, <1>4, <2>1
  <2>3. ASSUME NEW j \in 1..m PROVE results'[n + j] = block[j]
    <3>1. n + j \in 1..(n + m) /\ ~(n + j <= n) /\ (n + j) - n = j
      BY <1>3, <1>4
    <3> QED BY <2>1, <3>1
  <2> QED BY <2>1, <2>2, <2>3
<1>9. TypeOK'
  <2>1. phase' \in Phase
    BY <1>1 DEF Phase, Reported
  <2> QED BY <1>8, <2>1 DEF DryRunPoint, TypeOK, config, program, task
<1>10. LoopInv'
  <2>1. phase' = "dry" => at' \in 1..Len(Points)
    BY <1>1, <1>2, PointCount
  <2>2. Points # << >> /\ ~running'
    BY <1>1 DEF DryRunPoint, LoopInv, task, Reported, Writing
  <2> QED BY <1>1, <2>1, <2>2 DEF LoopInv
<1>11. PrepareInv' /\ ObjectInv' /\ TrampolineInv'
  <2>1. PrepareInv'
    BY <1>1, PrepareFrame DEF DryRunPoint, Reported
  <2> QED BY <1>1, <2>1 DEF ObjectInv, TrampolineInv
<1>12. \A i \in 1..Len(Points) : \A j \in 1..Len(TestsOf(Points[i])) :
         (Handled(i, j) <=> i < at) /\ (Handled(i, j)' <=> i <= at)
  <2> SUFFICES ASSUME NEW i \in 1..Len(Points)
               PROVE  \A j : (Handled(i, j) <=> i < at) /\ (Handled(i, j)' <=> i <= at)
    OBVIOUS
  <2>1. i \in Nat /\ i <= Len(Points)
    BY PointCount
  <2> QED BY <1>1, <1>2, <2>1, PointCount DEF Handled, Reported, Writing
<1> HIDE DEF Handled, IsRow
<1>13. \A k \in 1..n : results[k].point # Current
  <2> SUFFICES ASSUME NEW k \in 1..n, results[k].point = Current PROVE FALSE
    OBVIOUS
  <2>1. PICK i \in 1..Len(Points) : \E j \in 1..Len(TestsOf(Points[i])) :
               Handled(i, j) /\ IsRow(results[k], i, j)
    BY <1>4 DEF RowsInv, n
  <2>2. Points[i] = Current /\ i < at
    BY <1>12, <2>1 DEF IsRow
  <2> QED BY <1>1, <1>2, <2>2, PointFacts
<1>14. \A k \in 1..(n + m) : k \in 1..n \/ \E j \in 1..m : k = n + j
  <2> SUFFICES ASSUME NEW k \in 1..(n + m), k \notin 1..n PROVE \E j \in 1..m : k = n + j
    OBVIOUS
  <2>1. k - n \in 1..m /\ k = n + (k - n)
    BY <1>3, <1>4
  <2> QED BY <2>1
<1>15. RowsInv'
  <2>1. \A k \in 1..Len(results') :
          \E i \in 1..Len(Points) : \E j \in 1..Len(TestsOf(Points[i])) :
            Handled(i, j)' /\ IsRow(results'[k], i, j)
    <3> SUFFICES ASSUME NEW k \in 1..Len(results')
                 PROVE  \E i \in 1..Len(Points) : \E j \in 1..Len(TestsOf(Points[i])) :
                          Handled(i, j)' /\ IsRow(results'[k], i, j)
      OBVIOUS
    <3>1. CASE k \in 1..n
      <4>1. PICK i \in 1..Len(Points) : \E j \in 1..Len(TestsOf(Points[i])) :
                   Handled(i, j) /\ IsRow(results[k], i, j)
        BY <1>4, <3>1 DEF RowsInv, n
      <4>2. i < at => i <= at
        BY <1>2, PointCount
      <4> QED BY <1>8, <1>12, <3>1, <4>1, <4>2
    <3>2. ASSUME NEW j \in 1..m, k = n + j
          PROVE  \E i \in 1..Len(Points) : \E jj \in 1..Len(TestsOf(Points[i])) :
                   Handled(i, jj)' /\ IsRow(results'[k], i, jj)
      <4>1. PICK i \in 1..Len(Points) : i = at
        BY <1>1
      <4>2. i <= at /\ j \in 1..Len(TestsOf(Points[i]))
        BY <1>2, <3>2, <4>1 DEF m, tests
      <4>3. Handled(i, j)'
        BY <1>12, <4>2
      <4>4. IsRow(results'[k], i, j)
        BY <1>7, <1>8, <3>2, <4>1
      <4> QED BY <4>2, <4>3, <4>4
    <3> QED BY <1>8, <1>14, <3>1, <3>2
  <2>2. \A i \in 1..Len(Points) : \A j \in 1..Len(TestsOf(Points[i])) :
          Handled(i, j)' => \E k \in 1..Len(results') : IsRow(results'[k], i, j)
    <3> SUFFICES ASSUME NEW i \in 1..Len(Points), NEW j \in 1..Len(TestsOf(Points[i])),
                        i <= at
                 PROVE  \E k \in 1..Len(results') : IsRow(results'[k], i, j)
      BY <1>12
    <3>1. CASE i < at
      <4>1. PICK k \in 1..n : IsRow(results[k], i, j)
        BY <1>4, <1>12, <3>1 DEF RowsInv, n
      <4>2. k \in 1..(n + m)
        BY <1>3, <1>4
      <4> QED BY <1>8, <4>1, <4>2
    <3>2. CASE i = at
      <4>1. j \in 1..m
        BY <1>2, <3>2 DEF m, tests
      <4>2. n + j \in 1..(n + m)
        BY <1>3, <1>4, <4>1
      <4> QED BY <1>7, <1>8, <3>2, <4>1, <4>2
    <3> QED BY <1>2, <3>1, <3>2, PointCount
  <2>3. ASSUME NEW k \in 1..Len(results'), NEW l \in 1..Len(results'),
               results'[k].point = results'[l].point,
               results'[k].test = results'[l].test
        PROVE  k = l
    <3>1. CASE k \in 1..n /\ l \in 1..n
      BY <1>4, <1>8, <2>3, <3>1 DEF RowsInv, n
    <3>2. ASSUME k \in 1..n, NEW j \in 1..m, l = n + j PROVE FALSE
      BY <1>7, <1>8, <1>13, <2>3, <3>2
    <3>3. ASSUME l \in 1..n, NEW j \in 1..m, k = n + j PROVE FALSE
      BY <1>7, <1>8, <1>13, <2>3, <3>3
    <3>4. ASSUME NEW i \in 1..m, k = n + i, NEW j \in 1..m, l = n + j PROVE k = l
      <4>1. tests[i] = tests[j]
        BY <1>7, <1>8, <2>3, <3>4
      <4> QED BY <1>3, <3>4, <4>1
    <3>5. k \in 1..n \/ \E j \in 1..m : k = n + j
      BY <1>8, <1>14
    <3>6. l \in 1..n \/ \E j \in 1..m : l = n + j
      BY <1>8, <1>14
    <3> QED BY <3>1, <3>2, <3>3, <3>4, <3>5, <3>6
  <2> QED BY <2>1, <2>2, <2>3 DEF RowsInv, IsRow
<1>16. StatusInv'
  BY <1>1 DEF DryRunPoint, config, StatusInv
<1>17. ReportInv'
  BY <1>1, BeforeReports DEF DryRunPoint, Phase, Reported, Writing
<1> QED BY <1>9, <1>10, <1>11, <1>15, <1>16, <1>17

-----------------------------------------------------------------------------
(* The reports.                                                            *)

\* The mutants that have a result other than Passed are the detected ones.
LEMMA KilledAreDetected ==
  ASSUME IInv, phase \in Reported, ~dryRun
  PROVE  KilledMutants = DetectedPoints
<1>1. results \in Seq(Row) /\ RowsInv /\ StatusInv
  BY DEF IInv, RunInv, TypeOK
<1>2. /\ Len(results) \in Nat /\ DOMAIN results = 1..Len(results)
      /\ \A k \in 1..Len(results) : results[k] \in Row
  BY <1>1, LenProperties, ElementOfSeq
<1>3. \A p : p \in KilledMutants <=>
        \E k \in 1..Len(results) : results[k].point = p /\ results[k].status # "Passed"
  BY <1>2 DEF KilledMutants, MutantSurvived, Range
<1>4. ASSUME NEW p \in KilledMutants PROVE p \in Point /\ Detected(p)
  <2>1. PICK k \in 1..Len(results) : results[k].point = p /\ results[k].status # "Passed"
    BY <1>3
  <2>2. p \in Point /\ TrueRow(results[k])
    BY <1>1, <1>2, <2>1 DEF Row, StatusInv
  <2>3. PICK i \in 1..Len(Points) : \E j \in 1..Len(TestsOf(Points[i])) :
               IsRow(results[k], i, j)
    BY <1>1 DEF RowsInv
  <2>4. Points[i] = p /\ \E j \in 1..Len(TestsOf(p)) : results[k].test = TestsOf(p)[j]
    BY <2>1, <2>3 DEF IsRow
  <2>5. results[k].test \in Range(TestsOf(p))
    BY <2>2, <2>4, TestFacts DEF Range
  <2> QED BY <2>1, <2>2, <2>5 DEF TrueRow, Detected
<1>5. ASSUME NEW p \in Point, Detected(p) PROVE p \in KilledMutants
  <2>1. PICK t \in Range(TestsOf(p)) : behaviour[Named(p)][t] # "Passed"
    BY <1>5 DEF Detected
  <2>2. PICK j \in 1..Len(TestsOf(p)) : TestsOf(p)[j] = t
    BY <2>1, TestFacts DEF Range
  <2>3. PICK i \in 1..Len(Points) : Points[i] = p
    BY PointFacts
  <2>4. PICK k \in 1..Len(results) : IsRow(results[k], i, j)
    BY <1>1, <2>2, <2>3 DEF RowsInv, Handled
  <2>5. results[k].point = p /\ results[k].test = t
    BY <2>2, <2>3, <2>4 DEF IsRow
  <2>6. TrueRow(results[k])
    BY <1>1 DEF StatusInv
  <2>7. results[k].status # "Passed"
    BY <2>1, <2>5, <2>6 DEF TrueRow
  <2> QED BY <1>3, <2>5, <2>7
<1> QED BY <1>4, <1>5 DEF DetectedPoints

\* The fields of a report.
LEMMA ReportFields ==
  ASSUME NEW A, NEW B, NEW C
  PROVE  /\ Report(A, B, C).tests = Test
         /\ Report(A, B, C).rows = [i \in A |-> RowOf(i)]
         /\ Report(A, B, C).distances = B
         /\ Report(A, B, C).points = C
<1> DEFINE Fields == {"tables", "tests", "rows", "distances", "points"}
<1>1. DOMAIN NoFile = Fields
  BY DEF NoFile
<1>2. DOMAIN NoRows = Fields
  BY <1>1 DEF NoRows
<1>3. DOMAIN WithTests = Fields /\ WithTests.tests = Test
  BY <1>2 DEF WithTests
<1>4. PICK rows : rows = [i \in A |-> RowOf(i)]
  OBVIOUS
<1>5. /\ DOMAIN WithRows(A) = Fields
      /\ WithRows(A).tests = Test /\ WithRows(A).rows = rows
  BY <1>3, <1>4 DEF WithRows
<1>6. /\ DOMAIN WithDistances(A, B) = Fields
      /\ WithDistances(A, B).tests = Test /\ WithDistances(A, B).rows = rows
      /\ WithDistances(A, B).distances = B
  BY <1>5 DEF WithDistances
<1> QED BY <1>4, <1>6 DEF Report

\* What a row of the database has.
LEMMA RowOfFields ==
  ASSUME IInv, NEW i \in DOMAIN results
  PROVE  /\ RowOf(i).point = Id[results[i].point]
         /\ RowOf(i).test = results[i].test
         /\ RowOf(i).status = results[i].status
         /\ results[i].point \in Point /\ results[i].test \in Test
<1>1. results \in Seq(Row)
  BY DEF IInv, RunInv, TypeOK
<1>2. results[i] \in Row
  BY <1>1, ElementOfSeq, LenProperties
<1>3. PICK row \in Row : row = results[i]
  BY <1>2
<1> QED BY <1>3 DEF Row, RowOf

\* What has been written stays true while neither the results nor the
\* configuration change.
LEMMA ReportsStay ==
  ASSUME results' = results, UNCHANGED config
  PROVE  /\ \A i : RowOf(i)' = RowOf(i)
         /\ DetectedPoints' = DetectedPoints
         /\ dryRun' = dryRun
<1>1. \A i : RowOf(i)' = RowOf(i)
  BY DEF RowOf
<1>2. DetectedPoints' = DetectedPoints /\ dryRun' = dryRun
  BY DEF DetectedPoints, Detected, config
<1> QED BY <1>1, <1>2

\* Nor do the contents of the database, and a row that is missing stays a reason.
LEMMA ContentsStay ==
  ASSUME results' = results, ~refused' => ~refused
  PROVE  /\ WithTests' = WithTests
         /\ \A A : WithRows(A)' = WithRows(A)
         /\ \A A, B : WithDistances(A, B)' = WithDistances(A, B)
         /\ \A A, B, C : Report(A, B, C)' = Report(A, B, C)
         /\ \A A, S : Taken(A, S) => Taken(A, S)'
         /\ \A c : IsReport(c) => IsReport(c)'
<1>1. WithTests' = WithTests
  BY DEF WithTests
<1>2. \A A : WithRows(A)' = WithRows(A)
  BY DEF WithRows, RowOf, WithTests
<1>3. \A A, B : WithDistances(A, B)' = WithDistances(A, B)
  BY DEF WithDistances, WithRows, RowOf, WithTests
<1>4. \A A, B, C : Report(A, B, C)' = Report(A, B, C)
  BY DEF Report, WithDistances, WithRows, RowOf, WithTests
<1>5. \A A, S : Taken(A, S) => Taken(A, S)'
  BY DEF Taken
<1>6. ASSUME NEW c, IsReport(c) PROVE IsReport(c)'
  <2>1. PICK A, B \in SUBSET DOMAIN results : \E C \in SUBSET Ids :
          /\ c = Report(A, B, C)
          /\ Taken(A, DOMAIN results) /\ Taken(B, DOMAIN results) /\ Taken(C, Ids)
    BY <1>6 DEF IsReport
  <2>2. PICK C \in SUBSET Ids :
          /\ c = Report(A, B, C)
          /\ Taken(A, DOMAIN results) /\ Taken(B, DOMAIN results) /\ Taken(C, Ids)
    BY <2>1
  <2>3. c = Report(A, B, C)'
    BY <1>4, <2>2
  <2>4. Taken(A, DOMAIN results)' /\ Taken(B, DOMAIN results)' /\ Taken(C, Ids)'
    BY <2>2 DEF Taken
  <2> HIDE DEF Taken, Report
  <2> QED BY <2>3, <2>4 DEF IsReport
<1> QED BY <1>1, <1>2, <1>3, <1>4, <1>5, <1>6

\* A step of another reporter leaves the database alone.
LEMMA DatabaseStays ==
  ASSUME DatabaseInv, results' = results, UNCHANGED << database, pending, refused >>,
         phase' \in Reported \ Writing
  PROVE  DatabaseInv'
<1>1. database \notin {NoFile, NoRows, EarlierReport} => IsReport(database)
  BY DEF DatabaseInv
<1>2. IsReport(database) => IsReport(database)'
  <2>1. ASSUME NEW c, IsReport(c) PROVE IsReport(c)'
    BY <2>1, ContentsStay, Zenon
  <2>2. PICK c : c = database
    OBVIOUS
  <2> QED BY <2>1, <2>2 DEF IsReport
<1> HIDE DEF IsReport
<1> QED BY <1>1, <1>2 DEF DatabaseInv, Writing

\* The list of reporters is made.
LEMMA CreateReportersKeeps ==
  ASSUME IInv, CreateReporters
  PROVE  IInv'
<1>1. /\ phase = "report" /\ phase' = "reporting"
      /\ UNCHANGED << config, todo, at, program, object, task, results, printed,
                      elements, database, pending, refused >>
  BY DEF CreateReporters
<1>2. RunInv'
  BY <1>1, WhileReporting DEF IInv, Reported
<1>3. DatabaseInv'
  BY <1>1, DatabaseStays DEF IInv, ReportInv, Reported, Writing
<1>4. ListsInv'
  BY <1>1, ReportsStay DEF IInv, ReportInv, ListsInv, Reported
<1> QED BY <1>2, <1>3, <1>4 DEF IInv, ReportInv

\* The next reporter, or the end.
LEMMA NextReporterPhase == NextReporter => phase' \in {"done", "reporting"}
  BY DEF NextReporter

\* IDEReporter prints the mutants that no test detected.
LEMMA ReportIDEKeeps ==
  ASSUME IInv, ReportIDE
  PROVE  IInv'
<1>1. /\ phase = "reporting" /\ phase' \in {"done", "reporting"}
      /\ UNCHANGED << config, todo, at, program, object, task, results, elements,
                      database, pending, refused >>
  BY NextReporterPhase DEF ReportIDE, Reporting
<1>2. RunInv'
  BY <1>1, WhileReporting DEF IInv, Reported
<1>3. DatabaseInv'
  BY <1>1, DatabaseStays DEF IInv, ReportInv, Reported, Writing
<1>4. ListsInv'
  <2>1. phase' \in Reported
    BY <1>1 DEF Reported
  <2>2. PICK showKilled \in BOOLEAN :
          printed' = printed \cup
            {[killed |-> IF showKilled THEN PointsIn(KilledMutants) ELSE << >>,
              survived |-> PointsIn(Point \ KilledMutants)]}
    BY DEF ReportIDE
  <2>3. ~dryRun => KilledMutants = DetectedPoints
    BY <1>1, KilledAreDetected DEF Reported
  <2>4. ASSUME ~dryRun, NEW list \in printed'
        PROVE  /\ list.survived = PointsIn(Point \ DetectedPoints)
               /\ list.killed \in {<< >>, PointsIn(DetectedPoints)}
    <3>1. CASE list \in printed
      BY <2>4, <3>1 DEF IInv, ReportInv, ListsInv
    <3>2. CASE list \notin printed
      BY <2>2, <2>3, <2>4, <3>2
    <3> QED BY <3>1, <3>2
  <2>5. UNCHANGED << DetectedPoints, dryRun, elements >>
    BY <1>1, ReportsStay
  <2> QED BY <2>1, <2>4, <2>5 DEF IInv, ReportInv, ListsInv
<1> QED BY <1>2, <1>3, <1>4 DEF IInv, ReportInv

\* MutationTestingElementsReporter marks the mutants by the same set.
LEMMA ReportElementsKeeps ==
  ASSUME IInv, ReportElements
  PROVE  IInv'
<1>1. /\ phase = "reporting" /\ phase' \in {"done", "reporting"}
      /\ UNCHANGED << config, todo, at, program, object, task, results, printed,
                      database, pending, refused >>
  BY NextReporterPhase DEF ReportElements, Reporting
<1>2. RunInv'
  BY <1>1, WhileReporting DEF IInv, Reported
<1>3. DatabaseInv'
  BY <1>1, DatabaseStays DEF IInv, ReportInv, Reported, Writing
<1>4. ListsInv'
  <2>1. phase' \in Reported
    BY <1>1 DEF Reported
  <2>2. elements' \subseteq elements \cup
          {[p \in Point |-> IF p \in KilledMutants THEN "Killed" ELSE "Survived"]}
    BY DEF ReportElements
  <2>3. ~dryRun => KilledMutants = DetectedPoints
    BY <1>1, KilledAreDetected DEF Reported
  <2>4. ASSUME ~dryRun, NEW status \in elements', NEW p \in Point
        PROVE  status[p] = IF p \in DetectedPoints THEN "Killed" ELSE "Survived"
    <3>1. CASE status \in elements
      BY <2>4, <3>1 DEF IInv, ReportInv, ListsInv
    <3>2. CASE status \notin elements
      BY <2>2, <2>3, <2>4, <3>2
    <3> QED BY <3>1, <3>2
  <2>5. UNCHANGED << DetectedPoints, dryRun, printed >>
    BY <1>1, ReportsStay
  <2> QED BY <2>1, <2>4, <2>5 DEF IInv, ReportInv, ListsInv
<1> QED BY <1>2, <1>3, <1>4 DEF IInv, ReportInv

\* A step of SQLiteReporter, or the end of Mull, leaves all but the database alone.
LEMMA DatabaseStep ==
  ASSUME IInv, phase \in Reported, phase' \in Reported,
         UNCHANGED << config, todo, at, program, object, task, results, printed,
                      elements >>,
         DatabaseInv'
  PROVE  IInv'
<1>1. RunInv'
  BY WhileReporting DEF IInv
<1>2. ListsInv'
  BY ReportsStay DEF IInv, ReportInv, ListsInv
<1> QED BY <1>1, <1>2 DEF IInv, ReportInv

\* The transaction is gone and the file as it was.
LEMMA RolledBack ==
  ASSUME IInv, phase \in Reported, phase' = "exit", database' = database,
         UNCHANGED << results, refused >>
  PROVE  DatabaseInv'
<1>1. database \in {NoFile, NoRows, EarlierReport} \/ IsReport(database)
  BY DEF IInv, ReportInv, DatabaseInv
<1>2. IsReport(database) => IsReport(database)'
  <2>1. ASSUME NEW c, IsReport(c) PROVE IsReport(c)'
    BY <2>1, ContentsStay, Zenon
  <2>2. PICK c : c = database
    OBVIOUS
  <2> QED BY <2>1, <2>2 DEF IsReport
<1> HIDE DEF IsReport
<1> QED BY <1>1, <1>2 DEF DatabaseInv, Reported

\* The tables are created, or their presence ends the program.
LEMMA OpenDatabaseKeeps ==
  ASSUME IInv, OpenDatabase
  PROVE  IInv'
<1>1. /\ phase = "reporting"
      /\ UNCHANGED << config, todo, at, program, object, task, results, printed,
                      elements, refused >>
  BY DEF OpenDatabase, Reporting, SQLiteError
<1>2. CASE SQLiteError
  <2>1. phase' = "exit" /\ database' = database
    BY <1>2 DEF SQLiteError
  <2>2. DatabaseInv'
    BY <1>1, <2>1, RolledBack DEF Reported
  <2> QED BY <1>1, <2>1, <2>2, DatabaseStep DEF Reported
<1>3. CASE phase' = "tests" /\ pending' = NoRows /\ database' = NoRows
  <2>1. DatabaseInv'
    BY <1>3 DEF DatabaseInv
  <2> QED BY <1>1, <1>3, <2>1, DatabaseStep DEF Reported, Writing
<1> QED BY <1>2, <1>3 DEF OpenDatabase

\* What an insertion leaves alone.
LEMMA InsertFrame ==
  ASSUME IInv, phase \in Writing, phase' \in Writing, database' = database,
         results' = results, ~refused' => ~refused
  PROVE  \/ database' \in {NoFile, NoRows, EarlierReport}
         \/ phase' \in Reported /\ IsReport(database)'
<1>1. database \in {NoFile, NoRows, EarlierReport} \/ IsReport(database)
  BY DEF IInv, ReportInv, DatabaseInv
<1>2. IsReport(database) => IsReport(database)'
  <2>1. ASSUME NEW c, IsReport(c) PROVE IsReport(c)'
    BY <2>1, ContentsStay, Zenon
  <2>2. PICK c : c = database
    OBVIOUS
  <2> QED BY <2>1, <2>2 DEF IsReport
<1> HIDE DEF IsReport
<1> QED BY <1>1, <1>2 DEF Reported

\* What the unchecked insertions have in common.
LEMMA AcceptedRows ==
  ASSUME NEW S, NEW A \in Accepted(S), Refusing(S, A)
  PROVE  /\ A \in SUBSET S
         /\ ~refused' => ~refused
         /\ ~refused' => A = S
<1>1. A \in SUBSET S
  BY DEF Accepted
<1> QED BY <1>1 DEF Refusing

\* A step between two insertions.
LEMMA InsertedStep ==
  ASSUME IInv, phase \in Writing, phase' \in Writing, database' = database,
         UNCHANGED << config, todo, at, program, object, task, results, printed,
                      elements >>,
         ~refused' => ~refused,
         phase' = "tests" => pending' = NoRows,
         phase' = "results" => pending' = WithTests',
         phase' = "distances" =>
           \E A \in SUBSET DOMAIN results :
             pending' = WithRows(A)' /\ Taken(A, DOMAIN results)',
         phase' = "points" =>
           \E A, B \in SUBSET DOMAIN results :
             /\ pending' = WithDistances(A, B)'
             /\ Taken(A, DOMAIN results)' /\ Taken(B, DOMAIN results)',
         phase' = "commit" => IsReport(pending)'
  PROVE  IInv'
<1>1. \/ database' \in {NoFile, NoRows, EarlierReport}
      \/ phase' \in Reported /\ IsReport(database)'
  BY InsertFrame
<1> HIDE DEF IsReport, Taken, WithTests, WithRows, WithDistances
<1>2. DatabaseInv'
  BY <1>1 DEF DatabaseInv
<1> QED BY <1>2, DatabaseStep DEF Reported

\* The tests are in the transaction.
LEMMA InsertTestsKeeps ==
  ASSUME IInv, InsertTests
  PROVE  IInv'
<1>1. /\ phase = "tests" /\ phase' = "results" /\ database' = database
      /\ UNCHANGED << config, todo, at, program, object, task, results, printed,
                      elements, refused >>
      /\ pending' = [pending EXCEPT !.tests = Test]
  BY DEF InsertTests, InsertStep, Insert
<1>2. pending' = WithTests'
  BY <1>1 DEF IInv, ReportInv, DatabaseInv, WithTests
<1> QED BY <1>1, <1>2, InsertedStep DEF Writing

\* So are the rows of execution_result that SQLite takes.
LEMMA InsertResultsKeeps ==
  ASSUME IInv, InsertResults
  PROVE  IInv'
<1>1. /\ phase = "results" /\ phase' = "distances"
      /\ UNCHANGED << config, todo, at, program, object, task, results, printed,
                      elements >>
  BY DEF InsertResults, InsertStep
<1>2. PICK A \in Accepted(DOMAIN results) :
        /\ Insert([pending EXCEPT !.rows = [i \in A |-> RowOf(i)]])
        /\ Refusing(DOMAIN results, A)
  BY DEF InsertResults
<1>3. /\ A \in SUBSET DOMAIN results
      /\ ~refused' => ~refused
      /\ ~refused' => A = DOMAIN results
  BY <1>2, AcceptedRows
<1>4. pending' = WithRows(A) /\ database' = database
  BY <1>1, <1>2 DEF IInv, ReportInv, DatabaseInv, Insert, WithRows
<1>5. pending' = WithRows(A)'
  <2>1. results' = results
    BY <1>1
  <2> QED BY <1>3, <1>4, <2>1, ContentsStay
<1>6. Taken(A, DOMAIN results)'
  BY <1>1, <1>3 DEF Taken
<1> HIDE DEF Taken
<1> QED BY <1>1, <1>3, <1>4, <1>5, <1>6, InsertedStep DEF Writing

\* And those of mutation_result.
LEMMA InsertDistancesKeeps ==
  ASSUME IInv, InsertDistances
  PROVE  IInv'
<1>1. /\ phase = "distances" /\ phase' = "points" /\ results' = results
      /\ UNCHANGED << config, todo, at, program, object, task, results, printed,
                      elements >>
  BY DEF InsertDistances, InsertStep
<1>2. PICK B \in Accepted(DOMAIN results) :
        Insert([pending EXCEPT !.distances = B]) /\ Refusing(DOMAIN results, B)
  BY DEF InsertDistances
<1>3. /\ B \in SUBSET DOMAIN results
      /\ ~refused' => ~refused
      /\ ~refused' => B = DOMAIN results
  BY <1>2, AcceptedRows
<1>4. PICK A \in SUBSET DOMAIN results : pending = WithRows(A) /\ Taken(A, DOMAIN results)
  BY <1>1 DEF IInv, ReportInv, DatabaseInv
<1>5. pending' = WithDistances(A, B) /\ database' = database
  BY <1>2, <1>4 DEF Insert, WithDistances
<1>6. pending' = WithDistances(A, B)'
  BY <1>1, <1>3, <1>5, ContentsStay
<1>7. Taken(A, DOMAIN results)' /\ Taken(B, DOMAIN results)'
  BY <1>1, <1>3, <1>4 DEF Taken
<1> HIDE DEF Taken
<1> QED BY <1>1, <1>3, <1>4, <1>5, <1>6, <1>7, InsertedStep DEF Writing

\* And those of mutation_point.
LEMMA InsertPointsKeeps ==
  ASSUME IInv, InsertPoints
  PROVE  IInv'
<1>1. /\ phase = "points" /\ phase' = "commit" /\ results' = results
      /\ UNCHANGED << config, todo, at, program, object, task, results, printed,
                      elements >>
  BY DEF InsertPoints, InsertStep
<1>2. PICK C \in Accepted(Ids) :
        Insert([pending EXCEPT !.points = C]) /\ Refusing(Ids, C)
  BY DEF InsertPoints
<1>3. /\ C \in SUBSET Ids
      /\ ~refused' => ~refused
      /\ ~refused' => C = Ids
  BY <1>2, AcceptedRows
<1>4. PICK A, B \in SUBSET DOMAIN results :
        /\ pending = WithDistances(A, B)
        /\ Taken(A, DOMAIN results) /\ Taken(B, DOMAIN results)
  BY <1>1 DEF IInv, ReportInv, DatabaseInv
<1>5. pending' = Report(A, B, C) /\ database' = database
  BY <1>2, <1>4 DEF Insert, Report
<1>6. pending' = Report(A, B, C)'
  BY <1>1, <1>3, <1>5, ContentsStay
<1>7. /\ A \in SUBSET (DOMAIN results)' /\ B \in SUBSET (DOMAIN results)'
      /\ C \in SUBSET Ids'
      /\ Taken(A, DOMAIN results)' /\ Taken(B, DOMAIN results)' /\ Taken(C, Ids)'
  BY <1>1, <1>3, <1>4 DEF Taken, Ids
<1> HIDE DEF Taken, Report, Ids
<1>8. IsReport(pending)'
  BY <1>6, <1>7 DEF IsReport
<1> HIDE DEF IsReport
<1> QED BY <1>1, <1>3, <1>5, <1>8, InsertedStep DEF Writing

\* A name used twice ends the program, and so may anything else.
LEMMA StopKeeps ==
  ASSUME IInv, TestNameTaken \/ Killed
  PROVE  IInv'
<1>1. /\ phase \in Reported /\ phase' = "exit" /\ database' = database
      /\ UNCHANGED << config, todo, at, program, object, task, results, printed,
                      elements, refused >>
  BY DEF TestNameTaken, Killed, SQLiteError, Reported, Writing
<1>2. DatabaseInv'
  BY <1>1, RolledBack
<1> QED BY <1>1, <1>2, DatabaseStep DEF Reported

\* The transaction becomes the content of the file.
LEMMA EndTransactionKeeps ==
  ASSUME IInv, EndTransaction
  PROVE  IInv'
<1>1. /\ phase = "commit" /\ phase' \in {"done", "reporting"} /\ database' = pending
      /\ results' = results /\ refused' = refused
      /\ UNCHANGED << config, todo, at, program, object, task, results, printed,
                      elements >>
  BY NextReporterPhase DEF EndTransaction
<1>2. PICK c : c = pending
  OBVIOUS
<1>3. IsReport(c)
  BY <1>1, <1>2 DEF IInv, ReportInv, DatabaseInv
<1>4. IsReport(c)'
  BY <1>1, <1>3, ContentsStay, Zenon
<1>5. IsReport(database)'
  BY <1>1, <1>2, <1>4 DEF IsReport
<1>6. phase' \in Reported
  BY <1>1 DEF Reported
<1> HIDE DEF IsReport
<1>7. DatabaseInv'
  BY <1>1, <1>5, <1>6 DEF DatabaseInv
<1> QED BY <1>1, <1>6, <1>7, DatabaseStep DEF Reported, Writing

-----------------------------------------------------------------------------
(* The theorems.                                                           *)

\* A step that changes nothing.
LEMMA StutterKeeps ==
  ASSUME IInv, UNCHANGED vars
  PROVE  IInv'
<1> USE DEF IInv, RunInv, vars, config, program, task, reports
<1>1. TypeOK' /\ LoopInv' /\ PrepareInv' /\ ObjectInv' /\ TrampolineInv'
  BY DEF TypeOK, LoopInv, PrepareInv, PointsInv, BodyInv, CloneInv, ObjectInv,
        TrampolineInv, Current, Named
<1>2. RowsInv'
  BY RowsFrame DEF Handled
<1>3. StatusInv'
  <2>1. phase' = "dry" => dryRun
    BY DEF StatusInv
  <2> QED BY <2>1, StatusFrame
<1>4. ListsInv'
  BY ReportsStay DEF ReportInv, ListsInv
<1>5. DatabaseInv'
  <2>1. DatabaseInv /\ UNCHANGED << phase, results, pending, database, refused >>
    BY DEF ReportInv
  <2>2. results' = results /\ (~refused' => ~refused)
    BY <2>1
  <2>3. WithTests' = WithTests /\ (\A A : WithRows(A)' = WithRows(A))
    BY <2>1, ContentsStay
  <2>4. \A A, B : WithDistances(A, B)' = WithDistances(A, B)
    BY <2>1, ContentsStay
  <2>5. \A A : Taken(A, DOMAIN results) => Taken(A, DOMAIN results)'
    BY <2>1 DEF Taken
  <2>6. IsReport(pending) => IsReport(pending)'
    <3>1. PICK c : c = pending
      OBVIOUS
    <3>2. IsReport(c) => IsReport(c)'
      BY <2>2, ContentsStay, Zenon
    <3> QED BY <2>1, <3>1, <3>2 DEF IsReport
  <2>7. IsReport(database) => IsReport(database)'
    <3>1. PICK c : c = database
      OBVIOUS
    <3>2. IsReport(c) => IsReport(c)'
      BY <2>2, ContentsStay, Zenon
    <3> QED BY <2>1, <3>1, <3>2 DEF IsReport
  <2> HIDE DEF IsReport, Taken, WithDistances, WithRows, WithTests
  <2> QED BY <2>1, <2>3, <2>4, <2>5, <2>6, <2>7 DEF DatabaseInv
<1> QED BY <1>1, <1>2, <1>3, <1>4, <1>5 DEF ReportInv

\* One step per action of Next.
LEMMA NextIInv == IInv /\ [Next]_vars => IInv'
<1> SUFFICES ASSUME IInv, [Next]_vars PROVE IInv'
  OBVIOUS
<1>1. ASSUME NEW f \in Fn, CloneFunctions(f) \/ DeleteFunction(f) \/ InsertTrampoline(f)
      PROVE  IInv'
  BY <1>1, CloneFunctionsKeeps, DeleteFunctionKeeps, InsertTrampolineKeeps
<1>2. CASE RunMutations \/ AddMutation \/ ApplyMutation \/ Compile \/ LoadMutatedProgram
  BY <1>2, RunMutationsKeeps, AddMutationKeeps, ApplyMutationKeeps, CompileKeeps, LoadKeeps
<1>3. CASE \/ DryRunPoint \/ SetTrampoline \/ SkipTest \/ StartTest \/ FinishTest
           \/ RestoreTrampoline
  BY <1>3, DryRunPointKeeps, SetTrampolineKeeps, SkipTestKeeps, StartTestKeeps,
     FinishTestKeeps, RestoreTrampolineKeeps
<1>4. CASE CreateReporters \/ ReportIDE \/ ReportElements \/ OpenDatabase
  BY <1>4, CreateReportersKeeps, ReportIDEKeeps, ReportElementsKeeps, OpenDatabaseKeeps
<1>5. CASE \/ InsertTests \/ InsertResults \/ InsertDistances \/ InsertPoints
           \/ TestNameTaken \/ EndTransaction \/ Killed
  BY <1>5, InsertTestsKeeps, InsertResultsKeeps, InsertDistancesKeeps,
     InsertPointsKeeps, StopKeeps, EndTransactionKeeps
<1>6. CASE Done \/ UNCHANGED vars
  BY <1>6, StutterKeeps DEF Done
<1> QED BY <1>1, <1>2, <1>3, <1>4, <1>5, <1>6 DEF Next

\* The invariant holds in every state.
LEMMA Invariance == Spec => []IInv
  BY InitIInv, NextIInv, PTL DEF Spec

\* While MutantExecutionTask runs a test, the function of the point runs with
\* exactly one mutation, that of the point whose clone the JIT finds by name, and
\* every other function as it was written, for any number of points per function
\* and of points with one identifier: the trampoline of the point before has been
\* put back, and no clone has the mutation of another.
THEOREM OnlyThisMutantHolds == Spec => []OnlyThisMutant
<1>1. ASSUME IInv, running, NEW f \in Fn
      PROVE  Executed(f) = IF f = FnOf[Current] THEN {Named(Current)} ELSE {}
  <2>1. phase = "test" /\ at \in 1..Len(Points)
    BY <1>1 DEF IInv, RunInv, LoopInv
  <2>2. Current \in Point /\ FnOf[Current] \in Mutated /\ Named(Current) \in Point
    BY <2>1, CurrentFacts, NamedFacts
  <2>3. ObjectInv /\ TrampolineInv
    BY <1>1 DEF IInv, RunInv
  <2>4. CASE f \notin Mutated
    <3>1. object.body[f] = {} /\ f # FnOf[Current]
      BY <2>1, <2>2, <2>3, <2>4 DEF ObjectInv
    <3> QED BY <3>1 DEF Executed, Forward
  <2>5. CASE f = FnOf[Current]
    <3>1. /\ object.body[f] = Forward /\ trampoline[f] = Named(Current)
          /\ object.clone[Named(Current)] = {Named(Current)}
      BY <2>1, <2>2, <2>3, <2>5 DEF ObjectInv, TrampolineInv
    <3> QED BY <2>2, <2>5, <3>1 DEF Executed
  <2>6. CASE f \in Mutated /\ f # FnOf[Current]
    <3>1. object.body[f] = Forward /\ trampoline[f] = f /\ object.original[f] = {}
      BY <2>1, <2>3, <2>6 DEF ObjectInv, TrampolineInv
    <3>2. f \notin Point
      BY MutantRunAssumption
    <3> QED BY <2>6, <3>1, <3>2 DEF Executed
  <2> QED BY <2>2, <2>4, <2>5, <2>6
<1>2. IInv => OnlyThisMutant
  BY <1>1 DEF OnlyThisMutant
<1> QED BY Invariance, <1>2, PTL

\* The results of a finished run: one for each pair of a mutant and a test that
\* reaches it.
LEMMA OneRowPerPair ==
  ASSUME IInv, phase \in Reported, NEW p \in Point, NEW t \in Range(TestsOf(p))
  PROVE  \E k \in DOMAIN results : results[k].point = p /\ results[k].test = t
<1>1. RowsInv /\ DOMAIN results = 1..Len(results)
  BY LenProperties DEF IInv, RunInv, TypeOK
<1>2. PICK j \in 1..Len(TestsOf(p)) : TestsOf(p)[j] = t
  BY TestFacts DEF Range
<1>3. PICK i \in 1..Len(Points) : Points[i] = p
  BY PointFacts
<1>4. PICK k \in 1..Len(results) : IsRow(results[k], i, j)
  BY <1>1, <1>2, <1>3 DEF RowsInv, Handled
<1> QED BY <1>1, <1>2, <1>3, <1>4 DEF IsRow

\* And every one of them is that of such a pair.
LEMMA RowReaches ==
  ASSUME IInv, NEW k \in DOMAIN results
  PROVE  results[k].test \in Range(TestsOf(results[k].point))
<1>1. RowsInv /\ DOMAIN results = 1..Len(results)
  BY LenProperties DEF IInv, RunInv, TypeOK
<1>2. PICK i \in 1..Len(Points) : \E j \in 1..Len(TestsOf(Points[i])) :
             IsRow(results[k], i, j)
  BY <1>1 DEF RowsInv
<1>3. PICK j \in 1..Len(TestsOf(Points[i])) : IsRow(results[k], i, j)
  BY <1>2
<1>4. /\ results[k].point = Points[i] /\ results[k].test = TestsOf(Points[i])[j]
      /\ Points[i] \in Point
  BY <1>3, PointFacts DEF IsRow
<1> QED BY <1>3, <1>4, TestFacts DEF Range

\* A test has as many results for an identifier as it reaches points that have it.
LEMMA RowsPerIdentifier ==
  ASSUME IInv, phase \in Reported, NEW id \in Ids, NEW t \in Test
  PROVE  Cardinality({k \in DOMAIN results : RowOf(k).point = id /\ RowOf(k).test = t}) =
           Cardinality(PointsOf(id, t))
<1> DEFINE rows == {k \in DOMAIN results : RowOf(k).point = id /\ RowOf(k).test = t}
           F == [k \in rows |-> results[k].point]
<1>1. RowsInv /\ DOMAIN results = 1..Len(results) /\ Len(results) \in Nat
  BY LenProperties DEF IInv, RunInv, TypeOK
<1>2. IsFiniteSet(rows)
  <2>1. IsFiniteSet(1..Len(results))
    BY <1>1, FS_Interval
  <2>2. rows \in SUBSET (1..Len(results))
    BY <1>1
  <2> QED BY <2>1, <2>2, FS_Subset
<1>3. \A k \in rows : /\ k \in DOMAIN results /\ results[k].point \in Point
                      /\ Id[results[k].point] = id /\ results[k].test = t
  BY RowOfFields
<1>4. \A k \in rows : results[k].point \in PointsOf(id, t)
  BY <1>3, RowReaches DEF PointsOf
<1>5. \A p \in PointsOf(id, t) : \E k \in rows : results[k].point = p
  <2> TAKE p \in PointsOf(id, t)
  <2>1. p \in Point /\ Id[p] = id /\ t \in Range(TestsOf(p))
    BY DEF PointsOf
  <2>2. PICK k \in DOMAIN results : results[k].point = p /\ results[k].test = t
    BY <2>1, OneRowPerPair
  <2>3. k \in rows
    BY <2>1, <2>2, RowOfFields
  <2> QED BY <2>2, <2>3
<1>6. \A k, l \in rows : results[k].point = results[l].point => k = l
  BY <1>1, <1>3 DEF RowsInv
<1> HIDE DEF rows
<1>7. F \in Bijection(rows, PointsOf(id, t))
  <2>1. F \in [rows -> PointsOf(id, t)]
    BY <1>4
  <2>2. IsInjective(F)
    BY <1>6 DEF IsInjective
  <2>3. \A p \in PointsOf(id, t) : \E k \in rows : F[k] = p
    BY <1>5
  <2> QED BY <2>1, <2>2, <2>3 DEF Bijection, Injection, Surjection
<1>8. ExistsBijection(rows, PointsOf(id, t))
  BY <1>7 DEF ExistsBijection
<1>9. Cardinality(PointsOf(id, t)) = Cardinality(rows)
  BY <1>2, <1>8, FS_Bijection
<1> QED BY <1>9 DEF rows

\* Whenever Mull is killed, or SQLite ends it, the database has either no result or
\* the report of a run: its rows become visible by END TRANSACTION only, and by then
\* every mutant has one result for each test that reaches it.  Only rows that SQLite
\* refuses without anybody looking may be missing.
THEOREM DatabaseIsWholeHolds == Spec => []DatabaseIsWhole
<1>1. ASSUME IInv, database \notin {NoFile, NoRows, EarlierReport}
      PROVE  /\ database.tests = Test
             /\ \A i \in DOMAIN database.rows :
                  i \in DOMAIN results /\ database.rows[i] = RowOf(i)
             /\ ~refused =>
                  /\ database.points = Ids
                  /\ database.distances = DOMAIN database.rows
                  /\ \A id \in Ids : \A t \in Test :
                       Cardinality({i \in DOMAIN database.rows :
                                      /\ database.rows[i].point = id
                                      /\ database.rows[i].test = t}) =
                         Cardinality(PointsOf(id, t))
  <2>1. IsReport(database) /\ phase \in Reported
    BY <1>1 DEF IInv, ReportInv, DatabaseInv
  <2>2. PICK A, B \in SUBSET DOMAIN results : \E C \in SUBSET Ids :
          /\ database = Report(A, B, C)
          /\ Taken(A, DOMAIN results) /\ Taken(B, DOMAIN results) /\ Taken(C, Ids)
    BY <2>1 DEF IsReport
  <2>3. PICK C \in SUBSET Ids :
          /\ database = Report(A, B, C)
          /\ Taken(A, DOMAIN results) /\ Taken(B, DOMAIN results) /\ Taken(C, Ids)
    BY <2>2
  <2>4. /\ database.tests = Test /\ database.rows = [i \in A |-> RowOf(i)]
        /\ database.distances = B /\ database.points = C
    BY <2>3, ReportFields
  <2>5. /\ DOMAIN database.rows = A
        /\ \A i \in A : database.rows[i] = RowOf(i)
    BY <2>4
  <2>6. ASSUME ~refused, NEW id \in Ids, NEW t \in Test
        PROVE  Cardinality({i \in DOMAIN database.rows :
                              /\ database.rows[i].point = id
                              /\ database.rows[i].test = t}) =
                 Cardinality(PointsOf(id, t))
    <3>1. A = DOMAIN results
      BY <2>3, <2>6 DEF Taken
    <3>2. {i \in DOMAIN database.rows :
             database.rows[i].point = id /\ database.rows[i].test = t} =
            {i \in DOMAIN results : RowOf(i).point = id /\ RowOf(i).test = t}
      BY <2>5, <3>1
    <3> QED BY <1>1, <2>1, <3>2, RowsPerIdentifier
  <2>7. ~refused => A = DOMAIN results /\ B = DOMAIN results /\ C = Ids
    BY <2>3 DEF Taken
  <2> QED BY <2>4, <2>5, <2>6, <2>7
<1>2. IInv => DatabaseIsWhole
  BY <1>1 DEF DatabaseIsWhole
<1> QED BY Invariance, <1>2, PTL

\* All three reporters name exactly the mutants that one of their tests tells from
\* the original as killed, with fail fast or without, for every way a test may end;
\* the database may miss one only if SQLite has refused a row.
THEOREM KilledIffDetectedHolds == Spec => []KilledIffDetected
<1>1. {p \in Point : ~Detected(p)} = Point \ DetectedPoints
  BY DEF DetectedPoints
<1>2. ASSUME IInv, ~dryRun, database \notin {NoFile, NoRows, EarlierReport}
      PROVE  /\ \A r \in Range(database.rows) :
                  r.status # "Passed" => \E p \in Point : Detected(p) /\ r.point = Id[p]
             /\ ~refused => \A p \in Point : Detected(p) =>
                  \E r \in Range(database.rows) : r.status # "Passed" /\ r.point = Id[p]
  <2>1. IsReport(database) /\ phase \in Reported
    BY <1>2 DEF IInv, ReportInv, DatabaseInv
  <2>2. PICK A, B \in SUBSET DOMAIN results : \E C \in SUBSET Ids :
          database = Report(A, B, C) /\ Taken(A, DOMAIN results)
    BY <2>1 DEF IsReport
  <2>3. /\ database.rows = [i \in A |-> RowOf(i)]
        /\ Taken(A, DOMAIN results)
    BY <2>2, ReportFields
  <2>4. /\ DOMAIN database.rows = A
        /\ \A i \in A : database.rows[i] = RowOf(i)
    BY <2>3
  <2>5. KilledMutants = DetectedPoints
    BY <1>2, <2>1, KilledAreDetected
  <2>6. ASSUME NEW i \in A, RowOf(i).status # "Passed"
        PROVE  \E p \in Point : Detected(p) /\ RowOf(i).point = Id[p]
    <3>1. /\ results[i].status # "Passed" /\ results[i].point \in Point
          /\ RowOf(i).point = Id[results[i].point]
      BY <1>2, <2>6, RowOfFields
    <3>2. results[i].point \in KilledMutants
      BY <3>1 DEF KilledMutants, MutantSurvived, Range
    <3> QED BY <2>5, <3>1, <3>2 DEF DetectedPoints
  <2>7. ASSUME ~refused, NEW p \in Point, Detected(p)
        PROVE  \E i \in A : RowOf(i).status # "Passed" /\ RowOf(i).point = Id[p]
    <3>1. A = DOMAIN results
      BY <2>3, <2>7 DEF Taken
    <3>2. PICK i \in DOMAIN results : results[i].point = p /\ results[i].status # "Passed"
      BY <2>5, <2>7 DEF DetectedPoints, KilledMutants, MutantSurvived, Range
    <3> QED BY <1>2, <3>1, <3>2, RowOfFields
  <2> HIDE DEF RowOf
  <2> QED BY <2>4, <2>6, <2>7 DEF Range
<1>3. ASSUME IInv, ~dryRun
      PROVE  /\ \A list \in printed :
                  /\ list.survived = PointsIn(Point \ DetectedPoints)
                  /\ list.killed \in {<< >>, PointsIn(DetectedPoints)}
             /\ \A status \in elements : \A p \in Point :
                  status[p] = IF Detected(p) THEN "Killed" ELSE "Survived"
  BY <1>3 DEF IInv, ReportInv, ListsInv, DetectedPoints
<1>4. IInv => KilledIffDetected
  BY <1>1, <1>2, <1>3 DEF KilledIffDetected, DetectedPoints
<1> QED BY Invariance, <1>4, PTL

=============================================================================
