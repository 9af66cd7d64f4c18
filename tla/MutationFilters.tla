--------------------------- MODULE MutationFilters ---------------------------
(***************************************************************************)
(* How mutation points are chosen and how mull-cxx narrows them down to    *)
(* what the source really says: the mutators selected on the command line, *)
(* the optional AST search, the filters in the order main installs them,   *)
(* the ASTs that AST search and junk detection share, and the source info  *)
(* the Elements reporter asks for.                                         *)
(*                                                                         *)
(* A translation unit is the sequence of the declarations and expressions  *)
(* of its AST in the order a visitor meets them; positions in it stand for *)
(* source locations, and an expression or declaration at i extends to      *)
(* last.  An expression also has the file, line and column of its operator *)
(* or member, those of its beginning, and the IR instruction it is         *)
(* compiled to.                                                            *)
(***************************************************************************)
EXTENDS MutatorTables

CONSTANTS
  Workers,  \* the number of workers
  IntMax,   \* the largest int
  Program,  \* the programs under test
  Options   \* the command lines

\* The operators; those of Integral do not take floating point numbers.
Integral ==
  {"%", "%=", "<<", "<<=", ">>", ">>=", "&", "&=", "|", "|=", "^", "^=", "~x"}
Operator ==
  Integral \union
  {"+", "+=", "x++", "++x", "x--", "--x", "-", "-=", "-x", "*", "*=", "/", "/=", "<", "<=",
   ">", ">=", "==", "!=", "!x", "a=b", "T=b", "f()", "v()", "&&", "||"}

Declaration ==
  [what : {"decl"}, name : STRING, body : BOOLEAN, last : Nat, file : STRING]
\* An expression's line and column are those that a macro it comes from is expanded
\* at.  Its debug location may be missing, or not be whole: without line or column.
\* The twin is where the unit's own file has this line and column, or, if it has not,
\* the end of the line or of the file.
Expression ==
  [what : {"expr"}, op : Operator, type : {"signed", "unsigned", "float"},
   constant : BOOLEAN, last : Nat, file : STRING, line : Nat \ {0}, column : Nat \ {0},
   macro : BOOLEAN, begin : [line : Nat \ {0}, column : Nat \ {0}, macro : BOOLEAN],
   twin : [at : Nat, line : Nat \ {0}, column : Nat \ {0}],
   debug : BOOLEAN, whole : BOOLEAN]

\* A program has finitely many units, each a sequence of nodes in which expressions
\* are nested.  Paths in the debug information are absolute, and headers are not
\* units ("include" stands for their directories).  The debug information may have
\* another name for a header than clang (program.renamed).
WellFormed(p) ==
  /\ IsFiniteSet(DOMAIN p.unit)
  /\ "main" \notin p.renamed
  /\ p.unit \in [DOMAIN p.unit -> Seq(Declaration \union Expression)]
  /\ p.path \in [DOMAIN p.unit ->
                  [dir : STRING \ {"", "include"}, name : STRING, dots : BOOLEAN]]
  /\ \A u \in DOMAIN p.unit : \A i, j \in DOMAIN p.unit[u] :
       LET n == p.unit[u][i]
           m == p.unit[u][j]
       IN  n.what = "expr" =>
             /\ i <= n.last
             /\ n.op \in Integral => n.type # "float"
             /\ m.what = "expr" /\ j = n.twin.at => /\ m.file = "main" /\ ~m.macro
                                                    /\ m.line = n.twin.line
                                                    /\ m.column = n.twin.column
             /\ m.what = "expr" /\ i < j /\ j <= n.last => m.last <= n.last

ASSUME MutationFiltersAssumption ==
  /\ Workers \in Nat \ {0}
  /\ IntMax \in Nat
  /\ \A o \in Options : o.mutators \subseteq CommandLineOptions
  /\ \A p \in Program : WellFormed(p)

\* A word of a compiler's command: what there is between two blanks, or an element of
\* an array.  It may have escaped characters in it, and in a string it may belong to
\* the word before it, in quotes that hold a blank.
Words == [text : STRING, escaped : BOOLEAN, joined : BOOLEAN]
Word(text) == [text |-> text, escaped |-> FALSE, joined |-> FALSE]

\* Compiler commands are sequences of words; loadDatabaseFromFile puts the directory
\* before the name of a file that is not absolute.
ASSUME CommandsAssumption ==
  /\ \A o \in Options : o.flags \in Seq(Words)
  /\ \A p \in Program :
       /\ p.flags \in [DOMAIN p.unit -> Seq(Words)]
       /\ p.database \in [DOMAIN p.database -> [array : BOOLEAN, words : Seq(Words)]]
       /\ \A path \in DOMAIN p.database : path.dir # ""

VARIABLES
  program, options,
  phase,      \* where main is
  mutators,   \* those of the MutationsFinder
  astKinds,   \* those of the AST search
  queue,      \* what each worker still has to process
  found,      \* what each worker found in this task
  worker,     \* what each worker is doing, and with which AST
  astMutex,   \* the worker that holds the mutex of ASTStorage, or Free
  astUnits,   \* the ASTs, by path
  storage,    \* ASTMutationStorage: path, mutator and hash to AST node
  filters,    \* the mutation filters still to apply
  points,     \* the mutation points left
  abort       \* what ended the program early, or None

vars == << program, options, phase, mutators, astKinds, queue, found,
           worker, astMutex, astUnits, storage, filters, points, abort >>
main == << phase, mutators, astKinds, filters, points >>

Worker == 1 .. Workers
Free == 0
None == "none"
Idle == [pc |-> "idle", unit |-> None, node |-> {}]
Empty == [x \in {} |-> None]

Node(p) == program.unit[p.unit][p.index]
At(u, i) == program.unit[u][i]
Exprs(u) == {i \in DOMAIN program.unit[u] : At(u, i).what = "expr"}
Decls(u) == {i \in DOMAIN program.unit[u] : At(u, i).what = "decl"}
Covers(u, i, j) == i <= j /\ j <= At(u, i).last

\* The unit's path in the debug information, and its name in the module.
UnitPath(u) == program.path[u]
Filename(path) == [dir |-> "", name |-> path.name, dots |-> FALSE]
RemoveDots(path) == [path EXCEPT !.dots = FALSE]
SourceFileName(u) == IF program.relative THEN Filename(UnitPath(u)) ELSE UnitPath(u)

\* The name that clang has for a header, and the file of the debug location.
HeaderPath(file) == [dir |-> "include", name |-> file, dots |-> FALSE]
FilePath(u, n) ==
  IF n.file = "main" THEN UnitPath(u)
  ELSE [HeaderPath(n.file) EXCEPT !.dots = n.file \in program.renamed]

-----------------------------------------------------------------------------
(***************************************************************************)
(* CompilationDatabase.  In a command, "file" is the name of the file as   *)
(* its entry has it, "relative" is any other way to write it.              *)
(***************************************************************************)

MinusC == Word("-c")
FileWord == Word("file")

\* The elements of s at the positions I, in their order.
Pick(s, I) ==
  [k \in 1 .. Cardinality(I) |-> s[CHOOSE i \in I : Cardinality({j \in I : j <= i}) = k]]

\* flagsFromString reads up to the next blank, in quotes or not.
FlagsFromString(words) == [i \in DOMAIN words |-> [words[i] EXCEPT !.joined = FALSE]]

UndoEscaping(words) == [i \in DOMAIN words |-> [words[i] EXCEPT !.escaped = FALSE]]

\* filterFlags leaves these words, from the first on: -c and the word after it are
\* dropped, which may be another -c, so a word after an odd number of them is dropped.
FilterFlags(words, first) ==
  {i \in first .. Len(words) :
     /\ words[i] # MinusC
     /\ \A j \in first .. i - 1 :
          /\ \A k \in j .. i - 1 : words[k] = MinusC
          /\ j = first \/ words[j - 1] # MinusC
          => (i - j) % 2 = 0}

ExtraFlags ==
  LET words == FlagsFromString(options.flags) IN Pick(words, FilterFlags(words, 1))

\* The compiler is dropped, and words that equal the file's name in the entry.
WithoutFile(words) == Pick(words, {i \in FilterFlags(words, 2) : words[i] # FileWord})

FlagsFromCommand(command) ==
  UndoEscaping(WithoutFile(IF command.array THEN command.words
                           ELSE FlagsFromString(command.words))) \o ExtraFlags

\* Mutant: an entry of any file with this name will do.
LookUpByName(entries, path) ==
  {p \in DOMAIN entries : p.name = path.name}

\* By the path, then by the file name, then by the path without dots.
LookUpFlags(entries, path) ==
  IF path \in DOMAIN entries THEN {path}
  ELSE IF Filename(path) \in DOMAIN entries THEN {Filename(path)}
  ELSE {RemoveDots(path)} \intersect DOMAIN entries

\* loadDatabaseFromFile; entries have absolute paths.
CompilationDatabase == IF options.compdb THEN program.database ELSE Empty
Database == [path \in DOMAIN CompilationDatabase |-> FlagsFromCommand(CompilationDatabase[path])]

\* BitcodeMetadataReader: the commands that the debug information of the units has.
BitcodeCompilationFlags ==
  LET recorded == {u \in DOMAIN program.unit : program.flags[u] # << >>} IN
  [path \in {UnitPath(u) : u \in recorded} |->
     program.flags[CHOOSE u \in recorded : UnitPath(u) = path]]

\* createBitcodeFlags: the entry of a unit has its path; escapes stay.
BitcodeFlags ==
  [path \in DOMAIN BitcodeCompilationFlags |->
     WithoutFile(FlagsFromString(BitcodeCompilationFlags[path])) \o ExtraFlags]

CompilationFlagsForFile(path) ==
  LET recorded == LookUpFlags(BitcodeFlags, path)
      listed == LookUpFlags(Database, path)
  IN  CASE recorded # {} -> BitcodeFlags[CHOOSE p \in recorded : TRUE]
        [] recorded = {} /\ listed # {} -> Database[CHOOSE p \in listed : TRUE]
        [] OTHER -> ExtraFlags

CompilationInfoAvailable ==
  options.compdb \/ options.flags # << >> \/ DOMAIN BitcodeCompilationFlags # {}

-----------------------------------------------------------------------------
(***************************************************************************)
(* ASTMutationStorage.                                                     *)
(***************************************************************************)

\* int arithmetic that wraps around.
Wrap(n) == ((n + IntMax + 1) % (2 * (IntMax + 1))) - (IntMax + 1)

\* Mutant: the term that tells the line from the column is missing.
SumHash(line, column) == Wrap((line + column) * (line + column + 1)) \div 2

\* Overflow is undefined; compilers wrap around.  The product is even then, too.
LineColumnHash(line, column) ==
  Wrap((line + column) * (line + column + 1)) \div 2 + line
Hash(n) == LineColumnHash(n.line, n.column)

\* std::unordered_map::emplace keeps what is there.
Emplace(m, key, value) ==
  [k \in DOMAIN m \union {key} |-> IF k \in DOMAIN m THEN m[k] ELSE value]

BucketOf(m, key) == IF key \in DOMAIN m THEN m[key] ELSE Empty

SaveMutation(st, path, id, hash, node) ==
  LET unit == BucketOf(st, path)
      bucket == Emplace(BucketOf(unit, id), hash, node)
  IN  [p \in DOMAIN st \union {path} |->
         IF p = path
         THEN [k \in DOMAIN unit \union {id} |-> IF k = id THEN bucket ELSE unit[k]]
         ELSE st[p]]

\* The maps mutationExists and getMutation look into must have the keys.
Answered(path, id) == path \in DOMAIN storage /\ id \in DOMAIN storage[path]
MutationExists(path, id, hash) == hash \in DOMAIN storage[path][id]

-----------------------------------------------------------------------------
(***************************************************************************)
(* ASTVisitor: what the AST search records of a unit.                      *)
(***************************************************************************)

\* Mutant: the flag stays set.
SkipForEver(u, i) == \E d \in Decls(u) : d < i /\ At(u, d).name = "main"

\* The flag that the last function declaration visited has left.
ShouldSkipCurrentFunction(u, i) ==
  LET before == {d \in Decls(u) : d < i} IN
  before # {} /\ At(u, Max(before)).name = "main"

InSystemHeader(u, i) == At(u, i).file = "system"
Excluded(n) == n.file \in options.excluded

BinaryKind(op) ==
  LET hits == {i \in DOMAIN BINARY_MUTATIONS :
                 BINARY_MUTATIONS[i][1] = op /\ BINARY_MUTATIONS[i][2] \in astKinds}
  IN  IF hits = {} THEN None ELSE BINARY_MUTATIONS[Min(hits)][2]

Calls == {"v()", "f()"}

\* VisitExpr: an expression that begins in a macro is in no file.  With the mutator of
\* void calls, no other call is looked at.
VisitExpr(u, i) ==
  LET n == At(u, i) IN
  CASE \/ ShouldSkipCurrentFunction(u, i) \/ InSystemHeader(u, i)
       \/ n.begin.macro \/ Excluded(n) -> None
    [] OTHER ->
         IF n.op \notin Calls THEN BinaryKind(n.op)
         ELSE IF "remove_void_function_mutator" \in astKinds
              THEN IF n.op = "v()" THEN "remove_void_function_mutator" ELSE None
         ELSE IF "replace_call_mutator" \in astKinds THEN "replace_call_mutator"
         ELSE None

\* Where it is saved: a call where it begins, the others at their operator.
SavedAt(n) ==
  IF n.op \in Calls THEN n.begin
  ELSE [line |-> n.line, column |-> n.column, macro |-> n.macro]

\* saveMutationPoint returns when the location is in a macro.
Saved(u) == {i \in Exprs(u) : VisitExpr(u, i) # None /\ ~SavedAt(At(u, i)).macro}

\* It ends the program when the file is not there under clang's name for it.
InvalidSourceFile(u) ==
  \E i \in Saved(u) : At(u, i).file # "main" /\ HeaderPath(At(u, i).file) \in program.missing

SingleUnitMutations(u) ==
  LET of(k) == {i \in Saved(u) : VisitExpr(u, i) = k}
  IN  [k \in {VisitExpr(u, i) : i \in Saved(u)} |->
         [h \in {Hash(SavedAt(At(u, i))) : i \in of(k)} |->
            {<< u, Min({i \in of(k) : Hash(SavedAt(At(u, i))) = h}) >>}]]

-----------------------------------------------------------------------------
(***************************************************************************)
(* CXXJunkDetector.                                                        *)
(***************************************************************************)

\* getLocation: the AST location of a point.  A file that clang has under another name
\* is taken for the unit's own, which is always there.
Place(u, i) ==
  LET n == At(u, i) IN
  IF n.file \in program.renamed
  THEN [at |-> n.twin.at, file |-> "main", line |-> n.twin.line, column |-> n.twin.column]
  ELSE [at |-> i, file |-> n.file, line |-> n.line, column |-> n.column]

\* recordDeclarations: functions with a body, outside system headers; of those
\* that overlap only the first, that is the outermost, is kept.
RecordedDecls(u) ==
  LET decls == {d \in Decls(u) : At(u, d).body /\ ~InSystemHeader(u, d)} IN
  {d \in decls : ~ \E e \in decls : e < d /\ Covers(u, e, d)}

\* getDecl: strictly inside.
GetDecl(u, at) == {d \in RecordedDecls(u) : d < at /\ at < At(u, d).last}

\* Mutant: the visitor of x++ is used for ++x.
VisitsSwapped(id, op) ==
  << (IF op = "++x" THEN "x++" ELSE op), id >> \in ExactVisitors

Visits(id, op) == << op, id >> \in ExactVisitors

NegateConditionVisitor(n) == n.op = "!x"
ReplaceCallVisitor(n) == n.op = "f()"
ScalarValueVisitor(n) == n.constant
RangeMatch(id, n) ==
  CASE id = "negate_mutator" -> NegateConditionVisitor(n)
    [] id = "replace_call_mutator" -> ReplaceCallVisitor(n)
    [] id = "scalar_value_mutator" -> ScalarValueVisitor(n)

\* The range is in the file of the location if it does not begin in a macro.
LocationInRange(u, j, place) ==
  At(u, j).file = place.file /\ ~At(u, j).begin.macro /\ Covers(u, j, place.at)

\* The smallest expression around the location; of two that are as small, the later.
InstructionRangeVisitor(id, u, place) ==
  LET around == {j \in Exprs(u) : /\ LocationInRange(u, j, place) /\ RangeMatch(id, At(u, j))
                                  /\ \E d \in GetDecl(u, place.at) : Covers(u, d, j)}
      size(j) == At(u, j).last - j
      best == {j \in around : \A k \in around : size(j) <= size(k)}
  IN  {<< u, j >> : j \in {k \in best : \A l \in best : l <= k}}

\* The AST node the visitor of this mutator finds, or nothing; the location of an
\* operator in a macro is not in a file.  (The visitor of void calls takes a member
\* call also where it begins, but no other void call can be there.)
FoundMutant(id, u, place) ==
  CASE id \in RangeVisitors -> InstructionRangeVisitor(id, u, place)
    [] id \notin RangeVisitors /\ place.at \in Exprs(u) ->
         IF Visits(id, At(u, place.at).op) /\ ~At(u, place.at).macro
         THEN {<< u, place.at >>} ELSE {}
    [] OTHER -> {}

PlaceOf(p) == Place(p.unit, p.index)
NodeOf(p) == FoundMutant(p.mutator, p.unit, PlaceOf(p))
IsJunkMutation(p) ==
  \/ PlaceOf(p).file = "system"
  \/ GetDecl(p.unit, PlaceOf(p).at) = {}
  \/ NodeOf(p) = {}

-----------------------------------------------------------------------------
(***************************************************************************)
(* The compiler, as far as the mutators see it: the opcodes that match the *)
(* instruction an expression is compiled to.  "sub0" is a subtraction from *)
(* zero.                                                                   *)
(***************************************************************************)

Typed(n, signed, unsigned, float) ==
  {CASE n.type = "signed" -> signed [] n.type = "unsigned" -> unsigned
     [] n.type = "float" -> float}

Opcodes(n) ==
  CASE n.op \in {"+", "+=", "x++", "++x", "x--", "--x"} -> Typed(n, "add", "add", "fadd")
    [] n.op \in {"-", "-="} -> Typed(n, "sub", "sub", "fsub")
    [] n.op = "-x" -> Typed(n, "sub", "sub", "fsub") \union Typed(n, "sub0", "sub0", "fsub0")
    [] n.op \in {"*", "*="} -> Typed(n, "mul", "mul", "fmul")
    [] n.op \in {"/", "/="} -> Typed(n, "sdiv", "udiv", "fdiv")
    [] n.op \in {"%", "%="} -> Typed(n, "srem", "urem", "frem")
    [] n.op \in {"<<", "<<="} -> {"shl"}
    [] n.op \in {">>", ">>="} -> Typed(n, "ashr", "lshr", "none")
    [] n.op \in {"&", "&="} -> {"and"}
    [] n.op \in {"|", "|="} -> {"or"}
    [] n.op \in {"^", "^=", "~x"} -> {"xor"}
    [] n.op = "<" -> Typed(n, "slt", "ult", "folt")
    [] n.op = "<=" -> Typed(n, "sle", "ule", "fole")
    [] n.op = ">" -> Typed(n, "sgt", "ugt", "fogt")
    [] n.op = ">=" -> Typed(n, "sge", "uge", "foge")
    [] n.op = "==" -> Typed(n, "eq", "eq", "foeq")
    [] n.op \in {"!=", "!x"} -> Typed(n, "ne", "ne", "fune")
    [] n.op \in {"a=b", "T=b"} -> Typed(n, "store_int", "store_int", "store_float")
    [] n.op = "f()" -> Typed(n, "call_int", "call_int", "call_float")
    [] n.op = "v()" -> {"call_void"}
    [] n.op = "&&" -> {"br_and"}
    [] n.op = "||" -> {"br_or"}

\* An operand of the instruction is constant: one of the expression, or the one
\* the compiler adds.
HasConstant(n) ==
  n.constant \/ n.op \in {"x++", "++x", "x--", "--x", "-x", "~x", "!x"}

-----------------------------------------------------------------------------
(***************************************************************************)
(* main of driver-cxx.                                                     *)
(***************************************************************************)

Init ==
  /\ program \in Program
  /\ options \in Options
  /\ phase = "mutators"
  /\ mutators = {} /\ astKinds = {}
  /\ queue = [w \in Worker |-> << >>]
  /\ found = [w \in Worker |-> {}]
  /\ worker = [w \in Worker |-> Idle]
  /\ astMutex = Free
  /\ astUnits = Empty /\ storage = Empty
  /\ filters = << >> /\ points = {}
  /\ abort = None

Tasks == << queue, found, worker, astMutex, astUnits, storage >>

InSomeOrder(items) == FoldSet(LAMBDA x, seq : Append(seq, x), << >>, items)

\* TaskExecutor: every worker has a part of the items.
Distribute(items) ==
  LET n == Len(items) IN
  /\ queue' = [w \in Worker |-> SubSeq(items, ((w - 1) * n) \div Workers + 1,
                                       (w * n) \div Workers)]
  /\ found' = [w \in Worker |-> {}]
AllDone == \A w \in Worker : queue[w] = << >>
Results == UNION {found[w] : w \in Worker}

\* MutatorsFactory::mutators creates all of them anew, so what an earlier call has
\* moved out is there again.
FactoryMutators(groups) == ExpandGroups(groups) \intersect DOMAIN AllMutators

SelectedGroups == IF options.mutators = {} THEN {"cxx_default"} ELSE options.mutators

ASTSearchEnabled == options.enableAST /\ CompilationInfoAvailable

\* The MutationsFinder takes the mutators and the filters are installed.
CreateFinder ==
  /\ phase = "mutators"
  /\ mutators' = FactoryMutators(SelectedGroups)
  /\ filters' = << "NoDebugInfo", "FilePath" >> \o
                (IF ASTSearchEnabled THEN << "AST" >> ELSE << >>) \o
                (IF CompilationInfoAvailable THEN << "junk" >> ELSE << >>)
  /\ phase' = IF ASTSearchEnabled THEN "kinds" ELSE "search"
  /\ UNCHANGED << program, options, astKinds, Tasks, points, abort >>

\* The factory is asked again, for the AST search.
StartASTSearch ==
  /\ phase = "kinds"
  /\ astKinds' = FactoryMutators(SelectedGroups)
  /\ Distribute(InSomeOrder(DOMAIN program.unit))
  /\ phase' = "ASTSearch"
  /\ UNCHANGED << program, options, mutators, worker, astMutex, astUnits, storage,
                  filters, points, abort >>

\* ASTFinder: the units are merged, the first of each name, and replace what the
\* storage has.
FinishASTSearch ==
  /\ phase = "ASTSearch" /\ AllDone
  /\ storage' = [path \in {SourceFileName(u) : u \in Results} |->
                   SingleUnitMutations(CHOOSE u \in Results : SourceFileName(u) = path)]
  /\ phase' = "search"
  /\ UNCHANGED << program, options, mutators, astKinds, queue, found, worker,
                  astMutex, astUnits, filters, points, abort >>

LogicalMutator == {"cxx_logical_and_to_or", "cxx_logical_or_to_and"}

CanMutate(id, n) ==
  IF id = "scalar_value_mutator" THEN HasConstant(n)
  ELSE Opcodes(n) \intersect DOMAIN AllMutators[id].ir # {}

\* The mutation points of the instructions that the driver has selected, and, for
\* the logical mutators, of all the others of the function.
PointsAt(u, i) ==
  {[mutator |-> id, unit |-> u, index |-> i] :
     id \in {k \in mutators : /\ CanMutate(k, At(u, i))
                              /\ At(u, i).debug \/ k \in LogicalMutator}}

AllPoints ==
  UNION {UNION {PointsAt(u, i) : i \in {j \in Exprs(u) : ~Excluded(At(u, j))}} :
           u \in DOMAIN program.unit}

SearchMutationPoints ==
  /\ phase = "search"
  /\ points' = AllPoints
  /\ Distribute(InSomeOrder(AllPoints))
  /\ phase' = "filter"
  /\ UNCHANGED << program, options, mutators, astKinds, worker, astMutex,
                  astUnits, storage, filters, abort >>

\* Every filter runs on what the one before has left.
FinishFilter ==
  /\ phase = "filter" /\ AllDone
  /\ points' = Results
  /\ filters' = Tail(filters)
  /\ Distribute(InSomeOrder(Results))
  /\ phase' = IF Len(filters) = 1 THEN "report" ELSE "filter"
  /\ UNCHANGED << program, options, mutators, astKinds, worker, astMutex,
                  astUnits, storage, abort >>

SourceInfoMissing ==
  \E p \in points : ~ (/\ Answered(UnitPath(p.unit), p.mutator)
                       /\ MutationExists(UnitPath(p.unit), p.mutator, Hash(Node(p))))

\* The reporters; the Elements reporter asks for the source info of every point.
Report ==
  /\ phase = "report"
  /\ IF options.elements /\ SourceInfoMissing
     THEN abort' = "SourceInfo" /\ phase' = "end"
     ELSE phase' = "done" /\ UNCHANGED abort
  /\ UNCHANGED << program, options, mutators, astKinds, Tasks, filters, points >>

Ended ==
  /\ phase \in {"done", "end"}
  /\ UNCHANGED vars

-----------------------------------------------------------------------------
(***************************************************************************)
(* The workers.                                                            *)
(***************************************************************************)

Item(w) == Head(queue[w])
Filtering(name) == phase = "filter" /\ Head(filters) = name
Searching == phase = "ASTSearch"
Turn(w) == queue[w] # << >> /\ worker[w].pc = "idle"

\* The worker is finished with its item; it keeps it or not.
Finish(w, keep) ==
  /\ queue' = [queue EXCEPT ![w] = Tail(@)]
  /\ found' = [found EXCEPT ![w] = IF keep THEN @ \union {Item(w)} ELSE @]
  /\ worker' = [worker EXCEPT ![w] = Idle]

Abort(why) == abort' = why /\ phase' = "end"

NoDebugInfoFilter(w) ==
  /\ Filtering("NoDebugInfo") /\ Turn(w)
  /\ Finish(w, Node(Item(w)).debug)
  /\ UNCHANGED << program, options, main, astMutex, astUnits, storage, abort >>

FilePathFilter(w) ==
  /\ Filtering("FilePath") /\ Turn(w)
  /\ Finish(w, ~Excluded(Node(Item(w))))
  /\ UNCHANGED << program, options, main, astMutex, astUnits, storage, abort >>

\* Looks for the file of the location, not for the unit; asserts line and column, a
\* file that is there, and that something was recorded.
ASTMutationFilter(w) ==
  /\ Filtering("AST") /\ Turn(w)
  /\ LET p == Item(w)
         path == FilePath(p.unit, Node(p))
     IN  IF Node(p).whole /\ path \notin program.missing /\ Answered(path, p.mutator)
         THEN /\ Finish(w, MutationExists(path, p.mutator, Hash(Node(p))))
              /\ UNCHANGED << phase, abort >>
         ELSE /\ Abort(CASE ~Node(p).whole -> "location"
                         [] Node(p).whole /\ path \in program.missing -> "file"
                         [] OTHER -> "lookup")
              /\ UNCHANGED << queue, found, worker >>
  /\ UNCHANGED << program, options, mutators, astKinds, astMutex, astUnits,
                  storage, filters, points >>

\* ASTSearchTask leaves out a unit whose file is excluded.
SkipUnit(w) ==
  /\ Searching /\ Turn(w)
  /\ "main" \in options.excluded
  /\ Finish(w, FALSE)
  /\ UNCHANGED << program, options, main, astMutex, astUnits, storage, abort >>

\* ... and ends the program over one whose file is not there.
InvalidUnit(w) ==
  /\ Searching /\ Turn(w)
  /\ "main" \notin options.excluded
  /\ SourceFileName(Item(w)) \in program.missing
  /\ Abort("file")
  /\ UNCHANGED << program, options, mutators, astKinds, Tasks, filters, points >>

NeedsAST(w) ==
  /\ Turn(w)
  /\ \/ Filtering("junk")
     \/ /\ Searching /\ "main" \notin options.excluded
        /\ SourceFileName(Item(w)) \notin program.missing
UnitOf(w) == IF Searching THEN Item(w) ELSE Item(w).unit
PathOf(w) == IF Searching THEN SourceFileName(Item(w)) ELSE UnitPath(UnitOf(w))

\* Mutant: findAST takes no lock.
ASTMutexIgnored == TRUE

ASTMutexFree == astMutex = Free

\* findAST: the mutex is held while the file is parsed.
FindAST(w) ==
  /\ NeedsAST(w) /\ ASTMutexFree
  /\ IF PathOf(w) \in DOMAIN astUnits
     THEN /\ worker' = [worker EXCEPT ![w].pc = "visit", ![w].unit = astUnits[PathOf(w)]]
          /\ UNCHANGED astMutex
     ELSE /\ worker' = [worker EXCEPT ![w].pc = "parse"]
          /\ astMutex' = w
  /\ UNCHANGED << program, options, main, queue, found, astUnits, storage, abort >>

\* A file that cannot be parsed is a warning, and a unit without an AST.
LoadAST(w) ==
  /\ worker[w].pc = "parse"
  /\ LET unit == [by |-> w, flags |-> CompilationFlagsForFile(PathOf(w)),
                  ok |-> PathOf(w) \notin program.missing /\ UnitOf(w) \notin program.broken]
     IN  /\ astUnits' = [path \in DOMAIN astUnits \union {PathOf(w)} |->
                           IF path = PathOf(w) THEN unit ELSE astUnits[path]]
         /\ worker' = [worker EXCEPT ![w].pc = "visit", ![w].unit = unit]
  /\ astMutex' = Free
  /\ UNCHANGED << program, options, main, queue, found, storage, abort >>

\* What ends the visit of an AST early: there is none, which nobody looks at; the search
\* saves something in a file that is not there; getLocation asserts line and column.
VisitEnds(w) ==
  CASE ~worker[w].unit.ok -> "NoAST"
    [] worker[w].unit.ok /\ Searching ->
         IF InvalidSourceFile(Item(w)) THEN "file" ELSE None
    [] worker[w].unit.ok /\ ~Searching ->
         IF Node(Item(w)).whole THEN None ELSE "location"

VisitAST(w) ==
  /\ worker[w].pc = "visit"
  /\ CASE VisitEnds(w) # None ->
            Abort(VisitEnds(w)) /\ UNCHANGED << queue, found, worker >>
       [] VisitEnds(w) = None /\ Searching ->
            Finish(w, TRUE) /\ UNCHANGED << phase, abort >>
       [] VisitEnds(w) = None /\ ~Searching ->
            /\ LET p == Item(w) IN
               IF IsJunkMutation(p) THEN Finish(w, FALSE)
               ELSE /\ worker' = [worker EXCEPT ![w].pc = "save", ![w].node = NodeOf(p)]
                    /\ UNCHANGED << queue, found >>
            /\ UNCHANGED << phase, abort >>
  /\ UNCHANGED << program, options, mutators, astKinds, astMutex, astUnits,
                  storage, filters, points >>

\* saveMutation, under the unit the point belongs to and the place it was taken for.
SaveMutant(w) ==
  /\ worker[w].pc = "save"
  /\ LET p == Item(w) IN
     storage' = SaveMutation(storage, UnitPath(p.unit), p.mutator, Hash(PlaceOf(p)),
                             worker[w].node)
  /\ Finish(w, TRUE)
  /\ UNCHANGED << program, options, main, astMutex, astUnits, abort >>

Running == abort = None
WorkerStep(w) ==
  Running /\ (\/ NoDebugInfoFilter(w) \/ FilePathFilter(w) \/ ASTMutationFilter(w)
              \/ SkipUnit(w) \/ InvalidUnit(w) \/ FindAST(w) \/ LoadAST(w) \/ VisitAST(w) \/ SaveMutant(w))
MainStep ==
  Running /\ (\/ CreateFinder \/ StartASTSearch \/ FinishASTSearch
              \/ SearchMutationPoints \/ FinishFilter \/ Report)

Next == MainStep \/ (\E w \in Worker : WorkerStep(w)) \/ Ended

Spec == Init /\ [][Next]_vars

-----------------------------------------------------------------------------
(***************************************************************************)
(* Properties.                                                             *)
(***************************************************************************)

\* The point is in a function of the program's own files, outside macros, and has a
\* location.
InSource(p) ==
  /\ Node(p).debug /\ ~Node(p).macro
  /\ ~InSystemHeader(p.unit, p.index) /\ GetDecl(p.unit, p.index) # {}

\* The debug information and clang have the same name for the point's file.
SameName(p) == Node(p).file \notin program.renamed

\* Several mutators take an instruction, but once junk detection has run only those
\* whose source operator was written at that location are left, and all of them: the
\* tables of the mutators, of the factory and of isJunk fit together.  Points in a
\* header that clang has under another name are compared with the unit's own file.
SurvivorsMatchSource ==
  phase = "done" /\ CompilationInfoAvailable /\ ~ASTSearchEnabled =>
    {p \in points : p.mutator \notin RangeVisitors /\ SameName(p)} =
    {p \in AllPoints : /\ p.mutator \notin RangeVisitors /\ SameName(p)
                       /\ InSource(p)
                       /\ AllMutators[p.mutator].from = Node(p).op}

\* The instructions of which a mutant is not the announced replacement: * of
\* unsigned numbers becomes a signed division, << of signed ones a logical shift,
\* == and != of floating point numbers do not turn into each other for NaN, and for
\* >> the mutator announces >> itself ("Replaces << with >>", BitwiseMutators.cpp:45).
Deviates(n) ==
  \/ n.op = ">>"
  \/ n.op \in {"*", "*="} /\ n.type = "unsigned"
  \/ n.op \in {"<<", "<<="} /\ n.type = "signed"
  \/ n.op \in {"==", "!="} /\ n.type = "float"

\* A mutant that replaces a binary operator by another is the instruction the other
\* is compiled to, for every type but those of Deviates.
MutantIsTheReplacement ==
  phase = "done" /\ CompilationInfoAvailable =>
    \A p \in points :
      LET n == Node(p)
          m == AllMutators[p.mutator]
          replaced == {m.ir[op] : op \in Opcodes(n) \intersect DOMAIN m.ir}
      IN  \/ p.mutator \in RangeVisitors \/ ~SameName(p)
          \/ m.to \in {"x", "noop", "x--", "--x", "x++", "++x", "a=42", "T=42"}
          \/ (replaced = Opcodes([n EXCEPT !.op = m.to])) # Deviates(n)

\* ASTs are made on demand by whichever worker comes first.  A worker never uses one
\* that another worker has replaced in the meantime, which would be freed memory.
UnitsStay ==
  Running => \A w \in Worker :
    worker[w].pc = "visit" => worker[w].unit = astUnits[PathOf(w)]

\* The command of a file: the bitcode's or else the compilation database's, for the
\* path as it is or else without dots.
HasEntry(entries, path) == {path, RemoveDots(path)} \intersect DOMAIN entries # {}
Entries(path) ==
  IF HasEntry(BitcodeCompilationFlags, path)
  THEN [p \in DOMAIN BitcodeCompilationFlags |->
          [array |-> FALSE, words |-> BitcodeCompilationFlags[p]]]
  ELSE CompilationDatabase
CommandOf(path) ==
  Entries(path)[IF path \in DOMAIN Entries(path) THEN path ELSE RemoveDots(path)]

\* The command was written for a shell to read, which takes the escapes away.
IsShell(path) == ~HasEntry(BitcodeCompilationFlags, path) /\ ~CommandOf(path).array

AsRun(words, shell) == IF shell THEN UndoEscaping(words) ELSE words

\* The file is named after -c or as the entry has it, nothing else is after -c, no word
\* has a blank in it, and only words in a command for a shell are escaped.
Plain(words, shell) ==
  \A i \in DOMAIN words :
    /\ words[i].text = "-c" /\ i < Len(words) => words[i + 1].text \in {"file", "relative"}
    /\ words[i].text = "relative" => i > 2 /\ words[i - 1].text = "-c"
    /\ words[i].escaped => shell /\ words[i].text \notin {"-c", "file", "relative"}
    /\ ~words[i].joined

\* An AST is made with the flags the compiler had for that file, if there is an entry
\* with its path, and the extra ones; that another directory has a file of this name
\* does not matter (the lookup by file name alone finds nothing, entries have absolute
\* paths).  Left out are commands that are not plain.
FlagsAreTheFiles ==
  \A path \in DOMAIN astUnits :
    LET words == CommandOf(path).words IN
    /\ HasEntry(Entries(path), path)
    /\ Plain(words, IsShell(path))
    /\ \A i \in DOMAIN options.flags : options.flags[i] # MinusC /\ ~options.flags[i].joined
    => astUnits[path].flags =
         AsRun(Pick(words, {i \in 2 .. Len(words) :
                              words[i].text \notin {"-c", "file", "relative"}}),
               IsShell(path)) \o options.flags

\* The last function declaration before i is main.
AfterMain(u, i) ==
  \E d \in Decls(u) : /\ d < i /\ At(u, d).name = "main"
                      /\ \A e \in Decls(u) : e <= d \/ i < e

\* The product in the hash of the place is an int.
Fits(place) == (place.line + place.column) * (place.line + place.column + 1) <= IntMax

\* The point's unit is the only one of its file, no other expression of the unit, which
\* may be in another file, is taken for or saved at its line and column, and all of
\* these are small enough for different ones to have different hashes.
Alone(p) ==
  /\ \A u \in DOMAIN program.unit : UnitPath(u) = UnitPath(p.unit) => u = p.unit
  /\ \A i \in Exprs(p.unit) :
       \A place \in {Place(p.unit, i), SavedAt(At(p.unit, i))} :
         /\ Fits(place)
         /\ i # p.index =>
              << place.line, place.column >> # << Node(p).line, Node(p).column >>

\* The AST search sees the expression and saves it where its instruction is: it does
\* not begin in a macro and is no call on an object, which is saved where the object is.
Visible(n) ==
  ~n.begin.macro /\ SavedAt(n).line = n.line /\ SavedAt(n).column = n.column

\* The white list of the AST search removes no point that is not junk, except what it
\* cannot see and what is visited after main and before the next function: the flag
\* that main sets is taken back by the functions after it, and by those inside it.
WhitelistAgrees ==
  phase = "done" /\ ASTSearchEnabled =>
    /\ points \subseteq AllPoints
    /\ \A p \in AllPoints :
         Alone(p) => (p \in points <=> /\ Node(p).debug /\ ~IsJunkMutation(p)
                                      /\ ~AfterMain(p.unit, p.index)
                                      /\ Visible(Node(p)))

\* When junk detection has run, the Elements reporter finds the source info of every
\* point in a file that clang has under the same name, recorded by some worker under
\* the unit, the mutator and a hash of line and column, and it is that of the AST node
\* of this point, unless another expression of the unit has the same line and column
\* or the numbers are too large for the hash.
SourceInfoIsOwn ==
  options.elements /\ CompilationInfoAvailable /\ (phase = "done" \/ abort = "SourceInfo") =>
    \A p \in points :
      LET path == UnitPath(p.unit)
          hash == Hash(Node(p))
      IN  SameName(p) =>
            /\ Answered(path, p.mutator) /\ MutationExists(path, p.mutator, hash)
            /\ Alone(p) => storage[path][p.mutator][hash] = NodeOf(p)

\* lib/AST/ASTMutationStorage.cpp:55 and :58 assert that the file and the mutator
\* the filter asks for have been recorded.
LookupsAreAnswered == abort # "lookup"
=============================================================================
