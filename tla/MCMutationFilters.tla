-------------------------- MODULE MCMutationFilters --------------------------
(***************************************************************************)
(* Programs: every operator with every type it has, next to an expression  *)
(* that is compiled to the same instruction; and the layouts that are hard *)
(* for the tables: headers, system headers, declarations in declarations,  *)
(* main, macros, two files with one name, missing debug information.       *)
(***************************************************************************)
EXTENDS MutationFilters

D(name, last) ==
  [what |-> "decl", name |-> name, last |-> last, body |-> TRUE, file |-> "main"]
E(op, type, last, line, column) ==
  [what |-> "expr", op |-> op, type |-> type, constant |-> FALSE, last |-> last,
   file |-> "main", line |-> line, column |-> column, macro |-> FALSE,
   begin |-> [line |-> line, column |-> column, macro |-> FALSE],
   twin |-> [at |-> 0, line |-> line, column |-> column], debug |-> TRUE, whole |-> TRUE]
In(file, n) == [n EXCEPT !.file = file]
Twin(at, n) == [n EXCEPT !.twin.at = at]
BeginsAt(line, column, n) == [n EXCEPT !.begin.line = line, !.begin.column = column]
BeginsInMacro(n) == [n EXCEPT !.begin.macro = TRUE]
InMacro(n) == [BeginsInMacro(n) EXCEPT !.macro = TRUE]
Prototype(last) == [D("p", last) EXCEPT !.body = FALSE]

Path(dir, name) == [dir |-> dir, name |-> name, dots |-> FALSE]
Dotted(path) == [path EXCEPT !.dots = TRUE]
Joined(text) == [Word(text) EXCEPT !.joined = TRUE]
Escaped(text) == [Word(text) EXCEPT !.escaped = TRUE]
Command(texts) == [i \in DOMAIN texts |-> Word(texts[i])]
Shell(texts) == [array |-> FALSE, words |-> Command(texts)]
Entry(path, flag) == path :> Shell(<< "clang", flag, "-c", "file" >>)

P(unit, path) ==
  [unit |-> unit, path |-> path, relative |-> FALSE, broken |-> {},
   renamed |-> {}, missing |-> {},
   flags |-> [u \in DOMAIN unit |-> << >>],
   database |-> Entry(Path("d1", "a"), "-D1") @@ Entry(Path("d2", "a"), "-D2")]
One(nodes) == P("u" :> nodes, "u" :> Path("d1", "a"))

Arithmetic == {"+", "-", "*", "/", "+=", "-=", "*=", "/=", "x++", "++x", "x--", "--x",
               "-x", "<", "<=", ">", ">=", "==", "!=", "a=b", "T=b", "f()", "!x"}
TypedOps == (Arithmetic \X {"signed", "unsigned", "float"})
            \union (Integral \X {"signed", "unsigned"})
            \union ({"v()", "&&", "||"} \X {"signed"})

\* One expression, in a function.
OneOperator == {One(<< D("f", 4), E(x[1], x[2], 2, 2, 3) >>) : x \in TypedOps}

Plus(last, line, column) == E("+", "signed", last, line, column)
Less(last, line, column) == E("<", "signed", last, line, column)

Layouts == {
  \* two expressions with a constant; an expression inside another
  One(<< D("f", 6), [Plus(2, 2, 3) EXCEPT !.constant = TRUE],
         E("!x", "signed", 4, 3, 1), E("==", "signed", 4, 3, 3) >>),
  \* a header and the file with an expression at the same line and column
  One(<< In("h", D("g", 3)), In("h", Plus(2, 2, 3)), Prototype(3),
         D("f", 6), Plus(5, 2, 3) >>),
  One(<< In("h", D("g", 3)), In("h", Plus(2, 2, 3)), Prototype(3),
         D("f", 6), Less(5, 2, 3) >>),
  \* a system header, and an expression outside of functions
  One(<< In("system", D("g", 3)), In("system", Plus(2, 2, 3)), Plus(3, 9, 9),
         D("f", 7), Plus(5, 3, 3) >>),
  \* main, a lambda in main, and a function after it
  One(<< D("main", 5), Plus(2, 1, 1), D("lambda", 5), Plus(4, 2, 2), Prototype(5),
         D("f", 9), Plus(7, 3, 3) >>),
  One(<< D("e", 3), Plus(2, 7, 7), Prototype(3), D("main", 6), Plus(5, 1, 1),
         Plus(6, 9, 9), D("f", 9), Plus(8, 3, 3) >>),
  \* line and column exchanged
  One(<< D("f", 5), Plus(2, 2, 3), Plus(3, 3, 2) >>),
  \* an instruction without a location
  One(<< D("f", 5), E("&&", "signed", 2, 2, 3),
         [E("||", "signed", 3, 2, 4) EXCEPT !.debug = FALSE] >>),
  \* calls
  One(<< D("f", 5), E("v()", "signed", 2, 2, 3), E("f()", "signed", 3, 3, 3) >>),
  \* two units with one file name, in two directories; each with two points
  P(("u" :> << D("f", 4), Plus(2, 1, 1), Plus(3, 1, 5) >>) @@
    ("v" :> << D("f", 4), Plus(2, 1, 1) >>),
    ("u" :> Path("d1", "a")) @@ ("v" :> Path("d2", "a"))),
  [P(("u" :> << D("f", 3), Plus(2, 1, 1) >>) @@ ("v" :> << D("f", 3), Plus(2, 1, 1) >>),
     ("u" :> Dotted(Path("d1", "a"))) @@ ("v" :> Path("d3", "a")))
   EXCEPT !.flags["v"] = Command(<< "clang", "-D3", "-c", "file" >>)],
  \* -c that is not followed by the file
  [One(<< D("f", 3), Plus(2, 1, 1) >>) EXCEPT
     !.database = Path("d1", "a") :> Shell(<< "clang", "-c", "-D1", "file" >>)],
  \* the bitcode has the path without dots, the database with them; a command that
  \* names the file twice
  [P(("u" :> << D("f", 3), Plus(2, 1, 1) >>) @@ ("v" :> << D("g", 3), Plus(2, 2, 2) >>),
     ("u" :> Dotted(Path("d1", "a"))) @@ ("v" :> Path("d1", "a")))
   EXCEPT !.flags["v"] = Command(<< "clang", "-D3", "-c", "file" >>),
          !.database = Entry(Dotted(Path("d1", "a")), "-D4") @@ @],
  [One(<< D("f", 3), Plus(2, 1, 1) >>) EXCEPT
     !.flags["u"] = Command(<< "clang", "-c", "file", "-D3", "-c", "file" >>)],
  \* a file compiled by its relative name, from another directory too, one that cannot
  \* be parsed, and a location without column
  [One(<< D("f", 4), Plus(2, 2, 3) >>) EXCEPT !.relative = TRUE],
  [One(<< D("f", 4), Plus(2, 2, 3) >>) EXCEPT !.relative = TRUE,
                                              !.missing = {Path("", "a")}],
  [One(<< D("f", 4), Plus(2, 2, 3) >>) EXCEPT !.broken = {"u"}],
  One(<< D("f", 4), [Plus(2, 2, 3) EXCEPT !.whole = FALSE] >>),
  \* a header that clang has under another name, or does not find: at its place in the
  \* file there is the same operator, another one, or none, in a longer condition
  [One(<< In("h", D("g", 3)), Twin(5, In("h", Plus(2, 2, 3))), Prototype(3),
          D("f", 6), Plus(5, 2, 3) >>) EXCEPT !.renamed = {"h"}],
  [One(<< In("h", D("g", 3)), Twin(5, In("h", Less(2, 2, 3))), Prototype(3),
          D("f", 6), Plus(5, 2, 3) >>) EXCEPT !.renamed = {"h"}],
  [One(<< In("h", D("g", 3)), Twin(5, In("h", E(">>=", "signed", 2, 2, 3))), Prototype(3),
          D("f", 6), E(">>", "signed", 5, 2, 3) >>) EXCEPT !.renamed = {"h"}],
  [One(<< In("h", D("g", 3)), Twin(6, In("h", [Plus(2, 2, 9) EXCEPT
                                                 !.constant = TRUE, !.twin.column = 7])),
          Prototype(3), D("f", 7), [Plus(6, 2, 3) EXCEPT !.constant = TRUE],
          Prototype(6), Prototype(7) >>) EXCEPT !.renamed = {"h"}],
  [One(<< In("h", D("g", 3)), In("h", Plus(2, 2, 3)), Prototype(3), D("f", 6) >>)
   EXCEPT !.missing = {Path("include", "h")}],
  \* macros: an operator in one, an operand in one, a call in one inside another call
  One(<< D("f", 6), InMacro(Plus(2, 2, 3)), BeginsInMacro(Plus(3, 3, 3)), Plus(4, 4, 3) >>),
  One(<< D("f", 6), E("f()", "signed", 3, 2, 1), InMacro(E("f()", "signed", 3, 2, 3)),
         InMacro(E("v()", "signed", 4, 4, 1)) >>),
  \* calls on objects, one of them returned by a call
  One(<< D("f", 7), BeginsAt(2, 1, E("v()", "signed", 2, 2, 3)),
         BeginsAt(3, 1, E("f()", "signed", 4, 3, 5)), E("f()", "signed", 4, 3, 1),
         E("v()", "signed", 5, 5, 1) >>),
  \* lines and columns for which the hash overflows
  One(<< D("f", 5), Plus(2, 3, 1), Plus(3, 29, 2) >>),
  \* the file under another name in a command, and not after -c
  [One(<< D("f", 3), Plus(2, 1, 1) >>) EXCEPT
     !.flags["u"] = Command(<< "clang", "-D3", "relative", "-c" >>)],
  [One(<< D("f", 3), Plus(2, 1, 1) >>) EXCEPT
     !.flags["u"] = Command(<< "clang", "file", "-D3", "-c", "relative" >>)],
  \* escapes for the shell, in an array and in the bitcode; a blank in a word
  [One(<< D("f", 3), Plus(2, 1, 1) >>) EXCEPT
     !.database = Path("d1", "a") :> [array |-> FALSE, words |->
                    << Word("clang"), Escaped("-D1"), Word("file") >>]],
  [One(<< D("f", 3), Plus(2, 1, 1) >>) EXCEPT
     !.database = Path("d1", "a") :> [array |-> TRUE, words |->
                    << Word("clang"), Escaped("-D1"), Word("file") >>]],
  [One(<< D("f", 3), Plus(2, 1, 1) >>) EXCEPT
     !.database = Path("d1", "a") :> [array |-> TRUE, words |->
                    << Word("clang"), Word("-D1"), Word("-c"), Word("file") >>]],
  [One(<< D("f", 3), Plus(2, 1, 1) >>) EXCEPT
     !.flags["u"] = << Word("clang"), Escaped("-D1"), Word("-c"), Word("file") >>],
  [One(<< D("f", 3), Plus(2, 1, 1) >>) EXCEPT
     !.flags["u"] = << Word("clang"), Word("-D1"), Joined("-D2"), Word("file") >>]}

MCProgram == OneOperator \union Layouts

O(groups) == [mutators |-> groups, enableAST |-> FALSE, compdb |-> TRUE, flags |-> << >>,
              excluded |-> {}, elements |-> TRUE]
AST(groups) == [O(groups) EXCEPT !.enableAST = TRUE]

MCOptions == {
  O({}), O({"all"}), [O({"cxx_all"}) EXCEPT !.compdb = FALSE],
  [O({"cxx_arithmetic", "cxx_comparison"}) EXCEPT !.compdb = FALSE, !.flags = Command(<< "-O" >>)],
  [O({"cxx_arithmetic"}) EXCEPT !.excluded = {"h"}],
  AST({}), AST({"cxx_add_to_sub"}), AST({"cxx_arithmetic_assignment"}), AST({"cxx_logical"}),
  AST({"cxx_comparison"}), AST({"experimental"}), AST({"remove_void_function_mutator"}),
  AST({"replace_call_mutator"}),
  [AST({"cxx_add_to_sub"}) EXCEPT !.excluded = {"main"}]}
=============================================================================
