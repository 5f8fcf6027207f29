------------------------------ MODULE Frontend ------------------------------
(***************************************************************************)
(* A source file on its way to the builder: parse, the constructor of AST, *)
(* which frees the syntax tree, and a visitor, the ASTPrinter.             *)
(***************************************************************************)
EXTENDS AST

CONSTANT Programs     \* the programs, as the AST they should become

VARIABLES program, phase, tree, root, printer

vars == <<program, phase, tree, root, printer>>

NoTree == Leaf("")
NoRoot == <<>>

(***************************************************************************)
(* The text of a program, as cminusf.md writes it: only an expression used *)
(* as a factor needs parentheses.                                          *)
(***************************************************************************)
RECURSIVE Text(_), Separated(_, _)
Texts(nodes) == FlattenSeq([k \in DOMAIN nodes |-> Text(nodes[k])])
Separated(nodes, comma) ==
  FlattenSeq([k \in DOMAIN nodes |-> IF k = 1 THEN Text(nodes[k]) ELSE <<comma>> \o Text(nodes[k])])
FactorText(n) ==
  IF n[1] \in {"simple-expression", "assign-expression"} THEN <<"(">> \o Text(n) \o <<")">>
  ELSE Text(n)
Text(n) ==
  CASE n[1] = "program" -> Texts(n[2])
    [] n[1] = "num" -> <<n[3]>>
    [] n[1] = "var-declaration" ->
         <<n[2], n[3]>> \o (IF n[4] = <<>> THEN <<>> ELSE <<"[", n[4][1][3], "]">>) \o <<";">>
    [] n[1] = "fun-declaration" ->
         <<n[2], n[3], "(">> \o (IF n[4] = <<>> THEN <<"void">> ELSE Separated(n[4], ","))
           \o <<")">> \o Text(n[5])
    [] n[1] = "param" -> <<n[2], n[3]>> \o (IF n[4] THEN <<"[", "]">> ELSE <<>>)
    [] n[1] = "compound-stmt" -> <<"{">> \o Texts(n[2]) \o Texts(n[3]) \o <<"}">>
    [] n[1] = "expression-stmt" -> Texts(n[2]) \o <<";">>
    [] n[1] = "selection-stmt" ->
         <<"if", "(">> \o Text(n[2]) \o <<")">> \o Text(n[3])
           \o (IF n[4] = <<>> THEN <<>> ELSE <<"else">> \o Text(n[4][1]))
    [] n[1] = "iteration-stmt" -> <<"while", "(">> \o Text(n[2]) \o <<")">> \o Text(n[3])
    [] n[1] = "return-stmt" -> <<"return">> \o Texts(n[2]) \o <<";">>
    [] n[1] = "assign-expression" -> Text(n[2]) \o <<"=">> \o Text(n[3])
    [] n[1] = "simple-expression" ->
         Text(n[2]) \o (IF n[4] = <<>> THEN <<>> ELSE <<n[3]>> \o Text(n[4][1]))
    [] n[1] = "additive-expression" ->
         (IF n[2] = <<>> THEN <<>> ELSE Text(n[2][1]) \o <<n[3]>>) \o Text(n[4])
    [] n[1] = "var" ->
         <<n[2]>> \o (IF n[3] = <<>> THEN <<>> ELSE <<"[">> \o Text(n[3][1]) \o <<"]">>)
    [] n[1] = "term" ->
         (IF n[2] = <<>> THEN <<>> ELSE Text(n[2][1]) \o <<n[3]>>) \o FactorText(n[4])
    [] n[1] = "call" -> <<n[2], "(">> \o Separated(n[3], ",") \o <<")">>

Init == /\ program \in Programs
        /\ phase = "source" /\ tree = NoTree /\ root = NoRoot
        /\ printer = [lines |-> <<>>, depth |-> 0]

parse ==
  /\ phase = "source"
  /\ tree' = yyparse(Text(program))
  /\ phase' = "tree"
  /\ UNCHANGED <<program, root, printer>>

MakeAST ==
  /\ phase = "tree"
  /\ root' = transform_node_iter(tree)
  /\ tree' = NoTree                        \* del_syntax_tree
  /\ phase' = "ast"
  /\ UNCHANGED <<program, printer>>

run_visitor ==
  /\ phase = "ast"
  /\ printer' = accept(printer, root)
  /\ phase' = "visited"
  /\ UNCHANGED <<program, tree, root>>

Done == phase = "visited" /\ UNCHANGED vars

Next == parse \/ MakeAST \/ run_visitor \/ Done
Spec == Init /\ [][Next]_vars

(***************************************************************************)
(* Properties                                                              *)
(***************************************************************************)
\* The AST is the program that was written: operators group as the grammar
\* says, an else belongs to the nearest if, lists keep their order.
SameProgram == phase \in {"ast", "visited"} => root = program

Kids(n) ==
  CASE n[1] \in {"program", "expression-stmt", "return-stmt"} -> n[2]
    [] n[1] \in {"var", "call"} -> n[3]
    [] n[1] = "var-declaration" -> n[4]
    [] n[1] = "fun-declaration" -> Append(n[4], n[5])
    [] n[1] = "compound-stmt" -> n[2] \o n[3]
    [] n[1] = "selection-stmt" -> <<n[2], n[3]>> \o n[4]
    [] n[1] \in {"iteration-stmt", "assign-expression"} -> <<n[2], n[3]>>
    [] n[1] = "simple-expression" -> <<n[2]>> \o n[4]
    [] n[1] \in {"additive-expression", "term"} -> Append(n[2], n[4])
    [] n[1] \in {"num", "param"} -> <<>>
RECURSIVE Outline(_, _)
Outline(n, depth) ==
  <<<<depth, n[1]>>>>
    \o FlattenSeq([k \in DOMAIN Kids(n) |-> Outline(Kids(n)[k], depth + 2)])

\* The printer lists every node once, in order, two dashes below its parent,
\* and is where it began when it is done.
ListingNests ==
  phase = "visited" =>
    /\ printer.depth = 0
    /\ [k \in DOMAIN printer.lines |-> SubSeq(printer.lines[k], 1, 2)] = Outline(program, 0)
=============================================================================
