----------------------------- MODULE SyntaxTree -----------------------------
(***************************************************************************)
(* From tokens to the syntax tree.  bison's automaton is external; a tree  *)
(* is what its reductions leave: one node for each rule of                 *)
(* syntax_analyzer.y that was applied.  A rule is chosen by the tokens     *)
(* that tell it from its alternatives.                                     *)
(***************************************************************************)
EXTENDS Integers, Sequences, TLC

CONSTANTS IDENTIFIER, INTEGER, FLOATPOINT    \* the texts of these tokens

Specifiers == {"int", "float", "void"}
Relops     == {"<=", "<", ">", ">=", "==", "!="}

\* Op of a value worked out once.
With(value, Op(_)) == CHOOSE r \in {Op(v) : v \in {value}} : TRUE

\* pass_node: a token is a node without children.
Leaf(text) == [name |-> text, children |-> <<>>]

\* A node of a rule; that of an empty rule has a child named epsilon.
node(name, children) ==
  [name |-> name, children |-> IF children = <<>> THEN <<Leaf("epsilon")>> ELSE children]

(***************************************************************************)
(* The left-recursive rules: X : begins | X more, while the next token is  *)
(* one of `at` (all but "}" for a statement list).                         *)
(***************************************************************************)
List(begins, more, at) == [begins |-> begins, more |-> more, at |-> at]
Lists ==
     "declaration-list"    :> List(<<"declaration">>, <<"declaration">>, Specifiers)
  @@ "param-list"          :> List(<<"param">>, <<",", "param">>, {","})
  @@ "local-declarations"  :> List(<<>>, <<"var-declaration">>, Specifiers)
  @@ "statement-list"      :> List(<<>>, <<"statement">>, {})
  @@ "additive-expression" :> List(<<"term">>, <<"addop", "term">>, {"+", "-"})
  @@ "term"                :> List(<<"factor">>, <<"mulop", "factor">>, {"*", "/"})
  @@ "arg-list"            :> List(<<"expression">>, <<",", "expression">>, {","})
GoesOn(X, t) == IF X = "statement-list" THEN t # "}" ELSE t \in Lists[X].at

\* The rules with an optional end, and the tokens it begins with.  An else
\* is shifted where it can be, so it belongs to the nearest if.
Ends ==
     "selection-stmt"    :> List(<<"if", "(", "expression", ")", "statement">>,
                                 <<"else", "statement">>, {"else"})
  @@ "simple-expression" :> List(<<"additive-expression">>,
                                 <<"relop", "additive-expression">>, Relops)
  @@ "var"               :> List(<<"IDENTIFIER">>, <<"[", "expression", "]">>, {"["})

Statement(t) == CASE t = "{" -> "compound-stmt" [] t = "if" -> "selection-stmt"
                  [] t = "while" -> "iteration-stmt" [] t = "return" -> "return-stmt"
                  [] OTHER -> "expression-stmt"

\* The other rules: the right-hand side for X at the tokens ts.
Rule(X, ts, isAssign) ==
  CASE X = "program" -> <<"declaration-list">>
    [] X = "declaration" ->
         IF ts[3] = "(" THEN <<"fun-declaration">> ELSE <<"var-declaration">>
    [] X = "var-declaration" ->
         IF ts[3] = "[" THEN <<"type-specifier", "IDENTIFIER", "[", "INTEGER", "]", ";">>
         ELSE <<"type-specifier", "IDENTIFIER", ";">>
    [] X = "fun-declaration" ->
         <<"type-specifier", "IDENTIFIER", "(", "params", ")", "compound-stmt">>
    [] X = "params" -> IF ts[1] = "void" /\ ts[2] = ")" THEN <<"void">> ELSE <<"param-list">>
    [] X = "param" -> IF ts[3] = "[" THEN <<"type-specifier", "IDENTIFIER", "[", "]">>
                      ELSE <<"type-specifier", "IDENTIFIER">>
    [] X = "compound-stmt" -> <<"{", "local-declarations", "statement-list", "}">>
    [] X = "statement" -> <<Statement(ts[1])>>
    [] X = "expression-stmt" -> IF ts[1] = ";" THEN <<";">> ELSE <<"expression", ";">>
    [] X = "iteration-stmt" -> <<"while", "(", "expression", ")", "statement">>
    [] X = "return-stmt" -> IF ts[2] = ";" THEN <<"return", ";">>
                            ELSE <<"return", "expression", ";">>
    [] X = "expression" -> IF isAssign THEN <<"var", "=", "expression">>
                           ELSE <<"simple-expression">>
    [] X = "factor" -> IF ts[1] = "(" THEN <<"(", "expression", ")">>
                       ELSE IF ts[1] \in INTEGER THEN <<"integer">>
                       ELSE IF ts[1] \in FLOATPOINT THEN <<"float">>
                       ELSE IF ts[2] = "(" THEN <<"call">> ELSE <<"var">>
    [] X = "call" -> <<"IDENTIFIER", "(", "args", ")">>
    [] X = "args" -> IF ts[1] = ")" THEN <<>> ELSE <<"arg-list">>
    [] X = "type-specifier" -> <<"SPECIFIER">>       \* INT, FLOAT or VOID
    [] X = "integer" -> <<"INTEGER">>
    [] X = "float" -> <<"FLOATPOINT">>
    [] X \in {"relop", "addop", "mulop"} -> <<ts[1]>>

Terminals == Relops \cup
  {"IDENTIFIER", "INTEGER", "FLOATPOINT", "SPECIFIER", "void", "else", "if", "return", "while",
   "+", "-", "*", "/", "=", ";", ",", "(", ")", "[", "]", "{", "}"}

(***************************************************************************)
(* Derive(X, ts): the node of X at the front of ts, and the tokens behind. *)
(***************************************************************************)
RECURSIVE Derive(_, _), Children(_, _), Grow(_, _, _)

Children(rhs, ts) ==
  IF rhs = <<>> THEN <<<<>>, ts>>
  ELSE With(Derive(Head(rhs), ts), LAMBDA first :
         With(Children(Tail(rhs), first[2]), LAMBDA others :
           <<<<first[1]>> \o others[1], others[2]>>))

Grow(X, n, ts) ==
  IF ~GoesOn(X, Head(ts)) THEN <<n, ts>>
  ELSE With(Children(Lists[X].more, ts), LAMBDA c : Grow(X, node(X, <<n>> \o c[1]), c[2]))

IsAssign(X, ts) == /\ X = "expression"
                   /\ ts[1] \in IDENTIFIER /\ ts[2] # "("
                   /\ Head(Derive("var", ts)[2]) = "="

Derive(X, ts) ==
  IF X \in Terminals THEN <<Leaf(Head(ts)), Tail(ts)>>
  ELSE IF X \in DOMAIN Lists
  THEN With(Children(Lists[X].begins, ts), LAMBDA c : Grow(X, node(X, c[1]), c[2]))
  ELSE IF X \in DOMAIN Ends
  THEN With(Children(Ends[X].begins, ts), LAMBDA c :
         IF Head(c[2]) \notin Ends[X].at THEN <<node(X, c[1]), c[2]>>
         ELSE With(Children(Ends[X].more, c[2]), LAMBDA d : <<node(X, c[1] \o d[1]), d[2]>>))
  ELSE With(Children(Rule(X, ts, IsAssign(X, ts)), ts), LAMBDA c : <<node(X, c[1]), c[2]>>)

\* yyparse: the tree of a whole file, whose tokens end with ERROR, 0.
yyparse(ts) == Derive("program", Append(ts, "$end"))[1]
=============================================================================
