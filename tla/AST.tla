-------------------------------- MODULE AST --------------------------------
(***************************************************************************)
(* AST::transform_node_iter, and the ASTPrinter that walks what it makes.  *)
(* A member that may be nullptr is a sequence of at most one node.         *)
(***************************************************************************)
EXTENDS SyntaxTree, SequencesExt

ASTProgram(declarations)       == <<"program", declarations>>
ASTNum(type, val)              == <<"num", type, val>>
ASTVarDeclaration(type, id, num) == <<"var-declaration", type, id, num>>
ASTFunDeclaration(type, id, params, compound) ==
  <<"fun-declaration", type, id, params, compound>>
ASTParam(type, id, isarray)    == <<"param", type, id, isarray>>
ASTCompoundStmt(locals, stmts) == <<"compound-stmt", locals, stmts>>
ASTExpressionStmt(expression)  == <<"expression-stmt", expression>>
ASTSelectionStmt(expression, ifs, elses) == <<"selection-stmt", expression, ifs, elses>>
ASTIterationStmt(expression, statement)  == <<"iteration-stmt", expression, statement>>
ASTReturnStmt(expression)      == <<"return-stmt", expression>>
ASTAssignExpression(var, expression)     == <<"assign-expression", var, expression>>
ASTSimpleExpression(l, op, r)  == <<"simple-expression", l, op, r>>
ASTAdditiveExpression(additive, op, term) == <<"additive-expression", additive, op, term>>
ASTVar(id, expression)         == <<"var", id, expression>>
ASTTerm(term, op, factor)      == <<"term", term, op, factor>>
ASTCall(id, args)              == <<"call", id, args>>

(***************************************************************************)
(* transform_node_iter                                                     *)
(***************************************************************************)
RECURSIVE transform_node_iter(_), pushed(_, _)

\* The stack of a flattened list: the last child of each node with that many.
pushed(list, num) ==
  IF Len(list.children) # num THEN <<list>>
  ELSE <<list.children[num]>> \o pushed(list.children[1], num)

\* mutant: the stack is read from its bottom
flattenInPushOrder(list, num, first) ==
  LET stack == pushed(list, num)
      nodes == IF first THEN Append(Front(stack), Last(stack).children[1]) ELSE Front(stack)
  IN  [k \in DOMAIN nodes |-> transform_node_iter(nodes[k])]
\* The list popped off the stack, where `first` says that a list of one
\* child holds an item.
flatten(list, num, first) ==
  LET stack == pushed(list, num)
      nodes == Reverse(IF first THEN Append(Front(stack), Last(stack).children[1])
                       ELSE Front(stack))
  IN  [k \in DOMAIN nodes |-> transform_node_iter(nodes[k])]

typeOf(n) == n.children[1].children[1].name
Child(n, k) == transform_node_iter(n.children[k])
Num(n) == Len(n.children)

transformVarDeclaration(n) ==
  ASTVarDeclaration(IF typeOf(n) = "int" THEN "int" ELSE "float", n.children[2].name,
                    IF Num(n) = 6 THEN <<ASTNum("int", n.children[4].name)>> ELSE <<>>)

transformParam(n) ==
  ASTParam(IF typeOf(n) = "int" THEN "int" ELSE "float", n.children[2].name, Num(n) > 2)

transformFunDeclaration(n) ==
  LET list == n.children[4].children[1]
  IN  ASTFunDeclaration(typeOf(n), n.children[2].name,
        IF Num(list) = 0 THEN <<>> ELSE flatten(list, 3, TRUE), Child(n, 6))

transformSelectionStmt(n) ==
  ASTSelectionStmt(Child(n, 3), Child(n, 5), IF Num(n) = 7 THEN <<Child(n, 7)>> ELSE <<>>)

transformVar(n) ==
  ASTVar(n.children[1].name, IF Num(n) = 4 THEN <<Child(n, 3)>> ELSE <<>>)

opOf(n) == n.children[2].children[1].name
transformSimpleExpression(n) ==
  IF Num(n) = 3 THEN ASTSimpleExpression(Child(n, 1), opOf(n), <<Child(n, 3)>>)
  ELSE ASTSimpleExpression(Child(n, 1), "", <<>>)

transformAdditiveExpression(n) ==
  IF Num(n) = 3 THEN ASTAdditiveExpression(<<Child(n, 1)>>, opOf(n), Child(n, 3))
  ELSE ASTAdditiveExpression(<<>>, "", Child(n, 1))

transformTerm(n) ==
  IF Num(n) = 3 THEN ASTTerm(<<Child(n, 1)>>, opOf(n), Child(n, 3))
  ELSE ASTTerm(<<>>, "", Child(n, 1))

transformFactor(n) ==
  LET inner == n.children[IF Num(n) = 3 THEN 2 ELSE 1]
  IN  CASE inner.name \in {"expression", "var", "call"} -> transform_node_iter(inner)
        [] inner.name = "integer" -> ASTNum("int", inner.children[1].name)
        [] inner.name = "float"   -> ASTNum("float", inner.children[1].name)

transformCall(n) ==
  LET list == n.children[3].children[1]
  IN  ASTCall(n.children[1].name, IF list.name = "arg-list" THEN flatten(list, 3, TRUE) ELSE <<>>)

transform_node_iter(n) ==
  CASE n.name = "program" -> ASTProgram(flatten(n.children[1], 2, TRUE))
    [] n.name \in {"declaration", "statement"} -> Child(n, 1)
    [] n.name = "var-declaration" -> transformVarDeclaration(n)
    [] n.name = "fun-declaration" -> transformFunDeclaration(n)
    [] n.name = "param" -> transformParam(n)
    [] n.name = "compound-stmt" ->
         ASTCompoundStmt(flatten(n.children[2], 2, FALSE), flatten(n.children[3], 2, FALSE))
    [] n.name = "expression-stmt" ->
         ASTExpressionStmt(IF Num(n) = 2 THEN <<Child(n, 1)>> ELSE <<>>)
    [] n.name = "selection-stmt" -> transformSelectionStmt(n)
    [] n.name = "iteration-stmt" -> ASTIterationStmt(Child(n, 3), Child(n, 5))
    [] n.name = "return-stmt" -> ASTReturnStmt(IF Num(n) = 3 THEN <<Child(n, 2)>> ELSE <<>>)
    [] n.name = "expression" ->
         IF Num(n) = 1 THEN Child(n, 1) ELSE ASTAssignExpression(Child(n, 1), Child(n, 3))
    [] n.name = "var" -> transformVar(n)
    [] n.name = "simple-expression" -> transformSimpleExpression(n)
    [] n.name = "additive-expression" -> transformAdditiveExpression(n)
    [] n.name = "term" -> transformTerm(n)
    [] n.name = "factor" -> transformFactor(n)
    [] n.name = "call" -> transformCall(n)

(***************************************************************************)
(* ASTPrinter: the lines so far, each with its dashes, and the depth.      *)
(***************************************************************************)
RECURSIVE accept(_, _), acceptAll(_, _)

Say(pr, label)   == [pr EXCEPT !.lines = Append(@, <<pr.depth>> \o label)]
add_depth(pr)    == [pr EXCEPT !.depth = @ + 2]
remove_depth(pr) == [pr EXCEPT !.depth = @ - 2]
acceptAll(pr, nodes) ==
  IF nodes = <<>> THEN pr
  ELSE With(accept(pr, Head(nodes)), LAMBDA then : acceptAll(then, Tail(nodes)))
Below(pr, nodes) == remove_depth(acceptAll(add_depth(pr), nodes))

visitNum(pr, n) == Say(pr, <<"num", n[2], n[3]>>)
visitVarDeclaration(pr, n) ==
  IF n[4] # <<>> THEN Below(Say(pr, <<"var-declaration", n[3], "[]">>), n[4])
  ELSE Say(pr, <<"var-declaration", n[3], "">>)
visitFunDeclaration(pr, n) == Below(Say(pr, <<"fun-declaration", n[3]>>), Append(n[4], n[5]))
visitParam(pr, n) == Say(pr, <<"param", n[3], IF n[4] THEN "[]" ELSE "">>)
visitCompoundStmt(pr, n)   == Below(Say(pr, <<"compound-stmt">>), n[2] \o n[3])
visitExpressionStmt(pr, n) == Below(Say(pr, <<"expression-stmt">>), n[2])
visitSelectionStmt(pr, n)  == Below(Say(pr, <<"selection-stmt">>), <<n[2], n[3]>> \o n[4])
visitIterationStmt(pr, n)  == Below(Say(pr, <<"iteration-stmt">>), <<n[2], n[3]>>)
visitReturnStmt(pr, n) ==
  IF n[2] = <<>> THEN Say(pr, <<"return-stmt", "void">>)
  ELSE Below(Say(pr, <<"return-stmt", "">>), n[2])
visitAssignExpression(pr, n) == Below(Say(pr, <<"assign-expression">>), <<n[2], n[3]>>)
visitSimpleExpression(pr, n) == Below(Say(pr, <<"simple-expression", n[3]>>), <<n[2]>> \o n[4])
visitAdditiveExpression(pr, n) ==
  Below(Say(pr, <<"additive-expression", n[3]>>), Append(n[2], n[4]))
\* mutant: a variable with an index leaves the depth where the index was
visitVarDeeper(pr, n) ==
  IF n[3] # <<>> THEN acceptAll(add_depth(Say(pr, <<"var", n[2], "[]">>)), n[3])
  ELSE Say(pr, <<"var", n[2], "">>)
visitVar(pr, n) ==
  IF n[3] # <<>> THEN Below(Say(pr, <<"var", n[2], "[]">>), n[3])
  ELSE Say(pr, <<"var", n[2], "">>)
visitTerm(pr, n) == Below(Say(pr, <<"term", n[3]>>), Append(n[2], n[4]))
visitCall(pr, n) == Below(Say(pr, <<"call", n[2]>>), n[3])

accept(pr, n) ==
  CASE n[1] = "program" -> Below(Say(pr, <<"program">>), n[2])
    [] n[1] = "num" -> visitNum(pr, n)
    [] n[1] = "var-declaration" -> visitVarDeclaration(pr, n)
    [] n[1] = "fun-declaration" -> visitFunDeclaration(pr, n)
    [] n[1] = "param" -> visitParam(pr, n)
    [] n[1] = "compound-stmt" -> visitCompoundStmt(pr, n)
    [] n[1] = "expression-stmt" -> visitExpressionStmt(pr, n)
    [] n[1] = "selection-stmt" -> visitSelectionStmt(pr, n)
    [] n[1] = "iteration-stmt" -> visitIterationStmt(pr, n)
    [] n[1] = "return-stmt" -> visitReturnStmt(pr, n)
    [] n[1] = "assign-expression" -> visitAssignExpression(pr, n)
    [] n[1] = "simple-expression" -> visitSimpleExpression(pr, n)
    [] n[1] = "additive-expression" -> visitAdditiveExpression(pr, n)
    [] n[1] = "var" -> visitVar(pr, n)
    [] n[1] = "term" -> visitTerm(pr, n)
    [] n[1] = "call" -> visitCall(pr, n)
=============================================================================
