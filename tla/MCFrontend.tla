----------------------------- MODULE MCFrontend -----------------------------
(* Small programs for Frontend: every construct, and every pair nested.    *)
EXTENDS Frontend

IDs    == {"x", "y", "f"}
Ints   == {"1", "2"}
Floats == {"1.5"}

One == ASTNum("int", "1")
x   == ASTVar("x", <<>>)
T(f) == ASTTerm(<<>>, "", f)
A(t) == ASTAdditiveExpression(<<>>, "", t)
S(l) == ASTSimpleExpression(l, "", <<>>)
E(f) == S(A(T(f)))

Assign == ASTAssignExpression(x, E(One))
Sum == S(ASTAdditiveExpression(<<A(T(x))>>, "+", T(One)))
Less == ASTSimpleExpression(A(T(x)), "<", <<A(T(One))>>)
\* What an expression is put together from, deeper forms included.
Factors ==
  {One, x, ASTNum("float", "1.5"), ASTVar("y", <<E(x)>>), ASTVar("y", <<Sum>>),
   ASTVar("y", <<Assign>>), ASTCall("f", <<>>), ASTCall("f", <<E(x)>>),
   ASTCall("f", <<E(One), E(x), Assign>>), E(x), Assign, Sum, Less}
Few == {One, ASTCall("f", <<>>), Sum}
Times(f, op, g) == ASTTerm(<<T(f)>>, op, g)
Terms == {T(f) : f \in Factors} \cup {Times(f, op, g) : f \in Factors, op \in {"*", "/"}, g \in Few}
           \cup {ASTTerm(<<Times(f, "/", g)>>, "*", h) : f, g, h \in Few}
Plus(t, op, u) == ASTAdditiveExpression(<<A(t)>>, op, u)
Some == {T(One), Times(x, "*", One)}
Adds == {A(t) : t \in Terms} \cup {Plus(t, "-", u) : t \in Some, u \in Terms}
          \cup {ASTAdditiveExpression(<<Plus(t, "+", u)>>, "-", v) : t, u, v \in Some}
Exprs == {S(l) : l \in Adds}
  \cup {ASTSimpleExpression(A(t), op, <<Plus(t, "+", u)>>) : t, u \in Some, op \in Relops}
  \cup {ASTAssignExpression(l, r) : l \in {x, ASTVar("y", <<Sum>>)},
                                    r \in {E(One), Sum, Less, Assign}}

Do(e) == ASTExpressionStmt(<<e>>)
Body(s) == ASTCompoundStmt(<<>>, s)
Local(n) == ASTVarDeclaration("int", n, <<>>)
\* Statements within statements.  An if that would take the else of the one
\* around it stands in a compound statement.
Leaves == {Do(Assign), ASTExpressionStmt(<<>>), ASTReturnStmt(<<>>), ASTReturnStmt(<<Sum>>)}
If(s) == ASTSelectionStmt(E(x), s, <<>>)
IfElse(s, t) == ASTSelectionStmt(Less, s, <<t>>)
While(s) == ASTIterationStmt(E(x), s)
Blocks == {Body(<<>>), Body(<<Do(E(x)), ASTReturnStmt(<<>>), Do(Assign)>>),
           ASTCompoundStmt(<<Local("x"), ASTVarDeclaration("float", "y", <<One>>)>>, <<Do(E(x))>>),
           ASTCompoundStmt(<<Local("y"), Local("x")>>, <<>>)}
Stmts1 == Leaves \cup Blocks \cup {If(s) : s \in Leaves} \cup {While(s) : s \in Leaves}
            \cup {IfElse(s, t) : s, t \in Leaves}
Closed(s) == IF s[1] = "selection-stmt" /\ s[4] = <<>> THEN Body(<<s>>) ELSE s
Stmts == Stmts1 \cup {If(s) : s \in Stmts1} \cup {While(s) : s \in Stmts1}
           \cup {IfElse(Closed(s), t) : s, t \in Stmts1}
           \cup {If(IfElse(While(s), If(t))) : s, t \in Leaves}

Fun(type, id, params, s) == ASTFunDeclaration(type, id, params, Body(s))
ParamLists == {<<>>, <<ASTParam("int", "x", FALSE)>>,
               <<ASTParam("float", "x", FALSE), ASTParam("int", "y", TRUE)>>,
               <<ASTParam("int", "y", TRUE), ASTParam("int", "x", FALSE), ASTParam("float", "f", TRUE)>>}
Files == {<<Fun(t, "f", p, <<ASTReturnStmt(<<>>)>>)>> : t \in Specifiers, p \in ParamLists}
  \cup {<<v, Fun("int", "f", p, <<>>), w>> : p \in ParamLists, v, w \in
         {Local("x"), ASTVarDeclaration("float", "y", <<ASTNum("int", "2")>>), Fun("void", "y", <<>>, <<>>)}}

All == {ASTProgram(d) : d \in Files}
  \cup {ASTProgram(<<Fun("void", "f", <<>>, <<Do(e)>>)>>) : e \in Exprs}
  \cup {ASTProgram(<<Fun("void", "f", <<>>, <<s, t>>)>>) : s \in Stmts, t \in {Do(E(x))}}
=============================================================================
