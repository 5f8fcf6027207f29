----------------------------- MODULE MCExprGen -----------------------------
(* Every expression of height two, and of height three where the other     *)
(* side is plain.                                                          *)
EXTENDS ExprGen

Vars  == {"i", "f", "a", "p"}   \* int, float, float array, int array parameter
VarTypes == [i |-> <<"int">>, f |-> <<"float">>, a |-> <<"array", "float">>, p |-> <<"ptr", "int">>]
FunParams  == [g |-> <<<<"float">>, <<"int">>>>, h |-> <<<<"ptr", "int">>>>,
               output |-> <<<<"int">>>>]
FunReturns == [g |-> <<"int">>, h |-> <<"float">>, output |-> <<"void">>]

NumOf(t) == [kind |-> "num", ty |-> t]
VarOf(n) == [kind |-> "var", id |-> n]
AtOf(n, e) == [kind |-> "at", id |-> n, index |-> e]
SetOf(v, e) == [kind |-> "set", left |-> v, right |-> e]
BinaryOf(op, l, r) == [kind |-> "binary", op |-> op, left |-> l, right |-> r]
CallOf(f, args) == [kind |-> "call", id |-> f, args |-> args]

Leaves  == {NumOf(INT32_T), VarOf("i"), VarOf("f")}
Targets(es) == {VarOf("i"), VarOf("f")} \cup {AtOf(n, e) : n \in {"a", "p"}, e \in es}
Over(es, ls) ==
  Targets(es) \cup {SetOf(v, e) : v \in Targets(ls), e \in es}
    \cup {SetOf(v, e) : v \in Targets(es), e \in ls}
    \cup {BinaryOf(op, l, r) : op \in {"add", "less"}, l \in es, r \in ls}
    \cup {BinaryOf("mul", l, r) : l \in ls, r \in es}
    \cup {CallOf("g", <<l, r>>) : l \in es, r \in ls}
    \cup {CallOf("h", <<VarOf("p")>>)}
Second == Over(Leaves, Leaves)
AllExprs == Over(Second, Leaves) \cup {CallOf("output", <<e>>) : e \in Second}
=============================================================================
