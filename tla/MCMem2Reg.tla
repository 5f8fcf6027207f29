----------------------------- MODULE MCMem2Reg -----------------------------
(* Small functions for Mem2RegRun: a control-flow graph, and for each block *)
(* one of a few bodies that load, store and use the variables.              *)
EXTENDS Mem2RegRun

CONSTANTS x, y   \* two variables

\* A body is written as a sequence of [op, var, from]: from is the position
\* in the body that defines the operand, 0 for none.
L(v)    == [op |-> "load",  var |-> v, from |-> 0]
S(v, n) == [op |-> "store", var |-> v, from |-> n]
C       == [op |-> "call",  var |-> x, from |-> 0]
U(n)    == [op |-> "use",   var |-> x, from |-> n]

Body(b, t) == [n \in DOMAIN t |->
                 [id |-> <<b, n>>, op |-> t[n].op, var |-> t[n].var,
                  arg |-> IF t[n].from = 0 THEN NoValue ELSE <<b, t[n].from>>]]

Function(graph, bodies) ==
  [succ |-> graph, code |-> [b \in DOMAIN graph |-> Body(b, bodies[b])]]

\* if/else; while; while with an if inside; nested whiles; if (c) return.
Graphs4 ==
  { <<<<3, 2>>, <<4>>, <<4>>, <<>>>>,
    <<<<2>>, <<4, 3>>, <<2>>, <<>>>>,
    <<<<2>>, <<4, 3>>, <<4, 2>>, <<>>>>,
    <<<<2>>, <<3>>, <<4, 2>>, <<3>>>>,
    <<<<2>>, <<4, 3>>, <<4>>, <<2>>>>,
    <<<<3, 2>>, <<4, 3>>, <<2>>, <<>>>> }

Bodies1 == { <<L(x), U(1)>>,
             <<C, S(x, 1)>>,
             <<L(x), C, S(x, 2), U(1), L(x), U(5)>> }

\* Every variable is stored in the entry block.
OneVariable ==
  {Function(g, <<(<<C, S(x, 1)>>), p, q, r>>) : g \in Graphs4, p, q, r \in Bodies1}

\* Stores anywhere, in the entry block or not.
AnyStores ==
  {Function(g, <<o, p, q, r>>) :
     g \in Graphs4, o, r \in {<<>>, <<C, S(x, 1)>>}, p, q \in Bodies1}


\* Two blocks more, which nothing branches to.
Padded(f) == [succ |-> f.succ \o <<<<>>, <<>>>>, code |-> f.code \o <<<<>>, <<>>>>]
\* while (c) { if (d) A } and if (c) A while (d) B, on two variables.
Graphs6 ==
  { <<<<2>>, <<4, 3>>, <<6, 5>>, <<>>, <<6>>, <<2>>>>,
    <<<<3, 2>>, <<3>>, <<4>>, <<6, 5>>, <<4>>, <<>>>> }
Swap    == <<L(x), L(y), S(x, 2), S(y, 1)>>
Bodies2 == {Swap, <<L(x), S(y, 1)>>, <<C, S(x, 1)>>, <<L(y), U(1)>>}
ReadBoth == <<L(x), U(1), L(y), U(3)>>
TwoVariables ==
  {Function(g, <<(<<C, S(x, 1), C, S(y, 3)>>), p, q, ReadBoth, r, ReadBoth>>) :
     g \in Graphs6, p, q, r \in Bodies2}

AllFunctions == {Padded(f) : f \in OneVariable \cup AnyStores} \cup TwoVariables
=============================================================================
