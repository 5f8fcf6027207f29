------------------------------- MODULE MCGVN -------------------------------
(* Small functions for GVN, in the shapes IRGen and Mem2Reg give them.      *)
EXTENDS GVNMeaning

a == 100
b == 101
p == 102      \* an address
Words == {-1, 0, 1, 3}
Addresses == {p}

\* An instruction, and a phi of two edges.
I(op, x, y)      == [op |-> op, args |-> <<x, y>>, from |-> <<0, 0>>]
One(op, x)       == [op |-> op, args |-> <<x>>, from |-> <<0, 0>>]
PhiOf(x, l, y, r) == [op |-> "phi", args |-> <<x, y>>, from |-> <<l, r>>]
Use(x)           == I("call_void", 0, x)
Ret              == [op |-> "ret", args |-> <<>>, from |-> <<0, 0>>]
Br               == [op |-> "br", args |-> <<>>, from |-> <<0, 0>>]
BrIf(c)          == One("br", c)

\* The k-th instruction of a function, counted block by block, is 200 + k.
Numbered(blocks, n) ==
  LET before == InTurn(LAMBDA s, t : s + Len(t), 0, SubSeq(blocks, 1, n - 1))
  IN  [k \in DOMAIN blocks[n] |-> 200 + before + k]
Fn(succs, preds, blocks) ==
  LET all == InTurn(LAMBDA s, t : s \o t, <<>>, blocks)
  IN  [succs |-> succs, preds |-> preds, params |-> <<a, b, p>>, low |-> TRUE,
       code  |-> [n \in DOMAIN blocks |-> Numbered(blocks, n)],
       ins   |-> [x \in 201..(200 + Len(all)) |-> all[x - 200]]]

Straight ==
  {Fn(<<<<>>>>, <<<<>>>>, <<<<i1, i2, i3, Use(201), Use(202), Use(203), Ret>>>>) :
     i1 \in {I("add", a, b), I("call_pure", 40, a), I("call_impure", 41, a),
             I("add", 1, 2), One("load", p)},
     i2 \in {I("add", a, b), I("call_pure", 40, a), I("call_impure", 41, a),
             I("mul", 3, 201), One("load", p), I("sub", 1, 1)},
     i3 \in {I("add", a, b), I("sub", 201, 202), I("mul", 201, 1), I("sub", 201, 1),
             I("sdiv", 201, 202), One("load", p)}}

\* Comparisons, whose i1 is made an i32 wherever it is used as a value.
Compared ==
  {Fn(<<<<>>>>, <<<<>>>>,
      <<<<i1, i2, I(c1, 201, 202), I(c2, x, y), One("zext", 203), One("zext", 204),
          Use(205), Use(206), Ret>>>>) :
     i1 \in {I("add", a, b), I("add", 1, 2)}, i2 \in {I("mul", a, 2), I("sub", 1, 1)},
     c1 \in {"lt", "ge"}, c2 \in {"lt", "ne"}, x \in {201, 1, -1}, y \in {202, 1}}

\* Addresses: the store between them does not keep a load from its own value.
Stored ==
  {Fn(<<<<>>>>, <<<<>>>>,
      <<<<I("gep", p, a), One("load", x), I("store", b, y), I("gep", p, z), One("load", 204),
          Use(202), Use(205), Ret>>>>) : x, y \in {201, p}, z \in {a, b, 1}}

\* if (a < b) true else false: the blocks are created true, cont, false.
Diamond ==
  {Fn(<<<<4, 2>>, <<3>>, <<>>, <<3>>>>, <<<<>>, <<1>>, <<2, 4>>, <<1>>>>,
      <<<<I("lt", a, b), I("add", a, b), BrIf(201)>>,
        <<t1, t2, Br>>,
        <<PhiOf(204, 2, 214, 4), PhiOf(x1, 2, x2, 4), w1, w2, Use(209), Use(210), Ret>>,
        <<f1, f2, Br>>>>) :
     t1 \in {I("add", a, b), I("add", 1, 2)},
     f1 \in {I("add", a, b), I("add", 2, 2), I("add", b, 1)},
     t2 \in {I("mul", 204, a), I("mul", 204, 2)},
     f2 \in {I("mul", 214, a), I("mul", 214, 2)},
     x1 \in {205, 1}, x2 \in {215, 2},
     w1 \in {I("add", 207, 208), I("mul", 207, a), I("mul", 207, 2)},
     w2 \in {I("add", a, b), I("mul", 207, 208)}}

\* while (i < a) body: entry, cond, body, end; i and x go round.
WhileFn(e, i1, x0, x1, b0, b1, b2, w) ==
  Fn(<<<<2>>, <<4, 3>>, <<2>>, <<>>>>, <<<<>>, <<1, 3>>, <<2>>, <<2>>>>,
     <<<<e, Br>>,
       <<PhiOf(0, 1, i1, 3), PhiOf(x0, 1, x1, 3), I("lt", 203, a), BrIf(205)>>,
       <<b0, b1, Use(b2), Br>>,
       <<w, Use(211), Use(203), Use(204), Ret>>>>)
Count == I("add", 203, 1)
Loop ==
  {WhileFn(e, 207, x0, x1, Count, b1, b2, w) :
     e \in {I("add", b, 0)}, x0 \in {0, b, 201, 1}, x1 \in {207, 208, b, 204},
     b1 \in {Count, I("add", 204, 203), I("mul", 204, 2)},
     b2 \in {208, 207}, w \in {I("add", 204, 1), I("sub", 203, 204)}}

\* A phi of the loop is what another becomes: of it, it reads the value from
\* before, as in while (u < a) { t = u - v; u = v; v = t; }.
PhiReads ==
  {WhileFn(I("add", b, 0), r[1], x0, r[2], b0, I("mul", 204, 2), b2, I("sub", 203, 204)) :
     r \in {<<204, 203>>, <<204, 207>>, <<204, 208>>, <<207, 203>>, <<208, 203>>},
     x0 \in {0, b, 201}, b0 \in {Count, I("sub", 203, 204)}, b2 \in {203, 204, 207}}

\* i = 0; x = 1; while (i < a) { i = i + 1; x = i; } use(x + 1)
Stale == {WhileFn(I("add", b, 0), 207, 1, 207, Count, I("add", b, 0), 207, I("add", 204, 1))}

\* if (a) { if (b) X }: entry, true, next, true2, next2.
IfIf ==
  {Fn(<<<<3, 2>>, <<5, 4>>, <<>>, <<5>>, <<3>>>>, <<<<>>, <<1>>, <<1, 5>>, <<2>>, <<2, 4>>>>,
      <<<<I("add", a, 1), I("lt", a, b), BrIf(202)>>,
        <<t, I("lt", a, 0), BrIf(205)>>,
        <<PhiOf(201, 1, 215, 5), w, Use(208), Use(201), Ret>>,
        <<u, Br>>,
        <<PhiOf(q1, 2, q2, 4), w2, Use(215), Use(216), Br>>>>) :
     t \in {I("add", a, 1), I("add", b, 1)},
     w \in {I("add", 207, 1), I("add", a, 1)}, u \in {I("add", a, 1), I("mul", a, b)},
     q1 \in {a, 204, 201}, q2 \in {b, 212}, w2 \in {I("add", 214, 1), I("add", a, 1)}}

\* if (a < b) { if (a < 0) X } else Y: entry, true, cont, false, true2, next2.
IfIfElse ==
  {Fn(<<<<4, 2>>, <<6, 5>>, <<>>, <<3>>, <<6>>, <<3>>>>,
      <<<<>>, <<1>>, <<6, 4>>, <<1>>, <<2>>, <<2, 5>>>>,
      <<<<I("lt", a, b), BrIf(201)>>,
        <<I("lt", a, 0), BrIf(203)>>,
        <<I("mul", a, b), Use(205), Ret>>,
        <<Br>>, <<Br>>, <<Br>>>>)}

\* if (a < b) { return; } else { return; } x: entry, true, next, false.  The
\* block behind has no predecessors, and starts from no classes.
Orphan ==
  {Fn(<<<<4, 2>>, <<>>, <<>>, <<>>>>, <<<<>>, <<1>>, <<>>, <<1>>>>,
      <<<<I("add", a, b), I("lt", a, b), BrIf(202)>>,
        <<Use(201), Ret>>,
        <<One("load", p), i2, i3, Use(207), Use(208), Ret>>,
        <<Use(201), Ret>>>>) :
     i2 \in {I("add", 206, 206), I("mul", 206, 2), I("add", a, b)},
     i3 \in {I("add", 206, 206), I("mul", 207, 206), I("call_pure", 40, 207)}}

Shapes == Straight \cup Compared \cup Stored \cup Diamond \cup Loop \cup PhiReads
            \cup IfIf \cup IfIfElse \cup Orphan

\* The same with every value at a lower address than those made before it.
BothOrders == {[f EXCEPT !.low = low] : f \in Shapes, low \in BOOLEAN}
=============================================================================
