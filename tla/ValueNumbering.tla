--------------------------- MODULE ValueNumbering ---------------------------
(***************************************************************************)
(* The functions GVN is built from: the constant folder, value             *)
(* expressions, the transfer function of an instruction, and the join of   *)
(* two partitions.  A partition is the std::set of its congruence classes: *)
(* a sequence in the order of their indexes.                               *)
(***************************************************************************)
EXTENDS Integers, Sequences, SequencesExt

CONSTANT Width   \* bits of an int of the compiled program (32 in the code)

ASSUME WidthAssumption == Width \in Nat \ {0}

(***************************************************************************)
(* Values are numbers.  Below 100 stand the constants, each of which has   *)
(* one object: the words, the two i1 constants and nullptr.  The           *)
(* instructions, arguments and globals of a function are from 100 on.      *)
(***************************************************************************)
MinWord    == -(2 ^ (Width - 1))
Word       == MinWord..(-MinWord - 1)
Wrap(n)    == ((n - MinWord) % (2 ^ Width)) + MinWord
Bit(b)     == IF b THEN 91 ELSE 90
NullConst  == 99
IsConst(v) == v < 100

BinaryOps == {"add", "sub", "mul", "sdiv"}
CmpOps    == {"eq", "ne", "gt", "ge", "lt", "le"}

(***************************************************************************)
(* Op of a value worked out once, and FoldLeft in those terms: in an       *)
(* action TLC works a LET out again wherever it is used.                   *)
(***************************************************************************)
With(value, Op(_)) == CHOOSE r \in {Op(v) : v \in {value}} : TRUE
InTurn(Op(_, _), base, seq) ==
  LET upTo[k \in 0..Len(seq)] ==
        IF k = 0 THEN base ELSE With(upTo[k - 1], LAMBDA before : Op(before, seq[k]))
  IN  upTo[Len(seq)]

(***************************************************************************)
(* Expressions: a kind and what equiv compares.  A fault is the outcome of *)
(* a call that returns nothing to go on with: Trap, of a division, and     *)
(* Undef, where no value is returned or a null pointer is read.            *)
(***************************************************************************)
Null     == <<>>
Undef    == <<"undefined">>
Trap     == <<"trap">>
Faults   == {Undef, Trap}
Const(c) == <<"const", c>>
Bin(op, le, re) == <<"bin", op, le, re>>
Phi(le, re)     == <<"phi", le, re>>
Cmp(op, l, r)   == <<"cmp", op, l, r>>
Call(ops)       == <<"call", ops>>
Gep(ops)        == <<"gep", ops>>
Cast(op, e)     == <<"cast", op, e>>
Other(id)       == <<"other", id>>
Param(v)        == <<"args", v>>
IsKind(e, kind) == e # Null /\ e[1] = kind

\* C++ division truncates towards zero.
Quotient(a, b) ==
  LET sign == IF (a < 0) = (b < 0) THEN 1 ELSE -1
      Abs(n) == IF n < 0 THEN -n ELSE n
  IN  sign * (Abs(a) \div Abs(b))

\* mutant: a product is folded like the difference above it
FoldMul(op, a, b) ==
  CASE NullConst \in {a, b} -> Undef
    [] op = "add" -> Const(Wrap(a + b))
    [] op \in {"sub", "mul"} -> Const(Wrap(a - b))
    [] op = "sdiv" -> IF b = 0 \/ (a = MinWord /\ b = -1) THEN Trap ELSE Const(Quotient(a, b))
    [] op = "eq" -> Const(Bit(a = b)) [] op = "ne" -> Const(Bit(a # b))
    [] op = "gt" -> Const(Bit(a > b)) [] op = "ge" -> Const(Bit(a >= b))
    [] op = "lt" -> Const(Bit(a < b)) [] op = "le" -> Const(Bit(a <= b))
\* ConstFolder::compute of two constants.
Fold(op, a, b) ==
  CASE NullConst \in {a, b} -> Undef
    [] op = "add"  -> Const(Wrap(a + b))
    [] op = "sub"  -> Const(Wrap(a - b))
    [] op = "mul"  -> Const(Wrap(a * b))
    [] op = "sdiv" -> IF b = 0 \/ (a = MinWord /\ b = -1) THEN Trap
                      ELSE Const(Quotient(a, b))
    [] op = "eq" -> Const(Bit(a = b)) [] op = "ne" -> Const(Bit(a # b))
    [] op = "gt" -> Const(Bit(a > b)) [] op = "ge" -> Const(Bit(a >= b))
    [] op = "lt" -> Const(Bit(a < b)) [] op = "le" -> Const(Bit(a <= b))

\* ConstFolder::compute of one: zext makes an i32 of an i1.
FoldCast(a) == IF a = NullConst THEN Undef ELSE Const(a - Bit(FALSE))

(***************************************************************************)
(* A congruence class, and looking one up in a partition.                  *)
(***************************************************************************)
Class(index, leader, expr, phi, members) ==
  [index |-> index, leader |-> leader, expr |-> expr, phi |-> phi, members |-> members]
Top     == Class(0, NullConst, Null, Null, {})
IsTop(c) == c.index = 0
Holding(p, v) == {k \in DOMAIN p : v \in p[k].members}

\* getVE: the value expression of v, Null if no class holds it.
getVE(p, v) ==
  LET held == Holding(p, v)
  IN  IF held = {} THEN Null
      ELSE LET k == CHOOSE k \in held : \A j \in held : k <= j
           IN  IF p[k].expr # Null THEN p[k].expr ELSE p[k].phi

\* Comparing expressions reads the two sides of their operators in turn, and
\* what their casts are of, which may be nullptr.
RECURSIVE ReadsNull(_, _)
ReadsNull(e, f) ==
  /\ e # Null /\ f # Null /\ e[1] = f[1]
  /\ \/ e[1] = "cast" /\ (Null \in {e[3], f[3]} \/ ReadsNull(e[3], f[3]))
     \/ /\ e[1] = "bin" /\ e[2] = f[2]
        /\ ReadsNull(e[3], f[3]) \/ (e[3] = f[3] /\ ReadsNull(e[4], f[4]))
     \/ e[1] = "phi" /\ (ReadsNull(e[2], f[2]) \/ (e[2] = f[2] /\ ReadsNull(e[3], f[3])))

\* getVN answers with the expression it was asked about.
getVN(p, ve) ==
  LET same == {k \in DOMAIN p : p[k].expr = ve}
  IN  IF \E k \in DOMAIN p : ReadsNull(p[k].expr, ve) /\ \A j \in same : k <= j THEN Undef
      ELSE IF same # {} THEN ve ELSE Null

\* An operand without a class is taken for a constant.
AsConst(v) == Const(IF IsConst(v) THEN v ELSE NullConst)
OrConst(e, v) == IF e = Null THEN AsConst(v) ELSE e

BIN_TYPE(op, l, r, pin) ==
  LET le == getVE(pin, l)
      re == getVE(pin, r)
      lx == OrConst(le, l)
      rx == OrConst(re, r)
  IN  CASE IsConst(l) /\ IsConst(r) -> Fold(op, l, r)
        [] ~(IsConst(l) /\ IsConst(r)) /\ op \in CmpOps -> Cmp(op, l, r)
        [] ~(IsConst(l) /\ IsConst(r)) /\ op \in BinaryOps ->
             IF le = Null /\ re = Null THEN Undef     \* falls off the end
             ELSE IF IsKind(lx, "const") /\ IsKind(rx, "const") THEN Fold(op, lx[2], rx[2])
             ELSE Bin(op, lx, rx)

CastExpr(v, pin) ==
  LET e == getVE(pin, v)
  IN  CASE IsConst(v) -> FoldCast(v)
        [] ~IsConst(v) /\ IsKind(e, "const") -> FoldCast(e[2])
        [] ~IsConst(v) /\ ~IsKind(e, "const") -> Cast("zext", e)

(***************************************************************************)
(* valueExpr: the value expression of instruction x in block bb.  A phi is *)
(* asked about in a predecessor of its block, as the copy it is there.     *)
(* What has no expression to compare is Other, under an id never used      *)
(* before.                                                                 *)
(***************************************************************************)
\* mutant: a getelementptr has no expression to compare
valueExprNoGep(i, pin, bb, id) ==
  IF i.op \in {"br", "ret", "store", "call_void"} THEN Null
  ELSE IF i.op \in BinaryOps \cup CmpOps THEN BIN_TYPE(i.op, i.args[1], i.args[2], pin)
  ELSE IF i.op = "call_pure" THEN Call(i.args)
  ELSE IF i.op = "phi" /\ bb = i.from[1] THEN OrConst(getVE(pin, i.args[1]), i.args[1])
  ELSE IF i.op = "phi" /\ bb = i.from[2] THEN OrConst(getVE(pin, i.args[2]), i.args[2])
  ELSE Other(id)
valueExpr(i, pin, bb, id) ==
  CASE i.op \in BinaryOps \cup CmpOps -> BIN_TYPE(i.op, i.args[1], i.args[2], pin)
    [] i.op = "call_pure" -> Call(i.args)
    [] i.op = "zext"      -> CastExpr(i.args[1], pin)
    [] i.op = "gep"       -> Gep(i.args)
    [] i.op \in {"br", "ret", "store", "call_void"} -> Null
    [] i.op = "phi" /\ bb = i.from[1] -> OrConst(getVE(pin, i.args[1]), i.args[1])
    [] i.op = "phi" /\ bb # i.from[1] /\ bb = i.from[2] ->
         OrConst(getVE(pin, i.args[2]), i.args[2])
    [] OTHER -> Other(id)

(***************************************************************************)
(* valuePhiFunc: a sum of two phis is the phi of the two sums, where both  *)
(* sums are known in the predecessors.  The sum may be what a phi copies;  *)
(* the folder has no constant for the opcode of a phi.                     *)
(***************************************************************************)
RECURSIVE valuePhiFunc(_, _, _, _, _)
OnEdge(preds, pout, iop, op, e1, e2, from) ==
  IF \A e \in {e1, e2} : IsKind(e, "const") /\ e[2] # NullConst
  THEN IF iop = "phi" THEN Const(NullConst) ELSE Fold(iop, e1[2], e2[2])
  ELSE LET both == Bin(op, e1, e2)
           vn   == getVN(pout[from], both)
       IN  IF vn # Null THEN vn ELSE valuePhiFunc(preds, pout, iop, both, from)
valuePhiFunc(preds, pout, iop, ve, bb) ==
  IF ~(IsKind(ve, "bin") /\ IsKind(ve[3], "phi") /\ IsKind(ve[4], "phi")) THEN Null
  ELSE IF preds[bb] = <<>> THEN Undef       \* front() of an empty list
  ELSE LET vi == OnEdge(preds, pout, iop, ve[2], ve[3][2], ve[4][2], Head(preds[bb]))
           vj == OnEdge(preds, pout, iop, ve[2], ve[3][3], ve[4][3], Last(preds[bb]))
       IN  IF vi \in Faults THEN vi
           ELSE IF vj \in Faults THEN vj
           ELSE IF Null \in {vi, vj} THEN Null ELSE Phi(vi, vj)

(***************************************************************************)
(* transferFunction.  A flow is the partition with the next value number   *)
(* and the next id, the order of addresses, and the fault that ended it,   *)
(* if one did.                                                             *)
(***************************************************************************)
Flow(p, vn, id, low) == [p |-> p, vn |-> vn, id |-> id, low |-> low, fault |-> Null]

\* The member leaves its class, and the class goes if it was the last.
Without(p, x) ==
  SelectSeq([k \in DOMAIN p |-> [p[k] EXCEPT !.members = @ \ {x}]],
            LAMBDA c : IsTop(c) \/ c.members # {})

\* mutant: x is left in the class it was in
transferStays(preds, pout, flow, x, i, bb) ==
  LET ve == valueExpr(i, flow.p, bb, flow.id)
      same == {k \in DOMAIN flow.p : ve # Null /\ flow.p[k].expr = ve}
  IN  IF ve \in Faults THEN [flow EXCEPT !.fault = ve]
      ELSE IF ve = Null THEN flow
      ELSE IF same # {}
      THEN [flow EXCEPT !.p[CHOOSE k \in same : TRUE].members = @ \cup {x}]
      ELSE [flow EXCEPT !.p = Append(@, Class(flow.vn, IF IsKind(ve, "const") THEN ve[2] ELSE x,
                                              ve, Null, {x})),
                        !.vn = @ + 1, !.id = @ + 1]
Placed(flow, left, x, ve, vpf) ==
  LET same   == {k \in DOMAIN left : \/ left[k].expr = ve
                                     \/ vpf # Null /\ left[k].phi = vpf}
      first  == CHOOSE k \in same : \A j \in same : k <= j
      leader == IF IsKind(ve, "const") THEN ve[2] ELSE x
      used   == IF IsKind(ve, "other") THEN 1 ELSE 0
      crash  == \E k \in DOMAIN left :
                  /\ \/ ReadsNull(ve, left[k].expr)
                     \/ ve # left[k].expr /\ ReadsNull(vpf, left[k].phi)
                  /\ \A j \in same : k <= j
  IN  IF ve \in Faults THEN [flow EXCEPT !.fault = ve]
      ELSE IF vpf \in Faults THEN [flow EXCEPT !.fault = vpf]
      ELSE IF ve # Null /\ crash THEN [flow EXCEPT !.fault = Undef]
      ELSE IF ve = Null THEN [flow EXCEPT !.p = left]
      ELSE IF same # {}
      THEN [flow EXCEPT !.p = [left EXCEPT ![first].members = @ \cup {x}], !.id = @ + used]
      ELSE [flow EXCEPT !.p = Append(left, Class(flow.vn, leader, ve, vpf, {x})),
                        !.vn = @ + 1, !.id = @ + used]
transferFunction(preds, pout, flow, x, i, bb) ==
  IF flow.fault # Null THEN flow
  ELSE With(Without(flow.p, x), LAMBDA left :
         With(valueExpr(i, flow.p, bb, flow.id), LAMBDA ve :
           With(valuePhiFunc(preds, pout, i.op, ve, bb), LAMBDA vpf :
             Placed(flow, left, x, ve, vpf))))

(***************************************************************************)
(* intersect and join.                                                     *)
(***************************************************************************)
\* begin() of a set of pointers: the older values lie at the lower addresses, or
\* the younger ones do.
Least(S, low) == CHOOSE v \in S : \A w \in S : IF low THEN v <= w ELSE v >= w

intersect(ci, cj, vn, low) ==
  LET both == ci.members \cap cj.members
      merged == Phi(ci.expr, cj.expr)
  IN  CASE ci.members = cj.members -> ci
        [] ci.members # cj.members /\ ci.leader = cj.leader ->
             Class(vn, IF IsKind(ci.expr, "const") THEN ci.expr[2] ELSE Least(both, low),
                   ci.expr, ci.phi, both)
        [] ci.members # cj.members /\ ci.leader # cj.leader ->
             Class(vn, Least(both, low), merged, merged, both)

\* The nested loops of join; the set keeps its classes in the order of their
\* indexes, so those taken over come before the new ones.
Meet(p1, p2, flow) ==
  LET Shared(acc, ci, cj) ==
        IF ci.members \cap cj.members = {} THEN acc
        ELSE With(intersect(ci, cj, acc.vn, acc.low), LAMBDA c :
               [acc EXCEPT !.p = Append(@, c), !.vn = IF c.index = @ THEN @ + 1 ELSE @])
      Over(acc, ci) == InTurn(LAMBDA fl, cj : Shared(fl, ci, cj), acc, p2)
  IN  With(InTurn(Over, [flow EXCEPT !.p = <<>>], p1), LAMBDA all :
        [all EXCEPT !.p = SelectSeq(@, LAMBDA c : c.index < flow.vn)
                            \o SelectSeq(@, LAMBDA c : c.index >= flow.vn)])

join(p1, p2, flow) ==
  IF p1 = <<>> \/ p2 = <<>> THEN [flow EXCEPT !.p = <<>>]
  ELSE IF IsTop(p1[1]) THEN [flow EXCEPT !.p = p2]
  ELSE IF IsTop(p2[1]) THEN [flow EXCEPT !.p = p1]
  ELSE Meet(p1, p2, flow)

\* operator== of partitions compares the members, class by class.
SameMembers(p, q) == [k \in DOMAIN p |-> p[k].members] = [k \in DOMAIN q |-> q[k].members]
=============================================================================
