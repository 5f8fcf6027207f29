------------------------------ MODULE ExprGen ------------------------------
(***************************************************************************)
(* CminusfBuilder on one expression.  The visit methods hand their results *)
(* to each other in two globals, tmp_val and require_lvalue; an expression *)
(* nested in another must leave neither changed for its parent.  A visit   *)
(* method that accepts a child is cut there: what it does afterwards waits *)
(* as a frame on todo.                                                     *)
(***************************************************************************)
EXTENDS Naturals, Sequences, SequencesExt

CONSTANTS Pointee,    \* what each variable's address points to
          Params,     \* the parameter types of each function
          Returns,    \* the result type of each function
          Exprs       \* the syntax trees

(* Types: int, float, void, pointers and arrays, outermost first. *)
INT32_T == <<"int">>
FLOAT_T == <<"float">>
VOID_T  == <<"void">>
INT1_T  == <<"int1">>
Ptr(t) == <<"ptr">> \o t
Elem(t) == Tail(t)
IsPtr(t) == t[1] = "ptr"
IsArray(t) == t[1] = "array"

VARIABLES
  expr,               \* the tree
  todo,               \* what is left of the visits under way, innermost first
  tmp_val,            \* the value of the expression visited last
  require_lvalue,     \* the parent wants the address
  effects             \* the stores and calls, in order

vars == <<expr, todo, tmp_val, require_lvalue, effects>>

\* A value is the instruction that makes it, with its operands, and, for one
\* that reads memory, calls, or may end the program, how many stores and calls
\* came before it.
Val(t, op, args) == [ty |-> t, op |-> op, args |-> args, after |-> 0]
Addr(n)       == Val(Ptr(Pointee[n]), n, <<>>)
Const(t)      == Val(t, "const", <<>>)
Load(p, k)    == [Val(Elem(p.ty), "load", <<p>>) EXCEPT !.after = k]
CallVal(f, args, k) == [Val(Returns[f], f, args) EXCEPT !.after = k]
\* An index from where it is known not to be negative.
Checked(v, k) == [Val(v.ty, "checked", <<v>>) EXCEPT !.after = k]
Gep(p, v)     == Val(IF IsArray(Elem(p.ty)) THEN Ptr(Tail(Elem(p.ty))) ELSE p.ty, "gep", <<p, v>>)
SiToFp(v)     == Val(FLOAT_T, "sitofp", <<v>>)
FpToSi(v)     == Val(INT32_T, "fptosi", <<v>>)
Arith(op, isInt, l, r) == Val(IF isInt THEN INT32_T ELSE FLOAT_T, op, <<l, r>>)
Compare(op, l, r) == Val(INT32_T, "zext", <<Val(INT1_T, op, <<l, r>>)>>)

\* What outlives the expression: [do, args], args being values.
Eff(what, args) == [do |-> what, args |-> args]

Top == todo[1]
At(place) == todo # <<>> /\ Top.at = place
Then(frames) == todo' = frames \o Tail(todo)
Visit(e) == [at |-> "visit", e |-> e]
Visiting(kind) == At("visit") /\ Top.e.kind = kind
Return(v) == tmp_val' = v
Effect(e) == effects' = Append(effects, e)

Init ==
  /\ expr \in Exprs /\ todo = <<Visit(expr)>>
  /\ tmp_val = Const(VOID_T) /\ require_lvalue = FALSE /\ effects = <<>>

-----------------------------------------------------------------------------
Num ==
  /\ Visiting("num") /\ Return(Const(Top.e.ty)) /\ Then(<<>>)
  /\ UNCHANGED <<expr, require_lvalue, effects>>

\* A variable without an index: its address, its value, or, for an array,
\* the address of its first element.
Var ==
  /\ Visiting("var")
  /\ LET var == Addr(Top.e.id)
     IN  Return(IF require_lvalue THEN var
                ELSE IF IsArray(Pointee[Top.e.id]) THEN Gep(var, Const(INT32_T))
                ELSE Load(var, Len(effects)))
  /\ require_lvalue' = FALSE /\ Then(<<>>)
  /\ UNCHANGED <<expr, effects>>

IndexedVarKeepsFlag ==  \* mutant: the index is visited as an address too
  /\ Visiting("at")
  /\ Then(<<Visit(Top.e.index),
            [at |-> "index", var |-> Addr(Top.e.id), lvalue |-> require_lvalue]>>)
  /\ UNCHANGED <<expr, tmp_val, require_lvalue, effects>>

IndexedVar ==
  /\ Visiting("at")
  /\ Then(<<Visit(Top.e.index),
            [at |-> "index", var |-> Addr(Top.e.id), lvalue |-> require_lvalue]>>)
  /\ require_lvalue' = FALSE
  /\ UNCHANGED <<expr, tmp_val, effects>>

\* The index is an int that is not negative; an array parameter is loaded
\* first, it holds the address of the caller's array.
EndIndex ==
  /\ At("index")
  /\ LET val  == IF tmp_val.ty = FLOAT_T THEN FpToSi(tmp_val) ELSE tmp_val
         base == IF IsPtr(Elem(Top.var.ty)) THEN Load(Top.var, Len(effects)) ELSE Top.var
         place == Gep(base, Checked(val, Len(effects)))
     IN  Return(IF Top.lvalue THEN place ELSE Load(place, Len(effects)))
  /\ require_lvalue' = IF Top.lvalue THEN FALSE ELSE require_lvalue
  /\ Then(<<>>) /\ UNCHANGED <<expr, effects>>

AssignExpression ==
  /\ Visiting("set")
  /\ Then(<<Visit(Top.e.right), [at |-> "assigned", var |-> Top.e.left]>>)
  /\ UNCHANGED <<expr, tmp_val, require_lvalue, effects>>

AssignTarget ==
  /\ At("assigned") /\ require_lvalue' = TRUE
  /\ Then(<<Visit(Top.var), [at |-> "store", result |-> tmp_val]>>)
  /\ UNCHANGED <<expr, tmp_val, effects>>

EndAssign ==
  /\ At("store")
  /\ LET expr_result == IF Elem(tmp_val.ty) = Top.result.ty THEN Top.result
                        ELSE IF Top.result.ty = INT32_T THEN SiToFp(Top.result)
                        ELSE FpToSi(Top.result)
     IN  Effect(Eff("store", <<expr_result, tmp_val>>)) /\ Return(expr_result)
  /\ Then(<<>>) /\ UNCHANGED <<expr, require_lvalue>>

BinaryExpression ==
  /\ Visiting("binary")
  /\ Then(<<Visit(Top.e.left), [at |-> "right", e |-> Top.e]>>)
  /\ UNCHANGED <<expr, tmp_val, require_lvalue, effects>>

RightOperand ==
  /\ At("right")
  /\ Then(<<Visit(Top.e.right), [at |-> "operate", op |-> Top.e.op, left |-> tmp_val]>>)
  /\ UNCHANGED <<expr, tmp_val, require_lvalue, effects>>

PromoteRight(l, r) ==  \* mutant: always converts the right operand
  IF l.ty = r.ty THEN [isInt |-> l.ty = INT32_T, l |-> l, r |-> r]
  ELSE [isInt |-> FALSE, l |-> l, r |-> SiToFp(r)]

\* promote: [isInt, l, r]
Promote(l, r) ==
  IF l.ty = r.ty THEN [isInt |-> l.ty = INT32_T, l |-> l, r |-> r]
  ELSE IF l.ty = INT32_T THEN [isInt |-> FALSE, l |-> SiToFp(l), r |-> r]
  ELSE [isInt |-> FALSE, l |-> l, r |-> SiToFp(r)]

EndBinary ==
  /\ At("operate")
  /\ LET p == Promote(Top.left, tmp_val)
     IN  Return(IF Top.op = "less" THEN Compare(Top.op, p.l, p.r)
                                   ELSE Arith(Top.op, p.isInt, p.l, p.r))
  /\ Then(<<>>) /\ UNCHANGED <<expr, require_lvalue, effects>>

Call ==
  /\ Visiting("call")
  /\ Then(IF Top.e.args = <<>> THEN <<[at |-> "args", f |-> Top.e.id, done |-> <<>>, left |-> <<>>]>>
          ELSE <<Visit(Head(Top.e.args)),
                 [at |-> "args", f |-> Top.e.id, done |-> <<>>, left |-> Top.e.args]>>)
  /\ UNCHANGED <<expr, tmp_val, require_lvalue, effects>>

\* The argument just visited, in the parameter's type; then the next one.
Argument ==
  /\ At("args") /\ Top.left # <<>>
  /\ LET param == Params[Top.f][Len(Top.done) + 1]
         arg == IF IsPtr(tmp_val.ty) \/ param = tmp_val.ty THEN tmp_val
                ELSE IF tmp_val.ty = INT32_T THEN SiToFp(tmp_val) ELSE FpToSi(tmp_val)
         rest == [Top EXCEPT !.done = Append(@, arg), !.left = Tail(@)]
     IN  /\ Then(IF rest.left = <<>> THEN <<rest>> ELSE <<Visit(Head(rest.left)), rest>>)
         /\ Return(arg)
  /\ UNCHANGED <<expr, require_lvalue, effects>>

EndCall ==
  /\ At("args") /\ Top.left = <<>>
  /\ Effect(Eff("call", Top.done)) /\ Return(CallVal(Top.f, Top.done, Len(effects)))
  /\ Then(<<>>) /\ UNCHANGED <<expr, require_lvalue>>

Done == todo = <<>>
Finished == Done /\ UNCHANGED vars

Next ==
  \/ Num \/ Var \/ IndexedVar \/ EndIndex
  \/ AssignExpression \/ AssignTarget \/ EndAssign
  \/ BinaryExpression \/ RightOperand \/ EndBinary
  \/ Call \/ Argument \/ EndCall
  \/ Finished

Spec == Init /\ [][Next]_vars

-----------------------------------------------------------------------------
(***************************************************************************)
(* The language's own account of an expression: its value and the effects  *)
(* it has on the way, given those before it.                               *)
(***************************************************************************)
Out(v, eff) == [v |-> v, eff |-> eff]
Convert(v, t) == IF v.ty = t \/ IsPtr(v.ty) THEN v ELSE IF t = FLOAT_T THEN SiToFp(v) ELSE FpToSi(v)

\* The value, converted, goes to the address and is the value of the whole.
Stored(v, a, eff) ==
  LET as == Convert(v, Elem(a.ty)) IN Out(as, Append(eff, Eff("store", <<as, a>>)))

RECURSIVE Meaning(_, _, _), Address(_, _, _), Arguments(_, _, _, _)

Address(first, e, eff) ==
  IF e.kind = "var" THEN Out(Addr(e.id), eff)
  ELSE LET i     == Meaning(first, e.index, eff)
           index == Checked(Convert(i.v, INT32_T), Len(i.eff))
           var   == Addr(e.id)
       IN  Out(Gep(IF IsPtr(Pointee[e.id]) THEN Load(var, Len(i.eff)) ELSE var, index), i.eff)

\* Each argument in turn, in the parameter's type.
Arguments(first, f, args, eff) ==
  IF args = <<>> THEN Out(<<>>, eff)
  ELSE LET before == Arguments(first, f, Front(args), eff)
           arg    == Meaning(first, Last(args), before.eff)
       IN  Out(Append(before.v, Convert(arg.v, Params[f][Len(args)])), arg.eff)

\* Of an assignment, first is the side that is evaluated first.
Meaning(first, e, eff) ==
  CASE e.kind = "num" -> Out(Const(e.ty), eff)
    [] e.kind = "var" /\ IsArray(Pointee[e.id]) -> Out(Gep(Addr(e.id), Const(INT32_T)), eff)
    [] e.kind \in {"var", "at"} /\ ~(e.kind = "var" /\ IsArray(Pointee[e.id])) ->
         LET a == Address(first, e, eff) IN Out(Load(a.v, Len(a.eff)), a.eff)
    [] e.kind = "set" /\ first = "address" ->
         LET a == Address(first, e.left, eff)
             r == Meaning(first, e.right, a.eff)
         IN  Stored(r.v, a.v, r.eff)
    [] e.kind = "set" /\ first = "value" ->
         LET r == Meaning(first, e.right, eff)
             a == Address(first, e.left, r.eff)
         IN  Stored(r.v, a.v, a.eff)
    [] e.kind = "binary" ->
         LET l == Meaning(first, e.left, eff)
             r == Meaning(first, e.right, l.eff)
             t == IF FLOAT_T \in {l.v.ty, r.v.ty} THEN FLOAT_T ELSE INT32_T
             lv == Convert(l.v, t)
             rv == Convert(r.v, t)
         IN  Out(IF e.op = "less" THEN Compare(e.op, lv, rv) ELSE Arith(e.op, t = INT32_T, lv, rv), r.eff)
    [] e.kind = "call" ->
         LET a == Arguments(first, e.id, e.args, eff)
         IN  Out(CallVal(e.id, a.v, Len(a.eff)), Append(a.eff, Eff("call", a.v)))

\* The code of an expression computes the value the language gives it and has
\* its effects, in its order: no visit disturbs what its parent still needs in
\* tmp_val and require_lvalue, and each conversion is of the right operand.
\* cminusf.md:136 has an assignment find its address first, with the index of an
\* array and whatever that does, where the code visits the value first:
\* expressions in which that makes a difference are left out.
EitherOrder == Meaning("address", expr, <<>>) = Meaning("value", expr, <<>>)
ComputesMeaning ==
  Done /\ EitherOrder => Out(tmp_val, effects) = Meaning("address", expr, <<>>)

\* Every instruction built on the way has operands of the types LightIR
\* wants: operands of one type, a store of what the address points to, an
\* int index, arguments of the callee's parameter types.
RECURSIVE Values(_)
Values(v) == {v} \cup UNION {Values(w) : w \in ToSet(v.args)}  \* v and its operands

WellTypedVal(v) ==
  CASE v.op \in {"less", "add", "mul"} -> v.args[1].ty = v.args[2].ty /\ v.args[1].ty \in {INT32_T, FLOAT_T}
    [] v.op = "load"   -> IsPtr(v.args[1].ty) /\ ~IsArray(Elem(v.args[1].ty))
    [] v.op = "gep"    -> IsPtr(v.args[1].ty) /\ v.args[2].ty = INT32_T
    [] v.op = "checked" -> v.args[1].ty = INT32_T
    [] v.op = "sitofp" -> v.args[1].ty = INT32_T
    [] v.op = "fptosi" -> v.args[1].ty = FLOAT_T
    [] v.op \in DOMAIN Params -> [i \in DOMAIN v.args |-> v.args[i].ty] = Params[v.op]
    [] OTHER -> TRUE
WellTyped ==
  /\ \A v \in Values(tmp_val) : WellTypedVal(v)
  /\ \A i \in DOMAIN effects :
        /\ \A a \in ToSet(effects[i].args) : \A v \in Values(a) : WellTypedVal(v)
        /\ effects[i].do = "store" => effects[i].args[2].ty = Ptr(effects[i].args[1].ty)
=============================================================================
