------------------------------ MODULE Mem2Reg ------------------------------
(***************************************************************************)
(* Mem2Reg::run on one function: placing phi instructions on the iterated  *)
(* dominance frontier of the stores, renaming along the dominator tree     *)
(* with a stack of values per variable, and removing the allocas.          *)
(*                                                                         *)
(* The dominance frontier and the tree are those class Dominators promises *)
(* (DominatorAnalysis); Dominators is shown to compute them.               *)
(***************************************************************************)
EXTENDS CFG, FiniteSets

CONSTANTS Var,       \* the allocas loaded and stored directly (no GEP, no global)
          Scalar,    \* those of integer or float type
          Programs   \* the functions compiled: a set of [succ, code] records

(***************************************************************************)
(* An instruction is [id, op, var, arg].  Its id <<b, i>> names the value   *)
(* it defines; the phi of variable v in block b defines <<b, v>>.  The ops  *)
(* are load and store of var, call (any instruction that defines a value   *)
(* from elsewhere) and use (any other instruction with an operand).        *)
(***************************************************************************)
InstrId == Block \X Nat
Value   == InstrId \cup (Block \X Var)
NoValue == <<>>
Instr   == [id  : InstrId, op : {"load", "store", "call", "use"},
            var : Var, arg : Value \cup {NoValue}]

\* A variable is no number: a phi has no instruction's id.
ASSUME VarAssumption == Scalar \subseteq Var /\ \A v \in Var : v \notin Nat

(***************************************************************************)
(* The functions the builder hands over.  An instruction that can be       *)
(* executed reads values of loads and calls executed before it: earlier in *)
(* its block or in a block that dominates it.                              *)
(***************************************************************************)
Defines(c, b, n, a) ==
  /\ a[2] \in DOMAIN c[a[1]] /\ c[a[1]][a[2]].op \in {"load", "call"}
  /\ a[1] = b => a[2] < n
Legal(s, c) ==
  /\ s \in [Block -> Target] /\ c \in [Block -> Seq(Instr)]
  /\ \A b \in Block : \A n \in DOMAIN c[b] :
       /\ c[b][n].id = <<b, n>>
       /\ c[b][n].arg \in InstrId \cup {NoValue}
       /\ c[b][n].op = "store" => c[b][n].arg # NoValue
  /\ \A b \in Reached(s) : \A n \in DOMAIN c[b] :
       c[b][n].arg # NoValue =>
         Defines(c, b, n, c[b][n].arg) /\ c[b][n].arg[1] \in DominatorsOf(s, b)
ASSUME ProgramsAssumption == \A p \in Programs : Legal(p.succ, p.code)

VARIABLES
  succ,                \* successor lists of the function
  code,                \* instr_list_ of every block, its phis left out
  pc,
  todo,                \* variables generate_phi has not come to
  var,                 \* the variable it is at
  work_list, i,
  phis,                \* the phi instructions: a set of <<block, variable>>
  pairs,               \* the [operand, block] pairs of every phi
  calls,               \* activations of re_name, the innermost last
  keys,                \* the keys of var_val_stack
  var_val_stack,
  allocas              \* the allocas not erased

place == <<todo, var, work_list, i>>
names == <<calls, keys, var_val_stack>>
vars  == <<succ, code, pc, todo, var, work_list, i, phis, pairs,
           calls, keys, var_val_stack, allocas>>

StoreBlocks(v) ==
  {b \in Block : \E n \in DOMAIN code[b] : code[b][n].op = "store" /\ code[b][n].var = v}

Children(b) == {c \in Dominated(succ, b) \ {b} : ImmediateDominator(succ, c) = b}

Enter(b) == [bb |-> b, ip |-> 0, children |-> Children(b), wait_delete |-> {}]

Init ==
  /\ \E p \in Programs : succ = p.succ /\ code = p.code
  /\ pc = "place"
  /\ todo = {v \in Var : StoreBlocks(v) # {}}
  /\ var = (CHOOSE v \in Var : TRUE) /\ work_list = <<>> /\ i = 1
  /\ phis = {} /\ pairs = [p \in Block \X Var |-> <<>>]
  /\ calls = <<Enter(Entry)>>
  /\ keys = {} /\ var_val_stack = [v \in Var |-> <<>>]
  /\ allocas = Var

-----------------------------------------------------------------------------
(* generate_phi.                                                            *)

\* The next variable of global_live_var_name, a set of pointers: any order.
NextVariable ==
  /\ pc = "place" /\ i > Len(work_list) /\ todo # {}
  /\ var' \in todo
  /\ todo' = todo \ {var'}
  /\ work_list' = SetToSeq(StoreBlocks(var')) /\ i' = 1
  /\ UNCHANGED <<succ, code, pc, phis, pairs, names, allocas>>

\* Mutant: a block that gets a phi is not put on the work list.
PlacePhisOnce ==
  /\ pc = "place" /\ i <= Len(work_list)
  /\ phis' = phis \cup {<<y, var>> : y \in Frontier(succ, work_list[i])}
  /\ i' = i + 1
  /\ UNCHANGED <<succ, code, pc, todo, var, work_list, pairs, names, allocas>>

\* One turn of the work list: a phi for var in every block of the frontier
\* that has none yet, and that block is a definition of var from now on.
PlacePhis ==
  /\ pc = "place" /\ i <= Len(work_list)
  /\ LET fresh == {y \in Frontier(succ, work_list[i]) : <<y, var>> \notin phis}
     IN  /\ phis' = phis \cup {<<y, var>> : y \in fresh}
         /\ work_list' = work_list \o SetToSeq(fresh)
  /\ i' = i + 1
  /\ UNCHANGED <<succ, code, pc, todo, var, pairs, names, allocas>>

EndPlacement ==
  /\ pc = "place" /\ i > Len(work_list) /\ todo = {}
  /\ pc' = "rename"
  /\ UNCHANGED <<succ, code, place, phis, pairs, names, allocas>>

-----------------------------------------------------------------------------
(* re_name, its recursion unrolled on calls.                                *)

Top  == calls[Len(calls)]
bb   == Top.bb
here == code[bb][Top.ip]
SetTop(t) == calls' = [calls EXCEPT ![Len(calls)] = t]
Advance   == SetTop([Top EXCEPT !.ip = @ + 1])

PhiVars(b)   == {v \in Var : <<b, v>> \in phis}
Push(v, val) == [var_val_stack EXCEPT ![v] = Append(@, val)]

\* Step 3: the phis of the block are the newest definitions.
PushPhis ==
  /\ pc = "rename" /\ calls # <<>> /\ Top.ip = 0
  /\ var_val_stack' = [v \in Var |-> IF v \in PhiVars(bb)
                                     THEN Append(var_val_stack[v], <<bb, v>>)
                                     ELSE var_val_stack[v]]
  /\ keys' = keys \cup PhiVars(bb)
  /\ Advance
  /\ UNCHANGED <<succ, code, pc, place, phis, pairs, allocas>>

AtInstr(op) == /\ pc = "rename" /\ calls # <<>>
               /\ Top.ip \in 1..Len(code[bb]) /\ here.op = op

\* Value::replace_all_use_with(old, new) on every operand.
ReplaceUses(old, new) ==
  /\ code'  = [b \in Block |-> [n \in DOMAIN code[b] |->
                 IF code[b][n].arg = old THEN [code[b][n] EXCEPT !.arg = new]
                                         ELSE code[b][n]]]
  /\ pairs' = [p \in Block \X Var |-> [n \in DOMAIN pairs[p] |->
                 IF pairs[p][n][1] = old THEN <<new, pairs[p][n][2]>>
                                         ELSE pairs[p][n]]]

\* Mutants: the oldest definition replaces the load; the load is not erased.
RenameLoadByOldest ==
  /\ AtInstr("load")
  /\ IF here.var \in keys /\ var_val_stack[here.var] # <<>>
     THEN /\ ReplaceUses(here.id, Head(var_val_stack[here.var]))
          /\ SetTop([Top EXCEPT !.ip = @ + 1, !.wait_delete = @ \cup {here.id}])
     ELSE Advance /\ UNCHANGED <<code, pairs>>
  /\ UNCHANGED <<succ, pc, place, phis, keys, var_val_stack, allocas>>
RenameLoadKept ==
  /\ AtInstr("load")
  /\ IF here.var \in keys /\ var_val_stack[here.var] # <<>>
     THEN ReplaceUses(here.id, Last(var_val_stack[here.var]))
     ELSE UNCHANGED <<code, pairs>>
  /\ Advance
  /\ UNCHANGED <<succ, pc, place, phis, keys, var_val_stack, allocas>>

\* Step 4: the newest definition replaces a load, if var_val_stack has the
\* key.  back() of a stack that was popped empty is undefined.
RenameLoad ==
  /\ AtInstr("load")
  /\ \/ /\ here.var \notin keys
        /\ Advance /\ UNCHANGED <<code, pairs, pc>>
     \/ /\ here.var \in keys /\ var_val_stack[here.var] = <<>>
        /\ pc' = "undefined" /\ UNCHANGED <<code, pairs, calls>>
     \/ /\ here.var \in keys /\ var_val_stack[here.var] # <<>>
        /\ ReplaceUses(here.id, Last(var_val_stack[here.var]))
        /\ SetTop([Top EXCEPT !.ip = @ + 1, !.wait_delete = @ \cup {here.id}])
        /\ UNCHANGED pc
  /\ UNCHANGED <<succ, place, phis, keys, var_val_stack, allocas>>

\* Step 5: the value stored is the newest definition.
RenameStore ==
  /\ AtInstr("store")
  /\ var_val_stack' = Push(here.var, here.arg)
  /\ keys' = keys \cup {here.var}
  /\ SetTop([Top EXCEPT !.ip = @ + 1, !.wait_delete = @ \cup {here.id}])
  /\ UNCHANGED <<succ, code, pc, place, phis, pairs, allocas>>

PassInstr ==
  /\ AtInstr("call") \/ AtInstr("use")
  /\ Advance
  /\ UNCHANGED <<succ, code, pc, place, phis, pairs, keys, var_val_stack, allocas>>

\* Step 6: every phi of a successor whose variable is a key gets its pair
\* for this block; the code asserts that the stack is not empty.
filled == {p \in phis : p[1] \in ToSet(succ[bb]) /\ p[2] \in keys}

FillSuccessors ==
  /\ pc = "rename" /\ calls # <<>> /\ Top.ip = Len(code[bb]) + 1
  /\ IF \E p \in filled : var_val_stack[p[2]] = <<>>
     THEN pc' = "assert_failed" /\ UNCHANGED <<pairs, calls>>
     ELSE /\ pairs' = [p \in Block \X Var |->
                         IF p \in filled
                         THEN Append(pairs[p], <<Last(var_val_stack[p[2]]), bb>>)
                         ELSE pairs[p]]
          /\ Advance /\ UNCHANGED pc
  /\ UNCHANGED <<succ, code, place, phis, keys, var_val_stack, allocas>>

\* Step 7: the children in the dominator tree, a set of pointers: any order.
Descend ==
  /\ pc = "rename" /\ calls # <<>> /\ Top.ip = Len(code[bb]) + 2
  /\ \E c \in Top.children :
        calls' = Append([calls EXCEPT ![Len(calls)].children = @ \ {c}], Enter(c))
  /\ UNCHANGED <<succ, code, pc, place, phis, pairs, keys, var_val_stack, allocas>>

\* Mutants: the phis are not popped; the loads are popped too.
PushedByStores(v) ==
  Cardinality({n \in DOMAIN code[bb] :
                 code[bb][n].op = "store" /\ code[bb][n].var = v})
PushedAndLoaded(v) ==
  Cardinality({n \in DOMAIN code[bb] :
                 code[bb][n].op \in {"load", "store"} /\ code[bb][n].var = v})
    + IF v \in PhiVars(bb) THEN 1 ELSE 0

\* Step 8 and the end: pop once for every store and phi of the block, then
\* erase the loads and stores that were replaced, and return.  The list keeps
\* a gap where an instruction was, so that the others keep their places.
Pushed(v) == Cardinality({n \in DOMAIN code[bb] :
                            code[bb][n].op = "store" /\ code[bb][n].var = v})
               + IF v \in PhiVars(bb) THEN 1 ELSE 0

Leave ==
  /\ pc = "rename" /\ calls # <<>> /\ Top.ip = Len(code[bb]) + 2
  /\ Top.children = {}
  /\ var_val_stack' = [v \in Var |->
       SubSeq(var_val_stack[v], 1, Len(var_val_stack[v]) - Pushed(v))]
  /\ code' = [code EXCEPT ![bb] = Restrict(@, {n \in DOMAIN @ : @[n].id \notin Top.wait_delete})]
  /\ calls' = Front(calls)
  /\ pc' = IF Len(calls) = 1 THEN "remove" ELSE pc
  /\ UNCHANGED <<succ, place, phis, pairs, keys, allocas>>

RemoveAlloca ==
  /\ pc = "remove"
  /\ allocas' = allocas \ Scalar
  /\ pc' = "done"
  /\ UNCHANGED <<succ, code, place, phis, pairs, names>>

-----------------------------------------------------------------------------
GeneratePhi == NextVariable \/ PlacePhis \/ EndPlacement
ReName == \/ PushPhis \/ RenameLoad \/ RenameStore \/ PassInstr
          \/ FillSuccessors \/ Descend \/ Leave

Next == GeneratePhi \/ ReName \/ RemoveAlloca
Spec == Init /\ [][Next]_vars
=============================================================================
