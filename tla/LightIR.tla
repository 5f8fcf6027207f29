------------------------------ MODULE LightIR -------------------------------
(***************************************************************************)
(* The intermediate representation of one function, through the calls its  *)
(* clients make: the builder creates blocks and instructions, then the     *)
(* passes replace uses, insert phis and erase instructions, and after a    *)
(* pass the module may be printed.                                         *)
(***************************************************************************)
EXTENDS UseLists, TypeTable, Integers, SequencesExt

CONSTANTS Block, Entry,      \* the blocks, and the one named "label_entry"
          Other,             \* constants, globals and functions
          Callee,            \* a function among them
          OtherTypes, OtherType,  \* the types they and the arguments need,
                                  \* and which is whose
          Menus,             \* bound: what may be built together
          MaxInstr, MaxPrints, MaxPreds   \* bounds

Instr == 1 .. MaxInstr

\* A menu: kinds of instruction, the parameters of the function, the values and
\* the types of variables to begin with, and how many instructions.  An object
\* is an instruction, a block, a parameter or one of the others.
ASSUME LightIRAssumption ==
  /\ User = Instr /\ Block \subseteq Value /\ Entry \in Block
  /\ Other \subseteq Value /\ Callee \in Other
  /\ Instr \cap Block = {} /\ Other \cap (Instr \cup Block) = {}
  /\ MaxInstr \in Nat /\ MaxPrints \in Nat
  /\ \A m \in Menus : /\ m.params \in Seq(Value \ (Instr \cup Block \cup Other))
                     /\ m.values \subseteq Other \cup Range(m.params)
                     /\ m.max \in 0 .. MaxInstr

\* The values have types of the module, the callee that of a function, and
\* variables are made of such types.
FirstTypes == ModuleTypes \o OtherTypes
ASSUME TypesAssumption ==
  /\ OtherTypes \in Seq(TypeObject) /\ TableOK(FirstTypes)
  /\ OtherType[Callee] \in DOMAIN FirstTypes
  /\ FirstTypes[OtherType[Callee]].tid = "function"
  /\ \A m \in Menus :
       /\ \A v \in m.values : OtherType[v] \in DOMAIN FirstTypes
       /\ \A c \in m.contained : c.of \in DOMAIN FirstTypes /\ c.num \in Nat

VARIABLES
  menu,      \* what is built
  phase,     \* "build", then "passes"
  made,      \* how many instructions were ever created
  kind, ty,  \* op_id_ and type_ of an instruction
  added,     \* basic_blocks_ of the function
  instrs,    \* instr_list_ of a block
  pre, succ, \* pre_bbs_ and succ_bbs_
  name,      \* the number in name_
  seq_cnt,   \* seq_cnt_ of the function
  prints,    \* how often the module was printed
  out        \* the text, right after it was printed

graph == <<added, pre, succ>>
body  == <<made, kind, ty, instrs>>
names == <<name, seq_cnt, prints>>
vars  == <<menu, phase, body, graph, names, out, types, uselist>>

Args == menu.params

NoName == -1   \* name_ is empty
Given  == -2   \* named when it was created
Nothing == <<>>

Init ==
  /\ menu \in Menus /\ phase = "build" /\ made = 0
  /\ kind = [u \in Instr |-> "none"] /\ ty = [u \in Instr |-> Void]
  /\ added = <<Entry>> /\ instrs = [b \in Block |-> <<>>]
  /\ pre = [b \in Block |-> <<>>] /\ succ = [b \in Block |-> <<>>]
  /\ name = [v \in Value |-> IF v \in Other \cup {Entry} THEN Given ELSE NoName]
  /\ seq_cnt = 0 /\ prints = 0 /\ out = Nothing
  /\ types = FirstTypes
  /\ UseInit

\* What of a list is in a set, in its order.
Kept(s, S) == FlattenSeq([n \in DOMAIN s |-> IF s[n] \in S THEN <<s[n]>> ELSE <<>>])

TypeOf(v) == IF v \in Instr THEN ty[v] ELSE IF v \in Block THEN Label ELSE OtherType[v]
Built == {u \in Instr : \E b \in Block : u \in Range(instrs[b])}
is_void(u) == kind[u] \in {"ret", "br", "store"} \/ ty[u] = Void
Home(u) == CHOOSE b \in Block : u \in Range(instrs[b])
HasTerminator(b) == instrs[b] # <<>> /\ kind[Last(instrs[b])] \in {"ret", "br"}

\* What an instruction may take as an operand, and what of a type.
Usable == {u \in Built : ~is_void(u)} \cup menu.values
OfType(t) == {v \in Usable : TypeOf(v) = t}

-----------------------------------------------------------------------------
(* Creating: BaseInst::create appends to the block, the constructor sets    *)
(* the operands.                                                            *)

New(k, t, s, b) ==
  /\ phase = "build" /\ k \in menu.kinds /\ made < menu.max
  /\ b \in Range(added) /\ ~HasTerminator(b) /\ s \in BoundedSeq(Value, MaxOps)
  /\ made' = made + 1
  /\ kind' = [kind EXCEPT ![made + 1] = k]
  /\ ty' = [ty EXCEPT ![made + 1] = t]
  /\ instrs' = [instrs EXCEPT ![b] = Append(@, made + 1)]
  /\ Extend(made + 1, s)
  /\ out' = Nothing
  /\ UNCHANGED <<menu, phase, names>>

Plain(k, t, s) == /\ \E b \in Block : New(k, t, s, b)
                  /\ UNCHANGED <<graph, types>>

CreateBinary == \/ \E x, y \in OfType(Int32) : Plain("add", Int32, <<x, y>>)
                \/ \E x, y \in OfType(Float) : Plain("fadd", Float, <<x, y>>)
CreateCmp == \/ \E x, y \in OfType(Int32) : Plain("cmp", Int1, <<x, y>>)
             \/ \E x, y \in OfType(Float) : Plain("fcmp", Int1, <<x, y>>)
CreateCast == \/ \E x \in OfType(Int1)  : Plain("zext", Int32, <<x>>)
              \/ \E x \in OfType(Int32) : Plain("sitofp", Float, <<x>>)
              \/ \E x \in OfType(Float) : Plain("fptosi", Int32, <<x>>)
CreateCall ==
  LET f == types[OtherType[Callee]]
  IN  \E s \in [DOMAIN f.args -> Usable] :
        /\ \A n \in DOMAIN f.args : TypeOf(s[n]) = f.args[n]
        /\ Plain("call", f.of, <<Callee>> \o s)
CreateRet == \/ Plain("ret", Void, <<>>)
             \/ \E x \in OfType(Int32) : Plain("ret", Void, <<x>>)
CreateStore == \E p, x \in Usable :
  /\ is_pointer_type(TypeOf(p)) /\ get_pointer_element_type(TypeOf(p)) = TypeOf(x)
  /\ Plain("store", Void, <<x, p>>)
CreateLoad == \E p \in Usable :
  /\ is_pointer_type(TypeOf(p)) /\ types[get_pointer_element_type(TypeOf(p))].tid # "array"
  /\ Plain("load", get_pointer_element_type(TypeOf(p)), <<p>>)

\* ArrayType::get and PointerType::get, with the types they may make.
CreateAlloca == \E c \in menu.contained :
  LET inner == IF c.num = 0 THEN types ELSE With(types, ArrayType(c.of, c.num))
      t     == IF c.num = 0 THEN c.of ELSE Address(types, ArrayType(c.of, c.num))
  IN  /\ \E b \in Block : New("alloca", Address(inner, PointerType(t)), <<>>, b)
      /\ types' = With(inner, PointerType(t))
      /\ UNCHANGED graph

\* get_element_type: two indices step into an array, one stays.
CreateGep == \E p \in Usable : \E x \in OfType(Int32) : \E zero \in OfType(Int32) \cap Other :
  /\ is_pointer_type(TypeOf(p))
  /\ LET t   == get_pointer_element_type(TypeOf(p))
         arr == types[t].tid = "array"
         e   == IF arr THEN types[t].of ELSE t
     IN  /\ types[e].tid \in {"i32", "float"}
         /\ \E b \in Block : New("gep", Address(types, PointerType(e)),
                                 IF arr THEN <<p, zero, x>> ELSE <<p, x>>, b)
         /\ types' = With(types, PointerType(e))
  /\ UNCHANGED graph

AddBlock ==
  /\ phase = "build" /\ "br" \in menu.kinds /\ Block \ Range(added) # {}
  /\ added' = Append(added, CHOOSE b \in Block \ Range(added) : TRUE)
  /\ out' = Nothing
  /\ UNCHANGED <<menu, phase, body, pre, succ, names, types, uselist>>

CreateBr == \E t \in Range(added), b \in Block :
  /\ t # Entry /\ Len(pre[t]) < MaxPreds
  /\ New("br", Void, <<t>>, b)
  /\ pre' = [pre EXCEPT ![t] = Append(@, b)]
  /\ succ' = [succ EXCEPT ![b] = Append(@, t)]
  /\ UNCHANGED <<added, types>>

CreateCondBr == \E c \in OfType(Int1) : \E t, f \in Range(added), b \in Block :
  /\ t # f /\ Entry \notin {t, f} /\ Len(pre[t]) < MaxPreds /\ Len(pre[f]) < MaxPreds
  /\ New("br", Void, <<c, t, f>>, b)
  /\ pre' = [pre EXCEPT ![t] = Append(@, b), ![f] = Append(@, b)]
  /\ succ' = [succ EXCEPT ![b] = @ \o <<f, t>>]
  /\ UNCHANGED <<added, types>>

\* The builder is done, every block has its terminator: cminusfc runs the passes.
StartPasses == /\ phase = "build" /\ \A b \in Range(added) : HasTerminator(b)
               /\ phase' = "passes" /\ out' = Nothing
               /\ UNCHANGED <<menu, body, graph, names, types, uselist>>

-----------------------------------------------------------------------------
(* What the passes do to a function.                                        *)

InPasses == phase = "passes" /\ prints < MaxPrints /\ out' = Nothing

\* Mem2Reg::generate_phi: PhiInst::create_phi and add_instr_begin.
AddPhi == \E b \in Range(added), t \in {Int32, Float} :
  /\ InPasses /\ made < menu.max /\ "phi" \in menu.kinds
  /\ OfType(t) # {} /\ Len(pre[b]) >= 2
  /\ made' = made + 1
  /\ kind' = [kind EXCEPT ![made + 1] = "phi"]
  /\ ty' = [ty EXCEPT ![made + 1] = t]
  /\ instrs' = [instrs EXCEPT ![b] = <<made + 1>> \o @]
  /\ UNCHANGED <<menu, phase, graph, names, types, uselist>>

Pairs(u) == 1 .. Len(operands[u]) \div 2

\* Mem2Reg::re_name: add_phi_pair_operand, once for a predecessor.
AddPair == \E u \in Built, x \in Usable :
  /\ InPasses /\ kind[u] = "phi" /\ TypeOf(x) = ty[u] /\ Len(operands[u]) + 2 <= MaxOps
  /\ \E p \in Block :
       /\ p \in Range(pre[Home(u)])
       /\ \A n \in Pairs(u) : operands[u][2 * n] # p
       /\ Extend(u, <<x, p>>)
  /\ UNCHANGED <<menu, phase, body, graph, names, types>>

\* Mem2Reg::re_name: the value on the stack for a load.
ReplaceLoad == \E u \in Built : \E x \in OfType(ty[u]) \ {u} :
  /\ InPasses /\ kind[u] = "load"
  /\ ReplaceUses(u, x, Instr)
  /\ UNCHANGED <<menu, phase, body, graph, names, types>>

\* GVN::replace_cc_members, for one member, its leader and one block.
ReplaceMember == \E u \in Built : \E x \in OfType(ty[u]) \ {u} : \E b \in Range(added) :
  /\ InPasses /\ ~is_void(u)
  /\ ReplaceUses(u, x, {w \in UsersOf(u) : IF kind[w] = "phi" THEN b \in Range(pre[Home(w)])
                                                               ELSE Home(w) = b})
  /\ UNCHANGED <<menu, phase, body, graph, names, types>>

\* What goes, goes from its block; nobody else uses it any more.
Erase(S) ==
  /\ InPasses /\ S # {} /\ S \subseteq Built /\ UNION {UsersOf(u) : u \in S} \subseteq S
  /\ Free(S)
  /\ instrs' = [b \in Block |-> Kept(instrs[b], Instr \ S)]
  /\ UNCHANGED <<menu, phase, made, kind, ty, graph, names, types>>

\* BasicBlock::erase_instr, by Mem2Reg.
EraseInstr == \E u \in Built : kind[u] \in {"load", "store", "alloca"} /\ Erase({u})

\* DeadCode::sweep.
Sweep == \E S \in SUBSET {u \in Built : kind[u] \notin {"ret", "br", "store"}} : Erase(S)

-----------------------------------------------------------------------------
(* Naming and printing.                                                     *)

\* The values Function::set_instr_name comes to, in its order.
NamedInOrder ==
  Args \o FlattenSeq([i \in DOMAIN added |->
            <<added[i]>> \o Kept(instrs[added[i]], {u \in Instr : ~is_void(u)})])

\* Each one without a name takes the next number.
NewNames == Kept(NamedInOrder, {v \in Value : name[v] = NoName})

\* mutant: numbers start over at every call
set_instr_nameOver ==
  /\ name' = [v \in Value |-> IF \E n \in DOMAIN NewNames : NewNames[n] = v
                THEN (CHOOSE n \in DOMAIN NewNames : NewNames[n] = v) - 1
                ELSE name[v]]
  /\ seq_cnt' = 0

set_instr_name ==
  /\ name' = [v \in Value |-> IF \E n \in DOMAIN NewNames : NewNames[n] = v
                THEN seq_cnt + (CHOOSE n \in DOMAIN NewNames : NewNames[n] = v) - 1
                ELSE name[v]]
  /\ seq_cnt' = seq_cnt + Len(NewNames)

Prefix(v) == IF v \in Instr THEN "op" ELSE IF v \in Block THEN "label" ELSE "arg"
Text(v, nm) == <<Prefix(v), nm[v]>>

\* print_as_op: globals, functions and constants by themselves, anything else
\* by its name.
Ref(sort, of) == [sort |-> sort, of |-> of]
print_as_op(v, nm) == IF v \in Other THEN Ref("@", v) ELSE Ref("%", Text(v, nm))

\* PhiInst::print: the pairs, and undef for the predecessors without one.
PhiRefs(u, nm) ==
  LET pairs   == [n \in DOMAIN operands[u] |-> print_as_op(operands[u][n], nm)]
      missing == IF Len(operands[u]) \div 2 < Len(pre[Home(u)])
                 THEN Kept(pre[Home(u)], Block \ Range(operands[u])) ELSE <<>>
  IN  pairs \o [n \in 1 .. 2 * Len(missing) |->
                  IF n % 2 = 1 THEN Ref("undef", 0) ELSE print_as_op(missing[n \div 2], nm)]

\* The print methods of the instructions: an operand list, behind a name when
\* there is a value.
Line(u, nm) ==
  [def |-> IF is_void(u) THEN <<>> ELSE <<Text(u, nm)>>, op |-> kind[u],
   refs |-> IF kind[u] = "phi" THEN PhiRefs(u, nm)
            ELSE [n \in DOMAIN operands[u] |-> print_as_op(operands[u][n], nm)]]

Listing(nm) ==
  [params |-> [n \in DOMAIN Args |-> Text(Args[n], nm)],
   blocks |-> [i \in DOMAIN added |->
     [label |-> Text(added[i], nm),
      lines |-> [j \in DOMAIN instrs[added[i]] |-> Line(instrs[added[i]][j], nm)]]]]

\* PassManager::run and main: between passes, when every phi has its pairs.
PrintModule ==
  /\ phase = "passes" /\ prints < MaxPrints
  /\ \A u \in Built : kind[u] = "phi" => operands[u] # <<>>
  /\ set_instr_name
  /\ out' = <<Listing(name')>>
  /\ prints' = prints + 1
  /\ UNCHANGED <<menu, phase, body, graph, types, uselist>>

Create == \/ CreateBinary \/ CreateCmp \/ CreateCast \/ CreateCall \/ CreateRet
          \/ CreateStore \/ CreateLoad \/ CreateAlloca \/ CreateGep
          \/ AddBlock \/ CreateBr \/ CreateCondBr
Passes == \/ AddPhi \/ AddPair \/ ReplaceLoad \/ ReplaceMember \/ EraseInstr \/ Sweep \/ PrintModule
Next == Create \/ StartPasses \/ Passes

Spec == Init /\ [][Next]_vars

-----------------------------------------------------------------------------
(* What the printed text means.                                             *)

\* The values the text defines under a name.
Defined(t) ==
  IF t[2] = NoName THEN {} ELSE
    {Args[n] : n \in {m \in DOMAIN Args : out[1].params[m] = t}}
    \cup {added[i] : i \in {m \in DOMAIN added : out[1].blocks[m].label = t}}
    \cup UNION {{instrs[added[i]][j] : j \in {m \in DOMAIN instrs[added[i]] :
                   out[1].blocks[i].lines[m].def = <<t>>}} : i \in DOMAIN added}
Denotes(r) == IF r.sort = "%" THEN Defined(r.of) ELSE IF r.sort = "@" THEN {r.of} ELSE {}

ReadsBack(u, line) ==
  IF kind[u] # "phi"
  THEN /\ DOMAIN line.refs = DOMAIN operands[u]
       /\ \A n \in DOMAIN line.refs : Denotes(line.refs[n]) = {operands[u][n]}
  ELSE LET P == 1 .. Len(line.refs) \div 2
           From(n) == Denotes(line.refs[2 * n])
       IN  /\ \A n, m \in P : From(n) = From(m) => n = m
           /\ {From(n) : n \in P} = {{p} : p \in Range(pre[Home(u)])}
           /\ \A n \in P : Denotes(line.refs[2 * n - 1]) =
                {operands[u][2 * m - 1] : m \in {m \in Pairs(u) : From(n) = {operands[u][2 * m]}}}

\* A listing, whichever passes ran and however often it was printed before,
\* says what the function is: each operand it prints is defined once in it, as
\* the value that operand is, and a phi has one entry per predecessor
\* (Function::set_instr_name, Function::print, PhiInst::print).
ListingReadsBack ==
  out # Nothing => \A i \in DOMAIN added : \A j \in DOMAIN instrs[added[i]] :
                     ReadsBack(instrs[added[i]][j], out[1].blocks[i].lines[j])
=============================================================================
