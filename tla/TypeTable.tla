----------------------------- MODULE TypeTable ------------------------------
(***************************************************************************)
(* The types of a module: objects the Module owns, one per void, label,    *)
(* i1, i32 and float, and one per pointer, array and function type, made   *)
(* when it is first asked for and found again in the map of its kind.      *)
(* Type::is_eq_type and every == of the compiler compare addresses, here   *)
(* positions in the table.                                                 *)
(***************************************************************************)
EXTENDS Naturals, Sequences

VARIABLE types

\* of is the contained, element or result type, num the number of elements.
Type(tid, of, num, args) == [tid |-> tid, of |-> of, num |-> num, args |-> args]

Void == 1  Label == 2  Int1 == 3  Int32 == 4  Float == 5
ModuleTypes == << Type("void", 0, 0, <<>>), Type("label", 0, 0, <<>>),
                  Type("i1", 0, 0, <<>>), Type("i32", 0, 0, <<>>),
                  Type("float", 0, 0, <<>>) >>

PointerType(contained)  == Type("pointer", contained, 0, <<>>)
ArrayType(contained, n) == Type("array", contained, n, <<>>)
FunctionType(ret, args) == Type("function", ret, 0, args)

\* What pointer_map_, array_map_ and function_map_ are indexed by.
Key(t) == <<t.of, t.num, t.args>>

Known(table, t) == {i \in DOMAIN table : table[i].tid = t.tid /\ Key(table[i]) = Key(t)}

\* mutant: a type is made at every call
WithAnother(table, t) == Append(table, t)

\* Module::get_pointer_type and its like: the table after the call, and the
\* address it returns.
With(table, t) == IF Known(table, t) = {} THEN Append(table, t) ELSE table
Address(table, t) == CHOOSE i \in Known(With(table, t), t) : TRUE

\* The table of a module at any time: a type refers to older ones, and no two
\* objects have the same fields.
TypeID == {"void", "label", "i1", "i32", "float", "pointer", "array", "function"}
TypeObject == [tid : TypeID, of : Nat, num : Nat, args : Seq(Nat)]
RefersBack(t, i) ==
  \/ t \in {ModuleTypes[k] : k \in DOMAIN ModuleTypes}
  \/ /\ t.of \in 1 .. (i - 1)
     /\ \/ t = PointerType(t.of)
        \/ t = ArrayType(t.of, t.num)
        \/ t = FunctionType(t.of, t.args) /\ \A n \in DOMAIN t.args : t.args[n] \in 1 .. (i - 1)
TableOK(table) ==
  /\ table \in Seq(TypeObject)
  /\ \A i \in DOMAIN table : RefersBack(table[i], i)
  /\ \A i, j \in DOMAIN table : table[i] = table[j] => i = j

get_pointer_element_type(p) == types[p].of
is_pointer_type(p) == types[p].tid = "pointer"

\* Type::print; a contained type is older than the type that contains it.
Printed(table) ==
  LET print[i \in DOMAIN table] ==
        LET t == table[i]
        IN  CASE t.tid = "pointer"  -> <<"*", print[t.of]>>
              [] t.tid = "array"    -> <<"x", t.num, print[t.of]>>
              [] t.tid = "function" -> <<"()", print[t.of], [n \in DOMAIN t.args |-> print[t.args[n]]]>>
              [] OTHER              -> <<t.tid>>
  IN  print

\* One object per type: what prints the same is the same address, so that
\* comparing addresses compares types (Type::is_eq_type, the assertion of
\* LoadInst, the casts of the builder).
TypesOnce ==
  \A i, j \in DOMAIN types : Printed(types)[i] = Printed(types)[j] => i = j
=============================================================================
