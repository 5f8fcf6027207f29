----------------------------- MODULE MCLightIR ------------------------------
(* Small functions of every kind: arithmetic and calls, floats and casts,    *)
(* memory, and a diamond or a loop with phis.                                *)
EXTENDS LightIR

CONSTANTS b1, b2, b3, arg, num, yes, flt, fun

MCInstr  == 1 .. MaxInstr
MCBlocks == {b1, b2, b3}
MCOther  == {num, yes, flt, fun}
MCValue  == MCInstr \cup MCBlocks \cup {arg, num, yes, flt, fun}

\* i32 and float parameters: float g(int, float); i32 * is type 7.
MCTypes == <<FunctionType(Float, <<Int32, Float>>), PointerType(Int32)>>
MCTypeOf == arg :> Int32 @@ num :> Int32 @@ yes :> Int1 @@ flt :> Float @@ fun :> 6

Scalar == [of |-> Int32, num |-> 0]
Arrays == {[of |-> Int32, num |-> n] : n \in {2, 3}} \cup {[of |-> 7, num |-> 0]}
Menu(kinds, params, values, contained, max) ==
  [kinds |-> kinds, params |-> params, values |-> values, contained |-> contained, max |-> max]
MCMenus == { Menu({"add", "cmp", "zext", "ret"}, <<arg>>, {arg}, {}, 3),
             Menu({"fadd", "sitofp", "fptosi", "call", "fcmp", "ret"}, <<arg>>, {arg, flt}, {}, 3),
             Menu({"alloca", "gep", "load", "ret"}, <<>>, {num}, Arrays, 4),
             Menu({"alloca", "store", "load", "ret"}, <<arg>>, {arg}, {Scalar}, 5),
             Menu({"br", "phi", "ret"}, <<>>, {yes, flt}, {}, 4) }
=============================================================================
