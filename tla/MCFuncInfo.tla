---------------------------- MODULE MCFuncInfo ----------------------------
(* Every call graph on NumFuncs functions, each pure by its own text, a     *)
(* reader or a writer of a global, or a declaration (which calls nothing).  *)
EXTENDS FuncInfo

Defined(acc) == [declaration |-> FALSE, main |-> FALSE, pointer |-> FALSE,
                 accesses |-> acc]
Local    == [op |-> "store", base |-> "alloca"]
Global   == [op |-> "load", base |-> "global"]
Write    == [op |-> "store", base |-> "global"]
Texts == { Defined({Local}), Defined({Local, Global}), Defined({Write}),
           [Defined({}) EXCEPT !.declaration = TRUE] }

AllModules ==
  {m \in [calls : SUBSET (Func \X Func), text : [Func -> Texts]] :
     \A e \in m.calls : ~m.text[e[1]].declaration}
=============================================================================
