---------------------------- MODULE MCDeadCode ----------------------------
(* Three instructions in one function and one in another, with every way   *)
(* the three can use each other; function 1 is pure, function 2 is not.     *)
EXTENDS DeadCode

Module(k, o) ==
  [home     |-> <<1, 1, 1, 2>>,
   op       |-> [i \in Ins |-> k[i][1]],
   callee   |-> [i \in Ins |-> k[i][2]],
   operands |-> [i \in Ins |-> IF i = 4 THEN {} ELSE o[i]],
   is_pure  |-> <<TRUE, FALSE>>]

AllPrograms ==
  {Module(<<k1, k2, <<"other", 1>>, k4>>, o) :
     k1 \in {<<"store", 1>>, <<"call", 2>>}, k2 \in {<<"call", 1>>, <<"call", 2>>},
     k4 \in {<<"store", 1>>, <<"other", 1>>}, o \in [1..3 -> SUBSET (1..3)]}
=============================================================================
