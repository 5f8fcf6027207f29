---------------------------- MODULE MCDominators ----------------------------
(* Every control-flow graph of N blocks the front end could build.          *)
EXTENDS Dominators, FiniteSets

Joins(s) == {b \in Block : Cardinality(Preds(s, b)) = 2}

Ascending(S)  == SetToSortSeq(S, <)
Descending(S) == SetToSortSeq(S, >)

\* The two branches into a join were created in either order.
WithPreds(s) ==
  {[succ |-> s, pre |-> [b \in Block |-> IF b \in flipped
                                         THEN Descending(Preds(s, b))
                                         ELSE Ascending(Preds(s, b))]]
     : flipped \in SUBSET Joins(s)}

\* The numbers of blocks do not matter to the pass, so of the graphs that
\* differ in them only those are kept where a reached block has a lower
\* numbered predecessor, as any order of a traversal gives.  A block is
\* joined by at most two edges, as those of the front end are.
Numbered(s) == /\ \A b \in Reached(s) \ {Entry} : \E p \in Preds(s, b) : p < b
               /\ \A b \in Block \ Reached(s) : \A c \in Reached(s) : c < b

Functions ==
  {s \in [Block -> Target] : /\ \A b \in Block : Cardinality(Preds(s, b)) <= 2
                             /\ Numbered(s) /\ NoUnreachedPred(s)}

AllGraphs == UNION {WithPreds(s) : s \in Functions}

\* if (a) { if (b) return 1; else return 2; }  The join of the inner statement
\* (block 5) is reached by nobody and branches to the outer join (block 3).
ReturnInBothArms ==
  {[succ |-> <<<<3, 2>>, <<6, 4>>, <<>>, <<>>, <<3>>, <<>>>>,
    pre  |-> <<<<>>, <<1>>, <<1, 5>>, <<2>>, <<>>, <<2>>>>]}
=============================================================================
