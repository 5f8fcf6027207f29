---------------------------- MODULE IRGenGraph ----------------------------
(***************************************************************************)
(* What the passes may take for granted about the graphs the builder makes *)
(* of a function, stated with the dominance by paths of CFG.               *)
(***************************************************************************)
EXTENDS IRGen

Graph == INSTANCE CFG WITH N <- Len(blocks)
IdsReached == Graph!Reached(Succ)

\* Both edge lists describe the same edges, no branch goes to the entry or
\* twice to one block, and a block has successors just when it ends in a
\* branch: what CFG assumes of the graphs the passes read.
EdgesMatch ==
  /\ Graph!Consistent(Succ, Pre)
  /\ \A b \in Id :
        /\ Succ[b] = <<>> \/ Succ[b] \in Graph!Target
        /\ Succ[b] # <<>> <=> <<"br">> \in ToSet(blocks[b].code)

\* A variable is used only where its alloca has been executed: scopes, which
\* follow the text, agree with dominance, which follows the branches.
\* Mem2Reg counts on it when it puts the values of a variable on a stack
\* along the dominator tree.
DeclDominatesUse ==
  Done => \A b \in IdsReached : \A i \in DOMAIN blocks[b].code :
    LET ins == blocks[b].code[i]
    IN  ins[1] = "use" /\ ins[2] # Global =>
          \/ ins[2][1] = b /\ ins[2][2] < i
          \/ ins[2][1] # b /\ b \in Graph!Dominated(Succ, ins[2][1])

\* What Dominators may count on: both edge lists agree, and every loop is
\* entered at its head, so that without the branches back to a block that
\* dominates them the graph has no cycle.  One pass of the fixpoint then finds
\* every idom, and the next has nothing to change.
Acyclic(into) ==  \* peel off the blocks nothing left leads to
  LET left[k \in 0..Len(blocks)] ==
        IF k = 0 THEN DOMAIN into
        ELSE LET now == left[k - 1] IN {b \in now : into[b] \cap now # {}}
  IN  left[Len(blocks)] = {}
Reducible ==
  Done =>
  /\ EdgesMatch
  /\ Acyclic([b \in IdsReached |-> (ToSet(Pre[b]) \cap IdsReached) \ Graph!Dominated(Succ, b)])

\* A block without a predecessor is the join of an `if ... else` whose arms
\* both return, and only what follows such a join is out of reach.  Those
\* are the graphs Dominators and Mem2Reg fail on.
Orphan(b) == b # Graph!Entry /\ Pre[b] = <<>>
OrphansAreJoins ==
  Done => /\ \A b \in Id : Orphan(b) => \E c \in Id : Succ[c] = <<b + 1, b - 1>>
          /\ (\A b \in Id : ~Orphan(b)) => IdsReached = Id
=============================================================================
