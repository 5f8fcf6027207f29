-------------------------- MODULE DominatorAnalysis --------------------------
(***************************************************************************)
(* What the passes that use class Dominators are promised: one answer for  *)
(* the function, and that answer is dominance as paths define it.          *)
(***************************************************************************)
EXTENDS CFG

VARIABLES succ,     \* successor lists of the function analysed
          answer    \* the empty sequence, or <<[idom, frontier, children]>>

vars == <<succ, answer>>

\* The children of a block in the dominator tree of the reached blocks.
Children(s, b) ==
  {c \in Reached(s) \ {Entry} : ImmediateDominator(s, c) = b}

IsCorrect(s, a) ==
  \A b \in Reached(s) :
     /\ a.idom[b] = IF b = Entry THEN Entry ELSE ImmediateDominator(s, b)
     /\ a.frontier[b] = Frontier(s, b)
     /\ a.children[b] = Children(s, b)

Init == answer = <<>>

Answer == /\ answer = <<>>
          /\ answer' \in Seq([idom     : [Block -> BlockOrNull],
                              frontier : [Block -> SUBSET Block],
                              children : [Block -> SUBSET Block]])
          /\ Len(answer') = 1
          /\ IsCorrect(succ, answer'[1])
          /\ UNCHANGED succ

Spec == Init /\ [][Answer]_vars
=============================================================================
