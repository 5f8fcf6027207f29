----------------------------- MODULE Dominators -----------------------------
(***************************************************************************)
(* Dominators::run on one function: the post-order walk, the iterative     *)
(* immediate-dominator algorithm (two fingers over post-order numbers),    *)
(* the dominance frontier runner and the dominator tree.  One action is    *)
(* one turn of a loop of the code.                                         *)
(***************************************************************************)
EXTENDS CFG

CONSTANT Graphs   \* the functions analysed: a set of [succ, pre] records

\* No branch goes back to the entry block, whatever the front end compiles.
ASSUME GraphsAssumption ==
  \A g \in Graphs : /\ g.succ \in [Block -> Seq(Block \ {Entry})]
                    /\ g.pre \in [Block -> Seq(Block)]
                    /\ Consistent(g.succ, g.pre)

VARIABLES
  succ, pre,             \* BasicBlock::succ_bbs_, pre_bbs_ of every block
  pc,
  stack,                 \* activations of post_order_visit: [bb, next]
  visited,
  post_order_id,         \* std::map<BasicBlock *, int>: absent reads as 0
  reverse_post_order,
  idom,                  \* idom_; the null key is created by get_idom(nullptr)
  changed,
  pos,                   \* index of bb in the loop over the blocks
  k,                     \* index of p in the loop over the predecessors of bb
  new_idom, b1, b2,      \* locals of create_idom and intersect
  runner,
  dom_frontier, dom_tree_succ

graph    == <<succ, pre>>
walk     == <<stack, visited, post_order_id, reverse_post_order>>
fingers  == <<new_idom, b1, b2>>
results  == <<dom_frontier, dom_tree_succ>>
vars     == <<succ, pre, pc, stack, visited, post_order_id, reverse_post_order,
              idom, changed, pos, k, new_idom, b1, b2, runner,
              dom_frontier, dom_tree_succ>>

TypeOK ==
  /\ succ \in [Block -> Seq(Block)] /\ pre \in [Block -> Seq(Block)]
  /\ pc \in {"visit", "block", "preds", "intersect", "frontier", "runner",
             "tree", "done", "assert_failed"}
  /\ stack \in Seq([bb : Block, next : Nat \ {0}])
  /\ visited \subseteq Block
  /\ post_order_id \in [Block -> Nat]
  /\ reverse_post_order \in Seq(Block)
  /\ idom \in [BlockOrNull -> BlockOrNull]
  /\ changed \in BOOLEAN /\ pos \in Nat \ {0} /\ k \in Nat \ {0}
  /\ {new_idom, b1, b2, runner} \subseteq BlockOrNull
  /\ dom_frontier \in [BlockOrNull -> SUBSET Block]
  /\ dom_tree_succ \in [BlockOrNull -> SUBSET Block]

Init ==
  /\ \E g \in Graphs : succ = g.succ /\ pre = g.pre
  /\ pc = "visit"
  /\ stack = <<[bb |-> Entry, next |-> 1]>>
  /\ visited = {Entry}
  /\ post_order_id = [b \in Block |-> 0]
  /\ reverse_post_order = <<>>
  /\ idom = [b \in BlockOrNull |-> NoBlock]
  /\ changed = FALSE /\ pos = 1 /\ k = 1
  /\ new_idom = NoBlock /\ b1 = NoBlock /\ b2 = NoBlock /\ runner = NoBlock
  /\ dom_frontier = [b \in BlockOrNull |-> {}]
  /\ dom_tree_succ = [b \in BlockOrNull |-> {}]

-----------------------------------------------------------------------------
(* post_order_visit, its recursion unrolled on stack.                       *)

Top == stack[Len(stack)]

\* The next successor of the block on top: descend unless it was visited.
VisitSuccessor ==
  /\ pc = "visit" /\ Top.next <= Len(succ[Top.bb])
  /\ LET b == succ[Top.bb][Top.next]
         advanced == [stack EXCEPT ![Len(stack)].next = @ + 1]
     IN  IF b \in visited
         THEN stack' = advanced /\ UNCHANGED visited
         ELSE /\ stack' = Append(advanced, [bb |-> b, next |-> 1])
              /\ visited' = visited \cup {b}
  /\ UNCHANGED <<graph, pc, post_order_id, reverse_post_order, idom, changed,
                 pos, k, fingers, runner, results>>

\* Mutant: the post-order list is not reversed.
FinishVisitUnreversed ==
  /\ pc = "visit" /\ Top.next > Len(succ[Top.bb])
  /\ post_order_id' = [post_order_id EXCEPT ![Top.bb] = Len(reverse_post_order)]
  /\ stack' = Front(stack)
  /\ reverse_post_order' = Append(reverse_post_order, Top.bb)
  /\ idom' = IF Len(stack) > 1 THEN idom
             ELSE [b \in BlockOrNull |-> IF b = Entry THEN Entry ELSE NoBlock]
  /\ pc' = IF Len(stack) > 1 THEN pc ELSE "block"
  /\ UNCHANGED <<graph, visited, changed, pos, k, fingers, runner, results>>

\* All successors of the block on top are done: number it and return.  The
\* return of the outermost call reverses the list and starts create_idom.
FinishVisit ==
  /\ pc = "visit" /\ Top.next > Len(succ[Top.bb])
  /\ post_order_id' = [post_order_id EXCEPT ![Top.bb] = Len(reverse_post_order)]
  /\ stack' = Front(stack)
  /\ LET order == Append(reverse_post_order, Top.bb)
     IN  IF Len(stack) > 1
         THEN reverse_post_order' = order /\ UNCHANGED <<pc, idom>>
         ELSE /\ reverse_post_order' = Reverse(order)
              /\ idom' = [b \in BlockOrNull |->
                            IF b = Entry THEN Entry ELSE NoBlock]
              /\ pc' = "block"
  /\ UNCHANGED <<graph, visited, changed, pos, k, fingers, runner, results>>

-----------------------------------------------------------------------------
(* create_idom: passes over reverse_post_order until one changes nothing.   *)

bb    == reverse_post_order[pos]
hasId == {i \in DOMAIN pre[bb] : idom[pre[bb][i]] # NoBlock}
first == CHOOSE i \in hasId : \A j \in hasId : i <= j

NextBlock == pos' = pos + 1 /\ pc' = "block"

SkipRoot ==
  /\ pc = "block" /\ pos <= Len(reverse_post_order) /\ bb = Entry
  /\ NextBlock
  /\ UNCHANGED <<graph, walk, idom, changed, k, fingers, runner, results>>

\* new_idom starts as the first predecessor that has an idom; the code
\* asserts there is one.
PickPredecessor ==
  /\ pc = "block" /\ pos <= Len(reverse_post_order) /\ bb # Entry
  /\ IF hasId = {}
     THEN pc' = "assert_failed" /\ UNCHANGED <<new_idom, k>>
     ELSE new_idom' = pre[bb][first] /\ k' = 1 /\ pc' = "preds"
  /\ UNCHANGED <<graph, walk, idom, changed, pos, b1, b2, runner, results>>

\* Mutant: the other predecessors are not intersected.
JoinNothing ==
  /\ pc = "preds" /\ k <= Len(pre[bb])
  /\ k' = k + 1
  /\ UNCHANGED <<graph, walk, pc, idom, changed, pos, fingers, runner, results>>

\* One turn of the loop over the predecessors: `pred' and those without an
\* idom are passed over, the others are intersected with new_idom.
JoinPredecessor ==
  /\ pc = "preds" /\ k <= Len(pre[bb])
  /\ IF k = first \/ k \notin hasId
     THEN k' = k + 1 /\ UNCHANGED <<pc, b1, b2>>
     ELSE b1' = pre[bb][k] /\ b2' = new_idom /\ pc' = "intersect" /\ UNCHANGED k
  /\ UNCHANGED <<graph, walk, idom, changed, pos, new_idom, runner, results>>

\* intersect: the finger with the smaller number climbs the tree.
Climb ==
  /\ pc = "intersect" /\ post_order_id[b1] # post_order_id[b2]
  /\ LET low == IF post_order_id[b1] < post_order_id[b2] THEN b1 ELSE b2
     IN  IF idom[low] = NoBlock
         THEN pc' = "assert_failed" /\ UNCHANGED <<b1, b2>>
         ELSE /\ IF low = b1 THEN b1' = idom[low] /\ UNCHANGED b2
                             ELSE b2' = idom[low] /\ UNCHANGED b1
              /\ UNCHANGED pc
  /\ UNCHANGED <<graph, walk, idom, changed, pos, k, new_idom, runner, results>>

\* Mutant: the fingers stop one level too high.
MeetAbove ==
  /\ pc = "intersect" /\ b1 = b2
  /\ new_idom' = idom[b1] /\ k' = k + 1 /\ pc' = "preds"
  /\ UNCHANGED <<graph, walk, idom, changed, pos, b1, b2, runner, results>>

Meet ==
  /\ pc = "intersect" /\ b1 = b2
  /\ new_idom' = b1 /\ k' = k + 1 /\ pc' = "preds"
  /\ UNCHANGED <<graph, walk, idom, changed, pos, b1, b2, runner, results>>

\* Mutant: the idom is set to the block picked last by intersect's caller.
CommitPredecessor ==
  /\ pc = "preds" /\ k > Len(pre[bb])
  /\ idom' = [idom EXCEPT ![bb] = pre[bb][Len(pre[bb])]]
  /\ changed' = (changed \/ idom[bb] # new_idom)
  /\ NextBlock
  /\ UNCHANGED <<graph, walk, k, fingers, runner, results>>

CommitIdom ==
  /\ pc = "preds" /\ k > Len(pre[bb])
  /\ idom' = [idom EXCEPT ![bb] = new_idom]
  /\ changed' = (changed \/ idom[bb] # new_idom)
  /\ NextBlock
  /\ UNCHANGED <<graph, walk, k, fingers, runner, results>>

\* Mutants: `changed' is not reset; the next pass starts before the list.
EndPassKeepsChanged ==
  /\ pc = "block" /\ pos > Len(reverse_post_order)
  /\ pos' = 1
  /\ pc' = IF changed THEN "block" ELSE "frontier"
  /\ UNCHANGED <<graph, walk, idom, changed, k, fingers, runner, results>>
EndPassBeforeBegin ==
  /\ pc = "block" /\ pos > Len(reverse_post_order)
  /\ pos' = 0 /\ changed' = FALSE
  /\ pc' = IF changed THEN "block" ELSE "frontier"
  /\ UNCHANGED <<graph, walk, idom, k, fingers, runner, results>>

\* The end of a pass: another one while the last changed something, else on
\* to the dominance frontier, which walks the blocks in list order.
EndPass ==
  /\ pc = "block" /\ pos > Len(reverse_post_order)
  /\ pos' = 1 /\ changed' = FALSE
  /\ pc' = IF changed THEN "block" ELSE "frontier"
  /\ UNCHANGED <<graph, walk, idom, k, fingers, runner, results>>

-----------------------------------------------------------------------------
(* create_dominance_frontier and create_dom_tree_succ; pos is the block.    *)

\* Mutant: joins of exactly two blocks are passed over.
FrontierBlockSkipsTwo ==
  /\ pc = "frontier" /\ pos <= N
  /\ IF Len(pre[pos]) > 2
     THEN pc' = "runner" /\ k' = 1 /\ runner' = pre[pos][1] /\ UNCHANGED pos
     ELSE pos' = pos + 1 /\ UNCHANGED <<pc, k, runner>>
  /\ UNCHANGED <<graph, walk, idom, changed, fingers, results>>

FrontierBlock ==
  /\ pc = "frontier" /\ pos <= N
  /\ IF Len(pre[pos]) >= 2
     THEN pc' = "runner" /\ k' = 1 /\ runner' = pre[pos][1] /\ UNCHANGED pos
     ELSE pos' = pos + 1 /\ UNCHANGED <<pc, k, runner>>
  /\ UNCHANGED <<graph, walk, idom, changed, fingers, results>>

\* get_idom(runner) of a runner that is null creates the null entry and
\* returns null again.
RunUp ==
  /\ pc = "runner" /\ runner # idom[pos]
  /\ dom_frontier' = [dom_frontier EXCEPT ![runner] = @ \cup {pos}]
  /\ runner' = idom[runner]
  /\ UNCHANGED <<graph, walk, pc, idom, changed, pos, k, fingers, dom_tree_succ>>

RunnerArrives ==
  /\ pc = "runner" /\ runner = idom[pos]
  /\ IF k < Len(pre[pos])
     THEN k' = k + 1 /\ runner' = pre[pos][k + 1] /\ UNCHANGED <<pos, pc>>
     ELSE pos' = pos + 1 /\ pc' = "frontier" /\ UNCHANGED <<k, runner>>
  /\ UNCHANGED <<graph, walk, idom, changed, fingers, results>>

EndFrontier ==
  /\ pc = "frontier" /\ pos > N
  /\ pc' = "tree"
  /\ UNCHANGED <<graph, walk, idom, changed, pos, k, fingers, runner, results>>

BuildTree ==
  /\ pc = "tree"
  /\ dom_tree_succ' = [b \in BlockOrNull |->
                         {c \in Block : idom[c] # c /\ idom[c] = b}]
  /\ pc' = "done"
  /\ UNCHANGED <<graph, walk, idom, changed, pos, k, fingers, runner, dom_frontier>>

-----------------------------------------------------------------------------
CreateReversePostOrder == VisitSuccessor \/ FinishVisit
CreateIdom == \/ SkipRoot \/ PickPredecessor \/ JoinPredecessor \/ Climb
              \/ Meet \/ CommitIdom \/ EndPass
CreateDominanceFrontier == \/ FrontierBlock \/ RunUp \/ RunnerArrives
                           \/ EndFrontier

Next == \/ CreateReversePostOrder \/ CreateIdom
        \/ CreateDominanceFrontier \/ BuildTree

Spec == Init /\ [][Next]_vars

\* The pass is one sequential call: it keeps taking steps while it can.
FairSpec == Spec /\ WF_vars(Next)

-----------------------------------------------------------------------------
(* Properties.                                                              *)

\* The asserts of create_idom and intersect hold: each block of the list has
\* a predecessor with an idom when its turn comes, and a finger never runs
\* off the tree.
AssertsHold == pc # "assert_failed"

\* In the tree under construction every block hangs below a block with a
\* higher post-order number; this is what makes both loops of intersect meet.
TreeClimbs ==
  \A b \in Block \ {Entry} : idom[b] # NoBlock =>
     /\ idom[idom[b]] # NoBlock
     /\ post_order_id[idom[b]] > post_order_id[b]

\* The chain of idoms of b in the tree under construction, b included.
Chain(b) ==
  LET up[i \in 0..N] == IF i = 0 THEN b ELSE idom[up[i - 1]]
  IN  {up[i] : i \in 0..N} \ {NoBlock}

\* The approximation never climbs past the answer: whenever create_idom turns
\* to a block, the real dominators of every block that has an idom are still
\* on its chain.
DominatorsOnChain ==
  pc = "block" =>
    \A b \in Reached(succ) :
       idom[b] # NoBlock => DominatorsOf(succ, b) \subseteq Chain(b)

\* Once set, an idom is only ever replaced by one with a higher post-order
\* number: each pass moves up, so the iteration must stop.
IdomOnlyClimbs ==
  [][\A b \in Block : idom[b] # NoBlock /\ idom'[b] # idom[b]
        => post_order_id[idom'[b]] > post_order_id[idom[b]]]_vars

\* The results, read once the pass is done, are dominance as paths define it.
Abstract == INSTANCE DominatorAnalysis WITH
  succ   <- succ,
  answer <- IF pc # "done" THEN <<>>
            ELSE <<[idom     |-> [b \in Block |-> idom[b]],
                    frontier |-> [b \in Block |-> dom_frontier[b]],
                    children |-> [b \in Block |-> dom_tree_succ[b]]]>>
ComputesDominance == Abstract!Spec

\* Dominators::run returns.
Terminates == <>(pc = "done")
=============================================================================
