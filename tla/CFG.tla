-------------------------------- MODULE CFG --------------------------------
(***************************************************************************)
(* The control-flow graph the passes read: the basic blocks of a function  *)
(* in list order, each with the successor and predecessor lists BasicBlock *)
(* keeps, and the textbook meaning of dominance, given by paths.           *)
(***************************************************************************)
EXTENDS Integers, Sequences, SequencesExt

CONSTANT N          \* number of basic blocks of the function

ASSUME NAssumption == N \in Nat \ {0}

Block   == 1..N     \* a block is its position in Function::basic_blocks_
Entry   == 1        \* Function::get_entry_block: the first block of the list
NoBlock == 0        \* nullptr
BlockOrNull == Block \cup {NoBlock}

(***************************************************************************)
(* A terminator lists its targets in succ; BranchInst registers it in the  *)
(* target's predecessor list at the same time, so the two lists describe   *)
(* the same edges.  The front end never branches to the entry block and    *)
(* never makes both targets of one branch the same block.                  *)
(***************************************************************************)
SuccList == {<<>>} \cup {<<b>> : b \in Block \ {Entry}}
              \cup {<<b, c>> : b, c \in Block \ {Entry}}
Target   == {s \in SuccList : IsInjective(s)}

Preds(succ, b) == {p \in Block : b \in ToSet(succ[p])}

Consistent(succ, pre) ==
  \A b \in Block : IsInjective(pre[b]) /\ ToSet(pre[b]) = Preds(succ, b)

\* The blocks reached from the entry along edges that avoid d.
ReachedAvoiding(succ, d) ==
  LET reached[k \in 0..N] ==
        IF k = 0 THEN {Entry} \ {d}
        ELSE LET now == reached[k - 1]
             IN  now \cup ((UNION {ToSet(succ[b]) : b \in now}) \ {d})
  IN  reached[N]

Reached(succ) == ReachedAvoiding(succ, NoBlock)

\* d is on every path from the entry to b (b reached).
DominatorsOf(succ, b) ==
  IF b \in Reached(succ) THEN {d \in Block : b \notin ReachedAvoiding(succ, d)} ELSE {}
StrictDominators(succ, b) == DominatorsOf(succ, b) \ {b}

\* The strict dominator that every other strict dominator dominates.
ImmediateDominator(succ, b) ==
  LET strict == StrictDominators(succ, b)
  IN  CHOOSE d \in strict : strict \subseteq DominatorsOf(succ, d)

\* Where the dominance of b ends: b dominates a predecessor of y, not y.
Dominated(succ, b) == Reached(succ) \ ReachedAvoiding(succ, b)
Frontier(succ, b) ==
  LET under == Dominated(succ, b)
  IN  {y \in Reached(succ) : /\ y \notin under \ {b}
                             /\ Preds(succ, y) \cap under # {}}

\* Every edge into a reached block comes from a reached block.
NoUnreachedPred(succ) ==
  \A b \in Reached(succ) : Preds(succ, b) \subseteq Reached(succ)
=============================================================================
