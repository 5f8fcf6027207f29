-------------------------------- MODULE GVN --------------------------------
(***************************************************************************)
(* GVN::run for one function: detectEquivalences goes over the blocks in   *)
(* list order, again as long as `changed` says so; then replace_cc_members *)
(* replaces what a congruence class holds by its leader.  A step is one    *)
(* block.  DeadCode runs before and after, in a module of its own.         *)
(***************************************************************************)
EXTENDS ValueNumbering

CONSTANTS Functions,   \* the functions: [preds, succs, code, ins, params, low],
                       \* low being whether older values lie at lower addresses
          MaxRounds    \* the rounds of detectEquivalences looked at

VARIABLES
  fn,          \* the function
  operands,    \* the operands of its instructions, as the pass leaves them
  pc,          \* what run does next
  pout,        \* pout_
  nextValueNumber, nextOther,
  changed, at, round,
  left         \* blocks replace_cc_members has not come to

vars == <<fn, operands, pc, pout, nextValueNumber, nextOther, changed, at, round, left>>

Blocks  == DOMAIN fn.code       \* in list order; the first is the entry block
Phis(b) == SelectSeq(fn.code[b], LAMBDA x : fn.ins[x].op = "phi")
Plain(b) == SelectSeq(fn.code[b], LAMBDA x : fn.ins[x].op # "phi")

\* The instructions of a list, one transferFunction after the other.
Through(flow, list, b) ==
  InTurn(LAMBDA fl, x : transferFunction(fn.preds, pout, fl, x, fn.ins[x], b), flow, list)

\* The phis of the successors, as copies at the end of b.
PhiCopies(flow, b) ==
  InTurn(LAMBDA fl, s : Through(fl, Phis(s), b), flow, fn.succs[b])

Init ==
  /\ fn \in Functions
  /\ operands = [x \in DOMAIN fn.ins |-> fn.ins[x].args]
  /\ pc = "initial"
  /\ pout = [b \in Blocks |-> <<Top>>]
  /\ nextValueNumber = 1 /\ nextOther = 1
  /\ changed = FALSE /\ at = 2 /\ round = 1 /\ left = {}

\* The pass ends in a fault: pc is its kind.
Fail(fault) ==
  /\ pc' = fault[1]
  /\ UNCHANGED <<fn, operands, pout, nextValueNumber, nextOther, changed, at, round, left>>

\* mutant: arguments and globals are not put in classes of their own
ParamClassesNone == <<>>
\* A class of its own for every global and argument.
ParamClasses ==
  [k \in DOMAIN fn.params |-> Class(k, fn.params[k], Param(fn.params[k]), Null, {fn.params[k]})]

initial ==
  /\ pc = "initial"
  /\ \E out \in {PhiCopies(Through(Flow(ParamClasses, Len(fn.params) + 1, nextOther, fn.low),
                                  fn.code[1], 1), 1)} :
         \/ /\ out.fault = Null
            /\ pout' = [pout EXCEPT ![1] = out.p]
            /\ nextValueNumber' = out.vn /\ nextOther' = out.id
            /\ pc' = IF Len(fn.code) = 1 THEN "replace" ELSE "visit"
            /\ left' = IF Len(fn.code) = 1 THEN Blocks ELSE {}
            /\ UNCHANGED <<fn, operands, changed, at, round>>
         \/ out.fault # Null /\ Fail(out.fault)

\* What reaches the block: the first predecessor joined with the last.
Pin(preds, flow) ==
  IF preds = <<>> THEN [flow EXCEPT !.p = <<>>]
  ELSE InTurn(LAMBDA fl, q : join(pout[Head(preds)], pout[q], fl),
                [flow EXCEPT !.p = pout[Head(preds)]], Tail(preds))

BlockOut(b) ==
  LET start == Flow(<<>>, nextValueNumber, nextOther, fn.low)
  IN  PhiCopies(Through(Pin(fn.preds[b], start), Plain(b), b), b)

VisitBlock ==
  /\ pc = "visit"
  /\ at \in Blocks
  /\ \E out \in {BlockOut(at)} :
         \/ /\ out.fault = Null
            /\ changed' = ~SameMembers(out.p, pout[at])
            /\ pout' = [pout EXCEPT ![at] = out.p]
            /\ nextValueNumber' = out.vn /\ nextOther' = out.id
            /\ at' = at + 1
            /\ UNCHANGED <<fn, operands, pc, round, left>>
         \/ out.fault # Null /\ Fail(out.fault)

\* mutant: another round does not begin at the first block
EndRoundStays ==
  /\ pc = "visit" /\ at \notin Blocks
  /\ pc' = IF changed THEN pc ELSE "replace"
  /\ left' = IF changed THEN left ELSE Blocks
  /\ UNCHANGED <<fn, operands, pout, nextValueNumber, nextOther, changed, at, round>>
EndRound ==
  /\ pc = "visit" /\ at \notin Blocks
  /\ \/ /\ changed /\ round < MaxRounds
        /\ at' = 2 /\ round' = round + 1
        /\ UNCHANGED <<pc, left>>
     \/ /\ ~changed
        /\ pc' = "replace" /\ left' = Blocks
        /\ UNCHANGED <<at, round>>
  /\ UNCHANGED <<fn, operands, pout, nextValueNumber, nextOther, changed>>

(***************************************************************************)
(* replace_cc_members for the class c of pout_[b]: uses of its members in  *)
(* the block, and in the phis of the blocks b branches to, whichever edge  *)
(* the operand belongs to.                                                 *)
(***************************************************************************)
InReach(x, b) ==
  IF fn.ins[x].op = "phi"
  THEN \E k \in DOMAIN fn.code : x \in ToSet(fn.code[k]) /\ b \in ToSet(fn.preds[k])
  ELSE x \in ToSet(fn.code[b])

IsPhi(v) == v \in DOMAIN fn.ins /\ fn.ins[v].op = "phi"
\* mutant: a phi of a class without a value phi is replaced too
ReplacedAll(c) == {m \in c.members : m # c.leader}
Replaced(c) == {m \in c.members : m # c.leader /\ (c.phi # Null \/ ~IsPhi(m))}

ReplaceMembers(ops, c, b) ==
  [x \in DOMAIN ops |->
     [n \in DOMAIN ops[x] |->
        IF ops[x][n] \in Replaced(c) /\ InReach(x, b) THEN c.leader ELSE ops[x][n]]]

\* Blocks come in the order of their addresses.  A leader that is nullptr
\* leads phis only, which are not replaced.
ReplaceIn(b) ==
  /\ pc = "replace" /\ b \in left
  /\ operands' = InTurn(LAMBDA o, c : ReplaceMembers(o, c, b), operands,
                        SelectSeq(pout[b], LAMBDA c : ~IsTop(c)))
  /\ left' = left \ {b}
  /\ UNCHANGED <<fn, pc, pout, nextValueNumber, nextOther, changed, at, round>>

EndReplace ==
  /\ pc = "replace" /\ left = {}
  /\ pc' = "done"
  /\ UNCHANGED <<fn, operands, pout, nextValueNumber, nextOther, changed, at, round, left>>

Done == pc \in {"done", "undefined", "trap"} /\ UNCHANGED vars

Next == \/ initial \/ VisitBlock \/ EndRound
        \/ \E b \in left : ReplaceIn(b)
        \/ EndReplace \/ Done
Spec == Init /\ [][Next]_vars /\ WF_vars(Next)
=============================================================================
