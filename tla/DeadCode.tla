------------------------------ MODULE DeadCode ------------------------------
(***************************************************************************)
(* DeadCode::run: function by function, mark what the critical             *)
(* instructions need, then sweep the rest; again until a pass erases       *)
(* nothing.  A sweep first takes the dead instructions out of the use      *)
(* lists of their operands and only then frees them, one at a time.        *)
(***************************************************************************)
EXTENDS Integers

CONSTANTS NumFuncs,   \* number of functions
          Ins,        \* the instructions of the module
          Programs    \* the modules: a set of [home, op, callee, operands]

ASSUME NumFuncsAssumption == NumFuncs \in Nat

Func == 1..NumFuncs
Op   == {"br", "ret", "store", "call", "other"}

\* Operands are the instructions used as operands; they are instructions of
\* the same function, and may use each other in a circle through phis.
Program == [home : [Ins -> Func], op : [Ins -> Op], callee : [Ins -> Func],
            operands : [Ins -> SUBSET Ins], is_pure : [Func -> BOOLEAN]]

ASSUME ProgramsAssumption ==
  /\ Programs \subseteq Program
  /\ \A p \in Programs : \A i \in Ins : \A d \in p.operands[i] : p.home[d] = p.home[i]

VARIABLES
  home, op, callee, operands,
  is_pure,         \* the verdict FuncInfo gave when run began
  live,            \* the instructions in their blocks; the others are freed
  use_list,        \* Value::use_list_: the users of each instruction
  pc,
  func,            \* the function mark and sweep are at
  changed,
  marked, work_list,
  now, ops,        \* locals of mark(Instruction *): ins, the operands left
  wait_del,        \* the instructions to free
  unlinked         \* those of them already out of the use lists

ir   == <<home, op, callee, operands, is_pure>>
vars == <<home, op, callee, operands, is_pure, live, use_list, pc, func, changed,
          marked, work_list, now, ops, wait_del, unlinked>>

TypeOK ==
  /\ home \in [Ins -> Func] /\ op \in [Ins -> Op] /\ callee \in [Ins -> Func]
  /\ operands \in [Ins -> SUBSET Ins] /\ is_pure \in [Func -> BOOLEAN]
  /\ live \subseteq Ins /\ use_list \in [Ins -> SUBSET Ins]
  /\ pc \in {"mark", "propagate", "operands", "unlink", "erase", "done"}
  /\ func \in 1..(NumFuncs + 1) /\ changed \in BOOLEAN
  /\ marked \subseteq Ins /\ work_list \subseteq Ins
  /\ now \subseteq Ins /\ ops \subseteq Ins
  /\ wait_del \subseteq Ins /\ unlinked \subseteq Ins

Users(d) == {u \in Ins : d \in operands[u]}

Init ==
  /\ \E p \in Programs :
        /\ home = p.home /\ op = p.op /\ callee = p.callee
        /\ operands = p.operands /\ is_pure = p.is_pure
  /\ live = Ins /\ use_list = [d \in Ins |-> Users(d)]
  /\ pc = "mark" /\ func = 1 /\ changed = FALSE
  /\ marked = {} /\ work_list = {} /\ now = {} /\ ops = {}
  /\ wait_del = {} /\ unlinked = {}

-----------------------------------------------------------------------------
\* A call matters unless its callee is pure.
IsCritical(i) == \/ op[i] \in {"br", "ret", "store"}
                 \/ op[i] = "call" /\ ~is_pure[callee[i]]

LiveIn(f) == {i \in live : home[i] = f}

\* mark(Function *): the critical instructions start the work list.  An
\* instruction is marked before it enters the list and so enters it once; the
\* order in which the list is served is left open.
MarkCritical ==
  /\ pc = "mark" /\ func <= NumFuncs
  /\ marked' = {i \in LiveIn(func) : IsCritical(i)}
  /\ work_list' = {i \in LiveIn(func) : IsCritical(i)}
  /\ pc' = "propagate"
  /\ UNCHANGED <<ir, live, use_list, func, changed, now, ops, wait_del, unlinked>>

TakeWork ==
  /\ pc = "propagate"
  /\ \E i \in work_list : /\ now' = {i} /\ ops' = operands[i]
                          /\ work_list' = work_list \ {i}
  /\ pc' = "operands"
  /\ UNCHANGED <<ir, live, use_list, func, changed, marked, wait_del, unlinked>>

\* Mutant: an operand is marked but not put on the work list.
MarkOperandOnly ==
  /\ pc = "operands"
  /\ \E d \in ops : /\ ops' = ops \ {d} /\ marked' = marked \cup {d}
  /\ UNCHANGED <<ir, live, use_list, pc, func, changed, work_list, now, wait_del, unlinked>>

\* One operand of ins: marked and queued unless it was, or is not of this
\* function.
MarkOperand ==
  /\ pc = "operands"
  /\ \E d \in ops :
       /\ ops' = ops \ {d}
       /\ IF d \in marked \/ \E i \in now : home[d] # home[i]
          THEN UNCHANGED <<marked, work_list>>
          ELSE marked' = marked \cup {d} /\ work_list' = work_list \cup {d}
  /\ UNCHANGED <<ir, live, use_list, pc, func, changed, now, wait_del, unlinked>>

EndOperands ==
  /\ pc = "operands" /\ ops = {}
  /\ pc' = "propagate" /\ now' = {}
  /\ UNCHANGED <<ir, live, use_list, func, changed, marked, work_list, ops, wait_del, unlinked>>

\* Mutants: the sweep goes over all functions; it takes only what nobody uses.
BeginSweepEverywhere ==
  /\ pc = "propagate" /\ work_list = {}
  /\ wait_del' = live \ marked
  /\ changed' = (changed \/ wait_del' # {})
  /\ unlinked' = {}
  /\ pc' = "unlink"
  /\ UNCHANGED <<ir, live, use_list, func, marked, work_list, now, ops>>
BeginSweepUnused ==
  /\ pc = "propagate" /\ work_list = {}
  /\ wait_del' = {i \in LiveIn(func) \ marked : use_list[i] = {}}
  /\ changed' = (changed \/ wait_del' # {})
  /\ unlinked' = {}
  /\ pc' = "unlink"
  /\ UNCHANGED <<ir, live, use_list, func, marked, work_list, now, ops>>

\* sweep: everything of the function that is not marked has to go.
BeginSweep ==
  /\ pc = "propagate" /\ work_list = {}
  /\ wait_del' = LiveIn(func) \ marked
  /\ changed' = (changed \/ wait_del' # {})
  /\ unlinked' = {}
  /\ pc' = "unlink"
  /\ UNCHANGED <<ir, live, use_list, func, marked, work_list, now, ops>>

\* Mutants: the use lists are left alone; each instruction is freed as soon
\* as it is unlinked.
UnlinkNothing ==
  /\ pc = "unlink"
  /\ \E i \in wait_del \ unlinked : unlinked' = unlinked \cup {i}
  /\ UNCHANGED <<ir, live, use_list, pc, func, changed, marked, work_list, now, ops, wait_del>>
UnlinkAndFree ==
  /\ pc = "unlink"
  /\ \E i \in wait_del \ unlinked :
       /\ use_list' = [d \in Ins |-> IF d \in operands[i] THEN use_list[d] \ {i}
                                                          ELSE use_list[d]]
       /\ unlinked' = unlinked \cup {i} /\ live' = live \ {i}
  /\ UNCHANGED <<ir, pc, func, changed, marked, work_list, now, ops, wait_del>>

\* remove_use_of_ops of one of them, in any order: wait_del is a hash set.
Unlink ==
  /\ pc = "unlink"
  /\ \E i \in wait_del \ unlinked :
       /\ use_list' = [d \in Ins |-> IF d \in operands[i] THEN use_list[d] \ {i}
                                                          ELSE use_list[d]]
       /\ unlinked' = unlinked \cup {i}
  /\ UNCHANGED <<ir, live, pc, func, changed, marked, work_list, now, ops, wait_del>>

EndUnlink ==
  /\ pc = "unlink" /\ wait_del \subseteq unlinked
  /\ pc' = "erase"
  /\ UNCHANGED <<ir, live, use_list, func, changed, marked, work_list, now, ops,
                 wait_del, unlinked>>

Erase ==
  /\ pc = "erase"
  /\ \E i \in wait_del : live' = live \ {i} /\ wait_del' = wait_del \ {i}
  /\ UNCHANGED <<ir, use_list, pc, func, changed, marked, work_list, now, ops, unlinked>>

EndSweep ==
  /\ pc = "erase" /\ wait_del = {}
  /\ pc' = "mark" /\ func' = func + 1
  /\ UNCHANGED <<ir, live, use_list, changed, marked, work_list, now, ops, wait_del, unlinked>>

\* Mutant: `changed' is not reset.
EndPassKeepsChanged ==
  /\ pc = "mark" /\ func > NumFuncs
  /\ IF changed THEN func' = 1 /\ UNCHANGED pc
                ELSE pc' = "done" /\ UNCHANGED func
  /\ UNCHANGED <<ir, live, use_list, changed, marked, work_list, now, ops, wait_del, unlinked>>

\* The end of a pass over the functions: another one if it erased anything.
EndPass ==
  /\ pc = "mark" /\ func > NumFuncs
  /\ IF changed THEN func' = 1 /\ changed' = FALSE /\ UNCHANGED pc
                ELSE pc' = "done" /\ UNCHANGED <<func, changed>>
  /\ UNCHANGED <<ir, live, use_list, marked, work_list, now, ops, wait_del, unlinked>>

Next == \/ MarkCritical \/ TakeWork \/ MarkOperand \/ EndOperands \/ BeginSweep
        \/ Unlink \/ EndUnlink \/ Erase \/ EndSweep \/ EndPass
Spec == Init /\ [][Next]_vars
FairSpec == Spec /\ WF_vars(Next)

-----------------------------------------------------------------------------
(* Properties.                                                              *)

\* What will be there when the sweep in progress is over.
Kept == IF pc \in {"unlink", "erase"} THEN live \ wait_del ELSE live

\* An instruction with an effect is never erased.
CriticalKept == \A i \in Ins : IsCritical(i) => i \in Kept

\* Nothing that is kept uses an instruction that is freed.
NoDangling == \A i \in Kept : operands[i] \subseteq Kept

\* remove_use_of_ops goes through the operands of instructions about to be
\* freed: none of these operands has been freed before.
UnlinkTouchesLive ==
  pc = "unlink" => \A i \in wait_del \ unlinked : operands[i] \subseteq live

\* Between two sweeps the use list of an instruction holds its users, all of
\* them and no freed one.
UseListsExact ==
  pc \notin {"unlink", "erase"} => \A d \in live : use_list[d] = Users(d) \cap live

\* What the critical instructions need, directly or not.
Useful(S) == /\ \A i \in Ins : IsCritical(i) => i \in S
             /\ \A i \in S : operands[i] \subseteq S

\* At the end nothing is left that no critical instruction needs, circles of
\* phis included: what is left is in every set with these properties.
OnlyUsefulLeft ==
  pc = "done" => \A S \in SUBSET Ins : Useful(S) => live \subseteq S

\* The pass ends.
Ends == <>(pc = "done")
=============================================================================
