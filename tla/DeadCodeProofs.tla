--------------------------- MODULE DeadCodeProofs ---------------------------
(***************************************************************************)
(* For every module, DeadCode keeps what has an effect and all it needs,   *)
(* frees everything else, never touches a freed instruction and leaves     *)
(* exact use lists.                                                        *)
(***************************************************************************)
EXTENDS DeadCode, TLAPS

-----------------------------------------------------------------------------
(* The inductive invariant.                                                 *)

SameFunction == \A i \in Ins : \A d \in operands[i] : home[d] = home[i]

\* While marking: what is marked is live, holds the critical instructions of
\* the function, and an instruction served has its operands marked, up to the
\* operands mark(Instruction *) has still to look at.
MarkInv ==
  pc \in {"propagate", "operands"} =>
    /\ func \in Func
    /\ marked \subseteq LiveIn(func) /\ work_list \subseteq marked
    /\ \A i \in LiveIn(func) : IsCritical(i) => i \in marked
    /\ \A i \in marked \ work_list :
          operands[i] \subseteq IF pc = "operands" /\ now = {i} THEN marked \cup ops
                                                                ELSE marked
    /\ pc = "operands" => \E i \in marked : now = {i} /\ ops \subseteq operands[i]

\* While sweeping: only instructions of the function go.
SweepInv ==
  pc \in {"unlink", "erase"} =>
    /\ func \in Func
    /\ wait_del \subseteq LiveIn(func)
    /\ pc = "unlink" => /\ unlinked \subseteq wait_del
                        /\ \A i \in live : operands[i] \subseteq live

\* The use lists hold the users that are not unlinked yet.
Linked == CASE pc = "unlink" -> live \ unlinked
            [] pc = "erase"  -> live \ wait_del
            [] OTHER         -> live
LinkInv == \A d \in live : use_list[d] = Users(d) \cap Linked

\* What is kept of the functions done so far is needed.
UsefulInv ==
  \A S \in SUBSET Ins : Useful(S) =>
    /\ pc \in {"propagate", "operands"} => marked \subseteq S
    /\ \A i \in Kept : home[i] < func => i \in S
    /\ pc \in {"unlink", "erase"} => \A i \in Kept : home[i] = func => i \in S
EndInv == pc = "done" => func > NumFuncs

IInv == /\ TypeOK /\ SameFunction /\ MarkInv /\ SweepInv /\ LinkInv
        /\ CriticalKept /\ NoDangling /\ UsefulInv /\ EndInv

-----------------------------------------------------------------------------
LEMMA InitInv == Init => IInv
<1> SUFFICES ASSUME Init PROVE IInv
  OBVIOUS
<1> USE NumFuncsAssumption
<1> PICK p \in Programs :
       /\ home = p.home /\ op = p.op /\ callee = p.callee
       /\ operands = p.operands /\ is_pure = p.is_pure
  BY DEF Init
<1>1. p \in Program /\ SameFunction
  BY ProgramsAssumption DEF SameFunction
<1>2. TypeOK
  <2>1. /\ p.home \in [Ins -> Func] /\ p.op \in [Ins -> Op]
        /\ p.callee \in [Ins -> Func] /\ p.operands \in [Ins -> SUBSET Ins]
        /\ p.is_pure \in [Func -> BOOLEAN]
    BY <1>1 DEF Program
  <2>2. live \subseteq Ins /\ use_list \in [Ins -> SUBSET Ins]
    BY DEF Init, Users
  <2>3. /\ func = 1 /\ changed = FALSE /\ pc = "mark"
        /\ marked = {} /\ work_list = {} /\ now = {} /\ ops = {}
        /\ wait_del = {} /\ unlinked = {}
    BY DEF Init
  <2>4. 1 \in 1..(NumFuncs + 1)
    OBVIOUS
  <2> QED
    BY <2>1, <2>2, <2>3, <2>4 DEF TypeOK
<1>3. MarkInv /\ SweepInv /\ EndInv
  BY DEF Init, MarkInv, SweepInv, EndInv
<1>4. Kept = Ins /\ Linked = Ins
  BY DEF Init, Kept, Linked
<1>5. LinkInv
  BY <1>4 DEF Init, LinkInv, Users
<1>6. CriticalKept
  BY <1>4 DEF CriticalKept
<1>7. NoDangling
  BY <1>2, <1>4 DEF NoDangling, TypeOK
<1>8. UsefulInv
  <2>1. \A i \in Ins : ~(home[i] < func)
    BY <1>2 DEF Init, TypeOK, Func
  <2> QED
    BY <1>4, <2>1 DEF Init, UsefulInv
<1> QED
  BY <1>1, <1>2, <1>3, <1>5, <1>6, <1>7, <1>8 DEF IInv

LEMMA TypeStep == IInv /\ [Next]_vars => TypeOK'
<1> SUFFICES ASSUME TypeOK, SweepInv, [Next]_vars PROVE TypeOK'
  BY DEF IInv
<1> USE NumFuncsAssumption DEF TypeOK, ir
<1>1. CASE MarkCritical
  BY <1>1 DEF MarkCritical, LiveIn
<1>2. CASE TakeWork
  BY <1>2 DEF TakeWork
<1>3. CASE MarkOperand
  BY <1>3 DEF MarkOperand
<1>4. CASE EndOperands
  BY <1>4 DEF EndOperands
<1>5. CASE BeginSweep
  BY <1>5 DEF BeginSweep, LiveIn
<1>6. CASE Unlink
  BY <1>6 DEF Unlink
<1>7. CASE EndUnlink
  BY <1>7 DEF EndUnlink
<1>8. CASE Erase
  BY <1>8 DEF Erase
<1>9. CASE EndSweep
  <2>1. func \in Func
    BY <1>9 DEF EndSweep, SweepInv
  <2> QED
    BY <1>9, <2>1 DEF EndSweep, Func
<1>10. CASE EndPass
  <2>1. func' \in 1..(NumFuncs + 1) /\ changed' \in BOOLEAN
    <3>1. CASE changed
      <4>1. func' = 1 /\ changed' = FALSE
        BY <1>10, <3>1 DEF EndPass
      <4>2. 1 \in 1..(NumFuncs + 1)
        OBVIOUS
      <4> QED
        BY <4>1, <4>2
    <3>2. CASE ~changed
      <4>1. func' = func /\ changed' = changed
        BY <1>10, <3>2 DEF EndPass
      <4> QED
        BY <4>1
    <3> QED
      BY <3>1, <3>2
  <2>2. pc' \in {"mark", "done"}
    BY <1>10 DEF EndPass
  <2> QED
    BY <1>10, <2>1, <2>2 DEF EndPass
<1>11. CASE UNCHANGED vars
  BY <1>11 DEF vars
<1> QED
  BY <1>1, <1>2, <1>3, <1>4, <1>5, <1>6, <1>7, <1>8, <1>9, <1>10, <1>11 DEF Next

-----------------------------------------------------------------------------
(* The induction step, one lemma per part of the invariant.                 *)

LEMMA SameFunctionStep == IInv /\ [Next]_vars => SameFunction'
<1> SUFFICES ASSUME IInv, [Next]_vars PROVE SameFunction'
  OBVIOUS
<1>1. UNCHANGED ir
  BY DEF Next, vars, ir, MarkCritical, TakeWork, MarkOperand, EndOperands,
         BeginSweep, Unlink, EndUnlink, Erase, EndSweep, EndPass
<1> QED
  BY <1>1 DEF IInv, SameFunction, ir

LEMMA MarkStep == IInv /\ [Next]_vars => MarkInv'
<1> SUFFICES ASSUME IInv, [Next]_vars, pc' \in {"propagate", "operands"}
             PROVE  MarkInv'
  BY DEF MarkInv
<1> TypeOK /\ SameFunction /\ MarkInv
  BY DEF IInv
<1>1. CASE MarkCritical
  <2>1. /\ func \in Func /\ func' = func /\ pc' = "propagate" /\ UNCHANGED <<ir, live>>
        /\ marked' = {i \in LiveIn(func) : IsCritical(i)} /\ work_list' = marked'
    BY <1>1, NumFuncsAssumption DEF MarkCritical, TypeOK, Func
  <2> QED
    BY <2>1 DEF MarkInv, LiveIn, IsCritical, ir
<1>2. CASE TakeWork
  <2> PICK i \in work_list : /\ now' = {i} /\ ops' = operands[i]
                             /\ work_list' = work_list \ {i}
    BY <1>2 DEF TakeWork
  <2>1. /\ pc = "propagate" /\ pc' = "operands" /\ UNCHANGED <<ir, live, func, marked>>
    BY <1>2 DEF TakeWork
  <2>2. /\ func \in Func /\ marked \subseteq LiveIn(func) /\ work_list \subseteq marked
        /\ \A j \in LiveIn(func) : IsCritical(j) => j \in marked
        /\ \A j \in marked \ work_list : operands[j] \subseteq marked
    BY <2>1 DEF MarkInv
  <2>3. \A j \in marked \ work_list' : j = i \/ operands[j] \subseteq marked
    BY <2>2
  <2>4. \A j \in marked' \ work_list' :
           operands'[j] \subseteq IF now' = {j} THEN marked' \cup ops' ELSE marked'
    BY <2>1, <2>3 DEF ir
  <2>5. LiveIn(func)' = LiveIn(func) /\ \A j : IsCritical(j)' = IsCritical(j)
    BY <2>1 DEF LiveIn, IsCritical, ir
  <2> QED
    BY <2>1, <2>2, <2>4, <2>5 DEF MarkInv, ir
<1>3. CASE MarkOperand
  <2> PICK d \in ops :
         /\ ops' = ops \ {d}
         /\ IF d \in marked \/ \E j \in now : home[d] # home[j]
            THEN UNCHANGED <<marked, work_list>>
            ELSE marked' = marked \cup {d} /\ work_list' = work_list \cup {d}
    BY <1>3 DEF MarkOperand
  <2>1. /\ pc = "operands" /\ pc' = "operands" /\ UNCHANGED <<ir, live, func, now>>
    BY <1>3 DEF MarkOperand
  <2>2. /\ func \in Func /\ marked \subseteq LiveIn(func) /\ work_list \subseteq marked
        /\ \A j \in LiveIn(func) : IsCritical(j) => j \in marked
        /\ \A j \in marked \ work_list :
              operands[j] \subseteq IF now = {j} THEN marked \cup ops ELSE marked
    BY <2>1 DEF MarkInv
  <2> PICK i \in marked : now = {i} /\ ops \subseteq operands[i]
    BY <2>1 DEF MarkInv
  <2>3. i \in live /\ home[i] = func /\ d \in operands[i] /\ home[d] = home[i]
    BY <2>2 DEF LiveIn, SameFunction, TypeOK
  <2>4. d \in LiveIn(func)
    <3>1. Kept = live
      BY <2>1 DEF Kept
    <3> QED
      BY <2>3, <3>1 DEF IInv, NoDangling, LiveIn
  <2>5. /\ marked' = marked \cup {d}
        /\ work_list' = work_list \/ work_list' = work_list \cup {d}
        /\ work_list' = work_list => d \in marked
    <3>1. ~ \E j \in now : home[d] # home[j]
      BY <2>3
    <3>2. CASE d \in marked
      BY <3>2
    <3>3. CASE d \notin marked
      BY <3>1, <3>3, <2>2
    <3> QED
      BY <3>2, <3>3
  <2>6. ASSUME NEW j \in marked' \ work_list'
        PROVE  operands'[j] \subseteq IF now' = {j} THEN marked' \cup ops' ELSE marked'
    <3>1. j \in marked \ work_list
      BY <2>5
    <3>2. operands[j] \subseteq IF now = {j} THEN marked \cup ops ELSE marked
      BY <3>1, <2>2
    <3>3. marked \cup ops \subseteq marked' \cup ops'
      BY <2>5
    <3> QED
      BY <3>2, <3>3, <2>1, <2>5 DEF ir
  <2>7. LiveIn(func)' = LiveIn(func) /\ \A j : IsCritical(j)' = IsCritical(j)
    BY <2>1 DEF LiveIn, IsCritical, ir
  <2>8. /\ marked' \subseteq LiveIn(func)' /\ work_list' \subseteq marked'
        /\ \A j \in LiveIn(func)' : IsCritical(j)' => j \in marked'
    BY <2>2, <2>4, <2>5, <2>7
  <2>9. i \in marked' /\ now' = {i} /\ ops' \subseteq operands'[i]
    BY <2>1, <2>5 DEF ir
  <2> QED
    BY <2>1, <2>2, <2>6, <2>8, <2>9 DEF MarkInv
<1>4. CASE EndOperands
  <2>1. /\ pc = "operands" /\ ops = {} /\ pc' = "propagate" /\ now' = {}
        /\ UNCHANGED <<ir, live, func, marked, work_list, ops>>
    BY <1>4 DEF EndOperands
  <2>2. LiveIn(func)' = LiveIn(func) /\ \A j : IsCritical(j)' = IsCritical(j)
    BY <2>1 DEF LiveIn, IsCritical, ir
  <2> QED
    BY <2>1, <2>2 DEF MarkInv, ir
<1>5. CASE UNCHANGED vars
  BY <1>5 DEF vars, MarkInv, LiveIn, IsCritical
<1>6. CASE BeginSweep \/ Unlink \/ EndUnlink \/ Erase \/ EndSweep \/ EndPass
  BY <1>6 DEF BeginSweep, Unlink, EndUnlink, Erase, EndSweep, EndPass
<1> QED
  BY <1>1, <1>2, <1>3, <1>4, <1>5, <1>6 DEF Next

LEMMA SweepStep == IInv /\ [Next]_vars => SweepInv'
<1> SUFFICES ASSUME IInv, [Next]_vars, pc' \in {"unlink", "erase"}
             PROVE  SweepInv'
  BY DEF SweepInv
<1> TypeOK /\ SweepInv
  BY DEF IInv
<1>1. CASE BeginSweep
  <2>1. /\ pc = "propagate" /\ pc' = "unlink" /\ unlinked' = {}
        /\ wait_del' = LiveIn(func) \ marked
        /\ UNCHANGED <<ir, live, func>>
    BY <1>1 DEF BeginSweep
  <2>2. func \in Func
    BY <2>1 DEF IInv, MarkInv
  <2>3. \A i \in live : operands[i] \subseteq live
    BY <2>1 DEF IInv, NoDangling, Kept
  <2> QED
    BY <2>1, <2>2, <2>3 DEF SweepInv, LiveIn, ir
<1>2. CASE Unlink
  BY <1>2 DEF Unlink, SweepInv, LiveIn, ir
<1>3. CASE EndUnlink
  BY <1>3 DEF EndUnlink, SweepInv, LiveIn, ir
<1>4. CASE Erase
  BY <1>4 DEF Erase, SweepInv, LiveIn, ir
<1>5. CASE UNCHANGED vars
  BY <1>5 DEF vars, SweepInv, LiveIn
<1>6. CASE MarkCritical \/ TakeWork \/ MarkOperand \/ EndOperands \/ EndSweep \/ EndPass
  BY <1>6 DEF MarkCritical, TakeWork, MarkOperand, EndOperands, EndSweep, EndPass
<1> QED
  BY <1>1, <1>2, <1>3, <1>4, <1>5, <1>6 DEF Next

LEMMA LinkStep == IInv /\ [Next]_vars => LinkInv'
<1> SUFFICES ASSUME IInv, [Next]_vars, NEW d \in live'
             PROVE  (use_list[d] = Users(d) \cap Linked)'
  BY DEF LinkInv
<1>1. /\ UNCHANGED ir /\ live' \subseteq live
  BY DEF Next, vars, ir, MarkCritical, TakeWork, MarkOperand, EndOperands,
         BeginSweep, Unlink, EndUnlink, Erase, EndSweep, EndPass
<1>2. Users(d)' = Users(d) /\ d \in Ins
  BY <1>1 DEF Users, ir, IInv, TypeOK
<1>3. use_list[d] = Users(d) \cap Linked
  BY <1>1 DEF IInv, LinkInv
<1>4. CASE Unlink
  <2> PICK i \in wait_del \ unlinked :
         /\ use_list' = [e \in Ins |-> IF e \in operands[i] THEN use_list[e] \ {i}
                                                            ELSE use_list[e]]
         /\ unlinked' = unlinked \cup {i}
    BY <1>4 DEF Unlink
  <2>1. pc = "unlink" /\ pc' = "unlink" /\ live' = live
    BY <1>4 DEF Unlink
  <2>2. Linked' = Linked \ {i}
    BY <2>1 DEF Linked
  <2>3. CASE d \in operands[i]
    BY <1>2, <1>3, <2>2, <2>3
  <2>4. CASE d \notin operands[i]
    BY <1>2, <1>3, <2>2, <2>4 DEF Users
  <2> QED
    BY <2>3, <2>4
<1>5. CASE EndUnlink
  <2>1. /\ pc = "unlink" /\ pc' = "erase" /\ wait_del \subseteq unlinked
        /\ unlinked \subseteq wait_del
        /\ UNCHANGED <<live, use_list, wait_del, unlinked>>
    BY <1>5 DEF EndUnlink, IInv, SweepInv
  <2>2. Linked' = Linked
    BY <2>1 DEF Linked
  <2> QED
    BY <1>2, <1>3, <2>1, <2>2
<1>6. CASE Erase
  <2> PICK i \in wait_del : live' = live \ {i} /\ wait_del' = wait_del \ {i}
    BY <1>6 DEF Erase
  <2>1. pc = "erase" /\ pc' = "erase" /\ use_list' = use_list
    BY <1>6 DEF Erase
  <2>2. Linked' = Linked
    BY <2>1 DEF Linked
  <2> QED
    BY <1>2, <1>3, <2>1, <2>2
<1>7. CASE EndSweep
  <2>1. pc = "erase" /\ pc' = "mark" /\ wait_del = {} /\ UNCHANGED <<live, use_list>>
    BY <1>7 DEF EndSweep
  <2>2. Linked' = Linked
    BY <2>1 DEF Linked
  <2> QED
    BY <1>2, <1>3, <2>1, <2>2
<1>8. CASE BeginSweep
  <2>1. pc = "propagate" /\ pc' = "unlink" /\ unlinked' = {} /\ UNCHANGED <<live, use_list>>
    BY <1>8 DEF BeginSweep
  <2>2. Linked' = Linked
    BY <2>1 DEF Linked
  <2> QED
    BY <1>2, <1>3, <2>1, <2>2
<1>9. CASE MarkCritical \/ TakeWork \/ MarkOperand \/ EndOperands \/ EndPass
  <2>1. /\ UNCHANGED <<live, use_list>>
        /\ pc \notin {"unlink", "erase"} /\ pc' \notin {"unlink", "erase"}
    BY <1>9 DEF MarkCritical, TakeWork, MarkOperand, EndOperands, EndPass
  <2>2. Linked' = Linked
    BY <2>1 DEF Linked
  <2> QED
    BY <1>2, <1>3, <2>1, <2>2
<1>10. CASE UNCHANGED vars
  <2>1. Linked' = Linked /\ use_list' = use_list
    BY <1>10 DEF vars, Linked
  <2> QED
    BY <1>2, <1>3, <2>1
<1> QED
  BY <1>4, <1>5, <1>6, <1>7, <1>8, <1>9, <1>10 DEF Next

\* What the sweep about to begin keeps is closed and holds what is critical.
LEMMA KeptStep == IInv /\ [Next]_vars => CriticalKept' /\ NoDangling'
<1> SUFFICES ASSUME IInv, [Next]_vars PROVE CriticalKept' /\ NoDangling'
  OBVIOUS
<1> TypeOK /\ SameFunction /\ MarkInv /\ CriticalKept /\ NoDangling
  BY DEF IInv
<1>1. UNCHANGED ir
  BY DEF Next, vars, ir, MarkCritical, TakeWork, MarkOperand, EndOperands,
         BeginSweep, Unlink, EndUnlink, Erase, EndSweep, EndPass
<1>2. \A i : IsCritical(i)' = IsCritical(i)
  BY <1>1 DEF IsCritical, ir
<1>3. CASE BeginSweep
  <2>1. /\ pc = "propagate" /\ pc' = "unlink" /\ work_list = {} /\ live' = live
        /\ wait_del' = LiveIn(func) \ marked
    BY <1>3 DEF BeginSweep
  <2>2. /\ Kept = live /\ Kept' = live \ (LiveIn(func) \ marked)
    BY <2>1 DEF Kept
  <2>3. /\ marked \subseteq LiveIn(func)
        /\ \A i \in LiveIn(func) : IsCritical(i) => i \in marked
        /\ \A i \in marked : operands[i] \subseteq marked
    BY <2>1 DEF MarkInv
  <2>4. CriticalKept'
    BY <1>2, <2>2, <2>3 DEF CriticalKept
  <2>5. ASSUME NEW i \in Kept', NEW d \in operands[i] PROVE d \in Kept'
    <3>1. i \in live /\ i \in Ins /\ d \in live /\ home[d] = home[i]
      BY <2>2 DEF NoDangling, SameFunction, TypeOK
    <3>2. CASE i \in marked
      BY <3>1, <3>2, <2>2, <2>3
    <3>3. CASE i \notin LiveIn(func)
      BY <3>1, <3>3, <2>2 DEF LiveIn
    <3> QED
      BY <3>2, <3>3, <2>2
  <2> QED
    BY <1>1, <2>4, <2>5 DEF NoDangling, ir
<1>4. CASE Erase
  <2> PICK i \in wait_del : live' = live \ {i} /\ wait_del' = wait_del \ {i}
    BY <1>4 DEF Erase
  <2>1. Kept' = Kept
    BY <1>4 DEF Erase, Kept
  <2> QED
    BY <1>1, <1>2, <2>1 DEF CriticalKept, NoDangling, ir
<1>5. CASE \/ MarkCritical \/ TakeWork \/ MarkOperand \/ EndOperands \/ EndPass
           \/ Unlink \/ EndUnlink \/ EndSweep \/ UNCHANGED vars
  <2>1. Kept' = Kept
    BY <1>5 DEF MarkCritical, TakeWork, MarkOperand, EndOperands, EndPass,
                Unlink, EndUnlink, EndSweep, vars, Kept
  <2> QED
    BY <1>1, <1>2, <2>1 DEF CriticalKept, NoDangling, ir
<1> QED
  BY <1>3, <1>4, <1>5 DEF Next

LEMMA UsefulStep == IInv /\ [Next]_vars => UsefulInv'
<1> SUFFICES ASSUME IInv, [Next]_vars, NEW S \in SUBSET Ins, Useful(S)'
             PROVE  /\ pc' \in {"propagate", "operands"} => marked' \subseteq S
                    /\ \A i \in Kept' : home'[i] < func' => i \in S
                    /\ pc' \in {"unlink", "erase"} =>
                         \A i \in Kept' : home'[i] = func' => i \in S
  BY DEF UsefulInv
<1> TypeOK /\ MarkInv /\ SweepInv
  BY DEF IInv
<1> USE NumFuncsAssumption
<1>1. UNCHANGED ir
  BY DEF Next, vars, ir, MarkCritical, TakeWork, MarkOperand, EndOperands,
         BeginSweep, Unlink, EndUnlink, Erase, EndSweep, EndPass
<1>2. Useful(S) /\ \A i : IsCritical(i)' = IsCritical(i)
  BY <1>1 DEF Useful, IsCritical, ir
<1>3. /\ pc \in {"propagate", "operands"} => marked \subseteq S
      /\ \A i \in Kept : home[i] < func => i \in S
      /\ pc \in {"unlink", "erase"} => \A i \in Kept : home[i] = func => i \in S
  BY <1>2 DEF IInv, UsefulInv
<1>4. CASE MarkCritical
  BY <1>1, <1>2, <1>3, <1>4 DEF MarkCritical, Kept, LiveIn, Useful, ir, TypeOK
<1>5. CASE TakeWork \/ EndOperands
  BY <1>1, <1>3, <1>5 DEF TakeWork, EndOperands, Kept, ir
<1>6. CASE MarkOperand
  <2> PICK d \in ops : marked' = marked \/ marked' = marked \cup {d}
    BY <1>6 DEF MarkOperand
  <2>1. pc = "operands" /\ pc' = pc /\ Kept' = Kept /\ func' = func
    BY <1>6 DEF MarkOperand, Kept
  <2>2. d \in S
    BY <2>1, <1>2, <1>3 DEF MarkInv, Useful
  <2> QED
    BY <1>1, <1>3, <2>1, <2>2 DEF ir
<1>7. CASE BeginSweep
  <2>1. /\ pc = "propagate" /\ pc' = "unlink" /\ Kept = live /\ func' = func
        /\ Kept' = live \ (LiveIn(func) \ marked)
    BY <1>7 DEF BeginSweep, Kept
  <2> QED
    BY <1>1, <1>3, <2>1 DEF LiveIn, ir
<1>8. CASE Unlink \/ EndUnlink \/ Erase
  <2>1. /\ pc \in {"unlink", "erase"} /\ pc' \in {"unlink", "erase"}
        /\ Kept' = Kept /\ func' = func
    BY <1>8 DEF Unlink, EndUnlink, Erase, Kept
  <2> QED
    BY <1>1, <1>3, <2>1 DEF ir
<1>9. CASE EndSweep
  <2>1. pc = "erase" /\ pc' = "mark" /\ Kept' = Kept /\ func' = func + 1
    BY <1>9 DEF EndSweep, Kept
  <2>2. \A i \in Kept : home[i] \in Nat /\ func \in Nat
    BY DEF Kept, TypeOK, Func
  <2>3. \A i \in Kept : home[i] < func + 1 => home[i] < func \/ home[i] = func
    BY <2>2
  <2> QED
    BY <1>1, <1>3, <2>1, <2>3 DEF ir
<1>10. CASE EndPass
  <2>1. /\ pc = "mark" /\ pc' \in {"mark", "done"} /\ Kept' = Kept
        /\ func' = 1 \/ func' = func
    BY <1>10 DEF EndPass, Kept
  <2>2. \A i \in Kept : ~(home[i] < 1)
    BY DEF Kept, TypeOK, Func
  <2> QED
    BY <1>1, <1>3, <2>1, <2>2 DEF ir
<1>11. CASE UNCHANGED vars
  BY <1>3, <1>11 DEF vars, Kept
<1> QED
  BY <1>4, <1>5, <1>6, <1>7, <1>8, <1>9, <1>10, <1>11 DEF Next

LEMMA EndStep == IInv /\ [Next]_vars => EndInv'
BY DEF IInv, EndInv, Next, vars, ir, MarkCritical, TakeWork, MarkOperand,
       EndOperands, BeginSweep, Unlink, EndUnlink, Erase, EndSweep, EndPass

-----------------------------------------------------------------------------
(* The theorems.                                                            *)

\* Every reachable state of the pass is described by the invariant.
THEOREM Invariant == Spec => []IInv
<1>1. IInv /\ [Next]_vars => IInv'
  BY TypeStep, SameFunctionStep, MarkStep, SweepStep, LinkStep, KeptStep,
     UsefulStep, EndStep DEF IInv
<1> QED
  BY <1>1, InitInv, PTL DEF Spec

\* The variables of DeadCode keep their types.
THEOREM TypeCorrect == Spec => []TypeOK
<1>1. IInv => TypeOK
  BY DEF IInv
<1> QED
  BY <1>1, Invariant, PTL

\* An instruction with an effect is in no sweep of the pass: it is marked, and
\* what is erased was not marked.
THEOREM CriticalStays == Spec => []CriticalKept
<1>1. IInv => CriticalKept
  BY DEF IInv
<1> QED
  BY <1>1, Invariant, PTL

\* An instruction DeadCode keeps refers to nothing it freed.
THEOREM OperandsStay == Spec => []NoDangling
<1>1. IInv => NoDangling
  BY DEF IInv
<1> QED
  BY <1>1, Invariant, PTL

\* remove_use_of_ops never reaches a freed instruction.
THEOREM NoTouchAfterFree == Spec => []UnlinkTouchesLive
<1>1. IInv => UnlinkTouchesLive
  BY DEF IInv, SweepInv, UnlinkTouchesLive, LiveIn
<1> QED
  BY <1>1, Invariant, PTL

\* The use lists are exact between sweeps.
THEOREM ExactUseLists == Spec => []UseListsExact
<1>1. IInv => UseListsExact
  BY DEF IInv, LinkInv, Linked, UseListsExact
<1> QED
  BY <1>1, Invariant, PTL

\* When the pass is done everything no critical instruction needs is gone.
THEOREM Complete == Spec => []OnlyUsefulLeft
<1>1. IInv => OnlyUsefulLeft
  <2> SUFFICES ASSUME IInv, pc = "done", NEW S \in SUBSET Ins, Useful(S)
               PROVE  live \subseteq S
    BY DEF OnlyUsefulLeft
  <2>1. Kept = live /\ func > NumFuncs
    BY DEF Kept, IInv, EndInv
  <2>2. \A i \in live : home[i] < func
    BY <2>1, NumFuncsAssumption DEF IInv, TypeOK, Func
  <2> QED
    BY <2>1, <2>2 DEF IInv, UsefulInv
<1> QED
  BY <1>1, Invariant, PTL
=============================================================================
