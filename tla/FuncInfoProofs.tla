--------------------------- MODULE FuncInfoProofs ---------------------------
(***************************************************************************)
(* For every module and every number of runs, FuncInfo reports pure only   *)
(* what is pure, reports impure only what has a cause, and the verdict GVN *)
(* holds stays sound while the module loses dead instructions.             *)
(***************************************************************************)
EXTENDS FuncInfo, TLAPS

-----------------------------------------------------------------------------
(* The inductive invariant.                                                 *)

Queued(f) == \E n \in 1..Len(worklist) : worklist[n] = f

\* While trivial_mark goes over the functions, the first pos - 1 have their
\* own verdict and those of them that are impure are queued.
MarkInv ==
  pc = "mark" =>
    /\ \A f \in 1..(pos - 1) : is_pure[f] = ~Obvious(text, f)
    /\ \A f \in 1..(pos - 1) : Obvious(text, f) => Queued(f)
    /\ \A n \in 1..Len(worklist) : Obvious(text, worklist[n]) /\ worklist[n] < pos

\* What the queue still owes: a call of an impure function whose caller is
\* reported pure is a call of a function that waits, or of the one processed.
Owed(e) == \/ Queued(e[2])
           \/ pc = "process" /\ e[2] = now /\ e[1] \in uses
QueueInv ==
  pc # "mark" =>
    /\ \A f \in Func : Obvious(text, f) => ~is_pure[f]
    /\ \A e \in calls : ~is_pure[e[2]] => ~is_pure[e[1]] \/ Owed(e)
    /\ \A n \in 1..Len(worklist) : ~is_pure[worklist[n]]
    /\ pc = "process" => /\ now \in Func /\ ~is_pure[now]
                         /\ \A f \in uses : <<f, now>> \in calls

DoneInv == pc = "done" => worklist = <<>>

\* Every set that holds what is impure by its own text and the callers of its
\* own holds the functions marked.
LeastClosed ==
  pc # "mark" => \A S \in SUBSET Func : ClosedUnderCallers(S) => Impure \subseteq S

Held == {f \in Func : ~held[f]}
HeldInv == runs > 1 \/ pc = "done" => ClosedUnderCallers(Held)

IInv == /\ TypeOK /\ MarkInv /\ QueueInv /\ DoneInv
        /\ LeastClosed /\ HeldInv

-----------------------------------------------------------------------------
\* The base of the induction.
LEMMA InitInv == Init => IInv
<1> SUFFICES ASSUME Init PROVE IInv
  OBVIOUS
<1> USE NumFuncsAssumption, MaxRunsAssumption, ModulesAssumption
<1>1. TypeOK
  BY DEF Init, TypeOK, Module, Func
<1>2. MarkInv /\ QueueInv /\ DoneInv /\ LeastClosed /\ HeldInv
  BY DEF Init, MarkInv, QueueInv, DoneInv, LeastClosed, HeldInv
<1> QED
  BY <1>1, <1>2 DEF IInv

\* Every step keeps the variables in their types.
LEMMA TypeStep == TypeOK /\ [Next]_vars => TypeOK'
<1> SUFFICES ASSUME TypeOK, [Next]_vars PROVE TypeOK'
  OBVIOUS
<1> USE NumFuncsAssumption, MaxRunsAssumption DEF TypeOK, Func
<1>1. CASE TrivialMark
  <2>1. pos \in Func /\ pos' \in 1..(NumFuncs + 1)
    BY <1>1 DEF TrivialMark
  <2>2. is_pure' \in [Func -> BOOLEAN]
    BY <1>1 DEF TrivialMark, Obvious
  <2>3. CASE Obvious(text, pos)
    BY <1>1, <2>1, <2>2, <2>3 DEF TrivialMark
  <2>4. CASE ~Obvious(text, pos)
    BY <1>1, <2>1, <2>2, <2>4 DEF TrivialMark
  <2> QED
    BY <2>3, <2>4
<1>2. CASE EndMark
  BY <1>2 DEF EndMark
<1>3. CASE Take
  BY <1>3 DEF Take, Callers
<1>4. CASE ProcessUse
  <2> PICK f \in uses : /\ uses' = uses \ {f}
                        /\ is_pure' = [is_pure EXCEPT ![f] = FALSE]
                        /\ worklist' = IF is_pure[f] THEN Append(worklist, f)
                                                     ELSE worklist
    BY <1>4 DEF ProcessUse
  <2>1. is_pure' \in [Func -> BOOLEAN] /\ f \in Func
    OBVIOUS
  <2>2. worklist' \in Seq(Func)
    <3>1. CASE is_pure[f]
      BY <3>1, <2>1
    <3>2. CASE ~is_pure[f]
      BY <3>2
    <3> QED
      BY <3>1, <3>2
  <2> QED
    BY <1>4, <2>1, <2>2 DEF ProcessUse
<1>5. CASE EndProcess
  BY <1>5 DEF EndProcess
<1>6. CASE Return
  BY <1>6 DEF Return
<1>7. CASE RunAgain
  <2>1. calls' \in SUBSET (Func \X Func)
    BY <1>7 DEF RunAgain
  <2>2. text' \in [Func -> Text]
    <3> PICK erased :
           /\ erased \in [Func -> SUBSET {a \in UNION {text[f].accesses : f \in Func} :
                                         a.op = "load"}]
           /\ text' = [f \in Func |-> [text[f] EXCEPT !.accesses = @ \ erased[f]]]
      BY <1>7 DEF RunAgain
    <3>1. ASSUME NEW f \in Func
          PROVE  [text[f] EXCEPT !.accesses = @ \ erased[f]] \in Text
      <4>1. text[f] \in Text
        OBVIOUS
      <4> QED
        BY <4>1 DEF Text
    <3> QED
      BY <3>1
  <2> QED
    BY <1>7, <2>1, <2>2 DEF RunAgain
<1>8. CASE UNCHANGED vars
  BY <1>8 DEF vars
<1> QED
  BY <1>1, <1>2, <1>3, <1>4, <1>5, <1>6, <1>7, <1>8 DEF Next, Analyse

\* What is queued after an element is appended or the head is taken.
LEMMA QueueAppend ==
  ASSUME NEW f \in Func, worklist \in Seq(Func), worklist' = Append(worklist, f)
  PROVE  /\ \A g : Queued(g)' <=> Queued(g) \/ g = f
         /\ \A n \in 1..Len(worklist') :
               \/ worklist'[n] = f
               \/ n \in 1..Len(worklist) /\ worklist'[n] = worklist[n]
<1>1. /\ Len(worklist) \in Nat /\ Len(worklist') = Len(worklist) + 1
      /\ worklist'[Len(worklist) + 1] = f
      /\ \A n \in 1..Len(worklist) : worklist'[n] = worklist[n]
  OBVIOUS
<1>2. \A n \in 1..Len(worklist') :
         n = Len(worklist) + 1 \/ n \in 1..Len(worklist)
  BY <1>1
<1>3. Len(worklist) + 1 \in 1..Len(worklist')
  BY <1>1
<1>4. \A n \in 1..Len(worklist) : n \in 1..Len(worklist')
  BY <1>1
<1> QED
  BY <1>1, <1>2, <1>3, <1>4 DEF Queued

LEMMA QueueTail ==
  ASSUME worklist \in Seq(Func), worklist # <<>>, worklist' = Tail(worklist)
  PROVE  /\ \A g : Queued(g) => Queued(g)' \/ g = Head(worklist)
         /\ \A n \in 1..Len(worklist') : /\ n + 1 \in 1..Len(worklist)
                                         /\ worklist'[n] = worklist[n + 1]
<1>1. Len(worklist') = Len(worklist) - 1 /\ Len(worklist) \in Nat
  OBVIOUS
<1>2. \A n \in 1..Len(worklist') : /\ n + 1 \in 1..Len(worklist)
                                   /\ worklist'[n] = worklist[n + 1]
  BY <1>1
<1>3. ASSUME NEW g, Queued(g), g # Head(worklist) PROVE Queued(g)'
  <2> PICK n \in 1..Len(worklist) : worklist[n] = g
    BY <1>3 DEF Queued
  <2>1. n # 1
    BY <1>3
  <2>2. n - 1 \in 1..Len(worklist') /\ worklist'[n - 1] = worklist[n]
    BY <2>1, <1>1, <1>2
  <2> QED
    BY <2>2 DEF Queued
<1> QED
  BY <1>2, <1>3

-----------------------------------------------------------------------------
(* The induction step, one lemma per part of the invariant.                 *)

LEMMA MarkStep == IInv /\ [Next]_vars => MarkInv'
<1> SUFFICES ASSUME IInv, [Next]_vars, pc' = "mark" PROVE MarkInv'
  BY DEF MarkInv
<1> USE NumFuncsAssumption DEF IInv, Func
<1>1. CASE TrivialMark
  <2>1. /\ pc = "mark" /\ pos \in Func /\ pos' = pos + 1
        /\ text' = text /\ worklist \in Seq(Func)
        /\ is_pure' = [is_pure EXCEPT ![pos] = ~Obvious(text, pos)]
        /\ is_pure \in [Func -> BOOLEAN]
    BY <1>1 DEF TrivialMark, TypeOK
  <2>2. \A f \in 1..(pos' - 1) : f = pos \/ f \in 1..(pos - 1)
    BY <2>1
  <2>3. \A f \in 1..(pos' - 1) : is_pure'[f] = ~Obvious(text', f)
    BY <2>1, <2>2 DEF MarkInv
  <2>4. /\ \A f \in 1..(pos' - 1) : Obvious(text', f) => Queued(f)'
        /\ \A n \in 1..Len(worklist') : Obvious(text', worklist'[n]) /\ worklist'[n] < pos'
    <3>1. CASE Obvious(text, pos)
      <4>1. worklist' = Append(worklist, pos)
        BY <1>1, <3>1 DEF TrivialMark
      <4>2. /\ \A g : Queued(g)' <=> Queued(g) \/ g = pos
            /\ \A n \in 1..Len(worklist') :
                  \/ worklist'[n] = pos
                  \/ n \in 1..Len(worklist) /\ worklist'[n] = worklist[n]
        BY <4>1, <2>1, QueueAppend
      <4>3. \A f \in 1..(pos' - 1) : Obvious(text', f) => Queued(f)'
        BY <4>2, <2>1, <2>2 DEF MarkInv
      <4>4. \A n \in 1..Len(worklist) :
               worklist[n] \in Func /\ Obvious(text, worklist[n]) /\ worklist[n] < pos
        BY <2>1 DEF MarkInv
      <4>5. ASSUME NEW n \in 1..Len(worklist')
            PROVE  Obvious(text', worklist'[n]) /\ worklist'[n] < pos'
        <5>1. CASE worklist'[n] = pos
          BY <5>1, <3>1, <2>1
        <5>2. CASE n \in 1..Len(worklist) /\ worklist'[n] = worklist[n]
          BY <5>2, <4>4, <2>1
        <5> QED
          BY <5>1, <5>2, <4>2
      <4> QED
        BY <4>3, <4>5
    <3>2. CASE ~Obvious(text, pos)
      <4>1. worklist' = worklist
        BY <1>1, <3>2 DEF TrivialMark
      <4>2. \A f \in 1..(pos' - 1) : Obvious(text', f) => Queued(f)'
        BY <4>1, <3>2, <2>1, <2>2 DEF MarkInv, Queued
      <4>3. \A n \in 1..Len(worklist) : worklist[n] \in Func
        BY <2>1
      <4>4. \A n \in 1..Len(worklist') : Obvious(text', worklist'[n]) /\ worklist'[n] < pos'
        BY <4>1, <4>3, <2>1 DEF MarkInv
      <4> QED
        BY <4>2, <4>4
    <3> QED
      BY <3>1, <3>2
  <2> QED
    BY <2>3, <2>4 DEF MarkInv
<1>2. CASE RunAgain
  BY <1>2 DEF RunAgain, MarkInv, DoneInv, TypeOK
<1>3. CASE UNCHANGED vars
  BY <1>3 DEF vars, MarkInv, Queued
<1>4. CASE EndMark \/ Take \/ ProcessUse \/ EndProcess \/ Return
  BY <1>4 DEF EndMark, Take, ProcessUse, EndProcess, Return
<1> QED
  BY <1>1, <1>2, <1>3, <1>4 DEF Next, Analyse

LEMMA DoneStep == IInv /\ [Next]_vars => DoneInv'
<1> SUFFICES ASSUME IInv, [Next]_vars PROVE DoneInv'
  OBVIOUS
<1> QED
  BY DEF IInv, DoneInv, Next, Analyse, TrivialMark, EndMark, Take, ProcessUse,
         EndProcess, Return, RunAgain, vars

\* What is owed stays owed until the caller is marked.
LEMMA QueueStep == IInv /\ [Next]_vars => QueueInv'
<1> SUFFICES ASSUME IInv, [Next]_vars, pc' # "mark" PROVE QueueInv'
  BY DEF QueueInv
<1> USE NumFuncsAssumption DEF Func
<1> TypeOK
  BY DEF IInv
<1>1. CASE EndMark
  <2>1. /\ pc = "mark" /\ pc' = "take" /\ pos = NumFuncs + 1
        /\ UNCHANGED <<calls, text, is_pure, worklist>>
    BY <1>1 DEF EndMark, TypeOK
  <2>2. \A f \in Func : (is_pure[f] = ~Obvious(text, f)) /\ (Obvious(text, f) => Queued(f))
    BY <2>1 DEF IInv, MarkInv
  <2>3. \A n \in 1..Len(worklist) : worklist[n] \in Func /\ Obvious(text, worklist[n])
    BY <2>1 DEF IInv, MarkInv, TypeOK
  <2>4. \A e \in calls : e[1] \in Func /\ e[2] \in Func
    BY DEF TypeOK
  <2>5. \A f \in Func : ~is_pure[f] => Obvious(text, f)
    BY <2>2
  <2>6. \A e \in calls : ~is_pure[e[2]] => Queued(e[2])
    BY <2>2, <2>4, <2>5
  <2> QED
    BY <2>1, <2>2, <2>3, <2>6 DEF QueueInv, Owed, Queued
<1>2. CASE Take
  <2>1. /\ pc = "take" /\ pc' = "process" /\ worklist \in Seq(Func)
        /\ worklist # <<>> /\ worklist' = Tail(worklist) /\ now' = Head(worklist)
        /\ uses' = Callers(Head(worklist))
        /\ UNCHANGED <<calls, text, is_pure>>
        /\ QueueInv
    BY <1>2 DEF Take, TypeOK, IInv
  <2>2. now' \in Func /\ ~is_pure'[now']
    BY <2>1 DEF QueueInv
  <2>3. /\ \A g : Queued(g) => Queued(g)' \/ g = now'
        /\ \A n \in 1..Len(worklist') : /\ n + 1 \in 1..Len(worklist)
                                        /\ worklist'[n] = worklist[n + 1]
    BY <2>1, QueueTail
  <2>4. \A e \in calls' : ~is_pure'[e[2]] => ~is_pure'[e[1]] \/ Owed(e)'
    <3> SUFFICES ASSUME NEW e \in calls, ~is_pure[e[2]], is_pure[e[1]]
                 PROVE  Owed(e)'
      BY <2>1
    <3>1. Queued(e[2])
      BY <2>1 DEF QueueInv, Owed
    <3>2. CASE e[2] = now'
      <4>1. e[1] \in uses'
        BY <2>1, <3>2 DEF Callers, TypeOK
      <4> QED
        BY <2>1, <3>2, <4>1 DEF Owed
    <3> QED
      BY <2>3, <3>1, <3>2 DEF Owed
  <2> QED
    BY <2>1, <2>2, <2>3, <2>4 DEF QueueInv, Callers
<1>3. CASE ProcessUse
  <2> PICK f \in uses : /\ uses' = uses \ {f}
                        /\ is_pure' = [is_pure EXCEPT ![f] = FALSE]
                        /\ worklist' = IF is_pure[f] THEN Append(worklist, f)
                                                     ELSE worklist
    BY <1>3 DEF ProcessUse
  <2>1. /\ pc = "process" /\ pc' = "process" /\ now' = now /\ f \in Func
        /\ worklist \in Seq(Func) /\ is_pure \in [Func -> BOOLEAN]
        /\ UNCHANGED <<calls, text>> /\ QueueInv
    BY <1>3 DEF ProcessUse, TypeOK, IInv
  <2>2. \A g \in Func : is_pure'[g] <=> is_pure[g] /\ g # f
    BY <2>1
  <2>3. /\ \A g : Queued(g) => Queued(g)'
        /\ is_pure[f] => Queued(f)'
        /\ \A n \in 1..Len(worklist') :
              \/ worklist'[n] = f
              \/ n \in 1..Len(worklist) /\ worklist'[n] = worklist[n]
    <3>1. CASE is_pure[f]
      BY <3>1, <2>1, QueueAppend
    <3>2. CASE ~is_pure[f]
      BY <3>2 DEF Queued
    <3> QED
      BY <3>1, <3>2
  <2>4. \A g \in Func : Obvious(text', g) => ~is_pure'[g]
    BY <2>1, <2>2 DEF QueueInv
  <2>5. \A e \in calls' : ~is_pure'[e[2]] => ~is_pure'[e[1]] \/ Owed(e)'
    <3> SUFFICES ASSUME NEW e \in calls, ~is_pure'[e[2]], is_pure'[e[1]]
                 PROVE  Owed(e)'
      BY <2>1
    <3>1. e[1] \in Func /\ e[2] \in Func /\ is_pure[e[1]] /\ e[1] # f
      BY <2>2 DEF TypeOK
    <3>2. CASE is_pure[e[2]]
      BY <3>1, <3>2, <2>2, <2>3 DEF Owed
    <3>3. CASE ~is_pure[e[2]]
      <4>1. Owed(e)
        BY <2>1, <3>1, <3>3 DEF QueueInv
      <4> QED
        BY <4>1, <3>1, <2>1, <2>3 DEF Owed
    <3> QED
      BY <3>2, <3>3
  <2>6. \A n \in 1..Len(worklist') : ~is_pure'[worklist'[n]]
    <3>1. \A n \in 1..Len(worklist) : worklist[n] \in Func /\ ~is_pure[worklist[n]]
      BY <2>1 DEF QueueInv
    <3> QED
      BY <3>1, <2>1, <2>2, <2>3
  <2>7. now' \in Func /\ ~is_pure'[now'] /\ \A g \in uses' : <<g, now'>> \in calls'
    BY <2>1, <2>2 DEF QueueInv
  <2> QED
    BY <2>1, <2>4, <2>5, <2>6, <2>7 DEF QueueInv
<1>4. CASE EndProcess
  <2>1. QueueInv
    BY DEF IInv
  <2>2. /\ pc = "process" /\ uses = {} /\ pc' = "take"
        /\ UNCHANGED <<calls, text, is_pure, worklist, now, uses>>
    BY <1>4 DEF EndProcess
  <2> QED
    BY <2>1, <2>2 DEF QueueInv, Owed, Queued
<1>5. CASE Return
  <2>1. QueueInv
    BY DEF IInv
  <2>2. /\ pc = "take" /\ pc' = "done"
        /\ UNCHANGED <<calls, text, is_pure, worklist, now, uses>>
    BY <1>5 DEF Return
  <2> QED
    BY <2>1, <2>2 DEF QueueInv, Owed, Queued
<1>6. CASE UNCHANGED vars
  <2>1. QueueInv
    BY DEF IInv
  <2> QED
    BY <1>6, <2>1 DEF vars, QueueInv, Owed, Queued
<1>7. CASE TrivialMark \/ RunAgain
  BY <1>7 DEF TrivialMark, RunAgain
<1> QED
  BY <1>1, <1>2, <1>3, <1>4, <1>5, <1>6, <1>7 DEF Next, Analyse

\* The marking adds callers of impure functions only, which every closed set
\* holds already.
LEMMA CauseStep == IInv /\ [Next]_vars => LeastClosed'
<1> SUFFICES ASSUME IInv, [Next]_vars, pc' # "mark",
                    NEW S \in SUBSET Func, ClosedUnderCallers(S)'
             PROVE  Impure' \subseteq S
  BY DEF LeastClosed
<1> USE NumFuncsAssumption DEF Func
<1> TypeOK
  BY DEF IInv
<1>1. CASE EndMark
  <2>1. /\ pc = "mark" /\ pos = NumFuncs + 1
        /\ UNCHANGED <<calls, text, is_pure>>
    BY <1>1 DEF EndMark, TypeOK
  <2>2. \A f \in Func : is_pure[f] = ~Obvious(text, f)
    BY <2>1 DEF IInv, MarkInv
  <2> QED
    BY <2>1, <2>2 DEF Impure, ClosedUnderCallers
<1>2. CASE ProcessUse
  <2> PICK f \in uses : is_pure' = [is_pure EXCEPT ![f] = FALSE]
    BY <1>2 DEF ProcessUse
  <2>1. /\ pc = "process" /\ UNCHANGED <<calls, text>> /\ f \in Func
        /\ is_pure \in [Func -> BOOLEAN]
    BY <1>2 DEF ProcessUse, TypeOK
  <2>2. Impure \subseteq S
    BY <2>1 DEF IInv, LeastClosed, ClosedUnderCallers
  <2>3. <<f, now>> \in calls /\ now \in Impure
    BY <2>1 DEF IInv, QueueInv, Impure
  <2>4. f \in S
    BY <2>1, <2>2, <2>3 DEF ClosedUnderCallers
  <2> QED
    BY <2>1, <2>2, <2>4 DEF Impure
<1>3. CASE Take \/ EndProcess \/ Return \/ UNCHANGED vars
  <2>1. UNCHANGED <<calls, text, is_pure>> /\ pc # "mark"
    BY <1>3 DEF Take, EndProcess, Return, vars
  <2> QED
    BY <2>1 DEF IInv, LeastClosed, ClosedUnderCallers, Impure
<1>4. CASE TrivialMark \/ RunAgain
  BY <1>4 DEF TrivialMark, RunAgain
<1> QED
  BY <1>1, <1>2, <1>3, <1>4 DEF Next, Analyse

\* When the queue is drained nothing is owed, so the impure functions are
\* closed under callers.
LEMMA DrainedIsClosed ==
  ASSUME TypeOK, QueueInv, pc \in {"take", "done"}, worklist = <<>>
  PROVE  ClosedUnderCallers(Impure)
<1>1. \A g : ~Queued(g)
  BY DEF Queued
<1>2. \A e \in calls : e[1] \in Func /\ e[2] \in Func
  BY DEF TypeOK
<1>3. \A f \in Func : Obvious(text, f) => f \in Impure
  BY DEF QueueInv, Impure
<1>4. \A e \in calls : e[2] \in Impure => e[1] \in Impure
  BY <1>1, <1>2 DEF QueueInv, Owed, Impure
<1> QED
  BY <1>3, <1>4 DEF ClosedUnderCallers

LEMMA HeldStep == IInv /\ [Next]_vars => HeldInv'
<1> SUFFICES ASSUME IInv, [Next]_vars, runs' > 1 \/ pc' = "done"
             PROVE  ClosedUnderCallers(Held)'
  BY DEF HeldInv
<1> USE MaxRunsAssumption DEF TypeOK
<1> TypeOK
  BY DEF IInv
<1>1. CASE Return
  <2>1. /\ pc = "take" /\ worklist = <<>>
        /\ held' = (IF runs = 1 THEN is_pure ELSE held)
        /\ UNCHANGED <<calls, text, runs>>
    BY <1>1 DEF Return
  <2>2. CASE runs = 1
    <3>1. ClosedUnderCallers(Impure)
      BY <2>1, DrainedIsClosed DEF IInv
    <3>2. Held' = Impure
      BY <2>1, <2>2 DEF Held, Impure
    <3> QED
      BY <2>1, <3>1, <3>2 DEF ClosedUnderCallers
  <2>3. CASE runs # 1
    BY <2>1, <2>3 DEF IInv, HeldInv, ClosedUnderCallers, Held
  <2> QED
    BY <2>2, <2>3
<1>2. CASE RunAgain
  <2>1. /\ pc = "done" /\ held' = held /\ calls' \subseteq calls
    BY <1>2 DEF RunAgain
  <2>2. ClosedUnderCallers(Held)
    BY <2>1 DEF IInv, HeldInv
  <2>3. \A f \in Func : Obvious(text', f) => Obvious(text, f)
    <3> SUFFICES ASSUME NEW f \in Func
                 PROVE  Obvious(text', f) => Obvious(text, f)
      OBVIOUS
    <3> PICK erased : text' = [g \in Func |-> [text[g] EXCEPT !.accesses = @ \ erased[g]]]
      BY <1>2 DEF RunAgain
    <3>1. text[f] \in Text
      OBVIOUS
    <3>2. /\ text'[f].declaration = text[f].declaration
          /\ text'[f].main = text[f].main
          /\ text'[f].pointer = text[f].pointer
          /\ text'[f].accesses \subseteq text[f].accesses
      BY <3>1 DEF Text
    <3> QED
      BY <3>2 DEF Obvious
  <2> QED
    BY <2>1, <2>2, <2>3 DEF ClosedUnderCallers, Held
<1>3. CASE \/ TrivialMark \/ EndMark \/ Take \/ ProcessUse
           \/ EndProcess \/ UNCHANGED vars
  <2>1. /\ UNCHANGED <<calls, text, runs, held>>
        /\ pc' = "done" => pc = "done"
    BY <1>3 DEF TrivialMark, EndMark, Take, ProcessUse, EndProcess, vars
  <2> QED
    BY <2>1 DEF IInv, HeldInv, ClosedUnderCallers, Held
<1> QED
  BY <1>1, <1>2, <1>3 DEF Next, Analyse

-----------------------------------------------------------------------------
(* The theorems.                                                            *)

\* Every reachable state of the analysis is described by the invariant.
THEOREM Invariant == Spec => []IInv
<1>1. IInv /\ [Next]_vars => IInv'
  <2> SUFFICES ASSUME IInv, [Next]_vars PROVE IInv'
    OBVIOUS
  <2>1. TypeOK'
    BY TypeStep DEF IInv
  <2> QED
    BY <2>1, MarkStep, QueueStep, DoneStep, CauseStep, HeldStep DEF IInv
<1> QED
  BY <1>1, InitInv, PTL DEF Spec

\* The variables of FuncInfo keep their types.
THEOREM TypeCorrect == Spec => []TypeOK
<1>1. IInv => TypeOK
  BY DEF IInv
<1> QED
  BY <1>1, Invariant, PTL

\* No function that run reports pure does anything impure, itself or through
\* what it calls.
THEOREM Sound == Spec => []PureIsPure
<1>1. IInv => PureIsPure
  BY DrainedIsClosed DEF IInv, PureIsPure, DoneInv
<1> QED
  BY <1>1, Invariant, PTL

\* What is impure by its own text writes, or reads what is not its own.
LEMMA CausesAreObvious ==
  ASSUME TypeOK, NEW f \in Func, Obvious(text, f) PROVE f \in Writers \cup Readers
<1>1. text[f] \in Text
  BY DEF TypeOK
<1>2. \A a \in text[f].accesses : a.op \in {"load", "store"}
  BY <1>1 DEF Text, Access
<1> QED
  BY <1>2 DEF Obvious, Writers, Readers

\* Every function reported impure is among those the code takes for impure by
\* their own text, readers of globals too, and their callers, in any run.
THEOREM MarkedIsLeast == Spec => []LeastClosed
<1>1. IInv => LeastClosed
  BY DEF IInv
<1> QED
  BY <1>1, Invariant, PTL

\* Where no function only reads what is not its own, none is reported impure
\* without one of the causes the header names, whatever the map held before.
THEOREM Precise == Spec => []ImpureHasCause
<1>1. IInv => ImpureHasCause
  <2> SUFFICES ASSUME IInv, pc # "mark", Readers \subseteq Writers, NEW S \in SUBSET Func,
                      Writers \subseteq S,
                      \A e \in calls : e[2] \in S => e[1] \in S
               PROVE  Impure \subseteq S
    BY DEF ImpureHasCause
  <2>1. ClosedUnderCallers(S)
    BY CausesAreObvious DEF IInv, ClosedUnderCallers
  <2> QED
    BY <2>1 DEF IInv, LeastClosed
<1> QED
  BY <1>1, Invariant, PTL

\* The verdict GVN::func_info_ holds stays sound while DeadCode erases.
THEOREM HeldSound == Spec => []HeldStaysSound
<1>1. IInv => HeldStaysSound
  <2> SUFFICES ASSUME IInv, pc = "done", NEW f \in Func, held[f] PROVE is_pure[f]
    BY DEF HeldStaysSound
  <2>1. ClosedUnderCallers(Held) /\ Held \in SUBSET Func
    BY DEF IInv, HeldInv, Held
  <2>2. Impure \subseteq Held
    BY <2>1 DEF IInv, LeastClosed
  <2> QED
    BY <2>2 DEF Impure, Held
<1> QED
  BY <1>1, Invariant, PTL
=============================================================================
