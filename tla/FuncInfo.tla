------------------------------ MODULE FuncInfo ------------------------------
(***************************************************************************)
(* FuncInfo::run: which functions are pure.  Each function is first judged *)
(* by its own text (trivial_mark); the impure ones then go through a work  *)
(* queue that marks their callers.  The pass is run again on the same      *)
(* object every time DeadCode::run starts, on a module that may have lost  *)
(* instructions since.                                                     *)
(***************************************************************************)
EXTENDS Integers, Sequences

CONSTANTS NumFuncs,   \* number of functions of the module
          MaxRuns,    \* bound: how often the pass is run
          Modules     \* the modules analysed: a set of [calls, text] records

ASSUME NumFuncsAssumption == NumFuncs \in Nat
ASSUME MaxRunsAssumption == MaxRuns \in Nat \ {0}

Func == 1..NumFuncs   \* a function is its position in Module::functions_

(***************************************************************************)
(* What trivial_mark reads of a function: whether it is a declaration or   *)
(* main, whether a parameter is neither an int nor a float, and its loads  *)
(* and stores, each with the value get_first_addr finds at the base of its *)
(* address once the getelementptrs are followed.                           *)
(***************************************************************************)
Base   == {"alloca", "global", "argument", "load"}
Access == [op : {"load", "store"}, base : Base]
Text   == [declaration : BOOLEAN, main : BOOLEAN, pointer : BOOLEAN,
           accesses : SUBSET Access]

Module == [calls : SUBSET (Func \X Func), text : [Func -> Text]]

ASSUME ModulesAssumption == Modules \subseteq Module

VARIABLES calls,      \* <<caller, callee>>: the use lists of the functions
          text,
          pc, runs,
          pos,        \* the function trivial_mark is at
          is_pure,
          worklist,
          now, uses,  \* locals of process: the function, the callers left
          held        \* the verdict of the first run, kept by GVN::func_info_

vars == <<calls, text, pc, runs, pos, is_pure, worklist, now, uses,
          held>>

TypeOK ==
  /\ calls \in SUBSET (Func \X Func) /\ text \in [Func -> Text]
  /\ pc \in {"mark", "take", "process", "done"}
  /\ runs \in 1..MaxRuns /\ pos \in 1..(NumFuncs + 1)
  /\ is_pure \in [Func -> BOOLEAN]
  /\ worklist \in Seq(Func)
  /\ now \in Func \cup {0} /\ uses \subseteq Func
  /\ held \in [Func -> BOOLEAN]

Init ==
  /\ \E m \in Modules : calls = m.calls /\ text = m.text
  /\ pc = "mark" /\ runs = 1 /\ pos = 1
  /\ is_pure = [f \in Func |-> FALSE]
  /\ worklist = <<>>
  /\ now = 0 /\ uses = {}
  /\ held = [f \in Func |-> FALSE]

-----------------------------------------------------------------------------
IsLocal(a)      == a.base = "alloca"
IsSideEffect(a) == ~IsLocal(a)

\* The verdict of trivial_mark on f.
Obvious(t, f) == \/ t[f].declaration \/ t[f].main \/ t[f].pointer
                 \/ \E a \in t[f].accesses : IsSideEffect(a)

Callers(f) == {c \in Func : <<c, f>> \in calls}

\* Mutants: every other function is skipped; a function that is not impure
\* by its own text keeps what the map says of it.
TrivialMarkSkips ==
  /\ pc = "mark" /\ pos <= NumFuncs
  /\ is_pure' = [is_pure EXCEPT ![pos] = ~Obvious(text, pos)]
  /\ worklist' = IF Obvious(text, pos) THEN Append(worklist, pos) ELSE worklist
  /\ pos' = pos + 2
  /\ UNCHANGED <<calls, text, pc, runs, now, uses, held>>
TrivialMarkKeeps ==
  /\ pc = "mark" /\ pos <= NumFuncs
  /\ is_pure' = [is_pure EXCEPT ![pos] = @ /\ ~Obvious(text, pos)]
  /\ worklist' = IF Obvious(text, pos) THEN Append(worklist, pos) ELSE worklist
  /\ pos' = pos + 1
  /\ UNCHANGED <<calls, text, pc, runs, now, uses, held>>

\* trivial_mark on the next function; run queues it when it is not pure.
TrivialMark ==
  /\ pc = "mark" /\ pos <= NumFuncs
  /\ is_pure' = [is_pure EXCEPT ![pos] = ~Obvious(text, pos)]
  /\ worklist' = IF Obvious(text, pos) THEN Append(worklist, pos) ELSE worklist
  /\ pos' = pos + 1
  /\ UNCHANGED <<calls, text, pc, runs, now, uses, held>>

EndMark ==
  /\ pc = "mark" /\ pos > NumFuncs
  /\ pc' = "take"
  /\ UNCHANGED <<calls, text, runs, pos, is_pure, worklist, now, uses, held>>

\* Mutants: the callees are marked instead of the callers; the function
\* taken stays in the queue.
CalleesOf(f) == {c \in Func : <<f, c>> \in calls}
TakeCallees ==
  /\ pc = "take" /\ worklist # <<>>
  /\ now' = Head(worklist) /\ worklist' = Tail(worklist)
  /\ uses' = CalleesOf(Head(worklist))
  /\ pc' = "process"
  /\ UNCHANGED <<calls, text, runs, pos, is_pure, held>>
TakeFront ==
  /\ pc = "take" /\ worklist # <<>>
  /\ now' = Head(worklist) /\ UNCHANGED worklist
  /\ uses' = Callers(Head(worklist))
  /\ pc' = "process"
  /\ UNCHANGED <<calls, text, runs, pos, is_pure, held>>

Take ==
  /\ pc = "take" /\ worklist # <<>>
  /\ now' = Head(worklist) /\ worklist' = Tail(worklist)
  /\ uses' = Callers(Head(worklist))
  /\ pc' = "process"
  /\ UNCHANGED <<calls, text, runs, pos, is_pure, held>>

\* Mutant: a caller that turns impure is not queued.
ProcessUseUnqueued ==
  /\ pc = "process"
  /\ \E f \in uses : /\ uses' = uses \ {f}
                     /\ is_pure' = [is_pure EXCEPT ![f] = FALSE]
  /\ UNCHANGED <<calls, text, pc, runs, pos, worklist, now, held>>

\* One use of now: its caller, if still pure, is not, and is queued.  The
\* order of the use list is left open.
ProcessUse ==
  /\ pc = "process"
  /\ \E f \in uses :
       /\ uses' = uses \ {f}
       /\ is_pure' = [is_pure EXCEPT ![f] = FALSE]
       /\ worklist' = IF is_pure[f] THEN Append(worklist, f) ELSE worklist
  /\ UNCHANGED <<calls, text, pc, runs, pos, now, held>>

EndProcess ==
  /\ pc = "process" /\ uses = {}
  /\ pc' = "take"
  /\ UNCHANGED <<calls, text, runs, pos, is_pure, worklist, now, uses, held>>

\* Mutant: the queue is not drained.
ReturnEarly ==
  /\ pc = "take"
  /\ pc' = "done"
  /\ held' = IF runs = 1 THEN is_pure ELSE held
  /\ UNCHANGED <<calls, text, runs, pos, is_pure, worklist, now, uses>>

Return ==
  /\ pc = "take" /\ worklist = <<>>
  /\ pc' = "done"
  /\ held' = IF runs = 1 THEN is_pure ELSE held
  /\ UNCHANGED <<calls, text, runs, pos, is_pure, worklist, now, uses>>

\* DeadCode::run calls run again; in between, dead code elimination has erased
\* loads and calls of pure functions.  The map and the queue are those the
\* last run left.
RunAgain ==
  /\ pc = "done" /\ runs < MaxRuns
  /\ \E erased \in SUBSET {e \in calls : is_pure[e[2]]} : calls' = calls \ erased
  /\ \E erased \in [Func -> SUBSET {a \in UNION {text[f].accesses : f \in Func} :
                                     a.op = "load"}] :
       text' = [f \in Func |-> [text[f] EXCEPT !.accesses = @ \ erased[f]]]
  /\ pc' = "mark" /\ runs' = runs + 1 /\ pos' = 1
  /\ UNCHANGED <<is_pure, worklist, now, uses, held>>

Analyse == TrivialMark \/ EndMark \/ Take \/ ProcessUse \/ EndProcess \/ Return
Next == Analyse \/ RunAgain
Spec == Init /\ [][Next]_vars
FairSpec == Spec /\ WF_vars(Analyse)

-----------------------------------------------------------------------------
(* Properties.                                                              *)

Impure == {f \in Func : ~is_pure[f]}

\* A set of functions that holds the obviously impure ones and every caller
\* of one of its own.
ClosedUnderCallers(S) ==
  /\ \A f \in Func : Obvious(text, f) => f \in S
  /\ \A e \in calls : e[2] \in S => e[1] \in S

\* Nothing impure is reported pure: a pure function calls no impure one,
\* directly or through others, and does nothing impure itself.
PureIsPure == pc = "done" => ClosedUnderCallers(Impure)

\* And nothing is reported impure without a cause.  FuncInfo.h:12 names the
\* causes: a function is pure "unless it writes a global, changes an array it
\* was passed, or calls, directly or not, an impure function".  An array that is
\* passed counts as changed (FuncInfo.h:51); of declarations and main nothing is
\* assumed.  The code calls a function that only reads a global impure as well:
\* modules with one are left out.
Writers == {f \in Func : \/ text[f].declaration \/ text[f].main \/ text[f].pointer
                         \/ \E a \in text[f].accesses : a.op = "store" /\ IsSideEffect(a)}
Readers == {f \in Func : \E a \in text[f].accesses : a.op = "load" /\ IsSideEffect(a)}
ImpureHasCause ==
  pc # "mark" /\ Readers \subseteq Writers =>
    \A S \in SUBSET Func :
      Writers \subseteq S /\ (\A e \in calls : e[2] \in S => e[1] \in S) => Impure \subseteq S

\* GVN keeps the first verdict while DeadCode runs the analysis again on
\* what is left: the verdict held stays sound.
HeldStaysSound == pc = "done" => \A f \in Func : held[f] => is_pure[f]

\* The analysis returns.
Returns == (pc = "mark") ~> (pc = "done")
=============================================================================
