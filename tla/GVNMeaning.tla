----------------------------- MODULE GVNMeaning -----------------------------
(***************************************************************************)
(* What a function of GVN does when it is run, to say that the pass leaves *)
(* it alone: the calls and stores it makes and what it returns.            *)
(***************************************************************************)
EXTENDS GVN

CONSTANTS Arguments,  \* the values the parameters are tried with
          Pointers,   \* the parameters that are addresses, the same in every run
          Fuel        \* blocks a run goes through at most

\* A run: the value of each instruction so far, the memory, and the events.
Unset == 95
Start(inputs) ==
  [env  |-> [v \in (DOMAIN fn.ins) \cup ToSet(fn.params) |->
               IF v \in DOMAIN inputs THEN inputs[v] ELSE Unset],
   mem  |-> [a \in Word |-> Wrap(a + 1)],
   out  |-> <<>>, trap |-> FALSE, prev |-> 0]

Get(st, v) == IF IsConst(v) THEN v ELSE st.env[v]

Compute(op, a, b) ==
  CASE op = "add" -> Wrap(a + b) [] op = "sub" -> Wrap(a - b) [] op = "mul" -> Wrap(a * b)
    [] op = "sdiv" -> Quotient(a, b)
    [] op = "eq" -> Bit(a = b) [] op = "ne" -> Bit(a # b)
    [] op = "gt" -> Bit(a > b) [] op = "ge" -> Bit(a >= b)
    [] op = "lt" -> Bit(a < b) [] op = "le" -> Bit(a <= b)

\* A division of the program that traps; nothing is asked of such a run.
Traps(op, a, b) == op = "sdiv" /\ (b = 0 \/ (a = MinWord /\ b = -1))

\* A call that is not pure answers differently each time; a pure one does not.
Answer(op, st, args) ==
  IF op = "call_impure" THEN Wrap(Len(st.out)) ELSE Wrap(2 * args[Len(args)] + 1)

Step(st, x, ops) ==
  LET op   == fn.ins[x].op
      args == [n \in DOMAIN ops[x] |-> Get(st, ops[x][n])]
      Set(v) == [st EXCEPT !.env[x] = v]
      Say(s) == [s EXCEPT !.out = Append(@, <<op, args>>)]
  IN  CASE st.trap -> st
        [] ~st.trap /\ op \in BinaryOps \cup CmpOps ->
             IF Traps(op, args[1], args[2]) THEN [st EXCEPT !.trap = TRUE]
             ELSE Set(Compute(op, args[1], args[2]))
        [] ~st.trap /\ op = "zext" -> Set(args[1] - Bit(FALSE))
        [] ~st.trap /\ op = "gep"  -> Set(Wrap(args[2]))
        [] ~st.trap /\ op = "load" -> Set(st.mem[Wrap(args[1])])
        [] ~st.trap /\ op = "store" -> Say([st EXCEPT !.mem[Wrap(args[2])] = args[1]])
        [] ~st.trap /\ op = "call_pure" -> Set(Answer(op, st, args))
        [] ~st.trap /\ op = "call_impure" -> Say(Set(Answer(op, st, args)))
        [] ~st.trap /\ op \in {"call_void", "ret"} -> Say(st)
        [] ~st.trap /\ op \in {"br", "phi"} -> st

\* The phis of a block take their values together, on the edge.
Arrive(st, b, ops) ==
  [st EXCEPT !.env = [v \in DOMAIN @ |->
     IF v \in ToSet(Phis(b))
     THEN Get(st, ops[v][IF fn.ins[v].from[1] = st.prev THEN 1 ELSE 2])
     ELSE @[v]]]

RECURSIVE RunFrom(_, _, _, _)
RunFrom(st, b, ops, fuel) ==
  LET end  == InTurn(LAMBDA s, x : Step(s, x, ops), Arrive(st, b, ops), Plain(b))
      last == Last(fn.code[b])
      onto == fn.succs[b]
  IN  IF end.trap \/ fuel = 0 \/ onto = <<>> THEN end
      ELSE RunFrom([end EXCEPT !.prev = b],
                   IF Len(onto) = 1 \/ Get(end, ops[last][1]) = Bit(FALSE)
                   THEN onto[1] ELSE onto[2],
                   ops, fuel - 1)

Result(ops, inputs) == LET end == RunFrom(Start(inputs), 1, ops, Fuel)
                       IN  [trap |-> end.trap, out |-> end.out]

(***************************************************************************)
(* Properties                                                              *)
(***************************************************************************)
\* A partition lists its classes by index, a value is in one class at most,
\* and only the top class is empty.
WellFormed ==
  \A b \in Blocks : \A i, j \in DOMAIN pout[b] :
    LET c == pout[b][i]
        d == pout[b][j]
    IN  /\ i < j => c.index < d.index /\ c.members \cap d.members = {}
        /\ IsTop(c) <=> c.members = {}
        /\ c.index < nextValueNumber

\* The rounds ended because nothing changes any more: each block has the
\* classes, with their leaders, that its predecessors give it now (4.2-gvn:
\* "while changes to any POUT occur").
Led(p) == {<<p[k].leader, p[k].members>> : k \in DOMAIN p}
Settled ==
  \A b \in Blocks \ {1} : LET out == BlockOut(b)
                           IN  out.fault = Null => Led(out.p) = Led(pout[b])
Fixpoint == pc = "replace" => Settled

\* What the pass leaves does what the function did, for every argument.
Before(inputs) == Result([x \in DOMAIN fn.ins |-> fn.ins[x].args], inputs)
Inputs    == [ToSet(fn.params) \ Pointers -> Arguments]
Unchanged == \A i \in Inputs : Before(i).trap \/ Result(operands, i) = Before(i)

\* Partitions that are a fixpoint replace values by equal ones: the members of
\* a class are equivalent, and its leader stands for them (GVN.h:312).
MeaningKept == pc = "done" /\ Settled => Unchanged

\* That is not so in two cases.  A phi may have another phi of its block as an
\* operand, on either edge: it is given that one's new value (gvn_phis).  And
\* the leader, the lowest of the members, may be a value that is not there yet
\* where a member is used: a phi copied from a successor.
PhiReadsPhi ==
  \E b \in Blocks : \E x \in ToSet(Phis(b)) :
    ToSet(fn.ins[x].args) \cap (ToSet(Phis(b)) \ {x}) # {}

\* The blocks reached without going through d.
Around(d) ==
  InTurn(LAMBDA S, k : S \cup (UNION {ToSet(fn.succs[q]) : q \in S} \ {d}), {1} \ {d}, fn.code)
Available(v, b) ==
  v \in DOMAIN fn.ins => \E d \in Blocks : v \in ToSet(fn.code[d]) /\ b \notin Around(d)
\* The blocks whose ends have to have the value m for b and for the phis behind it.
UsedFrom(m, b) ==
  {b : x \in {x \in ToSet(Plain(b)) : m \in ToSet(fn.ins[x].args)}}
    \cup UNION {{fn.ins[x].from[n] : n \in {n \in {1, 2} : fn.ins[x].args[n] = m}} :
                x \in UNION {ToSet(Phis(s)) : s \in ToSet(fn.succs[b])}}
LeaderAhead ==
  \E b \in Blocks : \E c \in ToSet(pout[b]) :
    ~IsTop(c) /\ \E m \in Replaced(c) : \E q \in UsedFrom(m, b) : ~Available(c.leader, q)

\* In all others the pass changes nothing the function does.
SameResults == pc = "done" /\ Settled /\ ~PhiReadsPhi /\ ~LeaderAhead => Unchanged

\* valueExpr has a value expression for every instruction (4.2-gvn), and the pass
\* comes to no place where C++ leaves open what happens, like the end of a
\* function that returns nothing, a null pointer, or the front of an empty list:
\* where every block is reached from the entry through blocks in list order, so
\* that one that is visited has a predecessor that was.
Ahead[b \in Blocks] == b # 1 /\ \A q \in ToSet(fn.preds[b]) : q >= b \/ Ahead[q]
DefinedInOrder == pc = "undefined" => \E b \in Blocks : Ahead[b]

\* The folder divides without looking at the divisor, and the compiler stops.
\* In a function of one block it does so only where the program would, whatever
\* its arguments; a division in an arm may be one that is never executed.
TrapsWithProgram == pc = "trap" /\ Len(fn.code) = 1 => \A i \in Inputs : Before(i).trap

\* Of two instructions of a block with the same operator and operands, the
\* second has no use left in the block.
Comparable == BinaryOps \cup CmpOps \cup {"call_pure", "gep", "zext"}
DuplicatesGone ==
  pc = "done" =>
    \A b \in Blocks : \A m, n \in DOMAIN fn.code[b] :
      LET x == fn.code[b][m]
          y == fn.code[b][n]
      IN  m < n /\ fn.ins[x].op \in Comparable
            /\ fn.ins[x].op = fn.ins[y].op /\ fn.ins[x].args = fn.ins[y].args
          => \A z \in ToSet(Plain(b)) : y \notin ToSet(operands[z])

\* Under fairness of its own steps the pass ends.
Ends == <>(pc \in {"done", "trap", "undefined"})
=============================================================================
