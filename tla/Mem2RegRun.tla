----------------------------- MODULE Mem2RegRun -----------------------------
(***************************************************************************)
(* The function run before and after Mem2Reg, side by side.  Once the pass *)
(* is done one machine executes the source (loads and stores on a memory)  *)
(* and the code the pass left (operands and phis); both take the same path *)
(* and see the same values from outside.                                   *)
(***************************************************************************)
EXTENDS Mem2Reg

CONSTANTS Token,      \* values a variable can hold
          Unset,      \* no value yet
          MaxBlocks   \* bound: blocks executed in one run of the function

VARIABLES source,     \* the code before the pass
          at, ip,     \* the instruction of the source executed next
          mem,        \* the memory of the source: one cell per variable
          reg,        \* the value each id defined last, in either program
          executed    \* blocks executed so far, up to MaxBlocks

machine == <<source, at, ip, mem, reg, executed>>
runVars == <<vars, machine>>

RunInit == /\ Init
           /\ source = code
           /\ at = Entry /\ ip = 1 /\ executed = 1
           /\ mem = [v \in Var |-> Unset]
           /\ reg = <<>>

Compile == Next /\ UNCHANGED machine

Define(id, val) == reg' = [d \in DOMAIN reg \cup {id} |->
                             IF d = id THEN val ELSE reg[d]]

At(op) == pc = "done" /\ ip <= Len(source[at]) /\ source[at][ip].op = op
Step   == ip' = ip + 1 /\ UNCHANGED <<vars, source, at, executed>>
now    == source[at][ip]

ExecCall  == /\ At("call") /\ \E t \in Token : Define(now.id, t)
             /\ Step /\ UNCHANGED mem
ExecLoad  == At("load") /\ Define(now.id, mem[now.var]) /\ Step /\ UNCHANGED mem
ExecStore == /\ At("store") /\ mem' = [mem EXCEPT ![now.var] = reg[now.arg]]
             /\ Step /\ UNCHANGED reg
ExecUse   == At("use") /\ Step /\ UNCHANGED <<mem, reg>>

\* The operand the phi of v at the head of block b has for predecessor p.
PhiOperands(b, v, p) == {q[1] : q \in {r \in ToSet(pairs[<<b, v>>]) : r[2] = p}}

\* A branch: the phis of the target take their values all at once.
ExecBranch ==
  /\ pc = "done" /\ ip > Len(source[at]) /\ executed < MaxBlocks
  /\ \E b \in ToSet(succ[at]) :
       /\ reg' = [d \in DOMAIN reg \cup {<<b, v>> : v \in PhiVars(b)} |->
                    IF d \in phis /\ d[1] = b
                    THEN LET from == PhiOperands(b, d[2], at) \cap DOMAIN reg
                         IN  IF from = {} THEN Unset ELSE reg[CHOOSE x \in from : TRUE]
                    ELSE reg[d]]
       /\ at' = b
  /\ ip' = 1 /\ executed' = executed + 1
  /\ UNCHANGED <<vars, source, mem>>

Execute == ExecCall \/ ExecLoad \/ ExecStore \/ ExecUse \/ ExecBranch
RunNext == Compile \/ Execute
RunSpec == RunInit /\ [][RunNext]_runVars

-----------------------------------------------------------------------------
(* Properties.                                                              *)

Stores(b, v) == \E n \in DOMAIN source[b] : source[b][n].op = "store" /\ source[b][n].var = v
Used(v) == \E b \in Block : \E n \in DOMAIN source[b] :
             source[b][n].op \in {"load", "store"} /\ source[b][n].var = v
\* In the entry block, before anything loads it there.
Initialised ==
  \A v \in Var : Used(v) =>
    \E n \in DOMAIN source[Entry] :
      /\ source[Entry][n].op = "store" /\ source[Entry][n].var = v
      /\ \A m \in 1..(n - 1) : source[Entry][m].op = "load" => source[Entry][m].var # v

\* The instruction of the code after the pass that came from id.
Left(id) == {s \in ToSet(code[id[1]]) : s.id = id}

\* An instruction with an operand reads the same value after the pass as it
\* did before: the store that reached the load reaches the use.  A variable
\* read before it is stored has no value to keep.
SameValues ==
  At("use") /\ now.arg # NoValue /\ reg[now.arg] # Unset =>
    \E s \in Left(now.id) : s.arg \in DOMAIN reg /\ reg[s.arg] = reg[now.arg]

\* The assert of step 6 fails, or step 4 takes back() of an empty stack, only
\* for a variable stored in no strict dominator of the block re_name is in: a
\* function whose entry block stores every variable is safe, wherever else it
\* stores them.
FailsOnlyUnstored ==
  pc \in {"assert_failed", "undefined"} =>
    \E v \in {w \in Var : Used(w)} : \A d \in StrictDominators(succ, bb) : ~Stores(d, v)

\* What is left of a function that initialises its variables names nothing
\* that is gone: no load or store of an erased
\* alloca, no operand, of a phi or of another instruction, that was erased,
\* in no block that can be executed.
Defined == {s.id : s \in {t \in UNION {ToSet(code[b]) : b \in Block} :
                            t.op \in {"load", "call"}}} \cup phis
NoDangling ==
  pc = "done" /\ Initialised =>
    /\ \A b \in Reached(succ) : \A s \in ToSet(code[b]) :
          /\ s.op \in {"load", "store"} => s.var \in allocas
          /\ s.arg # NoValue => s.arg \in Defined
    /\ \A p \in phis : \A q \in ToSet(pairs[p]) : q[1] \in Defined

\* While re_name is in a block, the stack of a variable holds the phis and
\* stores met on the way down the dominator tree, no others; var_val_stack
\* outlives the pass, and its stacks are empty when re_name has returned.
DefinedIn(c, v) ==
  (IF c.ip > 0 /\ v \in PhiVars(c.bb) THEN 1 ELSE 0)
    + Cardinality({n \in 1..(c.ip - 1) \cap DOMAIN source[c.bb] :
                     source[c.bb][n].op = "store" /\ source[c.bb][n].var = v})
StacksFollowPath ==
  pc \in {"rename", "remove", "done"} =>
    \A v \in Var :
      LET depth[k \in 0..Len(calls)] ==
            IF k = 0 THEN 0 ELSE depth[k - 1] + DefinedIn(calls[k], v)
      IN  Len(var_val_stack[v]) = depth[Len(calls)]

\* A block has a phi for a variable exactly when it is in the iterated
\* dominance frontier of the variable's stores.
Iterated(v) ==
  LET frontier == [b \in Block |-> Frontier(succ, b)]
      close[n \in 0..N] ==
        UNION {frontier[b] : b \in StoreBlocks(v) \cup IF n = 0 THEN {} ELSE close[n - 1]}
  IN  close[N]
PhisMinimal ==
  pc = "rename" /\ Top.ip = 0 /\ Len(calls) = 1 =>
    \A v \in Var : {b \in Block : <<b, v>> \in phis} = Iterated(v)
=============================================================================
