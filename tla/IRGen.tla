------------------------------- MODULE IRGen -------------------------------
(***************************************************************************)
(* CminusfBuilder on one function: the basic blocks, branches and bindings *)
(* the visit of its statements leaves behind.  A visit method that accepts *)
(* a child is cut there: what it does afterwards waits as a frame on todo. *)
(* The tree is not given, it is chosen while it is visited.  Of an         *)
(* expression only variables and indices matter here; ExprGen has the rest.*)
(***************************************************************************)
EXTENDS Integers, Sequences, SequencesExt

CONSTANTS Names,      \* the identifiers a program may declare
          MaxStmts,   \* bound: selections, iterations, inner compounds
          MaxVars,    \* bound: local declarations and uses of a variable
          MaxParams   \* bound: parameters of the function

ASSUME BoundsAssumption == MaxStmts \in Nat /\ MaxVars \in Nat /\ MaxParams \in Nat

VARIABLES
  blocks,             \* the function's blocks, in creation order
  cur,                \* IRBuilder's insert block, 0 before there is one
  scope,              \* Scope::inner, outermost first
  pre_enter_scope,
  todo,               \* what is left of the visits under way, innermost first
  stmts, uses         \* how many of the bounded nodes were visited

vars == <<blocks, cur, scope, pre_enter_scope, todo, stmts, uses>>

\* A value in scope is the place of its alloca, or one of the module's own.
MaxBlocks == 1 + 3 * MaxStmts + 2 * MaxVars
MaxCode   == 2 * MaxParams + MaxVars + 2
Place  == (1..MaxBlocks) \X (1..MaxCode)
Global == <<0, 0>>                     \* a global variable
Except == <<0, 1>>                     \* the function neg_idx_except
Value  == Place \cup {Global, Except}

Instr  == {<<"alloca">>, <<"cmp">>, <<"br">>, <<"ret">>}
            \cup {<<"use", v>> : v \in Value} \cup {<<"call", v>> : v \in Value}
Ids    == Names \cup {"neg_idx_except"}

Id == 1..Len(blocks)
Succ == [b \in Id |-> blocks[b].succ]
Pre  == [b \in Id |-> blocks[b].pre]
Top  == todo[1]

TypeOK ==
  /\ \A b \in Id : /\ ToSet(blocks[b].code) \subseteq Instr
                   /\ ToSet(blocks[b].succ) \cup ToSet(blocks[b].pre) \subseteq Id
  /\ cur \in Id \cup {0}
  /\ \A i \in DOMAIN scope : /\ DOMAIN scope[i] \subseteq Ids
                             /\ \A n \in DOMAIN scope[i] : scope[i][n] \in Value
  /\ pre_enter_scope \in BOOLEAN
  /\ \A i \in DOMAIN todo : todo[i].at \in
        {"compound", "decls", "list", "stmt", "expr", "index", "if",
         "then", "else", "while", "body", "return", "fun"}
  /\ stmts \in 0..MaxStmts /\ uses \in 0..MaxVars

-----------------------------------------------------------------------------
(* What the IR builder does to the blocks. *)
EmptyBlock == [code |-> <<>>, succ |-> <<>>, pre |-> <<>>]
Create(bs, k) == bs \o [i \in 1..k |-> EmptyBlock]
Emit(bs, b, ins) == [bs EXCEPT ![b].code = @ \o ins]
Edge(bs, b, t) == [bs EXCEPT ![t].pre = Append(@, b), ![b].succ = Append(@, t)]

CreateBr(bs, b, t) == Edge(Emit(bs, b, <<<<"br">>>>), b, t)
CreateCondBr(bs, b, t, f) == Edge(Edge(Emit(bs, b, <<<<"cmp">>, <<"br">>>>), b, f), b, t)

\* get_terminator looks at the last instruction only.
Terminated(bs, b) ==
  bs[b].code # <<>> /\ Last(bs[b].code) \in {<<"br">>, <<"ret">>}
BrUnlessTerminated(bs, b, t) == IF Terminated(bs, b) THEN bs ELSE CreateBr(bs, b, t)
RetUnlessTerminated(bs, b) == IF Terminated(bs, b) THEN bs ELSE Emit(bs, b, <<<<"ret">>>>)

\* Scope::push keeps the binding a name already has in the current scope.
Bind(s, n, v) ==
  [s EXCEPT ![Len(s)] = [m \in DOMAIN @ \cup {n} |-> IF m \in DOMAIN @ THEN @[m] ELSE v]]
Enter(s) == Append(s, <<>>)
Bound(n) == {i \in DOMAIN scope : n \in DOMAIN scope[i]}
Find(n)  == scope[CHOOSE i \in Bound(n) : \A j \in Bound(n) : j <= i][n]
IsVar(n) == Bound(n) # {} /\ Find(n) # Except

VisitStmt == stmts < MaxStmts /\ stmts' = stmts + 1 /\ UNCHANGED uses
VisitVar  == uses < MaxVars /\ uses' = uses + 1 /\ UNCHANGED stmts
Then(frames) == todo' = frames \o Tail(todo)
At(place) == todo # <<>> /\ Top.at = place
Frame(place) == [at |-> place]

Init ==
  /\ blocks = <<>> /\ cur = 0
  /\ \E g \in SUBSET Names :
        scope = <<[n \in g \cup {"neg_idx_except"} |->
                     IF n = "neg_idx_except" THEN Except ELSE Global]>>
  /\ pre_enter_scope = FALSE /\ todo = <<>> /\ stmts = 0 /\ uses = 0

-----------------------------------------------------------------------------
\* Each parameter gets an alloca and a store of the argument.
FunDeclaration ==
  /\ cur = 0
  /\ \E params \in BoundedSeq(Names, MaxParams) :
       /\ blocks' = Emit(Create(blocks, 1), 1,
            [k \in 1..(2 * Len(params)) |->
               IF k % 2 = 1 THEN <<"alloca">> ELSE <<"use", <<1, k - 1>>>>])
       /\ LET pushed[k \in 0..Len(params)] ==
                IF k = 0 THEN Enter(scope) ELSE Bind(pushed[k - 1], params[k], <<1, 2*k - 1>>)
          IN  scope' = pushed[Len(params)]
  /\ cur' = 1 /\ pre_enter_scope' = TRUE
  /\ todo' = <<Frame("compound"), Frame("fun")>>
  /\ UNCHANGED <<stmts, uses>>

EndFunction ==
  /\ At("fun")
  /\ blocks' = RetUnlessTerminated(blocks, cur)
  /\ scope' = Front(scope) /\ Then(<<>>)
  /\ UNCHANGED <<cur, pre_enter_scope, stmts, uses>>

EnterCompoundStaysInside ==  \* mutant: pre_enter_scope is never reset
  /\ At("compound")
  /\ scope' = IF pre_enter_scope THEN scope ELSE Enter(scope)
  /\ Then(<<[at |-> "decls", exits |-> ~pre_enter_scope]>>)
  /\ UNCHANGED <<blocks, cur, pre_enter_scope, stmts, uses>>

\* The body of a function uses the scope FunDeclaration entered.
EnterCompound ==
  /\ At("compound")
  /\ pre_enter_scope' = FALSE
  /\ scope' = IF pre_enter_scope THEN scope ELSE Enter(scope)
  /\ Then(<<[at |-> "decls", exits |-> ~pre_enter_scope]>>)
  /\ UNCHANGED <<blocks, cur, stmts, uses>>

VarDeclaration ==
  /\ At("decls") /\ VisitVar
  /\ blocks' = Emit(blocks, cur, <<<<"alloca">>>>)
  /\ \E n \in Names : scope' = Bind(scope, n, <<cur, Len(blocks[cur].code) + 1>>)
  /\ UNCHANGED <<cur, pre_enter_scope, todo>>

NextStatementAnyway ==  \* mutant: no break after a terminator
  /\ At("decls") \/ At("list")
  /\ Then(<<Frame("stmt"), [Top EXCEPT !.at = "list"]>>)
  /\ UNCHANGED <<blocks, cur, scope, pre_enter_scope, stmts, uses>>

\* The rest of the list is dropped once the insert block has its terminator.
NextStatement ==
  /\ At("decls") \/ (At("list") /\ ~Terminated(blocks, cur))
  /\ Then(<<Frame("stmt"), [Top EXCEPT !.at = "list"]>>)
  /\ UNCHANGED <<blocks, cur, scope, pre_enter_scope, stmts, uses>>

LeaveCompound ==
  /\ At("decls") \/ At("list")
  /\ scope' = IF Top.exits THEN Front(scope) ELSE scope
  /\ Then(<<>>)
  /\ UNCHANGED <<blocks, cur, pre_enter_scope, stmts, uses>>

-----------------------------------------------------------------------------
(* One statement. *)
EmptyStatement ==
  /\ At("stmt") /\ Then(<<>>)
  /\ UNCHANGED <<blocks, cur, scope, pre_enter_scope, stmts, uses>>

ExpressionStmt ==
  /\ At("stmt") /\ Then(<<Frame("expr")>>)
  /\ UNCHANGED <<blocks, cur, scope, pre_enter_scope, stmts, uses>>

CompoundStmt ==
  /\ At("stmt") /\ VisitStmt /\ Then(<<Frame("compound")>>)
  /\ UNCHANGED <<blocks, cur, scope, pre_enter_scope>>

VoidReturn ==
  /\ At("stmt") /\ Then(<<>>)
  /\ blocks' = Emit(blocks, cur, <<<<"ret">>>>)
  /\ UNCHANGED <<cur, scope, pre_enter_scope, stmts, uses>>

ReturnStmt ==
  /\ At("stmt") /\ Then(<<Frame("expr"), Frame("return")>>)
  /\ UNCHANGED <<blocks, cur, scope, pre_enter_scope, stmts, uses>>

EndReturn ==
  /\ At("return") /\ Then(<<>>)
  /\ blocks' = Emit(blocks, cur, <<<<"ret">>>>)
  /\ UNCHANGED <<cur, scope, pre_enter_scope, stmts, uses>>

SelectionStmt ==
  /\ At("stmt") /\ VisitStmt
  /\ \E arms \in {1, 2} : Then(<<Frame("expr"), [at |-> "if", arms |-> arms]>>)
  /\ UNCHANGED <<blocks, cur, scope, pre_enter_scope>>

\* trueBB, contBB and, with an else, falseBB are created in this order.
Branch ==
  /\ At("if")
  /\ LET true == Len(blocks) + 1
         cont == Len(blocks) + 2
         false == Len(blocks) + 3
         bs == Create(blocks, Top.arms + 1)
     IN  /\ blocks' = CreateCondBr(bs, cur, true, IF Top.arms = 2 THEN false ELSE cont)
         /\ cur' = true
         /\ Then(<<Frame("stmt"),
                   [at |-> "then", waiting |-> IF Top.arms = 2 THEN <<false, cont>> ELSE <<cont>>]>>)
  /\ UNCHANGED <<scope, pre_enter_scope, stmts, uses>>

EndThenWithoutBranch ==  \* mutant: the then-arm is left open
  /\ At("then")
  /\ cur' = Head(Top.waiting)
  /\ Then(IF Len(Top.waiting) = 2
          THEN <<Frame("stmt"), [at |-> "else", waiting |-> Tail(Top.waiting)]>>
          ELSE <<>>)
  /\ UNCHANGED <<blocks, scope, pre_enter_scope, stmts, uses>>

EndThen ==
  /\ At("then")
  /\ blocks' = BrUnlessTerminated(blocks, cur, Last(Top.waiting))
  /\ cur' = Head(Top.waiting)
  /\ Then(IF Len(Top.waiting) = 2
          THEN <<Frame("stmt"), [at |-> "else", waiting |-> Tail(Top.waiting)]>>
          ELSE <<>>)
  /\ UNCHANGED <<scope, pre_enter_scope, stmts, uses>>

EndElseToLastBlock ==  \* mutant: contBB is whatever block was made last
  /\ At("else")
  /\ blocks' = BrUnlessTerminated(blocks, cur, Len(blocks))
  /\ cur' = Last(Top.waiting) /\ Then(<<>>)
  /\ UNCHANGED <<scope, pre_enter_scope, stmts, uses>>

EndElse ==
  /\ At("else")
  /\ blocks' = BrUnlessTerminated(blocks, cur, Last(Top.waiting))
  /\ cur' = Last(Top.waiting) /\ Then(<<>>)
  /\ UNCHANGED <<scope, pre_enter_scope, stmts, uses>>

IterationStmtWithoutBranch ==  \* mutant: nothing leads into the loop
  /\ At("stmt") /\ VisitStmt
  /\ LET expr == Len(blocks) + 1
     IN  /\ blocks' = Create(blocks, 1)
         /\ cur' = expr
         /\ Then(<<Frame("expr"), [at |-> "while", expr |-> expr]>>)
  /\ UNCHANGED <<scope, pre_enter_scope>>

IterationStmt ==
  /\ At("stmt") /\ VisitStmt
  /\ LET expr == Len(blocks) + 1
     IN  /\ blocks' = BrUnlessTerminated(Create(blocks, 1), cur, expr)
         /\ cur' = expr
         /\ Then(<<Frame("expr"), [at |-> "while", expr |-> expr]>>)
  /\ UNCHANGED <<scope, pre_enter_scope>>

LoopBranch ==
  /\ At("while")
  /\ LET true == Len(blocks) + 1
         cont == Len(blocks) + 2
     IN  /\ blocks' = CreateCondBr(Create(blocks, 2), cur, true, cont)
         /\ cur' = true
         /\ Then(<<Frame("stmt"), [at |-> "body", expr |-> Top.expr, waiting |-> <<cont>>]>>)
  /\ UNCHANGED <<scope, pre_enter_scope, stmts, uses>>

EndBody ==
  /\ At("body")
  /\ blocks' = BrUnlessTerminated(blocks, cur, Top.expr)
  /\ cur' = Head(Top.waiting) /\ Then(<<>>)
  /\ UNCHANGED <<scope, pre_enter_scope, stmts, uses>>

-----------------------------------------------------------------------------
(* One expression. *)
Number ==
  /\ At("expr") /\ Then(<<>>)
  /\ UNCHANGED <<blocks, cur, scope, pre_enter_scope, stmts, uses>>

Var ==
  /\ At("expr") /\ VisitVar /\ Then(<<>>)
  /\ \E n \in Names : /\ IsVar(n)
                      /\ blocks' = Emit(blocks, cur, <<<<"use", Find(n)>>>>)
  /\ UNCHANGED <<cur, scope, pre_enter_scope>>

\* The variable is looked up before the index is visited, used after it.
IndexedVar ==
  /\ At("expr") /\ VisitVar
  /\ \E n \in Names : /\ IsVar(n)
                      /\ Then(<<Frame("expr"), [at |-> "index", var |-> Find(n)]>>)
  /\ UNCHANGED <<blocks, cur, scope, pre_enter_scope>>

\* A negative index calls neg_idx_except and returns; else go on in contBB.
CheckIndex ==
  /\ At("index")
  /\ LET except == Len(blocks) + 1
         cont   == Len(blocks) + 2
         split  == CreateCondBr(Create(blocks, 2), cur, except, cont)
     IN  /\ blocks' = Emit(Emit(split, except, <<<<"call", Find("neg_idx_except")>>, <<"ret">>>>),
                           cont, <<<<"use", Top.var>>>>)
         /\ cur' = cont
  /\ Then(<<>>)
  /\ UNCHANGED <<scope, pre_enter_scope, stmts, uses>>

Done == cur # 0 /\ todo = <<>>
Finished == Done /\ UNCHANGED vars

Next ==
  \/ FunDeclaration \/ EndFunction
  \/ EnterCompound \/ VarDeclaration \/ NextStatement \/ LeaveCompound
  \/ EmptyStatement \/ ExpressionStmt \/ CompoundStmt
  \/ VoidReturn \/ ReturnStmt \/ EndReturn
  \/ SelectionStmt \/ Branch \/ EndThen \/ EndElse
  \/ IterationStmt \/ LoopBranch \/ EndBody
  \/ Number \/ Var \/ IndexedVar \/ CheckIndex
  \/ Finished

Spec == Init /\ [][Next]_vars

-----------------------------------------------------------------------------
\* No instruction follows a branch or a return in its block: passes and
\* printer take the last instruction for the terminator.  A statement after
\* `return` in the same list must not be visited, at any depth of nesting.
TerminatorLast ==
  \A b \in Id : \A i \in 1..(Len(blocks[b].code) - 1) :
     blocks[b].code[i] \notin {<<"br">>, <<"ret">>}

\* A block that still lacks its terminator is the one being filled, or an
\* empty one that exactly one visit under way will fill later: none is lost,
\* and the function ends with every block terminated.
Waiting(i) == IF "waiting" \in DOMAIN todo[i] THEN ToSet(todo[i].waiting) ELSE {}
Pending == UNION {Waiting(i) : i \in DOMAIN todo}
NoBlockLost ==
  /\ \A b \in Id : ~Terminated(blocks, b) =>
        b \in Pending \cup (IF todo = <<>> THEN {} ELSE {cur})
  /\ \A b \in Pending : blocks[b].code = <<>> /\ b # cur
  /\ \A i, j \in DOMAIN todo : i # j => Waiting(i) \cap Waiting(j) = {}
=============================================================================
