-------------------------- MODULE DominatorsProofs --------------------------
(***************************************************************************)
(* For every graph, blocks nobody reaches included: the asserts of         *)
(* create_idom and intersect hold, the tree they walk climbs, an idom only *)
(* ever moves up, which is why the passes over the blocks must stop, and   *)
(* what Dominators::run leaves is dominance as paths define it.            *)
(***************************************************************************)
EXTENDS Dominators, Reachability

-----------------------------------------------------------------------------
(* Ancestors in a tree of idoms.  c is an ancestor of b when every set that  *)
(* holds b and, with a block, its idom, holds c.                             *)

UpClosed(t, S) == \A x \in S : t[x] # NoBlock => t[x] \in S
Anc(t, c, b) == \A S \in SUBSET Block : b \in S /\ UpClosed(t, S) => c \in S

Trees == [BlockOrNull -> BlockOrNull]
Climbs(t, id) ==
  /\ t[Entry] = Entry
  /\ \A b \in Block \ {Entry} : t[b] # NoBlock =>
        t[b] \in Block /\ t[t[b]] # NoBlock /\ id[t[b]] > id[b]

\* A block is its own ancestor, what is above an ancestor is one, and so on.
LEMMA AncSelf == \A t \in Trees, b \in Block : Anc(t, b, b)
BY DEF Anc

\* An ancestor of an ancestor is an ancestor.
LEMMA AncTrans ==
  \A t \in Trees, b, c, d \in Block : Anc(t, d, c) /\ Anc(t, c, b) => Anc(t, d, b)
BY DEF Anc

\* The idom of an ancestor is an ancestor.
LEMMA AncUp ==
  \A t \in Trees, b, c \in Block :
     Anc(t, c, b) /\ t[c] # NoBlock => t[c] \in Block /\ Anc(t, t[c], b)
BY DEF Anc, UpClosed, Trees, BlockOrNull

\* An ancestor other than the block itself is one of its idom.
LEMMA AncStep ==
  ASSUME NEW t \in Trees, NEW b \in Block, NEW c \in Block,
         t[b] # NoBlock, Anc(t, c, b), c # b
  PROVE  t[b] \in Block /\ Anc(t, c, t[b])
<1>1. t[b] \in Block
  BY DEF Trees, BlockOrNull
<1>2. ASSUME NEW S \in SUBSET Block, t[b] \in S, UpClosed(t, S)
      PROVE  c \in S
  <2>1. S \cup {b} \in SUBSET Block /\ UpClosed(t, S \cup {b})
    BY <1>2 DEF UpClosed
  <2> QED BY <2>1 DEF Anc
<1> QED BY <1>1, <1>2 DEF Anc

\* An ancestor of a block is the block or has a higher number.
LEMMA AncHigher ==
  ASSUME NEW t \in Trees, NEW id \in [Block -> Nat], Climbs(t, id),
         NEW b \in Block, NEW c \in Block, Anc(t, c, b)
  PROVE  /\ c = b \/ id[c] > id[b]
         /\ t[b] # NoBlock => t[c] # NoBlock
<1> DEFINE S == {x \in Block : x = b \/ id[x] > id[b]}
           U == {x \in Block : t[b] # NoBlock => t[x] # NoBlock}
<1>1. UpClosed(t, S) /\ b \in S
  <2> SUFFICES ASSUME NEW x \in S, t[x] # NoBlock PROVE t[x] \in S
    BY DEF UpClosed
  <2>1. CASE x = Entry
    BY <2>1 DEF Climbs
  <2>2. CASE x # Entry
    BY <2>2 DEF Climbs
  <2> QED BY <2>1, <2>2
<1>2. UpClosed(t, U) /\ b \in U
  BY DEF UpClosed, Climbs
<1> QED BY <1>1, <1>2 DEF Anc

\* The ancestors of a block are one chain.
LEMMA AncLinear ==
  ASSUME NEW t \in Trees, NEW y \in Block, NEW c \in Block, NEW x \in Block,
         Anc(t, c, y), Anc(t, x, y)
  PROVE  Anc(t, c, x) \/ Anc(t, x, c)
<1> DEFINE U == {z \in Block : Anc(t, x, z) \/ Anc(t, z, x)}
<1>1. y \in U
  OBVIOUS
<1>2. UpClosed(t, U)
  <2> SUFFICES ASSUME NEW z \in U, t[z] # NoBlock PROVE t[z] \in U
    BY DEF UpClosed
  <2>1. t[z] \in Block
    BY DEF Trees, BlockOrNull
  <2>2. CASE Anc(t, z, x)
    BY <2>1, <2>2, AncUp
  <2>3. CASE Anc(t, x, z) /\ x = z
    BY <2>3, <2>1, AncUp
  <2>4. CASE Anc(t, x, z) /\ x # z
    BY <2>4, <2>1, AncStep
  <2> QED BY <2>2, <2>3, <2>4
<1> QED BY <1>1, <1>2 DEF Anc

-----------------------------------------------------------------------------
(* One idom is set: to anything where there was none, else to an ancestor.   *)

Lifts(t, u, b, n) ==
  /\ u = [t EXCEPT ![b] = n]
  /\ b \in Block \ {Entry} /\ n \in Block
  /\ t[b] # NoBlock => Anc(t, n, t[b])

\* No block gains an ancestor.
LEMMA LiftShrinks ==
  ASSUME NEW t \in Trees, NEW u \in Trees, NEW id \in [Block -> Nat], Climbs(t, id),
         NEW b \in Block, NEW n \in Block, Lifts(t, u, b, n),
         NEW c \in Block, NEW x \in Block, t[x] # NoBlock, Anc(u, c, x)
  PROVE  Anc(t, c, x)
<1> SUFFICES ASSUME NEW S \in SUBSET Block, x \in S, UpClosed(t, S) PROVE c \in S
  BY DEF Anc
<1>0. \A z \in Block \ {b} : u[z] = t[z]
  BY DEF Lifts, Trees, BlockOrNull
<1>b. u[b] = n
  BY DEF Lifts, Trees, BlockOrNull
<1>1. CASE t[b] # NoBlock
  <2>1. t[b] \in Block /\ (b \in S => t[b] \in S)
    BY <1>1 DEF Trees, BlockOrNull, UpClosed
  <2>2. b \in S => n \in S
    BY <1>1, <2>1 DEF Lifts, Anc
  <2>3. UpClosed(u, S)
    BY <1>0, <1>b, <2>2 DEF UpClosed
  <2> QED BY <2>3 DEF Anc
<1>2. CASE t[b] = NoBlock
  <2>1. \A z \in S \ {b} : t[z] # NoBlock => t[z] # b
    BY <1>2 DEF Climbs
  <2>2. x \in S \ {b} /\ S \ {b} \in SUBSET Block
    BY <1>2
  <2>3. UpClosed(u, S \ {b})
    BY <1>0, <2>1 DEF UpClosed
  <2> QED BY <2>2, <2>3 DEF Anc
<1> QED BY <1>1, <1>2

\* What is not below b keeps its ancestors.
LEMMA LiftSpares ==
  ASSUME NEW t \in Trees, NEW u \in Trees, NEW b \in Block, NEW n \in Block,
         Lifts(t, u, b, n), NEW c \in Block, NEW x \in Block,
         Anc(t, c, x), ~Anc(t, b, x)
  PROVE  Anc(u, c, x)
<1> SUFFICES ASSUME NEW S \in SUBSET Block, x \in S, UpClosed(u, S) PROVE c \in S
  BY DEF Anc
<1>0. \A z \in Block \ {b} : u[z] = t[z]
  BY DEF Lifts, Trees, BlockOrNull
<1> DEFINE V == {z \in S : Anc(t, z, x)}
<1>1. x \in V /\ V \in SUBSET Block
  BY AncSelf
<1>2. UpClosed(t, V)
  <2> SUFFICES ASSUME NEW z \in V, t[z] # NoBlock PROVE t[z] \in V
    BY DEF UpClosed
  <2>1. z # b /\ u[z] = t[z]
    BY <1>0
  <2>2. t[z] \in S
    BY <2>1 DEF UpClosed
  <2> QED BY <2>2, AncUp
<1> QED BY <1>1, <1>2 DEF Anc

\* b itself stays above what is below it, and so does what lies between.
LEMMA LiftKeeps ==
  ASSUME NEW t \in Trees, NEW u \in Trees, NEW id \in [Block -> Nat], Climbs(t, id),
         NEW b \in Block, NEW n \in Block, Lifts(t, u, b, n),
         NEW c \in Block, NEW x \in Block, Anc(t, c, x), Anc(t, b, c)
  PROVE  Anc(u, c, x)
<1> SUFFICES ASSUME NEW S \in SUBSET Block, x \in S, UpClosed(u, S), c \notin S
             PROVE  FALSE
  BY DEF Anc
<1>0. \A z \in Block \ {b} : u[z] = t[z]
  BY DEF Lifts, Trees, BlockOrNull
<1> DEFINE V == {z \in S : Anc(t, c, z)}
<1>1. x \in V /\ V \in SUBSET Block
  OBVIOUS
<1>2. UpClosed(t, V)
  <2> SUFFICES ASSUME NEW z \in V, t[z] # NoBlock PROVE t[z] \in V
    BY DEF UpClosed
  <2>1. z # c
    OBVIOUS
  <2>2. t[z] \in Block /\ Anc(t, c, t[z])
    BY <2>1, AncStep
  <2>3. z # b
    <3>1. CASE z = b
      <4>1. c = b \/ id[c] > id[b]
        BY <3>1, AncHigher
      <4>2. b = c \/ id[b] > id[c]
        BY AncHigher
      <4>3. id[b] \in Nat /\ id[c] \in Nat
        OBVIOUS
      <4> QED BY <4>1, <4>2, <4>3, <2>1, <3>1
    <3> QED BY <3>1
  <2>4. t[z] \in S
    BY <1>0, <2>3 DEF UpClosed
  <2> QED BY <2>2, <2>4
<1> QED BY <1>1, <1>2 DEF Anc

-----------------------------------------------------------------------------
(* The inductive invariant.                                                 *)

Size     == Len(reverse_post_order)
Listed   == {reverse_post_order[i] : i \in 1..Size}
Handled  == {reverse_post_order[i] : i \in 1..(pos - 1)}   \* in this pass
Ready(b) == {p \in ToSet(pre[b]) : idom[p] # NoBlock}
Looping  == pc \in {"block", "preds", "intersect"}

\* The walk: visited blocks are on the stack, each below a predecessor, or
\* numbered, with a predecessor that has or will have a higher number.
OnStack(b) == \E i \in 1..Len(stack) : stack[i].bb = b
StackInv ==
  /\ Len(stack) >= 1 /\ stack[1].bb = Entry
  /\ \A i, j \in 1..Len(stack) : stack[i].bb = stack[j].bb => i = j
  /\ \A i \in 1..Len(stack) : stack[i].bb \in visited \ Listed
  /\ \A i \in 2..Len(stack) : stack[i - 1].bb \in ToSet(pre[stack[i].bb])
  /\ Listed \subseteq visited
  /\ \A b \in visited : b \in Listed \/ OnStack(b)
NumberInv ==
  /\ \A i \in 1..Size : post_order_id[reverse_post_order[i]] = i - 1
  /\ \A b \in Listed : \E p \in visited :
        p \in ToSet(pre[b]) /\ (p \in Listed => post_order_id[p] > post_order_id[b])
VisitInv ==
  pc = "visit" =>
    StackInv /\ NumberInv /\ idom = [b \in BlockOrNull |-> NoBlock] /\ pos = 1

\* The list: numbers fall along it from the entry, and each block has a
\* predecessor ahead of it.
OrderInv ==
  pc # "visit" =>
    /\ Size >= 1 /\ reverse_post_order[1] = Entry
    /\ \A i \in 1..Size : post_order_id[reverse_post_order[i]] = Size - i
    /\ \A b \in Listed \ {Entry} : \E p \in Listed \cap ToSet(pre[b]) :
          post_order_id[p] > post_order_id[b]

TreeInv ==
  pc # "visit" =>
    /\ Climbs(idom, post_order_id) /\ idom[NoBlock] = NoBlock
    /\ \A b \in Block : idom[b] # NoBlock => b \in Listed

PassInv ==
  Looping =>
    /\ pos \in 1..(Size + 1)
    /\ \A b \in Handled : idom[b] # NoBlock
    /\ pc # "block" => pos <= Size /\ bb # Entry /\ first \in hasId

\* There is a path down the list from x to b.
DownClosed(S) ==
  \A q \in S : \A r \in Listed :
     q \in Listed /\ q \in ToSet(pre[r]) /\ post_order_id[q] > post_order_id[r] => r \in S
Leads(x, b) == \A S \in SUBSET Block : x \in S /\ DownClosed(S) => b \in S
LeadsInv ==
  pc # "visit" => \A b \in Block \ {Entry} : idom[b] # NoBlock => Leads(idom[b], b)

\* What this pass has handled: the ancestors of a block are ancestors of its
\* predecessors ahead of it.
ForwardInv ==
  Looping =>
    \A r \in Handled : \A q \in Handled \cap ToSet(pre[r]) :
       post_order_id[q] > post_order_id[r] =>
         \A c \in Block \ {r} : Anc(idom, c, r) => Anc(idom, c, q)

\* The next idom of a block, a common ancestor of its predecessors, will be
\* its idom or above it; until the block's turn comes it may be missing above
\* the idom because an ancestor lower than it has lost it in this pass.
Common(c, b) == \A p \in Ready(b) : Anc(idom, c, p)
Lost(c, b) == \E x \in Handled : /\ Anc(idom, x, idom[b]) /\ ~Anc(idom, c, x)
                                 /\ post_order_id[x] < post_order_id[c]
AboveInv ==
  Looping =>
    \A b \in Block \ {Entry} : idom[b] # NoBlock =>
      \A c \in Block : Common(c, b) =>
        Anc(idom, c, idom[b]) \/ (b \notin Handled /\ Lost(c, b))

\* new_idom is the lowest common ancestor of the predecessors seen, and the
\* fingers are on their way to the next.
Seen == {pre[bb][j] : j \in {i \in hasId : i < k \/ i = first}}
MeetInv ==
  /\ pc \in {"preds", "intersect"} =>
       /\ new_idom \in Block
       /\ \A p \in Seen : Anc(idom, new_idom, p)
       /\ \A c \in Block : (\A p \in Seen : Anc(idom, c, p)) => Anc(idom, c, new_idom)
  /\ pc = "intersect" =>
       /\ k \in hasId /\ b1 \in Block /\ b2 \in Block
       /\ Anc(idom, b1, pre[bb][k]) /\ Anc(idom, b2, new_idom)
       /\ \A c \in Block : Anc(idom, c, pre[bb][k]) /\ Anc(idom, c, new_idom) =>
             Anc(idom, c, b1) /\ Anc(idom, c, b2)

RunnerInv == pc = "runner" => pos \in Block

IInv == /\ TypeOK /\ Consistent(succ, pre) /\ AssertsHold /\ RunnerInv
        /\ VisitInv /\ OrderInv /\ TreeInv /\ PassInv
        /\ LeadsInv /\ ForwardInv /\ AboveInv /\ MeetInv

-----------------------------------------------------------------------------
\* A set of numbers has a least one.
LEMMA LeastExists ==
  ASSUME NEW S \in SUBSET Nat, S # {}
  PROVE  \E i \in S : \A j \in S : i <= j
<1> DEFINE Below == {p \in Nat \X Nat : p[1] < p[2]}
<1>1. IsWellFoundedOn(Below, Nat)
  BY NatLessThanWellFounded DEF OpToRel
<1>2. PICK i \in S : \A j \in S : <<j, i>> \notin Below
  BY <1>1, WFMin
<1>3. ASSUME NEW j \in S PROVE i <= j
  <2>1. i \in Nat /\ j \in Nat
    OBVIOUS
  <2>2. j < i => <<j, i>> \in Below
    BY <2>1
  <2> QED BY <1>2, <2>1, <2>2
<1> QED BY <1>3

\* The first predecessor with an idom is one.
LEMMA FirstReady ==
  ASSUME TypeOK, bb \in Block, hasId # {}
  PROVE  first \in hasId
<1>1. hasId \in SUBSET Nat
  <2>1. pre[bb] \in Seq(Block)
    BY DEF TypeOK
  <2> QED BY <2>1 DEF hasId
<1> QED BY <1>1, LeastExists DEF first

\* The elements of a sequence lie in its set.
LEMMA InSeq == \A S : \A s \in Seq(S) : \A i \in 1..Len(s) : s[i] \in S
OBVIOUS

\* Before the walk only the entry block is on the stack.
LEMMA InitInv == Init => IInv
<1> SUFFICES ASSUME Init PROVE IInv
  OBVIOUS
<1>0. 1 \in Block /\ NoBlock \in BlockOrNull
  BY NAssumption DEF Block, BlockOrNull, NoBlock
<1>1. TypeOK /\ Consistent(succ, pre)
  <2>1. succ \in [Block -> Seq(Block)] /\ pre \in [Block -> Seq(Block)] /\ Consistent(succ, pre)
    BY GraphsAssumption DEF Init
  <2>2. stack \in Seq([bb : Block, next : Nat \ {0}]) /\ reverse_post_order \in Seq(Block)
    BY <1>0 DEF Init, Entry
  <2>3. idom \in Trees /\ post_order_id \in [Block -> Nat]
    BY <1>0 DEF Init, Trees
  <2>4. /\ dom_frontier \in [BlockOrNull -> SUBSET Block]
        /\ dom_tree_succ \in [BlockOrNull -> SUBSET Block]
    BY DEF Init
  <2>5. pos \in Nat \ {0} /\ k \in Nat \ {0}
    BY DEF Init
  <2>7. changed \in BOOLEAN
    BY DEF Init
  <2>6. visited \subseteq Block /\ {new_idom, b1, b2, runner} \subseteq BlockOrNull
    BY <1>0 DEF Init, Entry
  <2> QED BY <2>1, <2>2, <2>3, <2>4, <2>5, <2>6, <2>7 DEF Init, TypeOK, Trees
<1>2. VisitInv
  BY <1>0 DEF Init, VisitInv, StackInv, NumberInv, OnStack, Listed, Size, Entry
<1> QED BY <1>1, <1>2 DEF Init, IInv, AssertsHold, OrderInv, TreeInv, PassInv, LeadsInv,
             ForwardInv, AboveInv, MeetInv, RunnerInv, Looping

-----------------------------------------------------------------------------
(* The walk.                                                                *)

\* A descent puts the new block above the predecessor it was found from.
LEMMA VisitSuccessorInv == IInv /\ VisitSuccessor => IInv'
<1> SUFFICES ASSUME IInv, VisitSuccessor PROVE IInv'
  OBVIOUS
<1> USE DEF IInv
<1>0. pc = "visit" /\ pc' = "visit"
  BY DEF VisitSuccessor
<1>s. StackInv /\ NumberInv /\ idom = [b \in BlockOrNull |-> NoBlock] /\ pos = 1
  BY <1>0 DEF VisitInv
<1> DEFINE n == Len(stack)
           b == succ[Top.bb][Top.next]
           advanced == [stack EXCEPT ![n].next = @ + 1]
<1>1. n \in Nat /\ n >= 1 /\ stack[n] \in [bb : Block, next : Nat \ {0}]
  <2>1. stack \in Seq([bb : Block, next : Nat \ {0}]) /\ n >= 1
    BY <1>s DEF TypeOK, StackInv
  <2>2. n \in Nat /\ n \in 1..n
    BY <2>1
  <2>3. \A i \in 1..n : stack[i] \in [bb : Block, next : Nat \ {0}]
    BY <2>1, InSeq
  <2> HIDE DEF n
  <2> QED BY <2>1, <2>2, <2>3
<1>2. Top.bb \in Block /\ Top.next \in Nat \ {0} /\ succ[Top.bb] \in Seq(Block)
  BY <1>1 DEF Top, TypeOK
<1>3. /\ advanced \in Seq([bb : Block, next : Nat \ {0}]) /\ Len(advanced) = n
      /\ \A i \in 1..n : advanced[i].bb = stack[i].bb
  <2> DEFINE e == [stack[n] EXCEPT !.next = @ + 1]
  <2>1. e \in [bb : Block, next : Nat \ {0}] /\ e.bb = stack[n].bb
    BY <1>1
  <2>2. advanced = [stack EXCEPT ![n] = e]
    OBVIOUS
  <2>3. stack \in Seq([bb : Block, next : Nat \ {0}])
    BY DEF TypeOK
  <2> HIDE DEF e, advanced
  <2>4. advanced \in Seq([bb : Block, next : Nat \ {0}]) /\ Len(advanced) = n
    BY <1>1, <2>1, <2>2, <2>3
  <2>5. \A i \in 1..n : advanced[i].bb = stack[i].bb
    BY <1>1, <2>1, <2>2, <2>3
  <2> QED BY <2>4, <2>5
<1>4. UNCHANGED <<succ, pre, post_order_id, reverse_post_order, idom, changed, pos, k,
                  new_idom, b1, b2, runner, dom_frontier, dom_tree_succ>>
  BY DEF VisitSuccessor, graph, fingers, results
<1>5. Listed' = Listed /\ Size' = Size
  BY <1>4 DEF Listed, Size
<1>6. TypeOK' /\ VisitInv'
  <2>1. CASE Top.next \in DOMAIN succ[Top.bb] /\ b \notin visited
    <3>1. b \in Block
      BY <1>2, <2>1
    <3>2. stack' = Append(advanced, [bb |-> b, next |-> 1]) /\ visited' = visited \cup {b}
      BY <2>1 DEF VisitSuccessor
    <3>3. /\ stack' \in Seq([bb : Block, next : Nat \ {0}]) /\ Len(stack') = n + 1
          /\ \A i \in 1..n : stack'[i].bb = stack[i].bb
          /\ stack'[n + 1].bb = b
      <4> DEFINE e == [bb |-> b, next |-> 1]
      <4>1. e \in [bb : Block, next : Nat \ {0}] /\ e.bb = b
        BY <3>1
      <4> HIDE DEF e, advanced
      <4>2. stack' = Append(advanced, e)
        BY <3>2 DEF e
      <4>3. /\ stack' \in Seq([bb : Block, next : Nat \ {0}]) /\ Len(stack') = n + 1
            /\ \A i \in 1..n : stack'[i] = advanced[i]
            /\ stack'[n + 1] = e
        BY <1>1, <1>3, <4>1, <4>2
      <4> QED BY <1>3, <4>1, <4>3
    <3>4. TypeOK'
      BY <1>0, <1>4, <3>1, <3>2, <3>3 DEF TypeOK
    <3>5. Top.bb \in ToSet(pre[b])
      <4>1. b \in ToSet(succ[Top.bb])
        BY <2>1 DEF ToSet
      <4> QED BY <1>2, <3>1, <4>1 DEF Consistent, Preds
    <3>6. \A i \in 1..n : stack[i].bb \in visited \ Listed
      BY <1>s DEF StackInv
    <3>7. \A i, j \in 1..Len(stack') : stack'[i].bb = stack'[j].bb => i = j
      <4> SUFFICES ASSUME NEW i \in 1..n + 1, NEW j \in 1..n + 1, stack'[i].bb = stack'[j].bb
                   PROVE  i = j
        BY <3>3
      <4>1. CASE i \in 1..n /\ j \in 1..n
        BY <4>1, <3>3, <1>s DEF StackInv
      <4>2. CASE i = n + 1 /\ j \in 1..n
        BY <4>2, <3>3, <3>6, <2>1
      <4>3. CASE j = n + 1 /\ i \in 1..n
        BY <4>3, <3>3, <3>6, <2>1
      <4> QED BY <4>1, <4>2, <4>3, <1>1
    <3>8. Listed \subseteq visited
      BY <1>s DEF StackInv
    <3>9. \A i \in 1..Len(stack') : stack'[i].bb \in visited' \ Listed
      <4> SUFFICES ASSUME NEW i \in 1..n + 1 PROVE stack'[i].bb \in visited' \ Listed
        BY <3>3
      <4>1. CASE i \in 1..n
        BY <4>1, <3>2, <3>3, <3>6
      <4>2. CASE i = n + 1
        BY <4>2, <3>2, <3>3, <3>8, <2>1
      <4> QED BY <4>1, <4>2, <1>1
    <3>10. \A i \in 2..Len(stack') : stack'[i - 1].bb \in ToSet(pre[stack'[i].bb])
      <4> SUFFICES ASSUME NEW i \in 2..n + 1
                   PROVE  stack'[i - 1].bb \in ToSet(pre[stack'[i].bb])
        BY <3>3
      <4>1. CASE i \in 2..n
        <5>1. i \in 1..n /\ i - 1 \in 1..n
          BY <4>1, <1>1
        <5>2. stack[i - 1].bb \in ToSet(pre[stack[i].bb])
          BY <4>1, <1>s DEF StackInv
        <5> QED BY <5>1, <5>2, <3>3
      <4>2. CASE i = n + 1
        <5>1. i - 1 = n /\ n \in 1..n
          BY <4>2, <1>1
        <5> QED BY <5>1, <4>2, <3>3, <3>5 DEF Top
      <4> QED BY <4>1, <4>2, <1>1
    <3>11. \A c \in visited' : c \in Listed \/ OnStack(c)'
      <4> SUFFICES ASSUME NEW c \in visited', c \notin Listed
                   PROVE  \E i \in 1..n + 1 : stack'[i].bb = c
        BY <3>3 DEF OnStack
      <4>1. CASE c = b
        BY <4>1, <3>3, <1>1
      <4>2. CASE c \in visited
        <5>1. PICK i \in 1..n : stack[i].bb = c
          BY <4>2, <1>s DEF StackInv, OnStack
        <5>2. i \in 1..n + 1 /\ stack'[i].bb = c
          BY <5>1, <3>3, <1>1
        <5> QED BY <5>2
      <4> QED BY <4>1, <4>2, <3>2
    <3>12. stack'[1].bb = Entry
      BY <3>3, <1>0, <1>1, <1>s DEF StackInv
    <3>13. \A c \in Listed : \E p \in visited' :
             p \in ToSet(pre[c]) /\ (p \in Listed => post_order_id[p] > post_order_id[c])
      BY <3>2, <1>s DEF NumberInv
    <3>14. StackInv'
      <4>1. Len(stack') >= 1
        BY <1>1, <3>3
      <4>2. Listed' \subseteq visited'
        BY <1>5, <3>2, <3>8
      <4>3. \A i \in 2..Len(stack') : stack'[i - 1].bb \in ToSet(pre'[stack'[i].bb])
        BY <1>4, <3>10
      <4> QED BY <1>5, <3>7, <3>9, <3>11, <3>12, <4>1, <4>2, <4>3 DEF StackInv
    <3>15. NumberInv'
      BY <1>s, <1>4, <1>5, <3>13 DEF NumberInv
    <3> QED BY <3>4, <3>14, <3>15, <1>s, <1>4 DEF VisitInv
  <2>2. CASE Top.next \in DOMAIN succ[Top.bb] /\ b \in visited
    <3>1. stack' = advanced /\ visited' = visited
      BY <2>2 DEF VisitSuccessor
    <3>2. TypeOK'
      BY <1>0, <1>3, <1>4, <3>1 DEF TypeOK
    <3>3. \A i \in 2..n : i \in 1..n /\ i - 1 \in 1..n
      BY <1>1
    <3>4. Len(stack') = n /\ (\A i \in 1..n : stack'[i].bb = stack[i].bb) /\ 1 \in 1..n
      BY <1>1, <1>3, <3>1
    <3>6. \A i, j \in 1..n : stack'[i].bb = stack'[j].bb => i = j
      BY <3>4, <1>s DEF StackInv
    <3>7. \A i \in 2..n : stack'[i - 1].bb \in ToSet(pre[stack'[i].bb])
      BY <3>3, <3>4, <1>s DEF StackInv
    <3>8. \A c \in visited : c \in Listed \/ OnStack(c)'
      BY <3>4, <1>s DEF StackInv, OnStack
    <3>9. stack'[1].bb = Entry /\ \A i \in 1..n : stack'[i].bb \in visited \ Listed
      BY <3>4, <1>s DEF StackInv
    <3>10. StackInv'
      BY <1>1, <1>4, <1>5, <1>s, <3>1, <3>4, <3>6, <3>7, <3>8, <3>9 DEF StackInv
    <3>11. NumberInv'
      BY <1>s, <1>4, <1>5, <3>1 DEF NumberInv
    <3> QED BY <3>2, <3>10, <3>11, <1>s, <1>4 DEF VisitInv
  <2>3. Top.next \in DOMAIN succ[Top.bb]
    <3>1. Top.next <= Len(succ[Top.bb])
      BY DEF VisitSuccessor
    <3> QED BY <3>1, <1>2
  <2> QED BY <2>1, <2>2, <2>3
<1> QED BY <1>0, <1>4, <1>6 DEF AssertsHold, OrderInv, TreeInv, PassInv, LeadsInv,
             ForwardInv, AboveInv, MeetInv, RunnerInv, Looping, Consistent, Preds

\* What Front returns.
LEMMA FrontSeq ==
  ASSUME NEW S, NEW s \in Seq(S), Len(s) >= 1
  PROVE  /\ Front(s) \in Seq(S) /\ Len(Front(s)) = Len(s) - 1
         /\ \A i \in 1..(Len(s) - 1) : Front(s)[i] = s[i]
<1>1. Front(s) = [i \in 1..(Len(s) - 1) |-> s[i]]
  BY DEF Front
<1> DEFINE m == Len(s) - 1
<1>2. m \in Nat /\ \A i \in 1..m : s[i] \in S
  OBVIOUS
<1> HIDE DEF m
<1>3. [i \in 1..m |-> s[i]] \in Seq(S) /\ Len([i \in 1..m |-> s[i]]) = m
  BY <1>2
<1> QED BY <1>1, <1>3 DEF m

\* The block a walk starts at or has come to.
LEMMA TopIs ==
  ASSUME TypeOK, pc = "visit", StackInv
  PROVE  /\ Len(stack) \in Nat /\ Len(stack) >= 1 /\ Len(stack) \in 1..Len(stack)
         /\ \A i \in 1..Len(stack) : stack[i] \in [bb : Block, next : Nat \ {0}]
         /\ Top = stack[Len(stack)] /\ Top.bb \in Block /\ Top.next \in Nat \ {0}
         /\ succ[Top.bb] \in Seq(Block)
<1> DEFINE n == Len(stack)
<1>1. stack \in Seq([bb : Block, next : Nat \ {0}]) /\ n >= 1
  BY DEF TypeOK, StackInv
<1>2. n \in Nat /\ n \in 1..n
  BY <1>1
<1>3. \A i \in 1..n : stack[i] \in [bb : Block, next : Nat \ {0}]
  BY <1>1, InSeq
<1> HIDE DEF n
<1>4. stack[n] \in [bb : Block, next : Nat \ {0}]
  BY <1>2, <1>3
<1> QED BY <1>1, <1>2, <1>3, <1>4 DEF Top, TypeOK, n

\* The finished block joins the list, turned around or not.
LEMMA ListGrows ==
  ASSUME IInv, FinishVisit
  PROVE  Size' = Size + 1 /\ Listed' = Listed \cup {Top.bb}
<1> DEFINE n == Len(stack)
           order == Append(reverse_post_order, Top.bb)
           last == Size + 1
           now == reverse_post_order'
<1>0. pc = "visit" /\ TypeOK /\ StackInv
  BY DEF FinishVisit, IInv, VisitInv
<1>1. n \in Nat /\ n >= 1 /\ Top.bb \in Block
  BY <1>0, TopIs
<1>2. reverse_post_order \in Seq(Block) /\ Size \in Nat /\ last \in Nat /\ last \in 1..last
  BY <1>0 DEF TypeOK, Size
<1>3. /\ order \in Seq(Block) /\ Len(order) = last /\ order[last] = Top.bb
      /\ \A i \in 1..Size : order[i] = reverse_post_order[i]
  BY <1>1, <1>2 DEF Size
<1> HIDE DEF order
<1>4. {order[i] : i \in 1..last} = Listed \cup {Top.bb}
  <2>1. \A i \in 1..last : i \in 1..Size \/ i = last
    BY <1>2
  <2>2. \A i \in 1..Size : i \in 1..last
    BY <1>2
  <2> HIDE DEF last
  <2> QED BY <1>2, <1>3, <2>1, <2>2 DEF Listed
<1>5. CASE n > 1
  <2>1. now = order
    BY <1>5 DEF FinishVisit, order
  <2>2. Size' = last
    BY <1>3, <2>1 DEF Size
  <2> QED BY <1>4, <2>1, <2>2 DEF Listed
<1>6. CASE n = 1
  <2>1. now = [i \in 1..last |-> order[(last - i) + 1]]
    BY <1>3, <1>6 DEF FinishVisit, order, Reverse
  <2>2. Size' = last
    BY <1>2, <2>1 DEF Size
  <2>3. \A i \in 1..last : (last - i) + 1 \in 1..last /\ (last - ((last - i) + 1)) + 1 = i
    BY <1>2
  <2> HIDE DEF now, last
  <2>4. \A i \in 1..last : \E j \in 1..last : order[i] = now[j] /\ now[i] = order[j]
    <3> SUFFICES ASSUME NEW i \in 1..last
                 PROVE  \E j \in 1..last : order[i] = now[j] /\ now[i] = order[j]
      OBVIOUS
    <3> DEFINE j == (last - i) + 1
    <3>1. j \in 1..last /\ (last - j) + 1 = i
      BY <2>3
    <3>2. now[i] = order[j]
      BY <2>1
    <3> HIDE DEF j
    <3>3. now[j] = order[i]
      BY <2>1, <3>1
    <3> QED BY <3>1, <3>2, <3>3
  <2>5. Listed' = {now[i] : i \in 1..last}
    BY <2>2 DEF Listed, now
  <2>6. {order[i] : i \in 1..last} = {now[i] : i \in 1..last}
    BY <2>4
  <2> QED BY <1>4, <2>2, <2>5, <2>6 DEF last
<1> HIDE DEF n
<1> QED BY <1>1, <1>5, <1>6

\* A finished block is numbered while the predecessor below it on the stack is
\* not, and the last return turns the list around.
LEMMA FinishVisitInv == IInv /\ FinishVisit => IInv'
<1> SUFFICES ASSUME IInv, FinishVisit PROVE IInv'
  OBVIOUS
<1> USE DEF IInv
<1> DEFINE n == Len(stack)
           order == Append(reverse_post_order, Top.bb)
<1>0. pc = "visit"
  BY DEF FinishVisit
<1>s. StackInv /\ NumberInv /\ idom = [b \in BlockOrNull |-> NoBlock] /\ pos = 1
  BY <1>0 DEF VisitInv
<1>1. n \in Nat /\ n >= 1 /\ Top.bb \in Block /\ Top.bb \in visited \ Listed
  <2>1. stack \in Seq([bb : Block, next : Nat \ {0}]) /\ n >= 1
    BY <1>s DEF TypeOK, StackInv
  <2>2. n \in Nat /\ n \in 1..n
    BY <2>1
  <2>3. \A i \in 1..n : stack[i] \in [bb : Block, next : Nat \ {0}]
    BY <2>1, InSeq
  <2>4. stack[n].bb \in visited \ Listed
    BY <2>2, <1>s DEF StackInv
  <2> HIDE DEF n
  <2> QED BY <2>1, <2>2, <2>3, <2>4 DEF Top, n
<1>2. reverse_post_order \in Seq(Block) /\ Size \in Nat
  BY DEF TypeOK, Size
<1>3. /\ order \in Seq(Block) /\ Len(order) = Size + 1 /\ order[Size + 1] = Top.bb
      /\ \A i \in 1..Size : order[i] = reverse_post_order[i]
  BY <1>1, <1>2 DEF Size
<1> HIDE DEF order
<1>4. {order[i] : i \in 1..(Size + 1)} = Listed \cup {Top.bb}
  <2>1. \A i \in 1..(Size + 1) : i \in 1..Size \/ i = Size + 1
    BY <1>2
  <2>2. \A i \in 1..Size : i \in 1..(Size + 1)
    BY <1>2
  <2>3. Size + 1 \in 1..(Size + 1)
    BY <1>2
  <2> QED BY <1>3, <2>1, <2>2, <2>3 DEF Listed
<1>5. /\ post_order_id' = [post_order_id EXCEPT ![Top.bb] = Size]
      /\ post_order_id \in [Block -> Nat]
  BY DEF FinishVisit, Size, TypeOK
<1>6. /\ post_order_id' \in [Block -> Nat] /\ post_order_id'[Top.bb] = Size
      /\ \A x \in Block \ {Top.bb} : post_order_id'[x] = post_order_id[x]
  BY <1>1, <1>2, <1>5
<1>7. Listed \subseteq Block /\ Listed \subseteq visited
  BY <1>2, <1>s, InSeq DEF Listed, Size, StackInv
<1>8. \A b \in Listed : post_order_id'[b] = post_order_id[b] /\ post_order_id'[b] < Size
  <2> SUFFICES ASSUME NEW b \in Listed
               PROVE  post_order_id'[b] = post_order_id[b] /\ post_order_id'[b] < Size
    OBVIOUS
  <2>1. PICK i \in 1..Size : b = reverse_post_order[i]
    BY DEF Listed
  <2>2. post_order_id[b] = i - 1
    BY <2>1, <1>s DEF NumberInv
  <2>3. post_order_id'[b] = post_order_id[b]
    BY <1>1, <1>6, <1>7
  <2> QED BY <2>2, <2>3, <1>2
<1>9. \A i \in 1..(Size + 1) : post_order_id'[order[i]] = i - 1
  <2> SUFFICES ASSUME NEW i \in 1..(Size + 1) PROVE post_order_id'[order[i]] = i - 1
    OBVIOUS
  <2>1. CASE i \in 1..Size
    <3>1. order[i] = reverse_post_order[i] /\ reverse_post_order[i] \in Listed
      BY <2>1, <1>3 DEF Listed
    <3>2. post_order_id[reverse_post_order[i]] = i - 1
      BY <2>1, <1>s DEF NumberInv
    <3> QED BY <3>1, <3>2, <1>8
  <2>2. CASE i = Size + 1
    BY <2>2, <1>2, <1>3, <1>6
  <2> QED BY <2>1, <2>2, <1>2
<1>10. UNCHANGED <<succ, pre, visited, changed, pos, k, new_idom, b1, b2, runner, dom_frontier,
                   dom_tree_succ>>
  BY DEF FinishVisit, graph, fingers, results
<1>11. \A b \in Listed : \E p \in visited : p \in ToSet(pre[b]) /\
         (p \in Listed \cup {Top.bb} => post_order_id'[p] > post_order_id'[b])
  <2> SUFFICES ASSUME NEW b \in Listed
               PROVE  \E p \in visited : p \in ToSet(pre[b]) /\
                        (p \in Listed \cup {Top.bb} => post_order_id'[p] > post_order_id'[b])
    OBVIOUS
  <2>1. PICK p \in visited : p \in ToSet(pre[b]) /\
          (p \in Listed => post_order_id[p] > post_order_id[b])
    BY <1>s DEF NumberInv
  <2>2. p \in Listed => post_order_id'[p] > post_order_id'[b]
    BY <2>1, <1>8
  <2>3. post_order_id'[Top.bb] > post_order_id'[b]
    <3>1. post_order_id'[b] \in Nat /\ post_order_id'[b] < Size
      BY <1>6, <1>7, <1>8
    <3> QED BY <3>1, <1>6, <1>2
  <2> QED BY <2>1, <2>2, <2>3
<1>12. CASE n > 1
  <2>1. /\ reverse_post_order' = order /\ pc' = pc /\ idom' = idom
        /\ stack' = Front(stack)
    BY <1>12 DEF FinishVisit, order
  <2>2. Size' = Size + 1 /\ Listed' = Listed \cup {Top.bb}
    BY ListGrows
  <2>3. /\ stack' \in Seq([bb : Block, next : Nat \ {0}]) /\ Len(stack') = n - 1
        /\ \A i \in 1..(n - 1) : stack'[i] = stack[i]
    <3>1. stack \in Seq([bb : Block, next : Nat \ {0}])
      BY DEF TypeOK
    <3> QED BY <3>1, <2>1, <1>1, FrontSeq
  <2>4. TypeOK'
    BY <2>1, <2>3, <1>3, <1>6, <1>10 DEF TypeOK
  <2> DEFINE m == n - 1
  <2>5. m \in Nat /\ m >= 1 /\ n = m + 1 /\ Len(stack') = m
    BY <1>1, <1>12, <2>3
  <2>6. \A i \in 1..m : i \in 1..n /\ i # n /\ stack'[i] = stack[i]
    <3>1. \A i \in 1..m : stack'[i] = stack[i]
      BY <2>3
    <3> HIDE DEF m
    <3>2. \A i \in 1..m : i \in 1..n /\ i # n
      BY <2>5, <1>1
    <3> QED BY <3>1, <3>2
  <2> HIDE DEF m
  <2>7. n \in 1..n
    BY <1>1
  <2>8. \A i \in 1..m : stack'[i].bb \in visited \ (Listed \cup {Top.bb})
    BY <2>6, <2>7, <1>s DEF StackInv, Top
  <2>9. \A i \in 2..m : stack'[i - 1].bb \in ToSet(pre[stack'[i].bb])
    <3> SUFFICES ASSUME NEW i \in 2..m PROVE stack'[i - 1].bb \in ToSet(pre[stack'[i].bb])
      OBVIOUS
    <3>1. i \in 1..m /\ i - 1 \in 1..m /\ i \in 2..n
      BY <2>5
    <3> QED BY <3>1, <2>6, <1>s DEF StackInv
  <2>10. \A b \in visited : b \in Listed \cup {Top.bb} \/ OnStack(b)'
    <3> SUFFICES ASSUME NEW b \in visited, b \notin Listed, b # Top.bb PROVE OnStack(b)'
      OBVIOUS
    <3>1. PICK i \in 1..n : stack[i].bb = b
      BY <1>s DEF StackInv, OnStack
    <3>2. i # n
      BY <3>1 DEF Top
    <3>3. i \in 1..m
      BY <3>2, <2>5
    <3> QED BY <3>1, <3>3, <2>5, <2>6 DEF OnStack
  <2>11. StackInv'
    <3>1. stack'[1].bb = Entry
      BY <2>5, <2>6, <1>s DEF StackInv
    <3>2. \A i, j \in 1..m : stack'[i].bb = stack'[j].bb => i = j
      BY <2>6, <1>s DEF StackInv
    <3> QED BY <3>1, <3>2, <2>2, <2>5, <2>8, <2>9, <2>10, <1>1, <1>7, <1>10 DEF StackInv
  <2>12. NumberInv'
    <3>1. \E p \in visited : p \in ToSet(pre[Top.bb]) /\ p \notin Listed \cup {Top.bb}
      <4>1. n \in 2..n /\ n - 1 \in 1..m /\ n - 1 = m
        BY <1>1, <1>12, <2>5
      <4>2. stack[m].bb \in ToSet(pre[Top.bb])
        BY <4>1, <1>s DEF StackInv, Top
      <4> QED BY <4>1, <4>2, <2>6, <2>8
    <3>2. \A b \in Listed' : \E p \in visited' : p \in ToSet(pre'[b]) /\
            (p \in Listed' => post_order_id'[p] > post_order_id'[b])
      BY <3>1, <2>2, <1>11, <1>10
    <3>3. \A i \in 1..Size' : post_order_id'[reverse_post_order'[i]] = i - 1
      BY <2>1, <2>2, <1>9
    <3> QED BY <3>2, <3>3 DEF NumberInv
  <2> QED BY <2>1, <2>4, <2>11, <2>12, <1>0, <1>s, <1>10
          DEF VisitInv, AssertsHold, OrderInv, TreeInv, PassInv, LeadsInv,
              ForwardInv, AboveInv, MeetInv, RunnerInv, Looping, Consistent, Preds
<1>13. CASE n = 1
  <2>1. /\ reverse_post_order' = Reverse(order) /\ pc' = "block" /\ stack' = Front(stack)
        /\ idom' = [b \in BlockOrNull |-> IF b = Entry THEN Entry ELSE NoBlock]
    BY <1>13 DEF FinishVisit, order
  <2>2. /\ reverse_post_order' \in Seq(Block) /\ Size' = Size + 1
        /\ \A i \in 1..(Size + 1) : reverse_post_order'[i] = order[Size + 2 - i]
    <3>1. Len(order) - 1 + 1 = Size + 1
      BY <1>2, <1>3
    <3>2. \A i \in 1..(Size + 1) : Len(order) - i + 1 = Size + 2 - i /\ Size + 2 - i \in 1..(Size + 1)
      BY <1>2, <1>3
    <3>3. reverse_post_order' = [i \in 1..Len(order) |-> order[(Len(order) - i) + 1]]
      BY <2>1 DEF Reverse
    <3>4. \A i \in 1..(Size + 1) : order[Size + 2 - i] \in Block
      BY <3>2, <1>3, InSeq
    <3>5. \A i \in 1..(Size + 1) : reverse_post_order'[i] = order[Size + 2 - i]
      BY <3>2, <3>3, <1>3
    <3>6. reverse_post_order' \in Seq(Block) /\ Len(reverse_post_order') = Size + 1
      BY <3>2, <3>3, <3>4, <1>2, <1>3
    <3> QED BY <3>5, <3>6 DEF Size
  <2>3. Listed' = Listed \cup {Top.bb}
    BY ListGrows
  <2>4. Top.bb = Entry /\ Entry \in Block /\ Entry # NoBlock
    BY <1>1, <1>13, <1>s, NAssumption DEF Top, StackInv, Entry, NoBlock, Block
  <2>5. TypeOK'
    <3>1. stack' \in Seq([bb : Block, next : Nat \ {0}])
      <4>1. stack \in Seq([bb : Block, next : Nat \ {0}])
        BY DEF TypeOK
      <4> QED BY <4>1, <2>1, <1>13 DEF Front
    <3>2. idom' \in [BlockOrNull -> BlockOrNull]
      BY <2>1, <2>4 DEF BlockOrNull
    <3> QED BY <3>1, <3>2, <2>1, <2>2, <1>6, <1>10 DEF TypeOK
  <2>6. OrderInv'
    <3>1. \A i \in 1..(Size + 1) : post_order_id'[reverse_post_order'[i]] = (Size + 1) - i
      <4> SUFFICES ASSUME NEW i \in 1..(Size + 1)
                   PROVE  post_order_id'[reverse_post_order'[i]] = (Size + 1) - i
        OBVIOUS
      <4> DEFINE j == Size + 2 - i
      <4>1. j \in 1..(Size + 1) /\ j - 1 = (Size + 1) - i
        BY <1>2
      <4>2. reverse_post_order'[i] = order[j]
        BY <2>2
      <4> HIDE DEF j
      <4> QED BY <4>1, <4>2, <1>9
    <3>2. reverse_post_order'[1] = Entry
      <4>1. 1 \in 1..(Size + 1) /\ Size + 2 - 1 = Size + 1
        BY <1>2
      <4> QED BY <4>1, <2>2, <2>4, <1>3
    <3>3. \A b \in Listed' \ {Entry} : \E p \in Listed' \cap ToSet(pre'[b]) :
            post_order_id'[p] > post_order_id'[b]
      <4> SUFFICES ASSUME NEW b \in Listed
                   PROVE  \E p \in Listed' \cap ToSet(pre[b]) : post_order_id'[p] > post_order_id'[b]
        BY <2>3, <2>4, <1>10
      <4>1. PICK p \in visited : p \in ToSet(pre[b]) /\
              (p \in Listed \cup {Top.bb} => post_order_id'[p] > post_order_id'[b])
        BY <1>11
      <4>2. p \in Listed \cup {Top.bb}
        <5>1. p \in Listed \/ OnStack(p)
          BY <1>s DEF StackInv
        <5>2. \A i \in 1..n : i = n
          BY <1>13
        <5> QED BY <5>1, <5>2 DEF OnStack, Top
      <4> QED BY <4>1, <4>2, <2>3
    <3>4. Size' >= 1
      BY <2>2, <1>2
    <3> QED BY <3>1, <3>2, <3>3, <3>4, <2>2 DEF OrderInv
  <2>7. \A b \in BlockOrNull : idom'[b] # NoBlock => b = Entry
    BY <2>1
  <2>8. idom'[Entry] = Entry /\ idom'[NoBlock] = NoBlock
    BY <2>1, <2>4 DEF BlockOrNull
  <2>9. \A b \in Block : idom'[b] # NoBlock => b = Entry
    BY <2>7 DEF BlockOrNull
  <2>10. TreeInv'
    BY <2>3, <2>4, <2>8, <2>9 DEF TreeInv, Climbs
  <2>11. pos' = 1 /\ Handled' = {}
    BY <1>10, <1>s DEF Handled
  <2>12. PassInv'
    BY <2>1, <2>2, <2>11, <1>2 DEF PassInv
  <2>13. LeadsInv' /\ AboveInv'
    BY <2>9 DEF LeadsInv, AboveInv
  <2>14. ForwardInv'
    BY <2>11 DEF ForwardInv
  <2> QED BY <2>1, <2>5, <2>6, <2>10, <2>12, <2>13, <2>14, <1>10
          DEF VisitInv, AssertsHold, MeetInv, RunnerInv, Consistent, Preds
<1> HIDE DEF n
<1>14. n > 1 \/ n = 1
  BY <1>1
<1> QED BY <1>12, <1>13, <1>14

-----------------------------------------------------------------------------
(* The steps of create_idom that leave the tree alone.                      *)

\* Once the walk has ended the list names blocks, the entry among them.
LEMMA ListFacts ==
  ASSUME IInv, pc # "visit"
  PROVE  /\ Size \in Nat /\ reverse_post_order \in Seq(Block)
         /\ \A i \in 1..Size : reverse_post_order[i] \in Block
         /\ Listed \subseteq Block /\ Entry \in Listed
         /\ post_order_id \in [Block -> Nat] /\ idom \in Trees
         /\ Climbs(idom, post_order_id) /\ Entry # NoBlock
<1>1. reverse_post_order \in Seq(Block) /\ Size \in Nat
  BY DEF IInv, TypeOK, Size
<1>2. \A i \in 1..Size : reverse_post_order[i] \in Block
  BY <1>1, InSeq DEF Size
<1>3. Entry \in Listed
  <2>1. Size >= 1 /\ reverse_post_order[1] = Entry
    BY DEF IInv, OrderInv
  <2>2. 1 \in 1..Size
    BY <1>1, <2>1
  <2> QED BY <2>1, <2>2 DEF Listed
<1>4. Listed \subseteq Block
  BY <1>2 DEF Listed
<1>5. post_order_id \in [Block -> Nat] /\ idom \in Trees /\ Climbs(idom, post_order_id)
  BY DEF IInv, TypeOK, TreeInv, Trees
<1> QED BY <1>1, <1>2, <1>3, <1>4, <1>5 DEF Entry, NoBlock

\* What a step that writes neither the graph, the list nor the tree keeps.
LEMMA Quiet ==
  ASSUME IInv, pc # "visit", pc' # "visit", UNCHANGED <<graph, walk, idom>>
  PROVE  /\ VisitInv' /\ OrderInv' /\ TreeInv' /\ LeadsInv' /\ Consistent(succ, pre)'
         /\ Listed' = Listed /\ Size' = Size
         /\ pos' = pos /\ Looping => ForwardInv' /\ AboveInv' /\ Handled' = Handled
         /\ ~Looping' => PassInv' /\ ForwardInv' /\ AboveInv' /\ MeetInv'
<1> USE DEF IInv
<1>1. UNCHANGED <<succ, pre, stack, visited, post_order_id, reverse_post_order, idom>>
  BY DEF graph, walk
<1>2. Listed' = Listed /\ Size' = Size
  BY <1>1 DEF Listed, Size
<1>3. VisitInv' /\ Consistent(succ, pre)'
  BY <1>1 DEF VisitInv, Consistent, Preds
<1>4. OrderInv' /\ TreeInv'
  BY <1>1, <1>2 DEF OrderInv, TreeInv
<1>5. LeadsInv'
  <2>1. \A S : DownClosed(S)' <=> DownClosed(S)
    BY <1>1, <1>2 DEF DownClosed
  <2>2. \A x, b : Leads(x, b) => Leads(x, b)'
    BY <2>1 DEF Leads
  <2> QED BY <1>1, <2>2 DEF LeadsInv
<1>6. ASSUME pos' = pos, Looping PROVE ForwardInv' /\ AboveInv' /\ Handled' = Handled
  <2>1. Handled' = Handled
    BY <1>1, <1>6 DEF Handled
  <2>2. ForwardInv'
    BY <1>1, <1>6, <2>1 DEF ForwardInv
  <2>3. \A b, c : Common(c, b)' => Common(c, b)
    BY <1>1 DEF Common, Ready
  <2>4. \A b, c : Lost(c, b) => Lost(c, b)'
    BY <1>1, <2>1 DEF Lost
  <2>5. AboveInv'
    BY <1>1, <1>6, <2>1, <2>3, <2>4 DEF AboveInv
  <2> QED BY <2>1, <2>2, <2>5
<1>7. ~Looping' => PassInv' /\ ForwardInv' /\ AboveInv' /\ MeetInv'
  BY DEF PassInv, ForwardInv, AboveInv, MeetInv, Looping
<1> QED BY <1>2, <1>3, <1>4, <1>5, <1>6, <1>7

\* The block whose turn it is.
LEMMA Current ==
  ASSUME IInv, Looping, pos <= Size
  PROVE  /\ pos \in 1..Size /\ bb \in Listed /\ bb \in Block /\ bb \notin Handled
         /\ post_order_id[bb] = Size - pos
         /\ \A b \in Listed : b \in Handled <=> post_order_id[b] > post_order_id[bb]
<1>1. pos \in 1..Size
  BY ListFacts DEF PassInv, Looping, IInv
<1>2. bb \in Listed /\ bb \in Block /\ post_order_id[bb] = Size - pos
  BY <1>1, ListFacts DEF bb, Listed, Looping, IInv, OrderInv
<1>3. ASSUME NEW b \in Listed
      PROVE  b \in Handled <=> post_order_id[b] > post_order_id[bb]
  <2>1. PICK i \in 1..Size : b = reverse_post_order[i]
    BY DEF Listed
  <2>2. post_order_id[b] = Size - i
    BY <2>1, ListFacts DEF Looping, IInv, OrderInv
  <2>3. i \in 1..(pos - 1) <=> Size - i > Size - pos
    BY <1>1, ListFacts DEF Looping
  <2>4. ASSUME b \in Handled PROVE i \in 1..(pos - 1)
    <3>1. PICK j \in 1..(pos - 1) : b = reverse_post_order[j]
      BY <2>4 DEF Handled
    <3>2. j \in 1..Size
      BY <1>1, ListFacts DEF Looping
    <3>3. post_order_id[b] = Size - j
      BY <3>1, <3>2, ListFacts DEF Looping, IInv, OrderInv
    <3>4. i = j
      BY <2>2, <3>2, <3>3, ListFacts DEF Looping
    <3> QED BY <3>1, <3>4
  <2>5. i \in 1..(pos - 1) => b \in Handled
    BY <2>1 DEF Handled
  <2> QED BY <1>2, <2>2, <2>3, <2>4, <2>5
<1>4. bb \notin Handled
  <2>1. post_order_id[bb] \in Nat
    BY <1>2, ListFacts DEF Looping
  <2> QED BY <1>2, <1>3, <2>1
<1> QED BY <1>1, <1>2, <1>3, <1>4

\* The next turn has handled bb as well.
LEMMA HandledGrows ==
  ASSUME IInv, Looping, pos <= Size, pos' = pos + 1, UNCHANGED reverse_post_order
  PROVE  Handled' = Handled \cup {bb} /\ pos' \in 1..(Size + 1)
<1>1. pos \in 1..Size /\ Size \in Nat
  BY Current, ListFacts DEF Looping
<1>2. \A i : i \in 1..(pos' - 1) <=> i \in 1..(pos - 1) \/ i = pos
  BY <1>1
<1>3. Handled' = {reverse_post_order[i] : i \in 1..(pos' - 1)}
  BY DEF Handled
<1> QED BY <1>1, <1>2, <1>3 DEF Handled, bb

\* The entry block comes first, before anything is handled.
LEMMA SkipRootInv == IInv /\ SkipRoot => IInv'
<1> SUFFICES ASSUME IInv, SkipRoot PROVE IInv'
  OBVIOUS
<1>0. /\ pc = "block" /\ pc' = "block" /\ pos' = pos + 1 /\ pos <= Size /\ bb = Entry
      /\ UNCHANGED <<graph, walk, idom, changed, k, fingers, runner, results>>
  BY DEF SkipRoot, NextBlock, Size
<1>1. VisitInv' /\ OrderInv' /\ TreeInv' /\ LeadsInv' /\ Consistent(succ, pre)' /\ Size' = Size
  BY <1>0, Quiet
<1>2. UNCHANGED <<pre, post_order_id, reverse_post_order, idom>>
  BY <1>0 DEF graph, walk
<1>3. Handled' = Handled \cup {Entry} /\ pos' \in 1..(Size + 1)
  BY <1>0, <1>2, HandledGrows DEF Looping
<1>4. TypeOK'
  <2>1. pos' \in Nat \ {0}
    BY <1>0 DEF IInv, TypeOK
  <2> QED BY <1>0, <2>1 DEF IInv, TypeOK, graph, walk, fingers, results
<1>5. Handled = {}
  <2>1. 1 \in 1..Size /\ reverse_post_order[1] = Entry /\ post_order_id[Entry] = Size - 1
    BY <1>0, ListFacts DEF IInv, OrderInv
  <2>2. post_order_id[Entry] = Size - pos /\ pos \in 1..Size
    BY <1>0, Current DEF Looping
  <2>3. pos = 1
    BY <2>1, <2>2, <1>0, ListFacts
  <2> QED BY <2>3 DEF Handled
<1>6. PassInv'
  <2>1. idom[Entry] # NoBlock
    BY <1>0, ListFacts DEF Climbs
  <2> QED BY <1>0, <1>1, <1>2, <1>3, <1>5, <2>1 DEF PassInv
<1>7. ForwardInv'
  <2>1. post_order_id[Entry] \in Nat
    BY <1>0, ListFacts
  <2> QED BY <1>2, <1>3, <1>5, <2>1 DEF ForwardInv
<1>8. AboveInv'
  <2>1. \A b, c : Common(c, b)' => Common(c, b)
    BY <1>2 DEF Common, Ready
  <2>2. \A b, c : ~Lost(c, b)
    BY <1>5 DEF Lost
  <2> QED BY <1>0, <1>2, <2>1, <2>2 DEF AboveInv, IInv, Looping
<1> QED BY <1>0, <1>1, <1>4, <1>6, <1>7, <1>8 DEF IInv, AssertsHold, RunnerInv, MeetInv

\* A predecessor ahead of a block was handled in this pass, so it has an idom.
LEMMA PickPredecessorInv == IInv /\ PickPredecessor => IInv'
<1> SUFFICES ASSUME IInv, PickPredecessor PROVE IInv'
  OBVIOUS
<1>0. /\ pc = "block" /\ Looping /\ pos <= Size /\ bb # Entry /\ pos' = pos
      /\ UNCHANGED <<graph, walk, idom>>
  BY DEF PickPredecessor, Size, Looping
<1>1. /\ pos \in 1..Size /\ bb \in Listed /\ bb \in Block
      /\ \A b \in Listed : b \in Handled <=> post_order_id[b] > post_order_id[bb]
  BY <1>0, Current
<1>2. PICK p \in Listed \cap ToSet(pre[bb]) : p \in Handled
  BY <1>0, <1>1 DEF IInv, OrderInv
<1>3. hasId # {}
  <2>1. idom[p] # NoBlock
    BY <1>0, <1>2 DEF IInv, PassInv
  <2> QED BY <1>2, <2>1 DEF ToSet, hasId
<1>4. first \in hasId
  BY <1>1, <1>3, FirstReady DEF IInv
<1>5. new_idom' = pre[bb][first] /\ k' = 1 /\ pc' = "preds"
  BY <1>3 DEF PickPredecessor
<1>6. UNCHANGED <<pre, post_order_id, reverse_post_order, idom>>
  BY <1>0 DEF graph, walk
<1>7. bb' = bb /\ hasId' = hasId /\ first' = first
  BY <1>0, <1>6 DEF bb, hasId, first
<1>8. pre[bb] \in Seq(Block) /\ first \in DOMAIN pre[bb] /\ pre[bb][first] \in Block
  <2>1. pre[bb] \in Seq(Block) /\ first \in DOMAIN pre[bb]
    BY <1>1, <1>4 DEF IInv, TypeOK, hasId
  <2> HIDE DEF first
  <2> QED BY <2>1
<1>9. TypeOK'
  <2>1. k' \in Nat \ {0} /\ new_idom' \in BlockOrNull
    BY <1>5, <1>8 DEF BlockOrNull
  <2>2. UNCHANGED <<succ, pre, stack, visited, post_order_id, reverse_post_order, idom, changed,
                    pos, b1, b2, runner, dom_frontier, dom_tree_succ>>
    BY DEF PickPredecessor, graph, walk, results
  <2> QED BY <1>5, <2>1, <2>2 DEF IInv, TypeOK
<1>10. /\ VisitInv' /\ OrderInv' /\ TreeInv' /\ LeadsInv' /\ Consistent(succ, pre)'
       /\ ForwardInv' /\ AboveInv' /\ Handled' = Handled /\ Size' = Size
  BY <1>0, <1>5, Quiet
<1>11. PassInv'
  BY <1>0, <1>1, <1>4, <1>5, <1>6, <1>7, <1>10 DEF PassInv, IInv
<1>12. MeetInv'
  <2>1. \A i \in hasId : ~(i < 1)
    BY <1>8 DEF hasId
  <2>2. Seen' = {pre[bb][first]}
    BY <1>4, <1>5, <1>6, <1>7, <2>1 DEF Seen
  <2>3. Anc(idom, pre[bb][first], pre[bb][first])
    BY <1>0, <1>8, AncSelf, ListFacts
  <2> QED BY <1>5, <1>6, <1>8, <2>2, <2>3 DEF MeetInv
<1> QED BY <1>5, <1>9, <1>10, <1>11, <1>12 DEF IInv, AssertsHold, RunnerInv

\* A predecessor is passed over, or the fingers start from it and new_idom.
LEMMA JoinPredecessorInv == IInv /\ JoinPredecessor => IInv'
<1> SUFFICES ASSUME IInv, JoinPredecessor PROVE IInv'
  OBVIOUS
<1>0. /\ pc = "preds" /\ Looping /\ pos' = pos /\ pc' # "visit" /\ Looping'
      /\ UNCHANGED <<graph, walk, idom, new_idom>>
  BY DEF JoinPredecessor, Looping
<1>1. pos <= Size /\ bb # Entry /\ first \in hasId
  BY <1>0 DEF IInv, PassInv
<1>2. bb \in Block /\ pre[bb] \in Seq(Block)
  BY <1>0, <1>1, Current DEF IInv, TypeOK
<1>3. UNCHANGED <<pre, post_order_id, reverse_post_order, idom>>
  BY <1>0 DEF graph, walk
<1>4. bb' = bb /\ hasId' = hasId /\ first' = first
  BY <1>0, <1>3 DEF bb, hasId, first
<1>5. k \in Nat \ {0} /\ new_idom \in Block
  BY <1>0 DEF IInv, TypeOK, MeetInv
<1>6. /\ VisitInv' /\ OrderInv' /\ TreeInv' /\ LeadsInv' /\ Consistent(succ, pre)'
      /\ ForwardInv' /\ AboveInv' /\ Handled' = Handled /\ Size' = Size
  BY <1>0, Quiet
<1>7. PassInv'
  BY <1>0, <1>1, <1>3, <1>4, <1>6 DEF PassInv, IInv
<1>8. CASE k = first \/ k \notin hasId
  <2>1. k' = k + 1 /\ pc' = pc /\ b1' = b1 /\ b2' = b2
    BY <1>8 DEF JoinPredecessor
  <2>2. \A i \in hasId : (i < k + 1 \/ i = first) <=> (i < k \/ i = first)
    BY <1>2, <1>5, <1>8 DEF hasId
  <2>3. Seen' = Seen
    BY <1>3, <1>4, <2>1, <2>2 DEF Seen
  <2>4. MeetInv'
    BY <1>0, <1>3, <2>1, <2>3 DEF IInv, MeetInv
  <2>5. TypeOK'
    <3>1. k' \in Nat \ {0}
      BY <1>5, <2>1
    <3> QED BY <2>1, <3>1 DEF JoinPredecessor, IInv, TypeOK, graph, walk, results
  <2> QED BY <1>0, <1>6, <1>7, <2>1, <2>4, <2>5 DEF IInv, AssertsHold, RunnerInv
<1>9. CASE ~(k = first \/ k \notin hasId)
  <2>1. k' = k /\ pc' = "intersect" /\ b1' = pre[bb][k] /\ b2' = new_idom /\ k \in hasId
    BY <1>9 DEF JoinPredecessor
  <2>2. pre[bb][k] \in Block
    BY <1>2, <2>1 DEF hasId
  <2>3. Seen' = Seen
    BY <1>3, <1>4, <2>1 DEF Seen
  <2>4. Anc(idom, b1', pre[bb][k]) /\ Anc(idom, b2', new_idom)
    BY <1>0, <1>5, <2>1, <2>2, AncSelf, ListFacts
  <2>5. MeetInv'
    BY <1>0, <1>3, <1>4, <1>5, <2>1, <2>2, <2>3, <2>4 DEF IInv, MeetInv
  <2>6. TypeOK'
    BY <1>5, <2>1, <2>2 DEF JoinPredecessor, IInv, TypeOK, graph, walk, results, BlockOrNull
  <2> QED BY <1>0, <1>6, <1>7, <2>1, <2>5, <2>6 DEF IInv, AssertsHold, RunnerInv
<1> QED BY <1>8, <1>9

\* The finger with the smaller number is not common to both sides, so what is
\* common lies above it.
LEMMA ClimbOne ==
  ASSUME NEW t \in Trees, NEW id \in [Block -> Nat], Climbs(t, id),
         NEW low \in Block, NEW high \in Block, NEW start \in Block,
         Anc(t, low, start), t[start] # NoBlock, id[low] < id[high]
  PROVE  /\ t[low] # NoBlock /\ t[low] \in Block /\ Anc(t, t[low], start)
         /\ \A c \in Block : Anc(t, c, low) /\ Anc(t, c, high) => Anc(t, c, t[low])
<1>1. t[low] # NoBlock
  BY AncHigher
<1>2. t[low] \in Block /\ Anc(t, t[low], start)
  BY <1>1, AncUp
<1>3. ASSUME NEW c \in Block, Anc(t, c, low), Anc(t, c, high) PROVE Anc(t, c, t[low])
  <2>1. c = high \/ id[c] > id[high]
    BY <1>3, AncHigher
  <2>2. id[c] \in Nat /\ id[low] \in Nat /\ id[high] \in Nat
    OBVIOUS
  <2>3. c # low
    BY <2>1, <2>2
  <2> QED BY <1>1, <1>3, <2>3, AncStep
<1> QED BY <1>1, <1>2, <1>3

\* The fingers stay above their starts and keep all that is common to both.
LEMMA ClimbInv == IInv /\ Climb => IInv'
<1> SUFFICES ASSUME IInv, Climb PROVE IInv'
  OBVIOUS
<1>0. /\ pc = "intersect" /\ Looping /\ pos' = pos
      /\ UNCHANGED <<graph, walk, idom, new_idom, changed, pos, k, runner, results>>
  BY DEF Climb, Looping
<1>1. pos <= Size /\ bb # Entry /\ first \in hasId
  BY <1>0 DEF IInv, PassInv
<1>2. bb \in Block /\ pre[bb] \in Seq(Block)
  BY <1>0, <1>1, Current DEF IInv, TypeOK
<1>3. UNCHANGED <<pre, post_order_id, reverse_post_order, idom>>
  BY <1>0 DEF graph, walk
<1>4. bb' = bb /\ hasId' = hasId /\ first' = first /\ Seen' = Seen
  BY <1>0, <1>3 DEF bb, hasId, first, Seen
<1>5. /\ k \in hasId /\ b1 \in Block /\ b2 \in Block /\ new_idom \in Block
      /\ Anc(idom, b1, pre[bb][k]) /\ Anc(idom, b2, new_idom)
      /\ \A c \in Block : Anc(idom, c, pre[bb][k]) /\ Anc(idom, c, new_idom) =>
            Anc(idom, c, b1) /\ Anc(idom, c, b2)
  BY <1>0 DEF IInv, MeetInv
<1>6. /\ pre[bb][k] \in Block /\ idom[pre[bb][k]] # NoBlock
      /\ pre[bb][first] \in Block /\ idom[pre[bb][first]] # NoBlock
  <2>1. \A i \in hasId : pre[bb][i] \in Block /\ idom[pre[bb][i]] # NoBlock
    BY <1>2 DEF hasId
  <2> HIDE DEF first, hasId
  <2> QED BY <2>1, <1>1, <1>5
<1>7. idom[new_idom] # NoBlock
  <2>1. Anc(idom, new_idom, pre[bb][first])
    BY <1>0, <1>1 DEF IInv, MeetInv, Seen
  <2> HIDE DEF first
  <2> QED BY <2>1, <1>0, <1>5, <1>6, AncHigher, ListFacts
<1>8. post_order_id \in [Block -> Nat] /\ idom \in Trees /\ Climbs(idom, post_order_id)
  BY <1>0, ListFacts
<1>9. /\ pc' = pc /\ b1' \in Block /\ b2' \in Block
      /\ Anc(idom, b1', pre[bb][k]) /\ Anc(idom, b2', new_idom)
      /\ \A c \in Block : Anc(idom, c, pre[bb][k]) /\ Anc(idom, c, new_idom) =>
            Anc(idom, c, b1') /\ Anc(idom, c, b2')
  <2>1. CASE post_order_id[b1] < post_order_id[b2]
    <3>1. /\ idom[b1] # NoBlock /\ idom[b1] \in Block /\ Anc(idom, idom[b1], pre[bb][k])
          /\ \A c \in Block : Anc(idom, c, b1) /\ Anc(idom, c, b2) => Anc(idom, c, idom[b1])
      BY <1>5, <1>6, <1>8, <2>1, ClimbOne
    <3>2. b1' = idom[b1] /\ b2' = b2 /\ pc' = pc
      BY <2>1, <3>1 DEF Climb
    <3> QED BY <1>5, <3>1, <3>2
  <2>2. CASE ~(post_order_id[b1] < post_order_id[b2])
    <3>1. post_order_id[b2] < post_order_id[b1] /\ b1 # b2
      <4>1. post_order_id[b1] \in Nat /\ post_order_id[b2] \in Nat
        BY <1>5, <1>8
      <4>2. post_order_id[b1] # post_order_id[b2]
        BY DEF Climb
      <4> QED BY <4>1, <4>2, <2>2
    <3>2. /\ idom[b2] # NoBlock /\ idom[b2] \in Block /\ Anc(idom, idom[b2], new_idom)
          /\ \A c \in Block : Anc(idom, c, b2) /\ Anc(idom, c, b1) => Anc(idom, c, idom[b2])
      BY <1>5, <1>7, <1>8, <3>1, ClimbOne
    <3>3. b2' = idom[b2] /\ b1' = b1 /\ pc' = pc
      BY <2>2, <3>1, <3>2 DEF Climb
    <3> QED BY <1>5, <3>2, <3>3
  <2> QED BY <2>1, <2>2
<1>10. /\ VisitInv' /\ OrderInv' /\ TreeInv' /\ LeadsInv' /\ Consistent(succ, pre)'
       /\ ForwardInv' /\ AboveInv' /\ Handled' = Handled /\ Size' = Size
  BY <1>0, <1>9, Quiet
<1>11. PassInv'
  BY <1>0, <1>1, <1>3, <1>4, <1>9, <1>10 DEF PassInv, IInv
<1>12. MeetInv'
  BY <1>0, <1>3, <1>4, <1>5, <1>9 DEF IInv, MeetInv
<1>13. TypeOK'
  BY <1>0, <1>9 DEF IInv, TypeOK, graph, walk, results, BlockOrNull
<1> QED BY <1>0, <1>9, <1>10, <1>11, <1>12, <1>13 DEF IInv, AssertsHold, RunnerInv

\* Where the fingers meet is the lowest common ancestor.
LEMMA MeetStepInv == IInv /\ Meet => IInv'
<1> SUFFICES ASSUME IInv, Meet PROVE IInv'
  OBVIOUS
<1>0. /\ pc = "intersect" /\ pc' = "preds" /\ Looping /\ pos' = pos /\ b1 = b2
      /\ new_idom' = b1 /\ k' = k + 1
      /\ UNCHANGED <<graph, walk, idom, changed, b1, b2, runner, results>>
  BY DEF Meet, Looping
<1>1. pos <= Size /\ bb # Entry /\ first \in hasId
  BY <1>0 DEF IInv, PassInv
<1>2. bb \in Block /\ pre[bb] \in Seq(Block)
  BY <1>0, <1>1, Current DEF IInv, TypeOK
<1>3. UNCHANGED <<pre, post_order_id, reverse_post_order, idom>>
  BY <1>0 DEF graph, walk
<1>4. bb' = bb /\ hasId' = hasId /\ first' = first
  BY <1>0, <1>3 DEF bb, hasId, first
<1>5. /\ k \in hasId /\ b1 \in Block /\ new_idom \in Block
      /\ Anc(idom, b1, pre[bb][k]) /\ Anc(idom, b1, new_idom)
      /\ \A c \in Block : Anc(idom, c, pre[bb][k]) /\ Anc(idom, c, new_idom) => Anc(idom, c, b1)
      /\ \A p \in Seen : Anc(idom, new_idom, p)
      /\ \A c \in Block : (\A p \in Seen : Anc(idom, c, p)) => Anc(idom, c, new_idom)
  BY <1>0 DEF IInv, MeetInv
<1>6. Seen' = Seen \cup {pre[bb][k]}
  <2>1. \A i \in hasId : (i < k + 1 \/ i = first) <=> (i < k \/ i = first) \/ i = k
    BY <1>2, <1>5 DEF hasId
  <2>2. Seen' = {pre[bb][j] : j \in {i \in hasId : i < k + 1 \/ i = first}}
    BY <1>0, <1>3, <1>4 DEF Seen
  <2> HIDE DEF first, hasId
  <2> QED BY <2>1, <2>2, <1>5 DEF Seen
<1>7. MeetInv'
  <2>1. \A p \in Seen : p \in Block
    BY <1>2 DEF Seen, hasId
  <2>2. \A p \in Seen : Anc(idom, b1, p)
    BY <2>1, <1>0, <1>5, AncTrans, ListFacts
  <2> QED BY <1>0, <1>3, <1>5, <1>6, <2>2 DEF MeetInv
<1>8. /\ VisitInv' /\ OrderInv' /\ TreeInv' /\ LeadsInv' /\ Consistent(succ, pre)'
      /\ ForwardInv' /\ AboveInv' /\ Handled' = Handled /\ Size' = Size
  BY <1>0, Quiet
<1>9. PassInv'
  BY <1>0, <1>1, <1>3, <1>4, <1>8 DEF PassInv, IInv
<1>10. TypeOK'
  <2>1. k' \in Nat \ {0}
    BY <1>0 DEF IInv, TypeOK
  <2> QED BY <1>0, <1>5, <2>1 DEF IInv, TypeOK, graph, walk, results, BlockOrNull
<1> QED BY <1>0, <1>7, <1>8, <1>9, <1>10 DEF IInv, AssertsHold, RunnerInv

\* At the end of a pass every block of the tree has been handled, so nothing
\* is missing above an idom when the next pass begins.
LEMMA EndPassInv == IInv /\ EndPass => IInv'
<1> SUFFICES ASSUME IInv, EndPass PROVE IInv'
  OBVIOUS
<1>0. /\ pc = "block" /\ Looping /\ pos > Size /\ pos' = 1 /\ changed' = FALSE
      /\ pc' \in {"block", "frontier"}
      /\ UNCHANGED <<graph, walk, idom, k, fingers, runner, results>>
  BY DEF EndPass, Size, Looping
<1>1. UNCHANGED <<pre, post_order_id, reverse_post_order, idom>>
  BY <1>0 DEF graph, walk
<1>2. VisitInv' /\ OrderInv' /\ TreeInv' /\ LeadsInv' /\ Consistent(succ, pre)' /\ Size' = Size
  BY <1>0, Quiet
<1>3. Handled' = {}
  BY <1>0 DEF Handled
<1>4. Handled = Listed
  <2>1. pos - 1 = Size
    BY <1>0, ListFacts DEF IInv, PassInv
  <2> QED BY <2>1 DEF Handled, Listed
<1>5. PassInv'
  <2>1. 1 \in 1..(Size + 1)
    BY <1>0, ListFacts
  <2>2. Looping' => pc' = "block"
    BY <1>0 DEF Looping
  <2>3. pos' \in 1..(Size' + 1)
    BY <1>0, <1>2, <2>1
  <2> QED BY <1>3, <2>2, <2>3 DEF PassInv
<1>6. ForwardInv'
  BY <1>3 DEF ForwardInv
<1>7. AboveInv'
  <2>1. \A b, c : Common(c, b)' => Common(c, b)
    BY <1>1 DEF Common, Ready
  <2>2. \A b \in Block : idom[b] # NoBlock => b \in Handled
    BY <1>0, <1>4 DEF IInv, TreeInv
  <2> QED BY <1>0, <1>1, <2>1, <2>2 DEF AboveInv, IInv
<1>8. TypeOK'
  <2>1. changed' \in BOOLEAN
    BY <1>0
  <2>2. pos' \in Nat \ {0}
    BY <1>0
  <2>3. UNCHANGED <<succ, pre, stack, visited, post_order_id, reverse_post_order, idom, k,
                    new_idom, b1, b2, runner, dom_frontier, dom_tree_succ>>
    BY <1>0 DEF graph, walk, fingers, results
  <2> QED BY <1>0, <2>1, <2>2, <2>3 DEF IInv, TypeOK
<1> QED BY <1>0, <1>2, <1>5, <1>6, <1>7, <1>8 DEF IInv, AssertsHold, RunnerInv, MeetInv

-----------------------------------------------------------------------------
(* CommitIdom.                                                              *)

\* Whatever an ancestor is, a path leads from it to where one leads from below.
LEMMA LeadsUp ==
  ASSUME IInv, pc # "visit", NEW b \in Block, NEW x \in Block, NEW y \in Block,
         Leads(y, b), Anc(idom, x, y)
  PROVE  Leads(x, b)
<1> DEFINE U == {z \in Block : Leads(z, b)}
<1>1. UpClosed(idom, U)
  <2> SUFFICES ASSUME NEW z \in U, idom[z] # NoBlock PROVE idom[z] \in U
    BY DEF UpClosed
  <2>1. idom[z] \in Block
    BY ListFacts DEF Trees, BlockOrNull
  <2>2. CASE z = Entry
    BY <2>2, ListFacts DEF Climbs
  <2>3. CASE z # Entry
    <3>1. Leads(idom[z], z)
      BY <2>3 DEF IInv, LeadsInv
    <3>2. Leads(z, b)
      OBVIOUS
    <3> HIDE DEF U
    <3>3. Leads(idom[z], b)
      BY <3>1, <3>2 DEF Leads
    <3> QED BY <2>1, <3>3 DEF U
  <2> QED BY <2>2, <2>3
<1>2. y \in U /\ U \in SUBSET Block
  OBVIOUS
<1> QED BY <1>1, <1>2 DEF Anc

\* What is known when the loop over the predecessors of bb has ended.
LEMMA CommitFacts ==
  ASSUME IInv, CommitIdom
  PROVE  /\ pc = "preds" /\ Looping /\ pos <= Size /\ bb \in Block \ {Entry} /\ bb \in Listed
         /\ new_idom \in Block /\ new_idom # bb /\ idom[new_idom] # NoBlock
         /\ post_order_id[new_idom] > post_order_id[bb]
         /\ \A p \in Ready(bb) : p \in Block /\ Anc(idom, new_idom, p)
         /\ \A c \in Block : Common(c, bb) => Anc(idom, c, new_idom)
         /\ Leads(new_idom, bb)
         /\ idom' = [idom EXCEPT ![bb] = new_idom]
         /\ UNCHANGED <<graph, walk, k, fingers, runner, results>>
         /\ pos' = pos + 1 /\ pc' = "block"
<1>0. /\ pc = "preds" /\ Looping /\ k > Len(pre[bb]) /\ pos' = pos + 1 /\ pc' = "block"
      /\ idom' = [idom EXCEPT ![bb] = new_idom]
      /\ UNCHANGED <<graph, walk, k, fingers, runner, results>>
  BY DEF CommitIdom, NextBlock, Looping
<1>1. pos <= Size /\ bb # Entry
  BY <1>0 DEF IInv, PassInv
<1>2. /\ bb \in Listed /\ bb \in Block /\ pre[bb] \in Seq(Block)
      /\ \A b \in Listed : b \in Handled <=> post_order_id[b] > post_order_id[bb]
  BY <1>0, <1>1, Current DEF IInv, TypeOK
<1>3. Seen = Ready(bb) /\ Ready(bb) \subseteq Block
  <2>1. \A j \in hasId : j < k
    BY <1>0, <1>2 DEF hasId, IInv, TypeOK
  <2>2. Seen = {pre[bb][j] : j \in hasId}
    BY <2>1 DEF Seen
  <2> QED BY <1>2, <2>2 DEF hasId, Ready, ToSet
<1>4. /\ new_idom \in Block
      /\ \A p \in Ready(bb) : p \in Block /\ Anc(idom, new_idom, p)
      /\ \A c \in Block : Common(c, bb) => Anc(idom, c, new_idom)
  BY <1>0, <1>3 DEF IInv, MeetInv, Common
<1>5. PICK p \in Listed \cap ToSet(pre[bb]) : post_order_id[p] > post_order_id[bb]
  BY <1>0, <1>1, <1>2 DEF IInv, OrderInv
<1>6. p \in Block /\ idom[p] # NoBlock /\ p \in Ready(bb)
  BY <1>0, <1>2, <1>5, ListFacts DEF IInv, PassInv, Ready
<1>7. /\ idom[new_idom] # NoBlock /\ new_idom # bb
      /\ post_order_id[new_idom] > post_order_id[bb]
  <2>1. new_idom = p \/ post_order_id[new_idom] > post_order_id[p]
    BY <1>0, <1>4, <1>6, AncHigher, ListFacts
  <2>2. idom[new_idom] # NoBlock
    BY <1>0, <1>4, <1>6, AncHigher, ListFacts
  <2>3. /\ post_order_id[new_idom] \in Nat /\ post_order_id[p] \in Nat
        /\ post_order_id[bb] \in Nat
    BY <1>0, <1>2, <1>4, <1>6, ListFacts
  <2> QED BY <2>1, <2>2, <2>3, <1>5
<1>8. Leads(new_idom, bb)
  <2>1. Leads(p, bb)
    BY <1>2, <1>5 DEF Leads, DownClosed
  <2> QED BY <2>1, <1>0, <1>2, <1>4, <1>6, LeadsUp
<1> QED BY <1>0, <1>1, <1>2, <1>4, <1>7, <1>8

\* The idom that is replaced lies below the new one: otherwise the new one was
\* lost above it, through some block x handled in this pass.  A path leads from
\* x down the list to bb, and what the pass has handled carries the absence of
\* new_idom above x along it to a predecessor of bb, which has it.
LEMMA CommitLifts ==
  ASSUME IInv, CommitIdom
  PROVE  Lifts(idom, idom', bb, new_idom)
<1> DEFINE new == new_idom
           old == idom[bb]
<1>0. /\ pc = "preds" /\ Looping /\ pos <= Size /\ bb \in Block \ {Entry} /\ bb \in Listed
      /\ new \in Block
      /\ \A p \in Ready(bb) : p \in Block /\ Anc(idom, new, p)
      /\ idom' = [idom EXCEPT ![bb] = new]
  BY CommitFacts
<1>1. /\ idom \in Trees /\ Climbs(idom, post_order_id) /\ Listed \subseteq Block
      /\ post_order_id \in [Block -> Nat]
  BY <1>0, ListFacts
<1>2. /\ bb \notin Handled
      /\ \A b \in Listed : b \in Handled <=> post_order_id[b] > post_order_id[bb]
  BY <1>0, Current
<1>3. Handled \subseteq Listed
  <2>1. \A i \in 1..(pos - 1) : i \in 1..Size
    BY <1>0, ListFacts DEF IInv, PassInv
  <2> QED BY <2>1 DEF Handled, Listed
<1>4. ASSUME old # NoBlock PROVE Anc(idom, new, old)
  <2>1. old \in Block
    BY <1>0, <1>1, <1>4 DEF Trees, BlockOrNull
  <2>2. Anc(idom, new, old) \/ Lost(new, bb)
    BY <1>0, <1>4 DEF IInv, AboveInv, Common
  <2>3. ASSUME Lost(new, bb) PROVE FALSE
    <3>1. PICK x \in Handled : /\ Anc(idom, x, old) /\ ~Anc(idom, new, x)
                               /\ post_order_id[x] < post_order_id[new]
      BY <2>3 DEF Lost
    <3>2. x \in Block
      BY <1>1, <1>3
    <3>3. Leads(x, bb)
      <4>1. Leads(old, bb)
        BY <1>0, <1>4 DEF IInv, LeadsInv
      <4> QED BY <4>1, <3>1, <3>2, <2>1, <1>0, LeadsUp
    <3> DEFINE S == {q \in Block : q # bb /\ (q \in Handled =>
                        ~Anc(idom, new, q) /\ post_order_id[q] <= post_order_id[x])}
    <3>4. x \in S
      <4>1. post_order_id[x] <= post_order_id[x]
        BY <3>2, <1>1
      <4> QED BY <4>1, <3>1, <3>2, <1>2
    <3>5. DownClosed(S)
      <4> SUFFICES ASSUME NEW q \in S, NEW r \in Listed, q \in Listed, q \in ToSet(pre[r]),
                          post_order_id[q] > post_order_id[r]
                   PROVE  r \in S
        BY DEF DownClosed
      <4>0. /\ q \in Block /\ r \in Block /\ post_order_id[q] \in Nat
            /\ post_order_id[r] \in Nat /\ post_order_id[bb] \in Nat
            /\ post_order_id[x] \in Nat /\ post_order_id[new] \in Nat
        BY <1>0, <1>1, <3>2
      <4>1. r # bb
        <5> SUFFICES ASSUME r = bb PROVE FALSE
          OBVIOUS
        <5>1. q \in Handled
          BY <1>2
        <5>2. q \in Ready(bb)
          BY <5>1, <1>0 DEF Ready, IInv, PassInv
        <5>3. ~Anc(idom, new, q)
          BY <5>1
        <5> QED BY <5>2, <5>3, <1>0
      <4>2. ASSUME r \in Handled
            PROVE  ~Anc(idom, new, r) /\ post_order_id[r] <= post_order_id[x]
        <5>1. post_order_id[r] > post_order_id[bb]
          BY <4>2, <1>2
        <5>2. q \in Handled
          BY <5>1, <4>0, <1>2
        <5>3. ~Anc(idom, new, q) /\ post_order_id[q] <= post_order_id[x]
          BY <5>2
        <5>4. post_order_id[r] <= post_order_id[x] /\ new # r
          BY <5>3, <4>0, <3>1
        <5>5. Anc(idom, new, r) => Anc(idom, new, q)
          BY <4>2, <5>2, <5>4, <1>0 DEF IInv, ForwardInv
        <5> QED BY <5>3, <5>4, <5>5
      <4> QED BY <4>0, <4>1, <4>2
    <3>6. bb \in S
      <4>1. S \in SUBSET Block
        OBVIOUS
      <4> HIDE DEF S
      <4> QED BY <4>1, <3>3, <3>4, <3>5 DEF Leads
    <3> QED BY <3>6
  <2> QED BY <2>2, <2>3
<1> QED BY <1>0, <1>4 DEF Lifts

\* The tree with the new idom still climbs.
LEMMA CommitTree ==
  ASSUME IInv, CommitIdom
  PROVE  /\ idom' \in Trees /\ Climbs(idom', post_order_id) /\ idom'[NoBlock] = NoBlock
         /\ idom'[bb] = new_idom
         /\ \A b \in BlockOrNull \ {bb} : idom'[b] = idom[b]
<1>1. /\ pc # "visit" /\ bb \in Block \ {Entry} /\ new_idom \in Block /\ new_idom # bb
      /\ idom[new_idom] # NoBlock /\ post_order_id[new_idom] > post_order_id[bb]
      /\ idom' = [idom EXCEPT ![bb] = new_idom]
  BY CommitFacts
<1>2. /\ idom \in Trees /\ Climbs(idom, post_order_id) /\ idom[NoBlock] = NoBlock
      /\ NoBlock \notin Block /\ Entry \in Block
  BY <1>1, ListFacts DEF IInv, TreeInv, NoBlock, Block
<1>3. /\ idom' \in Trees /\ idom'[bb] = new_idom
      /\ \A b \in BlockOrNull \ {bb} : idom'[b] = idom[b]
  BY <1>1, <1>2 DEF Trees, BlockOrNull
<1>4. \A b \in Block : idom[b] # NoBlock => idom'[b] # NoBlock
  BY <1>1, <1>2, <1>3 DEF BlockOrNull
<1>5. ASSUME NEW b \in Block \ {Entry}, idom'[b] # NoBlock
      PROVE  /\ idom'[b] \in Block /\ idom'[idom'[b]] # NoBlock
             /\ post_order_id[idom'[b]] > post_order_id[b]
  <2>1. CASE b = bb
    BY <2>1, <1>1, <1>3, <1>4
  <2>2. CASE b # bb
    <3>1. idom'[b] = idom[b]
      BY <2>2, <1>3 DEF BlockOrNull
    <3> QED BY <3>1, <1>2, <1>4, <1>5 DEF Climbs
  <2> QED BY <2>1, <2>2
<1>6. idom'[Entry] = Entry
  BY <1>1, <1>2, <1>3 DEF Climbs, BlockOrNull
<1>7. idom'[NoBlock] = NoBlock
  BY <1>1, <1>2, <1>3 DEF BlockOrNull
<1> QED BY <1>3, <1>5, <1>6, <1>7 DEF Climbs

\* The blocks handled earlier are not below bb and keep their ancestors.
LEMMA CommitForward ==
  ASSUME IInv, CommitIdom
  PROVE  \A r \in Handled \cup {bb} : \A q \in (Handled \cup {bb}) \cap ToSet(pre[r]) :
           post_order_id[q] > post_order_id[r] =>
             \A c \in Block \ {r} : Anc(idom', c, r) => Anc(idom', c, q)
<1>0. /\ Looping /\ pc # "visit" /\ pos <= Size /\ bb \in Block \ {Entry} /\ bb \in Listed
      /\ new_idom \in Block /\ new_idom # bb /\ idom[new_idom] # NoBlock
      /\ \A p \in Ready(bb) : p \in Block /\ Anc(idom, new_idom, p)
  BY CommitFacts DEF Looping
<1>1. /\ idom \in Trees /\ Climbs(idom, post_order_id) /\ post_order_id \in [Block -> Nat]
      /\ Listed \subseteq Block
  BY <1>0, ListFacts
<1>2. idom' \in Trees /\ idom'[bb] = new_idom /\ Lifts(idom, idom', bb, new_idom)
  BY CommitTree, CommitLifts
<1>3. /\ bb \notin Handled
      /\ \A b \in Listed : b \in Handled <=> post_order_id[b] > post_order_id[bb]
  BY <1>0, Current
<1>4. Handled \subseteq Listed
  <2>1. \A i \in 1..(pos - 1) : i \in 1..Size
    BY <1>0, ListFacts DEF IInv, PassInv
  <2> QED BY <2>1 DEF Handled, Listed
<1> SUFFICES ASSUME NEW r \in Handled \cup {bb}, NEW q \in Handled \cup {bb}, q \in ToSet(pre[r]),
                    post_order_id[q] > post_order_id[r],
                    NEW c \in Block \ {r}, Anc(idom', c, r)
             PROVE  Anc(idom', c, q)
  OBVIOUS
<1>5. r \in Block /\ q \in Block
  BY <1>0, <1>1, <1>4
<1>6. /\ post_order_id[q] \in Nat /\ post_order_id[r] \in Nat /\ post_order_id[bb] \in Nat
  BY <1>0, <1>1, <1>5
<1>7. q \in Handled /\ post_order_id[q] > post_order_id[bb]
  <2>1. r = bb \/ post_order_id[r] > post_order_id[bb]
    BY <1>3, <1>4
  <2>2. post_order_id[q] > post_order_id[bb]
    BY <2>1, <1>6
  <2> QED BY <2>2, <1>6
<1>8. ~Anc(idom, bb, q)
  <2>1. Anc(idom, bb, q) => bb = q \/ post_order_id[bb] > post_order_id[q]
    BY <1>0, <1>1, <1>5, AncHigher
  <2> QED BY <2>1, <1>6, <1>7
<1>9. Anc(idom, c, q)
  <2>1. CASE r = bb
    <3>1. Anc(idom', c, new_idom)
      <4>1. idom'[bb] # NoBlock
        BY <1>0, <1>2 DEF NoBlock, Block
      <4> QED BY <4>1, <2>1, <1>0, <1>2, AncStep
    <3>2. Anc(idom, c, new_idom)
      BY <3>1, <1>0, <1>1, <1>2, LiftShrinks
    <3>3. Anc(idom, new_idom, q)
      BY <2>1, <1>0, <1>7 DEF Ready, IInv, PassInv
    <3> QED BY <3>2, <3>3, <1>0, <1>1, <1>5, AncTrans
  <2>2. CASE r # bb
    <3>1. r \in Handled /\ idom[r] # NoBlock
      BY <2>2, <1>0 DEF IInv, PassInv
    <3>2. Anc(idom, c, r)
      BY <3>1, <1>0, <1>1, <1>2, <1>5, LiftShrinks
    <3> QED BY <3>1, <3>2, <1>0, <1>7 DEF IInv, ForwardInv
  <2> QED BY <2>1, <2>2
<1> QED BY <1>0, <1>1, <1>2, <1>5, <1>8, <1>9, LiftSpares

\* An ancestor that another block's idom loses by the step is lost because bb
\* has lost it, and bb is lower and has been handled.
LEMMA CommitAbove ==
  ASSUME IInv, CommitIdom,
         NEW b \in Block \ {Entry}, b # bb, idom[b] # NoBlock,
         NEW c \in Block, Common(c, b), ~Anc(idom', c, idom[b])
  PROVE  /\ b \notin Handled
         /\ \E x \in Handled \cup {bb} : /\ Anc(idom', x, idom[b]) /\ ~Anc(idom', c, x)
                                        /\ post_order_id[x] < post_order_id[c]
<1> DEFINE o == idom[b]
<1>0. /\ Looping /\ pc # "visit" /\ pos <= Size /\ bb \in Block \ {Entry} /\ bb \in Listed
      /\ new_idom \in Block
  BY CommitFacts DEF Looping
<1>1. /\ idom \in Trees /\ Climbs(idom, post_order_id) /\ post_order_id \in [Block -> Nat]
      /\ Listed \subseteq Block
  BY <1>0, ListFacts
<1>2. idom' \in Trees /\ Lifts(idom, idom', bb, new_idom)
  BY CommitTree, CommitLifts
<1>3. /\ bb \notin Handled
      /\ \A y \in Listed : y \in Handled <=> post_order_id[y] > post_order_id[bb]
  BY <1>0, Current
<1>4. Handled \subseteq Listed
  <2>1. \A i \in 1..(pos - 1) : i \in 1..Size
    BY <1>0, ListFacts DEF IInv, PassInv
  <2> QED BY <2>1 DEF Handled, Listed
<1>5. o \in Block /\ idom[o] # NoBlock /\ post_order_id[o] > post_order_id[b]
  BY <1>1 DEF Climbs
<1>6. /\ post_order_id[o] \in Nat /\ post_order_id[b] \in Nat /\ post_order_id[bb] \in Nat
      /\ post_order_id[c] \in Nat
  BY <1>0, <1>1, <1>5
<1>7. Anc(idom, c, o) \/ (b \notin Handled /\ Lost(c, b))
  BY <1>0 DEF IInv, AboveInv
<1> HIDE DEF o
\* bb stays above o when it was, and what o loses lies above bb.
<1>8. Anc(idom, bb, o) => Anc(idom', bb, o)
  <2>1. Anc(idom, bb, bb)
    BY <1>0, <1>1, AncSelf
  <2> QED BY <2>1, <1>0, <1>1, <1>2, <1>5, LiftKeeps
<1>9. ASSUME NEW x \in Block, Anc(idom, x, o), ~Anc(idom', x, o)
      PROVE  /\ Anc(idom, bb, o) /\ idom[bb] # NoBlock
             /\ Anc(idom, x, bb) /\ post_order_id[bb] < post_order_id[x]
  <2>1. Anc(idom, bb, o)
    BY <1>0, <1>1, <1>2, <1>5, <1>9, LiftSpares
  <2>2. ~Anc(idom, bb, x)
    BY <1>0, <1>1, <1>2, <1>5, <1>9, LiftKeeps
  <2>3. Anc(idom, x, bb)
    BY <2>1, <2>2, <1>0, <1>1, <1>5, <1>9, AncLinear
  <2>4. x # bb
    BY <2>2, <1>0, <1>1, AncSelf
  <2>5. idom[bb] # NoBlock
    BY <2>1, <1>0, <1>1, <1>5, AncHigher
  <2>6. post_order_id[x] > post_order_id[bb]
    BY <2>3, <2>4, <1>0, <1>1, AncHigher
  <2>7. post_order_id[x] \in Nat
    BY <1>1
  <2> QED BY <2>1, <2>3, <2>5, <2>6, <2>7, <1>6
<1>10. CASE Anc(idom, c, o)
  <2>1. ~Anc(idom', c, o)
    BY DEF o
  <2>2. /\ Anc(idom, bb, o) /\ Anc(idom, c, bb) /\ post_order_id[bb] < post_order_id[c]
    BY <2>1, <1>9, <1>10
  <2>3. ~Anc(idom', c, bb)
    BY <2>1, <2>2, <1>0, <1>2, <1>5, <1>8, AncTrans
  <2>4. b \notin Handled
    <3>1. o = bb \/ post_order_id[bb] > post_order_id[o]
      <4>1. bb = o \/ post_order_id[bb] > post_order_id[o]
        BY <2>2, <1>0, <1>1, <1>5, AncHigher
      <4> QED BY <4>1
    <3>2. b \in Handled => post_order_id[b] > post_order_id[bb]
      BY <1>3, <1>4
    <3> QED BY <3>1, <3>2, <1>5, <1>6
  <2> QED BY <2>2, <2>3, <2>4, <1>8 DEF o
<1>11. CASE ~Anc(idom, c, o)
  <2>1. b \notin Handled /\ Lost(c, b)
    BY <1>7, <1>11
  <2>2. PICK x \in Handled : /\ Anc(idom, x, o) /\ ~Anc(idom, c, x)
                             /\ post_order_id[x] < post_order_id[c]
    BY <2>1 DEF Lost, o
  <2>3. x \in Block /\ idom[x] # NoBlock /\ post_order_id[x] \in Nat
    BY <1>0, <1>1, <1>4 DEF IInv, PassInv
  <2>4. CASE Anc(idom', x, o)
    <3>1. ~Anc(idom', c, x)
      BY <2>2, <2>3, <1>0, <1>1, <1>2, LiftShrinks
    <3> QED BY <3>1, <2>1, <2>2, <2>4 DEF o
  <2>5. CASE ~Anc(idom', x, o)
    <3>1. /\ Anc(idom, bb, o) /\ idom[bb] # NoBlock
          /\ Anc(idom, x, bb) /\ post_order_id[bb] < post_order_id[x]
      BY <2>2, <2>3, <2>5, <1>9
    <3>2. ~Anc(idom', c, bb)
      <4> SUFFICES ASSUME Anc(idom', c, bb) PROVE FALSE
        OBVIOUS
      <4>1. Anc(idom, c, bb)
        BY <3>1, <1>0, <1>1, <1>2, LiftShrinks
      <4>2. Anc(idom, c, x) \/ Anc(idom, x, c)
        BY <4>1, <3>1, <2>3, <1>0, <1>1, AncLinear
      <4>3. Anc(idom, x, c) => x = c \/ post_order_id[x] > post_order_id[c]
        BY <2>3, <1>1, AncHigher
      <4> QED BY <4>2, <4>3, <2>2, <2>3, <1>6
    <3>3. post_order_id[bb] < post_order_id[c]
      BY <3>1, <2>2, <2>3, <1>6
    <3> QED BY <3>1, <3>2, <3>3, <2>1, <1>8 DEF o
  <2> QED BY <2>4, <2>5
<1> QED BY <1>10, <1>11

\* Committing an idom keeps the invariant.
LEMMA CommitIdomInv == IInv /\ CommitIdom => IInv'
<1> SUFFICES ASSUME IInv, CommitIdom PROVE IInv'
  OBVIOUS
<1>0. /\ Looping /\ pc # "visit" /\ pc' = "block" /\ pos <= Size /\ pos' = pos + 1
      /\ bb \in Block \ {Entry} /\ bb \in Listed /\ new_idom \in Block /\ new_idom # bb
      /\ post_order_id[new_idom] > post_order_id[bb] /\ Leads(new_idom, bb)
      /\ \A c \in Block : Common(c, bb) => Anc(idom, c, new_idom)
      /\ UNCHANGED <<graph, walk, k, fingers, runner, results>>
  BY CommitFacts DEF Looping
<1>1. /\ idom \in Trees /\ Climbs(idom, post_order_id) /\ post_order_id \in [Block -> Nat]
      /\ Listed \subseteq Block /\ NoBlock \notin Block
  BY <1>0, ListFacts DEF NoBlock, Block
<1>2. /\ idom' \in Trees /\ Climbs(idom', post_order_id) /\ idom'[NoBlock] = NoBlock
      /\ idom'[bb] = new_idom /\ \A b \in Block \ {bb} : idom'[b] = idom[b]
      /\ Lifts(idom, idom', bb, new_idom)
  BY CommitTree, CommitLifts DEF BlockOrNull
<1>3. UNCHANGED <<succ, pre, post_order_id, reverse_post_order, stack, visited>>
  BY <1>0 DEF graph, walk
<1>4. Listed' = Listed /\ Size' = Size
  BY <1>3 DEF Listed, Size
<1>5. Handled' = Handled \cup {bb} /\ pos' \in 1..(Size + 1)
  BY <1>0, <1>3, HandledGrows
<1>6. TypeOK'
  <2>1. changed' \in BOOLEAN
    BY DEF CommitIdom, IInv, TypeOK
  <2>2. pos' \in Nat \ {0}
    BY <1>0 DEF IInv, TypeOK
  <2>3. UNCHANGED <<k, new_idom, b1, b2, runner, dom_frontier, dom_tree_succ>>
    BY <1>0 DEF fingers, results
  <2> QED BY <1>0, <1>2, <1>3, <2>1, <2>2, <2>3 DEF IInv, TypeOK, Trees
<1>7. VisitInv' /\ Consistent(succ, pre)' /\ OrderInv'
  BY <1>0, <1>3, <1>4 DEF IInv, VisitInv, Consistent, Preds, OrderInv
<1>8. TreeInv'
  <2>1. \A b \in Block : idom'[b] # NoBlock => b \in Listed
    BY <1>0, <1>2 DEF IInv, TreeInv
  <2> QED BY <2>1, <1>2, <1>3, <1>4 DEF TreeInv
<1>9. PassInv'
  <2>1. \A b \in Handled : idom'[b] # NoBlock
    <3>1. \A b \in Handled : idom[b] # NoBlock
      BY <1>0 DEF IInv, PassInv
    <3>2. Handled \subseteq Block
      <4>1. \A j \in 1..(pos - 1) : j \in 1..Size
        BY <1>0, ListFacts DEF IInv, PassInv
      <4> QED BY <4>1, <1>1 DEF Handled, Listed
    <3> QED BY <3>1, <3>2, <1>0, <1>1, <1>2
  <2> QED BY <2>1, <1>0, <1>1, <1>2, <1>4, <1>5 DEF PassInv
<1>10. LeadsInv'
  <2>1. \A S : DownClosed(S)' <=> DownClosed(S)
    BY <1>3, <1>4 DEF DownClosed
  <2>2. \A x, b : Leads(x, b) => Leads(x, b)'
    BY <2>1 DEF Leads
  <2>3. ASSUME NEW b \in Block \ {Entry}, idom'[b] # NoBlock PROVE Leads(idom'[b], b)
    BY <1>0, <1>2, <2>3 DEF IInv, LeadsInv
  <2> QED BY <2>2, <2>3 DEF LeadsInv
<1>11. ForwardInv'
  BY <1>3, <1>5, CommitForward DEF ForwardInv
<1>12. AboveInv'
  <2> SUFFICES ASSUME NEW b \in Block \ {Entry}, idom'[b] # NoBlock, NEW c \in Block,
                      Common(c, b)'
               PROVE  Anc(idom', c, idom'[b]) \/ (b \notin Handled' /\ Lost(c, b)')
    BY DEF AboveInv
  <2>1. Common(c, b)
    <3> SUFFICES ASSUME NEW p \in Ready(b) PROVE Anc(idom, c, p)
      BY DEF Common
    <3>1. p \in Block /\ idom[p] # NoBlock /\ p \in ToSet(pre[b])
      BY DEF Ready, ToSet, IInv, TypeOK
    <3>2. idom'[p] # NoBlock
      BY <3>1, <1>0, <1>1, <1>2
    <3>3. Anc(idom', c, p)
      BY <3>1, <3>2, <1>3 DEF Common, Ready
    <3> QED BY <3>1, <3>3, <1>0, <1>1, <1>2, LiftShrinks
  <2>2. CASE b = bb
    <3>1. Anc(idom, c, new_idom)
      BY <2>1, <2>2, <1>0
    <3>2. ~Anc(idom, bb, new_idom)
      <4>1. Anc(idom, bb, new_idom) => post_order_id[bb] > post_order_id[new_idom]
        BY <1>0, <1>1, AncHigher
      <4>2. post_order_id[bb] \in Nat /\ post_order_id[new_idom] \in Nat
        BY <1>0, <1>1
      <4> QED BY <4>1, <4>2, <1>0
    <3> QED BY <3>1, <3>2, <2>2, <1>0, <1>1, <1>2, LiftSpares
  <2>3. CASE b # bb
    <3>1. idom'[b] = idom[b]
      BY <2>3, <1>2
    <3>2. ASSUME ~Anc(idom', c, idom[b])
          PROVE  /\ b \notin Handled
                 /\ \E x \in Handled \cup {bb} :
                       /\ Anc(idom', x, idom[b]) /\ ~Anc(idom', c, x)
                       /\ post_order_id[x] < post_order_id[c]
      BY <3>1, <3>2, <2>1, <2>3, CommitAbove
    <3> QED BY <3>1, <3>2, <2>3, <1>3, <1>5 DEF Lost
  <2> QED BY <2>2, <2>3
<1> QED BY <1>0, <1>6, <1>7, <1>8, <1>9, <1>10, <1>11, <1>12
        DEF IInv, AssertsHold, RunnerInv, MeetInv

-----------------------------------------------------------------------------
(* The frontier and the tree.                                               *)

\* The frontier and the tree are built on an idom that no longer changes.
LEMMA ResultsInv ==
  IInv /\ (CreateDominanceFrontier \/ BuildTree) => IInv'
<1> SUFFICES ASSUME IInv, CreateDominanceFrontier \/ BuildTree PROVE IInv'
  OBVIOUS
<1> USE DEF IInv
<1>1. /\ UNCHANGED <<graph, walk, idom, changed, fingers>>
      /\ pc \in {"frontier", "runner", "tree"} /\ pc' \in {"frontier", "runner", "tree", "done"}
  BY DEF CreateDominanceFrontier, FrontierBlock, RunUp, RunnerArrives, EndFrontier, BuildTree
<1>2. /\ VisitInv' /\ OrderInv' /\ TreeInv' /\ LeadsInv' /\ Consistent(succ, pre)'
      /\ PassInv' /\ ForwardInv' /\ AboveInv' /\ MeetInv'
  <2>1. pc # "visit" /\ pc' # "visit" /\ ~Looping'
    BY <1>1 DEF Looping
  <2> QED BY <1>1, <2>1, Quiet
<1>3. ASSUME /\ pos' \in Nat \ {0} /\ k' \in Nat \ {0} /\ runner' \in BlockOrNull
             /\ dom_frontier' \in [BlockOrNull -> SUBSET Block]
             /\ dom_tree_succ' \in [BlockOrNull -> SUBSET Block]
      PROVE  TypeOK'
  <2>1. UNCHANGED <<succ, pre, stack, visited, post_order_id, reverse_post_order, idom, changed,
                    new_idom, b1, b2>>
    BY <1>1 DEF graph, walk, fingers
  <2> QED BY <1>1, <1>3, <2>1 DEF TypeOK
<1>4. /\ pos \in Nat \ {0} /\ k \in Nat \ {0} /\ runner \in BlockOrNull
      /\ dom_frontier \in [BlockOrNull -> SUBSET Block] /\ idom \in Trees
      /\ dom_tree_succ \in [BlockOrNull -> SUBSET Block]
      /\ \A b \in Block : pre[b] \in Seq(Block)
  BY DEF TypeOK, Trees
<1>5. CASE FrontierBlock
  <2>1. pos \in Block
    BY <1>4, <1>5, NAssumption DEF FrontierBlock, Block
  <2>2. Len(pre[pos]) >= 2 => pre[pos][1] \in Block
    BY <1>4, <2>1
  <2> QED BY <1>2, <1>3, <1>4, <1>5, <2>1, <2>2
          DEF FrontierBlock, results, RunnerInv, AssertsHold, BlockOrNull
<1>6. CASE RunUp
  <2>1. pos \in Block /\ pos' = pos /\ pc' = pc
    BY <1>6 DEF RunUp, RunnerInv
  <2>2. idom[runner] \in BlockOrNull
    BY <1>4 DEF Trees
  <2>3. [dom_frontier EXCEPT ![runner] = @ \cup {pos}] \in [BlockOrNull -> SUBSET Block]
    BY <1>4, <2>1
  <2> QED BY <1>2, <1>3, <1>4, <1>6, <2>1, <2>2, <2>3 DEF RunUp, RunnerInv, AssertsHold
<1>7. CASE RunnerArrives
  <2>1. pos \in Block
    BY <1>7 DEF RunnerArrives, RunnerInv
  <2>2. k < Len(pre[pos]) => pre[pos][k + 1] \in Block
    <3>1. k < Len(pre[pos]) => k + 1 \in 1..Len(pre[pos])
      BY <1>4, <2>1
    <3> QED BY <3>1, <1>4, <2>1, InSeq
  <2>3. k + 1 \in Nat \ {0} /\ pos + 1 \in Nat \ {0}
    BY <1>4
  <2> QED BY <1>2, <1>3, <1>4, <1>7, <2>1, <2>2, <2>3
          DEF RunnerArrives, results, RunnerInv, AssertsHold, BlockOrNull
<1>8. CASE EndFrontier
  BY <1>2, <1>3, <1>4, <1>8 DEF EndFrontier, results, RunnerInv, AssertsHold
<1>9. CASE BuildTree
  BY <1>2, <1>3, <1>4, <1>9 DEF BuildTree, RunnerInv, AssertsHold
<1> QED BY <1>5, <1>6, <1>7, <1>8, <1>9 DEF CreateDominanceFrontier

-----------------------------------------------------------------------------
\* Nothing changes when nothing changes.
LEMMA StutterInv == IInv /\ UNCHANGED vars => IInv'
<1> SUFFICES ASSUME IInv, UNCHANGED vars PROVE IInv'
  OBVIOUS
<1>0. UNCHANGED <<succ, pre, pc, stack, visited, post_order_id, reverse_post_order,
                  idom, changed, pos, k, new_idom, b1, b2, runner, dom_frontier, dom_tree_succ>>
  BY DEF vars
<1>1. Listed' = Listed /\ Size' = Size /\ Handled' = Handled /\ (Looping' <=> Looping)
  BY <1>0 DEF Listed, Size, Handled, Looping
<1>2. bb' = bb /\ hasId' = hasId /\ first' = first /\ Seen' = Seen
  BY <1>0 DEF bb, hasId, first, Seen
<1>3. \A S : DownClosed(S)' <=> DownClosed(S)
  BY <1>0, <1>1 DEF DownClosed
<1>4. \A x, b : Leads(x, b)' <=> Leads(x, b)
  BY <1>3 DEF Leads
<1>5. \A b, c : (Common(c, b)' <=> Common(c, b)) /\ (Lost(c, b)' <=> Lost(c, b))
  BY <1>0, <1>1 DEF Common, Ready, Lost
<1>6. \A b : OnStack(b)' <=> OnStack(b)
  BY <1>0 DEF OnStack
<1>7. TypeOK' /\ Consistent(succ, pre)' /\ AssertsHold' /\ RunnerInv'
  BY <1>0 DEF IInv, TypeOK, Consistent, Preds, AssertsHold, RunnerInv
<1>8. VisitInv' /\ OrderInv' /\ TreeInv'
  BY <1>0, <1>1, <1>6 DEF IInv, VisitInv, StackInv, NumberInv, OrderInv, TreeInv
<1>9. PassInv' /\ LeadsInv'
  BY <1>0, <1>1, <1>2, <1>4 DEF IInv, PassInv, LeadsInv
<1>10. ForwardInv' /\ AboveInv'
  BY <1>0, <1>1, <1>5 DEF IInv, ForwardInv, AboveInv
<1>11. MeetInv'
  BY <1>0, <1>2 DEF IInv, MeetInv
<1> QED BY <1>7, <1>8, <1>9, <1>10, <1>11 DEF IInv

\* The invariant behind the theorems.
THEOREM Invariant == Spec => []IInv
<1>1. IInv /\ [Next]_vars => IInv'
  BY VisitSuccessorInv, FinishVisitInv, SkipRootInv, PickPredecessorInv, JoinPredecessorInv,
     ClimbInv, MeetStepInv, CommitIdomInv, EndPassInv, ResultsInv, StutterInv
     DEF Next, CreateReversePostOrder, CreateIdom
<1> QED BY InitInv, <1>1, PTL DEF Spec

\* Every variable of Dominators::run keeps its type.
THEOREM TypeCorrect == Spec => []TypeOK
<1>1. IInv => TypeOK
  BY DEF IInv
<1> QED BY Invariant, <1>1, PTL

\* On no function does an assert of create_idom or intersect fail, unreached
\* predecessors and irreducible loops included.
THEOREM AssertsNeverFail == Spec => []AssertsHold
<1>1. IInv => AssertsHold
  BY DEF IInv
<1> QED BY Invariant, <1>1, PTL

\* The tree the two fingers of intersect climb leads to higher post-order
\* numbers at every moment.
THEOREM TreeAlwaysClimbs == Spec => []TreeClimbs
<1>1. IInv => TreeClimbs
  <2> SUFFICES ASSUME IInv PROVE TreeClimbs
    OBVIOUS
  <2>1. CASE pc = "visit"
    <3>1. \A b \in Block : idom[b] = NoBlock
      BY <2>1 DEF IInv, VisitInv, BlockOrNull
    <3> QED BY <3>1 DEF TreeClimbs
  <2>2. CASE pc # "visit"
    BY <2>2 DEF IInv, TreeInv, Climbs, TreeClimbs
  <2> QED BY <2>1, <2>2
<1> QED BY Invariant, <1>1, PTL

\* An idom is only ever replaced by a block with a higher post-order number,
\* so the passes over the blocks cannot go on for ever.
THEOREM IdomClimbs == Spec => IdomOnlyClimbs
<1> DEFINE Up == \A b \in Block : idom[b] # NoBlock /\ idom'[b] # idom[b]
                   => post_order_id[idom'[b]] > post_order_id[idom[b]]
<1>1. IInv /\ [Next]_vars => [Up]_vars
  <2> SUFFICES ASSUME IInv, [Next]_vars, NEW b \in Block, idom[b] # NoBlock, idom'[b] # idom[b]
               PROVE  post_order_id[idom'[b]] > post_order_id[idom[b]]
    OBVIOUS
  <2>1. CASE CommitIdom
    <3>1. /\ pc # "visit" /\ bb \in Block /\ new_idom \in Block
          /\ idom' = [idom EXCEPT ![bb] = new_idom]
      BY <2>1, CommitFacts
    <3>2. b = bb /\ idom'[b] = new_idom
      BY <3>1, ListFacts DEF Trees, BlockOrNull
    <3>3. Anc(idom, new_idom, idom[b]) /\ idom[b] \in Block
      BY <3>1, <3>2, <2>1, CommitLifts, ListFacts DEF Lifts, Trees, BlockOrNull
    <3> QED BY <3>1, <3>2, <3>3, AncHigher, ListFacts
  <2>2. CASE FinishVisit
    <3>1. \A x \in Block : idom[x] = NoBlock
      BY <2>2 DEF FinishVisit, IInv, VisitInv, BlockOrNull
    <3> QED BY <3>1
  <2>3. CASE ~CommitIdom /\ ~FinishVisit
    <3>1. idom' = idom
      BY <2>3 DEF Next, CreateReversePostOrder, CreateIdom, CreateDominanceFrontier, VisitSuccessor,
                  SkipRoot, PickPredecessor, JoinPredecessor, Climb, Meet, EndPass,
                  FrontierBlock, RunUp, RunnerArrives, EndFrontier, BuildTree, vars
    <3> QED BY <3>1
  <2> QED BY <2>1, <2>2, <2>3
<1>2. Spec => [][Up]_vars
  BY Invariant, <1>1, PTL DEF Spec
<1> QED BY <1>2 DEF IdomOnlyClimbs

-----------------------------------------------------------------------------
(* The answer.  What is reached is listed, for the walk follows every edge.  *)

WalkInv ==
  /\ pc = "visit" =>
       /\ \A b \in Listed : ToSet(succ[b]) \subseteq visited
       /\ \A i \in 1..Len(stack) : \A j \in 1..Len(succ[stack[i].bb]) :
             j < stack[i].next => succ[stack[i].bb][j] \in visited
  /\ pc # "visit" => \A b \in Listed : ToSet(succ[b]) \subseteq Listed

\* What has an idom is reached, and around each block that is not among its
\* ancestors: its dominators are.
AvoidInv ==
  pc # "visit" =>
    \A b \in Block : idom[b] # NoBlock =>
      /\ b \in Reached(succ)
      /\ \A d \in Block : ~Anc(idom, d, b) => b \in ReachedAvoiding(succ, d)

\* The successors are a graph of Reachability.
FlowInv == succ \in FlowGraphs(N)

\* An edge leads on from what is reached around d to all but d.
LEMMA EdgeAvoids ==
  ASSUME FlowInv, Consistent(succ, pre), NEW d, NEW b \in Block, b # d,
         NEW p \in ToSet(pre[b]), p \in ReachedAvoiding(succ, d)
  PROVE  b \in ReachedAvoiding(succ, d)
<1>1. p \in Block /\ b \in ToSet(succ[p])
  BY DEF Consistent, Preds
<1>2. N \in Nat \ {0}
  BY NAssumption
<1>3. p \in Avoiding(N, succ, d)
  BY ReachedIs DEF FlowInv
<1>4. b \in Avoiding(N, succ, d)
  BY <1>1, <1>2, <1>3, AvoidingCloses DEF FlowInv
<1> QED BY <1>4, ReachedIs DEF FlowInv

\* The entry is reached around every other block.
LEMMA EntryAvoids ==
  ASSUME FlowInv, NEW d, d # Entry
  PROVE  Entry \in ReachedAvoiding(succ, d)
<1>1. N \in Nat \ {0}
  BY NAssumption
<1>2. Entry \in Avoiding(N, succ, d)
  BY <1>1, AvoidingCloses DEF FlowInv, Entry
<1> QED BY <1>2, ReachedIs DEF FlowInv

\* Setting an idom takes no ancestor from a block without leaving a path to
\* the block around it: around bb, for a common ancestor of the predecessors
\* stays one, and from bb down the list to what is below bb.
LEMMA CommitAvoids ==
  ASSUME IInv, FlowInv, AvoidInv, CommitIdom
  PROVE  AvoidInv'
<1>0. /\ pc # "visit" /\ pc' = "block" /\ bb \in Block \ {Entry} /\ new_idom \in Block
      /\ new_idom # bb /\ post_order_id[new_idom] > post_order_id[bb]
      /\ \A c \in Block : Common(c, bb) => Anc(idom, c, new_idom)
      /\ UNCHANGED <<succ, pre>> /\ Consistent(succ, pre)
  BY CommitFacts DEF graph, IInv
<1>1. /\ idom \in Trees /\ Climbs(idom, post_order_id) /\ post_order_id \in [Block -> Nat]
      /\ Listed \subseteq Block /\ NoBlock \notin Block
  BY <1>0, ListFacts DEF NoBlock, Block
<1>2. /\ idom' \in Trees /\ idom'[bb] = new_idom
      /\ \A b \in Block \ {bb} : idom'[b] = idom[b]
      /\ Lifts(idom, idom', bb, new_idom)
  BY CommitTree, CommitLifts DEF BlockOrNull
<1>3. Ready(bb) # {} /\ \A p \in Ready(bb) : /\ p \in Block /\ idom[p] # NoBlock
                                             /\ p \in ToSet(pre[bb])
  <2>1. hasId # {}
    BY CommitFacts DEF IInv, PassInv
  <2>2. PICK j \in DOMAIN pre[bb] : idom[pre[bb][j]] # NoBlock
    BY <2>1 DEF hasId
  <2>3. pre[bb][j] \in Ready(bb)
    BY <2>2 DEF Ready, ToSet
  <2>4. ToSet(pre[bb]) \subseteq Block
    BY <1>0 DEF Consistent, Preds
  <2> QED BY <2>3, <2>4 DEF Ready
<1>4. bb \in Reached(succ)
  <2>1. PICK p : p \in Ready(bb)
    BY <1>3
  <2>2. p \in Reached(succ) /\ p \in ToSet(pre[bb])
    BY <1>0, <1>3, <2>1 DEF AvoidInv
  <2>3. bb # NoBlock
    BY <1>0, <1>1
  <2> QED BY <1>0, <2>2, <2>3, EdgeAvoids DEF Reached
<1>5. ASSUME NEW d \in Block, ~Anc(idom', d, bb) PROVE bb \in ReachedAvoiding(succ, d)
  <2>1. d # bb
    BY <1>0, <1>2, <1>5, AncSelf
  <2>2. ~Anc(idom, bb, new_idom)
    <3>1. Anc(idom, bb, new_idom) => post_order_id[bb] > post_order_id[new_idom]
      BY <1>0, <1>1, AncHigher
    <3>2. post_order_id[bb] \in Nat /\ post_order_id[new_idom] \in Nat
      BY <1>0, <1>1
    <3> QED BY <1>0, <3>1, <3>2
  <2>3. Anc(idom, d, new_idom) => Anc(idom', d, new_idom)
    BY <1>0, <1>1, <1>2, <2>2, LiftSpares
  <2>4. Anc(idom', new_idom, bb)
    <3>1. idom'[bb] # NoBlock /\ Anc(idom', bb, bb)
      BY <1>0, <1>1, <1>2, AncSelf
    <3> QED BY <1>0, <1>2, <3>1, AncUp
  <2>5. ~Anc(idom, d, new_idom)
    BY <1>0, <1>2, <1>5, <2>3, <2>4, AncTrans
  <2>6. PICK p \in Ready(bb) : ~Anc(idom, d, p)
    BY <1>0, <2>5 DEF Common
  <2>7. p \in ReachedAvoiding(succ, d) /\ p \in ToSet(pre[bb])
    BY <1>0, <1>3, <2>6 DEF AvoidInv
  <2> QED BY <1>0, <2>1, <2>7, EdgeAvoids
<1>6. ASSUME NEW x \in Block \ {bb}, idom[x] # NoBlock, NEW d \in Block, ~Anc(idom', d, x),
             Anc(idom, d, x)
      PROVE  x \in ReachedAvoiding(succ, d)
  <2>1. Anc(idom, bb, x)
    BY <1>0, <1>2, <1>1, <1>6, LiftSpares
  <2>2. ~Anc(idom, bb, d)
    BY <1>0, <1>2, <1>1, <1>6, LiftKeeps
  <2>3. Anc(idom, d, bb) /\ d # bb
    BY <1>0, <1>1, <1>6, <2>1, <2>2, AncLinear, AncSelf
  <2>4. post_order_id[d] > post_order_id[bb]
    BY <1>0, <1>1, <2>3, AncHigher
  <2>5. Anc(idom', bb, x)
    <3>1. Anc(idom, bb, bb)
      BY <1>0, <1>1, AncSelf
    <3> QED BY <1>0, <1>1, <1>2, <2>1, <3>1, LiftKeeps
  <2>6. ~Anc(idom', d, bb)
    BY <1>0, <1>2, <1>6, <2>5, AncTrans
  <2>7. bb \in ReachedAvoiding(succ, d)
    BY <1>5, <2>6
  <2>8. Leads(bb, x)
    <3>1. Leads(x, x)
      BY DEF Leads
    <3> QED BY <1>0, <2>1, <3>1, LeadsUp
  <2> DEFINE S == {z \in Block : z \in ReachedAvoiding(succ, d)
                                 /\ post_order_id[z] <= post_order_id[bb]}
  <2>9. bb \in S
    BY <1>0, <1>1, <2>7
  <2>10. DownClosed(S)
    <3> SUFFICES ASSUME NEW q \in S, NEW r \in Listed, q \in ToSet(pre[r]),
                        post_order_id[q] > post_order_id[r]
                 PROVE  r \in S
      BY DEF DownClosed
    <3>1. /\ post_order_id[q] \in Nat /\ post_order_id[r] \in Nat /\ post_order_id[d] \in Nat
          /\ post_order_id[bb] \in Nat /\ r \in Block /\ post_order_id[q] <= post_order_id[bb]
      BY <1>0, <1>1
    <3>2. r # d /\ post_order_id[r] <= post_order_id[bb]
      BY <2>4, <3>1
    <3>3. r \in ReachedAvoiding(succ, d)
      BY <1>0, <3>1, <3>2, EdgeAvoids
    <3> QED BY <3>1, <3>2, <3>3
  <2>11. S \in SUBSET Block
    OBVIOUS
  <2>12. x \in S
    <3> HIDE DEF S
    <3> QED BY <2>8, <2>9, <2>10, <2>11 DEF Leads
  <2> QED BY <2>12
<1>7. ASSUME NEW x \in Block, idom'[x] # NoBlock
      PROVE  /\ x \in Reached(succ)
             /\ \A d \in Block : ~Anc(idom', d, x) => x \in ReachedAvoiding(succ, d)
  <2>1. CASE x = bb
    BY <1>4, <1>5, <2>1
  <2>2. CASE x # bb
    <3>1. idom[x] # NoBlock
      BY <1>2, <1>7, <2>2
    <3> QED BY <1>0, <1>6, <2>2, <3>1 DEF AvoidInv
  <2> QED BY <2>1, <2>2
<1> QED BY <1>0, <1>7 DEF AvoidInv

\* The walk follows every edge of the block on top before it is finished.
LEMMA VisitWalks == IInv /\ WalkInv /\ VisitSuccessor => WalkInv'
<1> SUFFICES ASSUME IInv, WalkInv, VisitSuccessor PROVE WalkInv'
  OBVIOUS
<1> DEFINE n == Len(stack)
           c == succ[Top.bb][Top.next]
           e == [bb |-> c, next |-> 1]
           adv == [stack EXCEPT ![n].next = @ + 1]
<1>0. pc = "visit" /\ pc' = "visit" /\ TypeOK /\ StackInv
  BY DEF VisitSuccessor, IInv, VisitInv
<1>1. /\ n \in Nat /\ n \in 1..n /\ stack \in Seq([bb : Block, next : Nat \ {0}])
      /\ Top = stack[n] /\ Top.bb \in Block /\ Top.next \in Nat \ {0}
      /\ \A i \in 1..n : stack[i] \in [bb : Block, next : Nat \ {0}]
  BY <1>0, TopIs DEF TypeOK
<1>2. UNCHANGED <<succ, reverse_post_order>> /\ Listed' = Listed
  BY DEF VisitSuccessor, graph, Listed, Size
<1>3. visited \subseteq visited' /\ c \in visited'
  BY DEF VisitSuccessor
<1>4. /\ adv \in Seq([bb : Block, next : Nat \ {0}]) /\ Len(adv) = n
      /\ \A i \in 1..n : adv[i].bb = stack[i].bb /\ (i # n => adv[i].next = stack[i].next)
      /\ adv[n].next = Top.next + 1
  <2> DEFINE f == [stack[n] EXCEPT !.next = @ + 1]
  <2>1. f \in [bb : Block, next : Nat \ {0}] /\ f.bb = stack[n].bb /\ f.next = Top.next + 1
    BY <1>1
  <2>2. adv = [stack EXCEPT ![n] = f]
    OBVIOUS
  <2> HIDE DEF f, adv, n
  <2>3. adv \in Seq([bb : Block, next : Nat \ {0}]) /\ Len(adv) = n
    BY <1>1, <2>1, <2>2 DEF n
  <2>4. adv[n] = f
    BY <1>1, <2>2 DEF n
  <2>5. \A i \in 1..n : i # n => adv[i] = stack[i]
    BY <1>1, <2>2 DEF n
  <2>6. \A i \in 1..n : adv[i].bb = stack[i].bb
    BY <2>1, <2>4, <2>5
  <2>7. \A i \in 1..n : i # n => adv[i].next = stack[i].next
    BY <2>5
  <2> QED BY <2>1, <2>3, <2>4, <2>6, <2>7
<1> HIDE DEF adv
<1>5. \A i \in 1..n : \A j \in 1..Len(succ[adv[i].bb]) :
         j < adv[i].next => succ[adv[i].bb][j] \in visited'
  <2> SUFFICES ASSUME NEW i \in 1..n, NEW j \in 1..Len(succ[stack[i].bb]), j < adv[i].next
               PROVE  succ[stack[i].bb][j] \in visited'
    BY <1>4
  <2>1. CASE j < stack[i].next
    BY <1>0, <1>3, <2>1 DEF WalkInv
  <2>2. CASE ~(j < stack[i].next)
    <3>1. i = n
      BY <1>4, <2>2
    <3>2. j = Top.next
      <4>1. j < Top.next + 1 /\ ~(j < Top.next)
        BY <1>1, <1>4, <2>2, <3>1
      <4>2. j \in Int
        OBVIOUS
      <4> QED BY <1>1, <4>1, <4>2
    <3> QED BY <1>1, <1>3, <3>1, <3>2
  <2> QED BY <2>1, <2>2
<1>6. \A i \in 1..Len(stack') : \A j \in 1..Len(succ[stack'[i].bb]) :
         j < stack'[i].next => succ[stack'[i].bb][j] \in visited'
  <2>1. CASE c \in visited
    <3>1. stack' = adv
      BY <2>1 DEF VisitSuccessor, adv
    <3> QED BY <1>4, <1>5, <3>1
  <2>2. CASE c \notin visited
    <3>1. stack' = Append(adv, e)
      BY <2>2 DEF VisitSuccessor, adv
    <3>2. e.bb = c /\ e.next = 1
      OBVIOUS
    <3> HIDE DEF e, n, c
    <3>3. /\ Len(stack') = n + 1 /\ \A i \in 1..n : stack'[i] = adv[i]
          /\ stack'[n + 1] = e
      BY <1>4, <3>1
    <3> SUFFICES ASSUME NEW i \in 1..(n + 1), NEW j \in 1..Len(succ[stack'[i].bb]),
                        j < stack'[i].next
                 PROVE  succ[stack'[i].bb][j] \in visited'
      BY <3>3
    <3>4. CASE i \in 1..n
      BY <1>5, <3>3, <3>4
    <3>5. CASE i = n + 1
      <4>1. stack'[i].next = 1
        BY <3>2, <3>3, <3>5
      <4>2. j < 1 /\ j \in Int /\ j >= 1
        BY <4>1
      <4> QED BY <4>2
    <3>6. i \in 1..n \/ i = n + 1
      BY <1>1
    <3> QED BY <3>4, <3>5, <3>6
  <2> QED BY <2>1, <2>2
<1> QED BY <1>0, <1>2, <1>3, <1>6 DEF WalkInv

\* A finished block has all its successors visited, and at the end what is
\* visited is finished.
LEMMA FinishWalks == IInv /\ WalkInv /\ FinishVisit => WalkInv'
<1> SUFFICES ASSUME IInv, WalkInv, FinishVisit PROVE WalkInv'
  OBVIOUS
<1> DEFINE n == Len(stack)
           s == succ[Top.bb]
<1>0. pc = "visit" /\ TypeOK /\ StackInv /\ UNCHANGED <<succ, visited>>
  BY DEF FinishVisit, IInv, VisitInv, graph
<1>1. /\ n \in Nat /\ n >= 1 /\ n \in 1..n /\ stack \in Seq([bb : Block, next : Nat \ {0}])
      /\ Top = stack[n] /\ Top.bb \in Block /\ Top.next \in Nat \ {0} /\ s \in Seq(Block)
  BY <1>0, TopIs DEF TypeOK
<1>2. Listed' = Listed \cup {Top.bb}
  BY ListGrows
<1>3. ToSet(s) \subseteq visited
  <2> SUFFICES ASSUME NEW j \in 1..Len(s) PROVE s[j] \in visited
    BY <1>1 DEF ToSet
  <2>1. j < Top.next
    <3>1. Top.next > Len(s) /\ Len(s) \in Nat
      BY <1>1 DEF FinishVisit
    <3> QED BY <1>1, <3>1
  <2> QED BY <1>0, <1>1, <2>1 DEF WalkInv
<1>4. \A b \in Listed' : ToSet(succ[b]) \subseteq visited
  BY <1>0, <1>2, <1>3 DEF WalkInv
<1>5. CASE n > 1
  <2>1. pc' = "visit" /\ stack' = Front(stack)
    BY <1>0, <1>5 DEF FinishVisit
  <2>2. Len(stack') = n - 1 /\ \A i \in 1..(n - 1) : stack'[i] = stack[i]
    BY <1>1, <2>1, FrontSeq
  <2>3. \A i \in 1..(n - 1) : i \in 1..n
    BY <1>1
  <2>4. \A i \in 1..Len(stack') : \A j \in 1..Len(succ[stack'[i].bb]) :
           j < stack'[i].next => succ[stack'[i].bb][j] \in visited
    BY <1>0, <2>2, <2>3 DEF WalkInv
  <2> QED BY <1>0, <1>4, <2>1, <2>4 DEF WalkInv
<1>6. CASE n = 1
  <2>1. pc' = "block"
    BY <1>6 DEF FinishVisit
  <2>2. visited \subseteq Listed'
    <3>1. \A b \in visited : b \in Listed \/ OnStack(b)
      BY <1>0 DEF StackInv
    <3>2. \A i \in 1..n : i = n
      BY <1>6
    <3> QED BY <1>1, <1>2, <3>1, <3>2 DEF OnStack
  <2> QED BY <1>0, <1>4, <2>1, <2>2 DEF WalkInv
<1> HIDE DEF n
<1> QED BY <1>1, <1>5, <1>6

\* The first block with an idom is the entry, reached around every other.
LEMMA FinishAvoids == IInv /\ FlowInv /\ FinishVisit => AvoidInv'
<1> SUFFICES ASSUME IInv, FlowInv, FinishVisit PROVE AvoidInv'
  OBVIOUS
<1>0. UNCHANGED succ /\ Entry \in Block /\ Entry # NoBlock
  BY NAssumption DEF FinishVisit, graph, Entry, Block, NoBlock
<1>1. CASE Len(stack) > 1
  BY <1>1 DEF FinishVisit, AvoidInv
<1>2. CASE ~(Len(stack) > 1)
  <2>1. idom' = [b \in BlockOrNull |-> IF b = Entry THEN Entry ELSE NoBlock]
    BY <1>2 DEF FinishVisit
  <2>2. \A b \in Block : idom'[b] # NoBlock => b = Entry
    BY <2>1 DEF BlockOrNull
  <2>3. idom' \in Trees
    BY <1>0, <2>1 DEF Trees, BlockOrNull
  <2>4. Anc(idom', Entry, Entry)
    BY <1>0, <2>3, AncSelf
  <2>5. \A d \in Block : ~Anc(idom', d, Entry) => Entry \in ReachedAvoiding(succ, d)
    BY <2>4, EntryAvoids
  <2>6. Entry \in Reached(succ)
    BY <1>0, EntryAvoids DEF Reached
  <2> QED BY <1>0, <2>2, <2>5, <2>6 DEF AvoidInv
<1> QED BY <1>1, <1>2

\* The other steps keep the list and the tree.
LEMMA OthersKeep ==
  ASSUME IInv, [Next]_vars, ~VisitSuccessor, ~FinishVisit
  PROVE  /\ UNCHANGED <<succ, pre, reverse_post_order, visited, stack, post_order_id>>
         /\ Listed' = Listed /\ (pc' = "visit" <=> pc = "visit")
         /\ ~CommitIdom => idom' = idom
<1>1. UNCHANGED <<succ, pre, reverse_post_order, visited, stack, post_order_id>>
  BY DEF Next, CreateReversePostOrder, CreateIdom, CreateDominanceFrontier,
         SkipRoot, PickPredecessor, JoinPredecessor, Climb, Meet, CommitIdom, EndPass,
         FrontierBlock, RunUp, RunnerArrives, EndFrontier, BuildTree, vars, graph, walk
<1>2. pc' = "visit" <=> pc = "visit"
  BY DEF Next, CreateReversePostOrder, CreateIdom, CreateDominanceFrontier, NextBlock,
         SkipRoot, PickPredecessor, JoinPredecessor, Climb, Meet, CommitIdom, EndPass,
         FrontierBlock, RunUp, RunnerArrives, EndFrontier, BuildTree, vars
<1>3. ~CommitIdom => idom' = idom
  BY DEF Next, CreateReversePostOrder, CreateIdom, CreateDominanceFrontier,
         SkipRoot, PickPredecessor, JoinPredecessor, Climb, Meet, EndPass,
         FrontierBlock, RunUp, RunnerArrives, EndFrontier, BuildTree, vars
<1> QED BY <1>1, <1>2, <1>3 DEF Listed, Size

Paths == FlowInv /\ WalkInv /\ AvoidInv

\* From the first step on, what is reached and avoided agrees with the tree.
LEMMA PathsHold == Spec => []Paths
<1>1. Init => Paths
  <2> SUFFICES ASSUME Init PROVE Paths
    OBVIOUS
  <2>1. FlowInv
    <3>1. Block \ {Entry} = 2..N /\ Block = 1..N
      BY NAssumption DEF Block, Entry
    <3>2. succ \in [Block -> Seq(Block \ {Entry})]
      BY GraphsAssumption DEF Init
    <3> QED BY <3>1, <3>2 DEF FlowInv, FlowGraphs
  <2>2. WalkInv
    <3>1. Listed = {} /\ Len(stack) = 1 /\ stack[1].next = 1 /\ pc = "visit"
      BY DEF Init, Listed, Size
    <3>2. \A i \in 1..Len(stack) : i = 1
      BY <3>1
    <3> QED BY <3>1, <3>2 DEF WalkInv
  <2> QED BY <2>1, <2>2 DEF Paths, AvoidInv, Init
<1>2. IInv /\ Paths /\ [Next]_vars => Paths'
  <2> SUFFICES ASSUME IInv, FlowInv, WalkInv, AvoidInv, [Next]_vars PROVE Paths'
    BY DEF Paths
  <2>1. CASE VisitSuccessor
    <3>1. UNCHANGED succ /\ pc' = "visit"
      BY <2>1 DEF VisitSuccessor, graph
    <3> QED BY <2>1, <3>1, VisitWalks DEF Paths, FlowInv, AvoidInv
  <2>2. CASE FinishVisit
    <3>1. UNCHANGED succ
      BY <2>2 DEF FinishVisit, graph
    <3> QED BY <2>2, <3>1, FinishWalks, FinishAvoids DEF Paths, FlowInv
  <2>3. CASE ~VisitSuccessor /\ ~FinishVisit
    <3>1. /\ UNCHANGED <<succ, stack, visited>> /\ Listed' = Listed
          /\ (pc' = "visit" <=> pc = "visit") /\ (~CommitIdom => idom' = idom)
      BY <2>3, OthersKeep
    <3>2. WalkInv' /\ FlowInv'
      BY <3>1 DEF WalkInv, FlowInv
    <3>3. AvoidInv'
      <4>1. CASE CommitIdom
        BY <4>1, CommitAvoids
      <4>2. CASE ~CommitIdom
        BY <3>1, <4>2 DEF AvoidInv
      <4> QED BY <4>1, <4>2
    <3> QED BY <3>2, <3>3 DEF Paths
  <2> QED BY <2>1, <2>2, <2>3
<1> QED BY <1>1, <1>2, Invariant, PTL DEF Spec


-----------------------------------------------------------------------------
(* The chain of idoms of a block holds all its ancestors: numbers rise along  *)
(* it, so it ends at the entry within N steps.                                *)

\* No block is listed twice.
LEMMA SizeBound ==
  ASSUME IInv, pc # "visit"
  PROVE  Size <= N
<1> SUFFICES ASSUME Size > N PROVE FALSE
  BY ListFacts, NAssumption
<1> DEFINE S == 1..Size
           T == 1..N
           f == reverse_post_order
<1>1. Size \in Nat /\ N \in Nat /\ f \in [S -> T] /\ \A b \in S : post_order_id[f[b]] = Size - b
  <2>1. f \in Seq(Block) /\ Size = Len(f) /\ \A i \in S : f[i] \in T
    BY ListFacts DEF Size, Block
  <2>2. f = [i \in S |-> f[i]]
    BY <2>1
  <2>3. f \in [S -> T]
    BY <2>1, <2>2
  <2>4. Size \in Nat /\ N \in Nat /\ \A b \in S : post_order_id[f[b]] = Size - b
    BY ListFacts, NAssumption DEF IInv, OrderInv
  <2> QED BY <2>3, <2>4
<1>2. IsFiniteSet(S) /\ Cardinality(S) = Size
  BY <1>1, FS_Interval
<1>3. IsFiniteSet(T) /\ Cardinality(T) = N
  BY <1>1, FS_Interval
<1>4. Cardinality(T) < Cardinality(S)
  BY <1>1, <1>2, <1>3
<1>5. PICK a \in S, b \in S : a # b /\ f[a] = f[b]
  <2> HIDE DEF S, T, f
  <2> QED BY <1>1, <1>2, <1>3, <1>4, FS_PigeonHole
<1>6. Size - a = Size - b
  BY <1>1, <1>5
<1> QED BY <1>1, <1>5, <1>6

\* The recursive function of Chain, and that it exists.
Up(n, t, b, f) == f = [i \in 0..n |-> IF i = 0 THEN b ELSE t[f[i - 1]]]
LEMMA UpExists ==
  ASSUME NEW n \in Nat, NEW t, NEW b
  PROVE  \E f : Up(n, t, b, f)
<1> DEFINE P == {m \in 0..n : \E f : Up(m, t, b, f)}
<1>1. 0 \in P
  <2> DEFINE f == [i \in 0..0 |-> b]
  <2>1. Up(0, t, b, f)
    BY DEF Up
  <2> QED BY <2>1
<1>2. ASSUME NEW m \in 0..(n - 1), m \in P PROVE m + 1 \in P
  <2> PICK f : Up(m, t, b, f)
    BY <1>2
  <2>1. m \in Nat /\ m + 1 \in 0..n
    OBVIOUS
  <2> DEFINE g == [j \in 0..(m + 1) |-> IF j <= m THEN f[j] ELSE t[f[m]]]
  <2>2. ASSUME NEW j \in 0..(m + 1)
        PROVE  g[j] = IF j = 0 THEN b ELSE t[g[j - 1]]
    <3>1. CASE j <= m
      <4>1. j \in 0..m /\ g[j] = f[j]
        BY <2>1, <3>1
      <4>2. f[j] = IF j = 0 THEN b ELSE t[f[j - 1]]
        BY <4>1 DEF Up
      <4>3. j # 0 => g[j - 1] = f[j - 1]
        BY <2>1, <3>1
      <4> HIDE DEF g
      <4> QED BY <4>1, <4>2, <4>3
    <3>2. CASE ~(j <= m)
      <4>1. j = m + 1 /\ j # 0 /\ j - 1 = m
        BY <2>1, <3>2
      <4>2. g[j] = t[f[m]] /\ g[m] = f[m]
        BY <2>1, <3>2
      <4> HIDE DEF g
      <4> QED BY <4>1, <4>2
    <3> QED BY <3>1, <3>2
  <2>3. g = [j \in 0..(m + 1) |-> IF j = 0 THEN b ELSE t[g[j - 1]]]
    <3>1. DOMAIN g = 0..(m + 1) /\ g = [j \in 0..(m + 1) |-> g[j]]
      OBVIOUS
    <3> HIDE DEF g
    <3> QED BY <2>2, <3>1
  <2>4. Up(m + 1, t, b, g)
    <3> HIDE DEF g
    <3> QED BY <2>3 DEF Up
  <2> HIDE DEF g
  <2> QED BY <2>1, <2>4
<1>3. n \in 0..n
  OBVIOUS
<1>4. n \in P
  <2> HIDE DEF P
  <2> QED BY <1>1, <1>2, <1>3, UpTo
<1> QED BY <1>4

\* The chain of a block with an idom is closed under idoms.
LEMMA ChainCloses ==
  ASSUME IInv, pc # "visit", NEW b \in Block, idom[b] # NoBlock
  PROVE  Chain(b) \in SUBSET Block /\ b \in Chain(b) /\ UpClosed(idom, Chain(b))
<1> DEFINE F(f) == Up(N, idom, b, f)
           up == CHOOSE f : F(f)
           C == {up[i] : i \in 0..N} \ {NoBlock}
<1>1. N \in Nat \ {0} /\ idom \in Trees /\ Climbs(idom, post_order_id) /\ NoBlock \notin Block
  BY ListFacts, NAssumption DEF NoBlock, Block
<1>2. Up(N, idom, b, up)
  BY <1>1, UpExists
<1>3. Chain(b) = C
  BY DEF Chain, Up
<1> HIDE DEF up
<1>4. up[0] = b /\ \A i \in 1..N : up[i] = idom[up[i - 1]]
  BY <1>1, <1>2 DEF Up
<1>5. \A x \in Block : idom[x] # NoBlock =>
        /\ idom[x] \in Block /\ idom[idom[x]] # NoBlock
        /\ x = Entry \/ post_order_id[idom[x]] > post_order_id[x]
        /\ x = Entry => idom[x] = x
  BY <1>1 DEF Climbs, Trees, BlockOrNull, Entry
<1>6. \A x \in Block : post_order_id[x] \in Nat
  BY ListFacts
<1> DEFINE P == {i \in 0..N : /\ up[i] \in Block /\ idom[up[i]] # NoBlock
                              /\ up[i] = Entry \/ post_order_id[up[i]] >= i}
<1>7. 0 \in P
  BY <1>1, <1>4, <1>6
<1>8. ASSUME NEW i \in 0..(N - 1), i \in P PROVE i + 1 \in P
  <2>1. i + 1 \in 1..N /\ i + 1 \in 0..N /\ i \in Nat /\ (i + 1) - 1 = i
    BY <1>1
  <2>2. up[i + 1] = idom[up[i]]
    BY <1>4, <2>1
  <2>3. /\ up[i] \in Block /\ idom[up[i]] # NoBlock
        /\ up[i] = Entry \/ post_order_id[up[i]] >= i
    BY <1>8
  <2>4. up[i + 1] \in Block /\ idom[up[i + 1]] # NoBlock
    BY <1>5, <2>2, <2>3
  <2>5. up[i + 1] = Entry \/ post_order_id[up[i + 1]] >= i + 1
    <3>1. CASE up[i] = Entry
      BY <1>5, <2>2, <2>3, <3>1
    <3>2. CASE up[i] # Entry
      <4>1. post_order_id[up[i + 1]] > post_order_id[up[i]] /\ post_order_id[up[i]] >= i
        BY <1>5, <2>2, <2>3, <3>2
      <4>2. post_order_id[up[i + 1]] \in Nat /\ post_order_id[up[i]] \in Nat
        BY <1>6, <2>3, <2>4
      <4> QED BY <2>1, <4>1, <4>2
    <3> QED BY <3>1, <3>2
  <2> QED BY <2>1, <2>4, <2>5
<1>9. \A i \in 0..N : i \in P
  <2> HIDE DEF P
  <2> QED BY <1>1, <1>7, <1>8, UpTo
<1>10. C \in SUBSET Block /\ b \in C
  BY <1>1, <1>4, <1>9
<1>11. up[N] = Entry
  <2>1. N \in 0..N
    BY <1>1
  <2>2. /\ up[N] \in Block /\ idom[up[N]] # NoBlock
        /\ up[N] = Entry \/ post_order_id[up[N]] >= N
    BY <1>9, <2>1
  <2>3. up[N] \in Listed
    BY <2>2 DEF IInv, TreeInv
  <2>4. post_order_id[up[N]] < Size
    <3>1. PICK i \in 1..Size : up[N] = reverse_post_order[i]
      BY <2>3 DEF Listed
    <3>2. post_order_id[up[N]] = Size - i
      BY <3>1 DEF IInv, OrderInv
    <3> QED BY <3>2, ListFacts
  <2>5. Size <= N /\ Size \in Nat /\ post_order_id[up[N]] \in Nat
    BY <1>6, <2>2, SizeBound, ListFacts
  <2> QED BY <1>1, <2>2, <2>4, <2>5
<1>12. ASSUME NEW x \in C PROVE idom[x] \in C
  <2>1. PICK i \in 0..N : x = up[i]
    OBVIOUS
  <2>2. x \in Block /\ idom[x] \in Block
    BY <1>5, <1>9, <2>1
  <2>3. CASE i = N
    BY <1>1, <1>11, <2>1, <2>3 DEF Climbs
  <2>4. CASE i # N
    <3>1. i + 1 \in 1..N /\ i + 1 \in 0..N /\ (i + 1) - 1 = i
      BY <1>1, <2>4
    <3>2. up[i + 1] = idom[x]
      BY <1>4, <2>1, <3>1
    <3> QED BY <1>1, <2>2, <3>1, <3>2
  <2> QED BY <2>3, <2>4
<1> HIDE DEF C
<1> QED BY <1>3, <1>10, <1>12 DEF UpClosed

\* Whenever create_idom turns to a block, the dominators of every block with
\* an idom are on its chain of idoms: no pass climbs beyond the answer.
THEOREM DominatorsStay == Spec => []DominatorsOnChain
<1>1. IInv /\ Paths => DominatorsOnChain
  <2> SUFFICES ASSUME IInv, Paths, pc = "block", NEW b \in Reached(succ), idom[b] # NoBlock,
                      NEW d \in DominatorsOf(succ, b)
               PROVE  d \in Chain(b)
    BY DEF DominatorsOnChain
  <2>1. d \in Block /\ b \notin ReachedAvoiding(succ, d)
    BY DEF DominatorsOf
  <2>2. b \in Block
    BY ReachedIs, NAssumption DEF Paths, FlowInv, Reached, Avoiding, Block
  <2>3. Anc(idom, d, b)
    BY <2>1, <2>2 DEF Paths, AvoidInv
  <2>4. Chain(b) \in SUBSET Block /\ b \in Chain(b) /\ UpClosed(idom, Chain(b))
    BY <2>2, ChainCloses
  <2> HIDE DEF Chain
  <2> QED BY <2>3, <2>4 DEF Anc
<1> QED BY Invariant, PathsHold, <1>1, PTL

-----------------------------------------------------------------------------
(* The last pass.  While a pass changes nothing, the idom of what it has      *)
(* handled is a common ancestor of the predecessors, so after the last pass   *)
(* that holds of every block of the list.                                     *)

Settled == pc \in {"frontier", "runner", "tree", "done"}
Joined(b) == /\ idom[b] # NoBlock
             /\ b # Entry => \A p \in Ready(b) : Anc(idom, idom[b], p)
QuietInv ==
  /\ Looping /\ ~changed => \A b \in Handled : Joined(b)
  /\ Settled => \A b \in Listed : Joined(b)

\* What stays joined: all of it, when neither the tree nor the graph changes.
LEMMA JoinedStays ==
  ASSUME UNCHANGED <<pre, idom>>, NEW b
  PROVE  Joined(b)' <=> Joined(b)
BY DEF Joined, Ready

\* Setting an idom ends the silence, or the block is joined already.
LEMMA CommitQuiet == IInv /\ QuietInv /\ CommitIdom => QuietInv'
<1> SUFFICES ASSUME IInv, QuietInv, CommitIdom PROVE QuietInv'
  OBVIOUS
<1>1. /\ pc = "preds" /\ Looping /\ pos <= Size /\ bb \in Block /\ new_idom \in Block
      /\ \A p \in Ready(bb) : Anc(idom, new_idom, p)
      /\ idom' = [idom EXCEPT ![bb] = new_idom] /\ UNCHANGED <<pre, reverse_post_order>>
      /\ pos' = pos + 1 /\ pc' = "block" /\ changed' = (changed \/ idom[bb] # new_idom)
  BY CommitFacts DEF graph, walk, CommitIdom
<1>2. ~Settled' /\ idom \in Trees /\ NoBlock \notin Block
  BY <1>1, ListFacts DEF Settled, NoBlock, Block
<1>3. Handled' = Handled \cup {bb}
  BY <1>1, HandledGrows
<1>4. ASSUME ~changed' PROVE \A b \in Handled' : Joined(b)'
  <2>1. ~changed /\ idom[bb] = new_idom
    BY <1>1, <1>4
  <2>2. idom' = idom
    <3>1. \A x \in BlockOrNull : [idom EXCEPT ![bb] = new_idom][x] = idom[x]
      BY <1>2, <2>1 DEF Trees
    <3>2. [idom EXCEPT ![bb] = new_idom] \in [BlockOrNull -> BlockOrNull]
      BY <1>1, <1>2 DEF Trees, BlockOrNull
    <3> QED BY <1>1, <1>2, <3>1, <3>2 DEF Trees
  <2>3. Joined(bb)
    BY <1>1, <1>2, <2>1 DEF Joined
  <2>4. \A b \in Handled : Joined(b)
    BY <1>1, <2>1 DEF QuietInv
  <2> QED BY <1>1, <1>3, <2>2, <2>3, <2>4, JoinedStays
<1> QED BY <1>2, <1>4 DEF QuietInv

\* The end of a pass: all of the list has been handled.
LEMMA EndPassQuiet == IInv /\ QuietInv /\ EndPass => QuietInv'
<1> SUFFICES ASSUME IInv, QuietInv, EndPass PROVE QuietInv'
  OBVIOUS
<1>1. /\ pc = "block" /\ Looping /\ pos > Size /\ pos' = 1 /\ changed' = FALSE
      /\ pc' = IF changed THEN "block" ELSE "frontier"
      /\ UNCHANGED <<pre, idom, reverse_post_order>>
  BY DEF EndPass, graph, walk, Looping, Size
<1>2. pos \in 1..(Size + 1) /\ Size \in Nat
  BY <1>1, ListFacts DEF IInv, PassInv
<1>3. Handled = Listed
  <2>1. pos - 1 = Size
    BY <1>1, <1>2
  <2> QED BY <2>1 DEF Handled, Listed
<1>4. Listed' = Listed
  BY <1>1 DEF Listed, Size
<1>5. CASE changed
  <2>1. Handled' = {} /\ ~Settled'
    BY <1>1, <1>5 DEF Handled, Settled
  <2> QED BY <2>1 DEF QuietInv
<1>6. CASE ~changed
  <2>1. ~Looping'
    BY <1>1, <1>6 DEF Looping
  <2>2. \A b \in Listed : Joined(b)
    BY <1>1, <1>3, <1>6 DEF QuietInv
  <2> QED BY <1>1, <1>4, <2>1, <2>2, JoinedStays DEF QuietInv
<1> QED BY <1>5, <1>6

\* The root needs no predecessor.
LEMMA SkipRootQuiet == IInv /\ QuietInv /\ SkipRoot => QuietInv'
<1> SUFFICES ASSUME IInv, QuietInv, SkipRoot PROVE QuietInv'
  OBVIOUS
<1>1. /\ pc = "block" /\ Looping /\ pos <= Size /\ bb = Entry /\ pos' = pos + 1
      /\ pc' = "block" /\ UNCHANGED <<pre, idom, reverse_post_order, changed>>
  BY DEF SkipRoot, NextBlock, graph, walk, Looping, Size
<1>2. Handled' = Handled \cup {Entry}
  BY <1>1, HandledGrows
<1>3. Joined(Entry)
  BY <1>1, ListFacts DEF Joined, Climbs
<1>4. ~Settled'
  BY <1>1 DEF Settled
<1> QED BY <1>1, <1>2, <1>3, <1>4, JoinedStays DEF QuietInv

\* The other steps of a pass handle nothing; the first pass has handled
\* nothing, and the results are built from a tree that stays.
LEMMA OthersQuiet ==
  ASSUME IInv, IInv', QuietInv, [Next]_vars, ~CommitIdom, ~EndPass, ~SkipRoot
  PROVE  QuietInv'
<1>1. CASE VisitSuccessor
  <2>1. pc' = "visit"
    BY <1>1 DEF VisitSuccessor
  <2> QED BY <2>1 DEF QuietInv, Looping, Settled
<1>2. CASE FinishVisit
  <2>1. pos' = 1 /\ pc' \in {"visit", "block"}
    BY <1>2 DEF FinishVisit, IInv, VisitInv
  <2>2. Handled' = {}
    BY <2>1 DEF Handled
  <2> QED BY <2>1, <2>2 DEF QuietInv, Settled
<1>3. CASE ~VisitSuccessor /\ ~FinishVisit
  <2>1. UNCHANGED <<pre, reverse_post_order, idom>> /\ Listed' = Listed
    BY <1>3, OthersKeep
  <2>2. ASSUME Looping' PROVE Looping /\ UNCHANGED <<pos, changed>>
    BY <1>3, <2>2 DEF Looping, Next, CreateReversePostOrder, CreateIdom,
       CreateDominanceFrontier, PickPredecessor, JoinPredecessor, Climb, Meet,
       FrontierBlock, RunUp, RunnerArrives, EndFrontier, BuildTree, vars
  <2>3. ASSUME Settled' PROVE Settled
    BY <1>3, <2>3 DEF Settled, Next, CreateReversePostOrder, CreateIdom,
       CreateDominanceFrontier, PickPredecessor, JoinPredecessor, Climb, Meet,
       FrontierBlock, RunUp, RunnerArrives, EndFrontier, BuildTree, vars
  <2>4. Looping' => Handled' = Handled
    BY <2>1, <2>2 DEF Handled
  <2> QED BY <2>1, <2>2, <2>3, <2>4, JoinedStays DEF QuietInv
<1> QED BY <1>1, <1>2, <1>3

-----------------------------------------------------------------------------
(* Once the passes are done, the ancestors of a block in the tree are its     *)
(* dominators.                                                               *)

\* Nothing else is above a block without an idom, or above the entry.
LEMMA AncAlone ==
  ASSUME NEW t \in Trees, NEW b \in Block, t[b] \in {NoBlock, b}, NEW c, Anc(t, c, b)
  PROVE  c = b
<1>1. {b} \in SUBSET Block /\ UpClosed(t, {b})
  BY DEF UpClosed
<1> QED BY <1>1 DEF Anc

Exact ==
  /\ Listed = Reached(succ) /\ \A b \in Block : idom[b] # NoBlock <=> b \in Reached(succ)
  /\ \A b \in Reached(succ) : \A d : Dom(succ, d, b) <=> d \in Block /\ Anc(idom, d, b)

\* The list holds what is reached.
LEMMA ListedReached ==
  ASSUME IInv, Paths, QuietInv, Settled
  PROVE  /\ Listed = Reached(succ)
         /\ \A b \in Block : idom[b] # NoBlock <=> b \in Reached(succ)
<1> DEFINE n == N
           d == NoBlock
<1>1. /\ pc # "visit" /\ Listed \subseteq Block /\ Entry \in Listed /\ n \in Nat \ {0}
      /\ succ \in FlowGraphs(n) /\ Entry = 1
  BY ListFacts, NAssumption DEF Settled, Paths, FlowInv, Entry
<1>2. \A b \in Listed : \A c \in ToSet(succ[b]) : c \in Listed
  BY <1>1 DEF Paths, WalkInv
<1>3. Avoiding(n, succ, d) \subseteq Listed
  <2> HIDE DEF d, n
  <2> QED BY <1>1, <1>2, AvoidingLeast
<1>4. Reached(succ) = Avoiding(n, succ, d)
  BY <1>1, ReachedIs DEF Reached
<1>5. \A b \in Listed : idom[b] # NoBlock
  BY DEF QuietInv, Joined
<1>6. \A b \in Block : idom[b] # NoBlock => b \in Reached(succ)
  BY <1>1 DEF Paths, AvoidInv
<1> HIDE DEF d, n
<1> QED BY <1>1, <1>3, <1>4, <1>5, <1>6

\* Around an ancestor there is no path.
LEMMA AncestorsDominate ==
  ASSUME IInv, Paths, QuietInv, Settled, NEW b \in Listed, NEW d \in Block, Anc(idom, d, b)
  PROVE  b \notin ReachedAvoiding(succ, d)
<1> DEFINE n == N
           S == {x \in Listed : ~Anc(idom, d, x)}
<1>1. /\ pc # "visit" /\ Listed \subseteq Block /\ Entry \in Listed /\ n \in Nat \ {0}
      /\ succ \in FlowGraphs(n) /\ Entry = 1 /\ idom \in Trees /\ idom[Entry] = Entry
      /\ Consistent(succ, pre) /\ NoBlock \notin Block
  BY ListFacts, NAssumption DEF Settled, Paths, FlowInv, Entry, IInv, Climbs, NoBlock, Block
<1>2. d # 1 => 1 \in S
  BY <1>1, AncAlone
<1>3. ASSUME NEW x \in S, NEW y \in ToSet(succ[x]), y # d PROVE y \in S
  <2>1. x \in Listed /\ x \in Block /\ ~Anc(idom, d, x) /\ y \in Listed /\ y \in Block
    BY <1>1, <1>3 DEF Paths, WalkInv
  <2>2. y # Entry
    <3>1. succ[x] \in Seq(2..n)
      BY <1>1, <2>1 DEF FlowGraphs, Block
    <3> DEFINE q == succ[x]
               T == 2..n
    <3>2. PICK j \in DOMAIN q : y = q[j]
      BY DEF ToSet
    <3>3. q \in Seq(T)
      BY <3>1
    <3> HIDE DEF q, T
    <3>4. y \in T
      BY <3>2, <3>3
    <3> QED BY <1>1, <3>4 DEF T
  <2>3. x \in Ready(y)
    <3>1. x \in ToSet(pre[y])
      BY <1>1, <2>1 DEF Consistent, Preds
    <3>2. idom[x] # NoBlock
      BY <2>1 DEF QuietInv, Joined
    <3> QED BY <3>1, <3>2 DEF Ready
  <2>4. idom[y] # NoBlock /\ Anc(idom, idom[y], x)
    BY <2>1, <2>2, <2>3 DEF QuietInv, Joined
  <2>5. ASSUME Anc(idom, d, y) PROVE FALSE
    <3>1. idom[y] \in Block /\ Anc(idom, d, idom[y])
      BY <1>1, <1>3, <2>1, <2>4, <2>5, AncStep
    <3> QED BY <1>1, <2>1, <2>4, <3>1, AncTrans
  <2> QED BY <2>1, <2>5
<1>4. Avoiding(n, succ, d) \subseteq S
  <2> HIDE DEF S, n
  <2> QED BY <1>1, <1>2, <1>3, AvoidingLeast
<1>5. ReachedAvoiding(succ, d) = Avoiding(n, succ, d)
  BY <1>1, ReachedIs
<1> QED BY <1>4, <1>5

\* The tree is exact.
LEMMA TreeExact == IInv /\ Paths /\ QuietInv /\ Settled => Exact
<1> SUFFICES ASSUME IInv, Paths, QuietInv, Settled PROVE Exact
  OBVIOUS
<1>1. /\ Listed = Reached(succ)
      /\ \A b \in Block : idom[b] # NoBlock <=> b \in Reached(succ)
  BY ListedReached
<1>2. Listed \subseteq Block /\ pc # "visit"
  BY ListFacts DEF Settled
<1>3. ASSUME NEW b \in Reached(succ), NEW d \in Block
      PROVE  b \notin ReachedAvoiding(succ, d) <=> Anc(idom, d, b)
  <2>1. Anc(idom, d, b) => b \notin ReachedAvoiding(succ, d)
    BY <1>1, AncestorsDominate
  <2>2. ~Anc(idom, d, b) => b \in ReachedAvoiding(succ, d)
    BY <1>1, <1>2 DEF Paths, AvoidInv
  <2> QED BY <2>1, <2>2
<1>4. \A b \in Reached(succ) : \A d : Dom(succ, d, b) <=> d \in Block /\ Anc(idom, d, b)
  BY <1>3 DEF Dom, DominatorsOf
<1> QED BY <1>1, <1>4 DEF Exact

\* The idom of a block is its immediate dominator.
LEMMA IdomExact ==
  ASSUME IInv, Paths, QuietInv, Settled, NEW b \in Reached(succ), b # Entry
  PROVE  /\ idom[b] = ImmediateDominator(succ, b) /\ idom[b] \in Block /\ idom[b] # b
         /\ \A a : SDom(succ, a, b) <=> Dom(succ, a, idom[b])
<1> DEFINE e == ImmediateDominator(succ, b)
<1>0. Exact /\ succ \in FlowGraphs(N)
  BY TreeExact DEF Paths, FlowInv
<1>1. /\ idom \in Trees /\ Climbs(idom, post_order_id) /\ b \in Block
      /\ post_order_id \in [Block -> Nat] /\ NoBlock \notin Block /\ Ordered(succ)
  BY <1>0, ListFacts, DomOrder DEF Settled, Exact, Ordered, NoBlock, Block
<1>2. /\ idom[b] \in Block /\ idom[b] # NoBlock /\ idom[b] # b
  <2>1. idom[b] # NoBlock
    BY <1>0, <1>1 DEF Exact
  <2>2. idom[b] \in Block /\ post_order_id[idom[b]] > post_order_id[b]
    BY <1>1, <2>1 DEF Climbs
  <2>3. post_order_id[b] \in Nat
    BY <1>1
  <2> QED BY <2>1, <2>2, <2>3
<1>3. SDom(succ, idom[b], b)
  <2>1. Anc(idom, b, b)
    BY <1>1, AncSelf
  <2>2. Anc(idom, idom[b], b)
    BY <1>1, <1>2, <2>1, AncUp
  <2> QED BY <1>0, <1>2, <2>2 DEF Exact, SDom
<1>4. ASSUME NEW a, SDom(succ, a, b) PROVE Dom(succ, a, idom[b])
  <2>1. a \in Block /\ Anc(idom, a, b) /\ a # b
    BY <1>0, <1>4 DEF Exact, SDom
  <2>2. Anc(idom, a, idom[b])
    BY <1>1, <1>2, <2>1, AncStep
  <2>3. idom[b] \in Reached(succ)
    BY <1>1, <1>3 DEF Ordered, SDom
  <2> QED BY <1>0, <2>1, <2>2, <2>3 DEF Exact
<1>5. ASSUME NEW a, Dom(succ, a, idom[b]) PROVE SDom(succ, a, b)
  <2>1. Dom(succ, a, b)
    BY <1>1, <1>3, <1>5 DEF Ordered, SDom
  <2>2. a # b
    BY <1>1, <1>3, <1>5 DEF Ordered, SDom
  <2> QED BY <2>1, <2>2 DEF SDom
<1>6. SDom(succ, e, b) /\ \A a : SDom(succ, a, b) => Dom(succ, a, e)
  BY <1>0, IdomIs
<1>7. Dom(succ, e, idom[b]) /\ Dom(succ, idom[b], e)
  BY <1>3, <1>4, <1>6
<1>8. idom[b] = e
  BY <1>1, <1>7 DEF Ordered
<1> QED BY <1>2, <1>4, <1>5, <1>8

-----------------------------------------------------------------------------
(* The frontier.  The runner that starts at p, a predecessor of y, passes b   *)
(* on its way to the idom of y.                                              *)

OnWay(b, p, y) == Anc(idom, b, p) /\ ~Anc(idom, b, idom[y])
Before(b, y)   == Len(pre[y]) >= 2 /\ \E p \in ToSet(pre[y]) : OnWay(b, p, y)
Now(b, y)      == \/ \E j \in 1..(k - 1) : OnWay(b, pre[y][j], y)
                  \/ Anc(idom, b, pre[y][k]) /\ ~Anc(idom, b, runner)
Passed(b, y)   == \/ y < pos /\ Before(b, y)
                  \/ pc = "runner" /\ y = pos /\ Now(b, y)

RunnerOnWay ==
  /\ Len(pre[pos]) >= 2 /\ k \in 1..Len(pre[pos])
  /\ idom[pre[pos][k]] # NoBlock =>
       runner \in Block /\ Anc(idom, runner, pre[pos][k]) /\ Anc(idom, idom[pos], runner)
  /\ idom[pre[pos][k]] = NoBlock => runner \in {pre[pos][k], NoBlock}
FrontierInv ==
  /\ Settled => \A b, y \in Block : idom[b] # NoBlock => (y \in dom_frontier[b] <=> Passed(b, y))
  /\ ~Settled => \A b \in Block : dom_frontier[b] = {}
  /\ pc = "runner" => RunnerOnWay
  /\ pc \in {"tree", "done"} => pos > N

\* What the steps of the second half leave alone.
SameTree == UNCHANGED <<succ, pre, idom>>

LEMMA OnWayStays ==
  ASSUME SameTree, NEW b, NEW y
  PROVE  /\ Before(b, y)' <=> Before(b, y)
         /\ \A p : OnWay(b, p, y)' <=> OnWay(b, p, y)
BY DEF SameTree, OnWay, Before

\* A runner that starts at a predecessor is on its way.
LEMMA RunnerStarts ==
  ASSUME IInv, Paths, QuietInv, Settled, NEW y \in Block, NEW j \in 1..Len(pre[y])
  PROVE  /\ pre[y][j] \in Block /\ pre[y][j] \in ToSet(pre[y])
         /\ idom[pre[y][j]] # NoBlock =>
              Anc(idom, pre[y][j], pre[y][j]) /\ Anc(idom, idom[y], pre[y][j])
<1> DEFINE p == pre[y][j]
<1>1. /\ pc # "visit" /\ Listed \subseteq Block /\ idom \in Trees
      /\ Consistent(succ, pre) /\ succ \in [1..N -> Seq(2..N)]
  BY ListFacts DEF Settled, IInv, Paths, FlowInv, FlowGraphs
<1>2. p \in ToSet(pre[y])
  BY DEF ToSet
<1>3. p \in Block /\ y \in ToSet(succ[p])
  BY <1>1, <1>2 DEF Consistent, Preds
<1>4. ASSUME idom[p] # NoBlock PROVE Anc(idom, p, p) /\ Anc(idom, idom[y], p)
  <2>1. p \in Listed
    BY <1>1, <1>3, <1>4 DEF IInv, TreeInv
  <2>2. y \in Listed
    BY <1>1, <1>3, <2>1 DEF Paths, WalkInv
  <2>3. y # Entry
    <3>1. p \in Reached(succ) /\ succ \in FlowGraphs(N)
      BY <2>1, ListedReached DEF Paths, FlowInv
    <3> QED BY <1>3, <3>1, EdgeDom
  <2>4. p \in Ready(y)
    BY <1>2, <1>4 DEF Ready
  <2>5. Anc(idom, idom[y], p)
    BY <2>2, <2>3, <2>4 DEF QuietInv, Joined
  <2> QED BY <1>1, <1>3, <2>5, AncSelf
<1> QED BY <1>2, <1>3, <1>4

\* The loop over the blocks begins, or stays away from the blocks.
LEMMA FrontierBegins ==
  ASSUME IInv, FrontierInv, [Next]_vars, ~Settled
  PROVE  FrontierInv'
<1>1. dom_frontier' = dom_frontier
  BY DEF Settled, Next, CreateReversePostOrder, CreateIdom, CreateDominanceFrontier,
         VisitSuccessor, FinishVisit, SkipRoot, PickPredecessor, JoinPredecessor, Climb, Meet,
         CommitIdom, EndPass, FrontierBlock, RunUp, RunnerArrives, EndFrontier, BuildTree,
         vars, results
<1>2. Settled' => pc' = "frontier" /\ pos' = 1
  BY DEF Settled, Next, CreateReversePostOrder, CreateIdom, CreateDominanceFrontier,
         VisitSuccessor, FinishVisit, SkipRoot, PickPredecessor, JoinPredecessor, Climb, Meet,
         CommitIdom, EndPass, FrontierBlock, RunUp, RunnerArrives, EndFrontier, BuildTree,
         vars, NextBlock
<1>3. \A b \in Block : dom_frontier'[b] = {}
  BY <1>1 DEF FrontierInv
<1>4. ASSUME Settled', NEW b \in Block, NEW y \in Block PROVE ~Passed(b, y)'
  <2>1. ~(y < pos')
    BY <1>2, <1>4 DEF Block
  <2> QED BY <1>2, <1>4, <2>1 DEF Passed
<1> QED BY <1>2, <1>3, <1>4 DEF FrontierInv, Settled

\* A block with less than two predecessors is passed over.
LEMMA BlockSkipped ==
  ASSUME IInv, FrontierInv, FrontierBlock, ~(Len(pre[pos]) >= 2)
  PROVE  FrontierInv'
<1>1. /\ pc = "frontier" /\ pc' = "frontier" /\ pos <= N /\ pos' = pos + 1 /\ SameTree
      /\ dom_frontier' = dom_frontier
  BY DEF FrontierBlock, SameTree, graph, results
<1>2. Settled /\ Settled' /\ pos \in Nat
  BY <1>1 DEF Settled, IInv, TypeOK
<1>3. ASSUME NEW b \in Block, NEW y \in Block PROVE Passed(b, y)' <=> Passed(b, y)
  <2>1. Before(b, y) => y # pos
    BY DEF Before
  <2>2. y # pos => (y < pos <=> y < pos')
    BY <1>1, <1>2 DEF Block
  <2>3. y < pos => y < pos'
    BY <1>1, <1>2 DEF Block
  <2> QED BY <1>1, <2>1, <2>2, <2>3, OnWayStays DEF Passed
<1> QED BY <1>1, <1>2, <1>3 DEF FrontierInv, SameTree

\* A runner starts at the first of two or more predecessors.
LEMMA BlockStarts ==
  ASSUME IInv, Paths, QuietInv, FrontierInv, FrontierBlock, Len(pre[pos]) >= 2
  PROVE  FrontierInv'
<1>1. /\ pc = "frontier" /\ pc' = "runner" /\ pos <= N /\ pos' = pos /\ SameTree
      /\ k' = 1 /\ runner' = pre[pos][1] /\ dom_frontier' = dom_frontier
  BY DEF FrontierBlock, SameTree, graph, results
<1>2. Settled /\ Settled' /\ pos \in Block /\ pre[pos] \in Seq(Block)
  <2>1. pos \in Nat \ {0} /\ N \in Nat
    BY NAssumption DEF IInv, TypeOK
  <2>2. pos \in Block
    BY <1>1, <2>1 DEF Block
  <2> QED BY <1>1, <2>2 DEF Settled, IInv, TypeOK
<1>3. 1 \in 1..Len(pre[pos])
  BY <1>2
<1>4. /\ pre[pos][1] \in Block
      /\ idom[pre[pos][1]] # NoBlock =>
           Anc(idom, pre[pos][1], pre[pos][1]) /\ Anc(idom, idom[pos], pre[pos][1])
  BY <1>2, <1>3, RunnerStarts
<1>5. RunnerOnWay'
  BY <1>1, <1>3, <1>4 DEF RunnerOnWay, SameTree
<1>6. ASSUME NEW b \in Block, NEW y \in Block PROVE Passed(b, y)' <=> Passed(b, y)
  <2>1. ~Now(b, pos)'
    <3>1. ~\E j \in 1..(k' - 1) : TRUE
      BY <1>1
    <3> QED BY <1>1, <3>1 DEF Now, SameTree
  <2> QED BY <1>1, <2>1, OnWayStays DEF Passed
<1> QED BY <1>1, <1>2, <1>5, <1>6 DEF FrontierInv, SameTree

\* The runner arrives: it has passed what is on its way.
LEMMA Arrived ==
  ASSUME IInv, FrontierInv, RunnerArrives, NEW b \in Block
  PROVE  Now(b, pos) <=> \E j \in 1..k : OnWay(b, pre[pos][j], pos)
<1>1. runner = idom[pos] /\ k \in Nat \ {0}
  BY DEF RunnerArrives, IInv, TypeOK
<1>2. Now(b, pos) <=> \/ \E j \in 1..(k - 1) : OnWay(b, pre[pos][j], pos)
                      \/ OnWay(b, pre[pos][k], pos)
  BY <1>1 DEF Now, OnWay
<1>3. \A j : j \in 1..k <=> j \in 1..(k - 1) \/ j = k
  BY <1>1
<1> QED BY <1>2, <1>3

\* The next runner starts, or the next block is looked at.
LEMMA ArrivesInv ==
  ASSUME IInv, Paths, QuietInv, FrontierInv, RunnerArrives
  PROVE  FrontierInv'
<1>1. /\ pc = "runner" /\ SameTree /\ dom_frontier' = dom_frontier
  BY DEF RunnerArrives, SameTree, graph, results
<1>2. /\ Settled /\ pos \in Block /\ pre[pos] \in Seq(Block) /\ k \in 1..Len(pre[pos])
      /\ Len(pre[pos]) >= 2
  BY <1>1 DEF Settled, IInv, TypeOK, RunnerInv, FrontierInv, RunnerOnWay
<1>3. CASE k < Len(pre[pos])
  <2>1. pc' = "runner" /\ pos' = pos /\ k' = k + 1 /\ runner' = pre[pos][k + 1]
    BY <1>1, <1>3 DEF RunnerArrives
  <2>2. k + 1 \in 1..Len(pre[pos]) /\ Settled'
    BY <1>2, <1>3, <2>1 DEF Settled
  <2>3. /\ pre[pos][k + 1] \in Block
        /\ idom[pre[pos][k + 1]] # NoBlock =>
             Anc(idom, pre[pos][k + 1], pre[pos][k + 1]) /\ Anc(idom, idom[pos], pre[pos][k + 1])
    <3> DEFINE j == k + 1
    <3>1. j \in 1..Len(pre[pos])
      BY <2>2
    <3> HIDE DEF j
    <3>2. /\ pre[pos][j] \in Block
          /\ idom[pre[pos][j]] # NoBlock =>
               Anc(idom, pre[pos][j], pre[pos][j]) /\ Anc(idom, idom[pos], pre[pos][j])
      BY <1>2, <3>1, RunnerStarts
    <3> QED BY <3>2 DEF j
  <2>4. RunnerOnWay'
    BY <1>1, <1>2, <2>1, <2>2, <2>3 DEF RunnerOnWay, SameTree
  <2>5. ASSUME NEW b \in Block, NEW y \in Block PROVE Passed(b, y)' <=> Passed(b, y)
    <3>1. Now(b, pos) <=> \E j \in 1..k : OnWay(b, pre[pos][j], pos)
      BY Arrived
    <3>2. Now(b, pos)' <=> \E j \in 1..k : OnWay(b, pre[pos][j], pos)
      <4>1. k' - 1 = k
        BY <1>2, <2>1
      <4>2. ~(Anc(idom', b, pre'[pos'][k']) /\ ~Anc(idom', b, runner'))
        BY <1>1, <2>1 DEF SameTree
      <4>3. \A p : OnWay(b, p, pos)' <=> OnWay(b, p, pos)
        BY <1>1, <2>1 DEF OnWay, SameTree
      <4> QED BY <1>1, <2>1, <4>1, <4>2, <4>3 DEF Now, SameTree
    <3> QED BY <1>1, <2>1, <3>1, <3>2, OnWayStays DEF Passed
  <2> QED BY <1>1, <1>2, <2>1, <2>2, <2>4, <2>5 DEF FrontierInv, SameTree
<1>4. CASE ~(k < Len(pre[pos]))
  <2>1. pc' = "frontier" /\ pos' = pos + 1
    BY <1>1, <1>4 DEF RunnerArrives
  <2>2. k = Len(pre[pos]) /\ Settled'
    BY <1>2, <1>4, <2>1 DEF Settled
  <2>3. ASSUME NEW b \in Block, NEW y \in Block PROVE Passed(b, y)' <=> Passed(b, y)
    <3>1. Now(b, pos) <=> \E j \in 1..k : OnWay(b, pre[pos][j], pos)
      BY Arrived
    <3>2. Now(b, pos) <=> Before(b, pos)
      BY <1>2, <2>2, <3>1 DEF Before, ToSet
    <3>3. y < pos' <=> y < pos \/ y = pos
      BY <1>2, <2>1 DEF Block
    <3> QED BY <1>1, <2>1, <3>2, <3>3, OnWayStays DEF Passed
  <2> QED BY <1>1, <1>2, <2>1, <2>2, <2>3 DEF FrontierInv, SameTree
<1> QED BY <1>3, <1>4

\* One step up: the runner has passed one more.
LEMMA StepUp ==
  ASSUME IInv, FrontierInv, RunUp, NEW b \in Block, idom[b] # NoBlock
  PROVE  /\ Now(b, pos)' <=> Now(b, pos) \/ b = runner
         /\ RunnerOnWay'
<1> DEFINE p == pre[pos][k]
<1>1. /\ pc = "runner" /\ runner # idom[pos] /\ runner' = idom[runner] /\ SameTree
      /\ UNCHANGED <<pc, pos, k>>
  BY DEF RunUp, SameTree, graph
<1>2. /\ pos \in Block /\ pre[pos] \in Seq(Block) /\ k \in 1..Len(pre[pos]) /\ Len(pre[pos]) >= 2
  BY <1>1 DEF IInv, TypeOK, RunnerInv, FrontierInv, RunnerOnWay
<1>3. p \in Block
  BY <1>2, InSeq
<1>4. /\ idom \in Trees /\ Climbs(idom, post_order_id) /\ post_order_id \in [Block -> Nat]
      /\ NoBlock \notin Block /\ idom[NoBlock] = NoBlock /\ idom[Entry] = Entry /\ Entry \in Block
  BY <1>1, ListFacts, NAssumption DEF IInv, TreeInv, NoBlock, Block, Climbs, Entry
<1>5. Now(b, pos)' <=> \/ \E j \in 1..(k - 1) : OnWay(b, pre[pos][j], pos)
                       \/ Anc(idom, b, p) /\ ~Anc(idom, b, idom[runner])
  BY <1>1 DEF Now, OnWay, SameTree
<1>6. Now(b, pos) <=> \/ \E j \in 1..(k - 1) : OnWay(b, pre[pos][j], pos)
                      \/ Anc(idom, b, p) /\ ~Anc(idom, b, runner)
  BY DEF Now
<1>7. CASE idom[p] # NoBlock
  <2>1. runner \in Block /\ Anc(idom, runner, p) /\ Anc(idom, idom[pos], runner)
    BY <1>1, <1>7 DEF FrontierInv, RunnerOnWay
  <2>2. idom[runner] # NoBlock /\ idom[runner] \in Block
    BY <1>3, <1>4, <1>7, <2>1, AncHigher DEF Trees, BlockOrNull
  <2>3. runner # Entry
    BY <1>1, <1>4, <2>1, AncAlone
  <2>4. Anc(idom, runner, runner) /\ Anc(idom, idom[runner], runner)
    BY <1>4, <2>1, <2>2, AncSelf, AncUp
  <2>5. ~Anc(idom, runner, idom[runner])
    <3>1. post_order_id[idom[runner]] > post_order_id[runner]
      BY <1>4, <2>1, <2>2, <2>3 DEF Climbs
    <3>2. post_order_id[idom[runner]] \in Nat /\ post_order_id[runner] \in Nat
      BY <1>4, <2>1, <2>2
    <3>3. Anc(idom, runner, idom[runner]) =>
            runner = idom[runner] \/ post_order_id[runner] > post_order_id[idom[runner]]
      BY <1>4, <2>1, <2>2, AncHigher
    <3> QED BY <3>1, <3>2, <3>3
  <2>6. Anc(idom, b, runner) => b = runner \/ Anc(idom, b, idom[runner])
    BY <1>4, <2>1, <2>2, AncStep
  <2>7. Anc(idom, b, idom[runner]) => Anc(idom, b, runner)
    BY <1>4, <2>1, <2>2, <2>4, AncTrans
  <2>8. Now(b, pos)' <=> Now(b, pos) \/ b = runner
    BY <1>5, <1>6, <2>1, <2>4, <2>5, <2>6, <2>7
  <2>9. idom[pos] \in Block
    <3>1. ASSUME idom[pos] \notin Block PROVE FALSE
      <4>1. UpClosed(idom, Block) /\ Block \in SUBSET Block
        BY <1>4 DEF UpClosed, Trees, BlockOrNull
      <4> QED BY <2>1, <3>1, <4>1 DEF Anc
    <3> QED BY <3>1
  <2>10. Anc(idom, idom[pos], idom[runner])
    BY <1>1, <1>4, <2>1, <2>2, <2>9, AncStep
  <2>11. Anc(idom, idom[runner], p)
    BY <1>3, <1>4, <2>1, <2>2, AncUp
  <2>12. RunnerOnWay'
    BY <1>1, <1>2, <1>7, <2>2, <2>10, <2>11 DEF RunnerOnWay, SameTree
  <2> QED BY <2>8, <2>12
<1>8. CASE idom[p] = NoBlock
  <2>1. runner \in {p, NoBlock} /\ idom[runner] = NoBlock
    BY <1>1, <1>4, <1>8 DEF FrontierInv, RunnerOnWay
  <2>2. ~Anc(idom, b, p)
    BY <1>3, <1>4, <1>8, AncAlone
  <2>3. b # runner
    BY <1>4, <1>8, <2>1
  <2>4. RunnerOnWay'
    BY <1>1, <1>2, <1>8, <2>1 DEF RunnerOnWay, SameTree
  <2> QED BY <1>5, <1>6, <2>2, <2>3, <2>4
<1> QED BY <1>7, <1>8

\* RunUp enters the block into the frontier of what the runner leaves.
LEMMA RunUpInv == IInv /\ FrontierInv /\ RunUp => FrontierInv'
<1> SUFFICES ASSUME IInv, FrontierInv, RunUp PROVE FrontierInv'
  OBVIOUS
<1>1. /\ pc = "runner" /\ SameTree /\ UNCHANGED <<pc, pos, k>>
      /\ dom_frontier' = [dom_frontier EXCEPT ![runner] = @ \cup {pos}]
  BY DEF RunUp, SameTree, graph
<1>2. /\ Settled /\ Settled' /\ pos \in Block /\ runner \in BlockOrNull
      /\ dom_frontier \in [BlockOrNull -> SUBSET Block]
  BY <1>1 DEF Settled, IInv, TypeOK, RunnerInv
<1>3. \A b \in Block : \A y : y \in dom_frontier'[b] <=>
        y \in dom_frontier[b] \/ (b = runner /\ y = pos)
  BY <1>1, <1>2 DEF BlockOrNull
<1>4. ASSUME NEW b \in Block, NEW y \in Block, idom[b] # NoBlock
      PROVE  Passed(b, y)' <=> Passed(b, y) \/ (b = runner /\ y = pos)
  <2>1. Now(b, pos)' <=> Now(b, pos) \/ b = runner
    BY <1>4, StepUp
  <2>2. y = pos => (Now(b, y)' <=> Now(b, pos)')
    BY <1>1 DEF Now, OnWay, SameTree
  <2> QED BY <1>1, <2>1, <2>2, OnWayStays DEF Passed
<1>5. RunnerOnWay'
  <2>1. Entry \in Block /\ idom[Entry] # NoBlock
    BY <1>1, ListFacts, NAssumption DEF Climbs, Entry, Block
  <2> QED BY <2>1, StepUp
<1> QED BY <1>1, <1>2, <1>3, <1>4, <1>5 DEF FrontierInv, SameTree

\* The frontier is finished when the last block has been looked at.
LEMMA FrontierEnds ==
  ASSUME IInv, FrontierInv, EndFrontier \/ BuildTree \/ UNCHANGED vars
  PROVE  FrontierInv'
<1>1. /\ SameTree /\ UNCHANGED <<pos, k, runner, dom_frontier>>
      /\ (pc' = pc \/ (pc \in {"frontier", "tree"} /\ pc' \in {"tree", "done"}))
      /\ pc' \in {"tree", "done"} => pc \in {"tree", "done"} \/ pos > N
  <2>1. CASE EndFrontier
    BY <2>1 DEF EndFrontier, SameTree, graph, results
  <2>2. CASE BuildTree
    BY <2>2 DEF BuildTree, SameTree, graph
  <2>3. CASE UNCHANGED vars
    BY <2>3 DEF vars, SameTree
  <2> QED BY <2>1, <2>2, <2>3
<1>2. (Settled' <=> Settled) /\ (pc' = "runner" <=> pc = "runner")
  BY <1>1 DEF Settled
<1>3. \A b, y \in Block : Passed(b, y)' <=> Passed(b, y)
  <2> SUFFICES ASSUME NEW b \in Block, NEW y \in Block PROVE Passed(b, y)' <=> Passed(b, y)
    OBVIOUS
  <2>1. Now(b, y)' <=> Now(b, y)
    BY <1>1 DEF Now, OnWay, SameTree
  <2> QED BY <1>1, <1>2, <2>1, OnWayStays DEF Passed
<1>4. RunnerOnWay' <=> RunnerOnWay
  BY <1>1 DEF RunnerOnWay, SameTree
<1> QED BY <1>1, <1>2, <1>3, <1>4 DEF FrontierInv, SameTree

-----------------------------------------------------------------------------
(* The answer is dominance.                                                  *)

Computing == IInv /\ Paths /\ QuietInv /\ FrontierInv

\* All of it holds at every step.
LEMMA ComputingHolds == Spec => []Computing
<1>1. Init => QuietInv /\ FrontierInv
  <2> SUFFICES ASSUME Init PROVE QuietInv /\ FrontierInv
    OBVIOUS
  <2>1. pc = "visit" /\ \A b \in Block : dom_frontier[b] = {}
    BY DEF Init, BlockOrNull
  <2> QED BY <2>1 DEF QuietInv, FrontierInv, Looping, Settled
<1>2. IInv /\ IInv' /\ QuietInv /\ [Next]_vars => QuietInv'
  BY CommitQuiet, EndPassQuiet, SkipRootQuiet, OthersQuiet
<1>3. IInv /\ Paths /\ QuietInv /\ FrontierInv /\ [Next]_vars => FrontierInv'
  <2> SUFFICES ASSUME IInv, Paths, QuietInv, FrontierInv, [Next]_vars PROVE FrontierInv'
    OBVIOUS
  <2>1. CASE ~Settled
    BY <2>1, FrontierBegins
  <2>2. CASE Settled
    <3>1. \/ FrontierBlock \/ RunUp \/ RunnerArrives \/ EndFrontier \/ BuildTree
          \/ UNCHANGED vars
      BY <2>2 DEF Settled, Next, CreateReversePostOrder, CreateIdom, CreateDominanceFrontier,
         VisitSuccessor, FinishVisit, SkipRoot, PickPredecessor, JoinPredecessor, Climb, Meet,
         CommitIdom, EndPass
    <3> QED BY <3>1, BlockSkipped, BlockStarts, RunUpInv, ArrivesInv, FrontierEnds
  <2> QED BY <2>1, <2>2
<1> QED BY Invariant, PathsHold, <1>1, <1>2, <1>3, PTL DEF Spec, Computing

\* A block with one predecessor that can be reached has it for its idom.
LEMMA OnePredecessor ==
  ASSUME IInv, Paths, QuietInv, Settled, NEW y \in Reached(succ), y # Entry,
         NEW p \in Reached(succ), y \in ToSet(succ[p]), ~(Len(pre[y]) >= 2)
  PROVE  idom[y] = p
<1>1. /\ Listed = Reached(succ) /\ Listed \subseteq Block /\ pc # "visit" /\ succ \in FlowGraphs(N)
      /\ Consistent(succ, pre) /\ pre \in [Block -> Seq(Block)] /\ Exact
      /\ N \in Nat \ {0} /\ post_order_id \in [Block -> Nat]
  BY ListedReached, ListFacts, TreeExact, NAssumption
     DEF Settled, Paths, FlowInv, IInv, TypeOK
<1>2. y \in Block /\ p \in Block /\ p \in ToSet(pre[y])
  BY <1>1 DEF Consistent, Preds
<1>3. ASSUME NEW q \in ToSet(pre[y]) PROVE q = p
  <2> DEFINE t == pre[y]
  <2>1. t \in Seq(Block) /\ ~(Len(t) >= 2) /\ p \in ToSet(t) /\ q \in ToSet(t)
    BY <1>1, <1>2
  <2> HIDE DEF t
  <2>2. PICK i \in 1..Len(t) : t[i] = p
    BY <2>1 DEF ToSet
  <2>3. PICK j \in 1..Len(t) : t[j] = q
    BY <2>1 DEF ToSet
  <2>4. i = j
    <3>1. Len(t) \in Nat
      BY <2>1
    <3> QED BY <2>1, <3>1
  <2> QED BY <2>2, <2>3, <2>4
<1>4. p # y
  <2>1. PICK q \in Listed \cap ToSet(pre[y]) : post_order_id[q] > post_order_id[y]
    BY <1>1 DEF IInv, OrderInv
  <2>2. post_order_id[p] > post_order_id[y] /\ post_order_id[p] \in Nat
    BY <1>1, <1>2, <1>3, <2>1
  <2> QED BY <2>2
<1>5. y \notin Avoiding(N, succ, p)
  <2> DEFINE n == N
             S == Avoiding(n, succ, p) \ {y}
  <2>1. p # 1 => 1 \in S
    BY <1>1, AvoidingCloses DEF Entry
  <2>2. ASSUME NEW x \in S, NEW z \in ToSet(succ[x]), z # p PROVE z \in S
    <3>1. z \in Avoiding(n, succ, p) /\ x \in Block /\ x # p
      BY <1>1, <2>2, AvoidingCloses DEF Block
    <3>2. z # y
      BY <1>1, <1>3, <3>1 DEF Consistent, Preds
    <3> QED BY <3>1, <3>2
  <2>3. n \in Nat \ {0} /\ succ \in FlowGraphs(n)
    BY <1>1
  <2> HIDE DEF S, n
  <2>4. Avoiding(n, succ, p) \subseteq S
    BY <2>1, <2>2, <2>3, AvoidingLeast
  <2> QED BY <2>4 DEF S, n
<1>6. SDom(succ, p, y)
  BY <1>1, <1>2, <1>4, <1>5, ReachedIs DEF SDom, Dom, DominatorsOf
<1>7. Dom(succ, p, idom[y]) /\ SDom(succ, idom[y], y)
  <2>1. Ordered(succ)
    BY <1>1, DomOrder
  <2>2. Dom(succ, p, idom[y])
    BY <1>6, IdomExact
  <2>3. Dom(succ, idom[y], idom[y])
    BY <2>1, <2>2 DEF Ordered
  <2> QED BY <2>2, <2>3, IdomExact
<1>8. Dom(succ, idom[y], p)
  BY <1>1, <1>7, EdgeDom
<1> QED BY <1>1, <1>7, <1>8, DomOrder DEF Ordered

\* What the runners have left is the frontier.
LEMMA FrontierExact ==
  ASSUME Computing, pc = "tree", NEW b \in Reached(succ)
  PROVE  dom_frontier[b] = Frontier(succ, b)
<1>0. IInv /\ Paths /\ QuietInv /\ FrontierInv /\ Settled
  BY DEF Computing, Settled
<1>1. /\ Exact /\ succ \in FlowGraphs(N) /\ Ordered(succ) /\ pos > N /\ pos \in Nat /\ N \in Nat
      /\ Consistent(succ, pre) /\ idom \in Trees /\ dom_frontier \in [BlockOrNull -> SUBSET Block]
  BY <1>0, TreeExact, DomOrder, ListFacts, NAssumption
     DEF Paths, FlowInv, FrontierInv, IInv, TypeOK, Settled
<1>2. b \in Block /\ idom[b] # NoBlock
  BY <1>1 DEF Exact, Ordered
<1>3. \A y \in Block : y \in dom_frontier[b] <=> Before(b, y)
  <2>1. \A y \in Block : y < pos
    BY <1>1 DEF Block
  <2> QED BY <1>0, <1>2, <2>1 DEF FrontierInv, Passed
<1>4. ASSUME NEW y \in Block, NEW p \in ToSet(pre[y]), OnWay(b, p, y)
      PROVE  y \in Reached(succ) /\ ~SDom(succ, b, y) /\ p \in Block /\ y \in ToSet(succ[p])
             /\ Dom(succ, b, p)
  <2>1. p \in Block /\ y \in ToSet(succ[p])
    BY <1>1 DEF Consistent, Preds
  <2>2. idom[p] # NoBlock
    BY <1>1, <1>2, <1>4, <2>1, AncAlone DEF OnWay
  <2>3. p \in Reached(succ) /\ Dom(succ, b, p)
    BY <1>1, <1>2, <1>4, <2>1, <2>2 DEF Exact, OnWay
  <2>4. y \in Reached(succ) /\ y # Entry
    BY <1>1, <2>1, <2>3, EdgeDom
  <2>5. idom[y] \in Reached(succ)
    <3>1. SDom(succ, idom[y], y)
      <4>1. idom[y] = ImmediateDominator(succ, y)
        BY <1>0, <2>4, IdomExact
      <4> QED BY <1>1, <2>4, <4>1, IdomIs
    <3> QED BY <1>1, <3>1 DEF Ordered, SDom
  <2>6. ~Dom(succ, b, idom[y])
    BY <1>1, <1>4, <2>5 DEF Exact, OnWay
  <2> QED BY <1>0, <2>1, <2>3, <2>4, <2>6, IdomExact
<1>5. ASSUME NEW y \in Reached(succ), ~SDom(succ, b, y), NEW p \in Block, y \in ToSet(succ[p]),
             Dom(succ, b, p)
      PROVE  y \in Block /\ Before(b, y)
  <2>1. p \in Reached(succ)
    BY <1>1, <1>5 DEF Ordered
  <2>2. y \in Block /\ y # Entry
    BY <1>1, <1>5, <2>1, EdgeDom DEF Ordered
  <2>3. p \in ToSet(pre[y])
    BY <1>1, <1>5, <2>2 DEF Consistent, Preds
  <2>4. ~Dom(succ, b, idom[y])
    BY <1>0, <1>5, <2>2, IdomExact
  <2>5. idom[y] \in Reached(succ)
    <3>1. SDom(succ, idom[y], y)
      <4>1. idom[y] = ImmediateDominator(succ, y)
        BY <1>0, <2>2, IdomExact
      <4> QED BY <1>1, <2>2, <4>1, IdomIs
    <3> QED BY <1>1, <3>1 DEF Ordered, SDom
  <2>6. OnWay(b, p, y)
    BY <1>1, <1>2, <1>5, <2>1, <2>4, <2>5 DEF Exact, OnWay
  <2>7. Len(pre[y]) >= 2
    <3>1. ~(Len(pre[y]) >= 2) => idom[y] = p
      BY <1>0, <1>5, <2>1, <2>2, OnePredecessor
    <3> QED BY <1>5, <2>4, <3>1
  <2> QED BY <2>2, <2>3, <2>6, <2>7 DEF Before
<1>6. \A y : y \in Frontier(succ, b) <=>
        /\ y \in Reached(succ) /\ ~SDom(succ, b, y)
        /\ \E p \in Block : y \in ToSet(succ[p]) /\ Dom(succ, b, p)
  BY <1>1, <1>2, FrontierIs
<1>7. dom_frontier[b] \subseteq Block
  BY <1>1, <1>2 DEF BlockOrNull
<1>8. \A y : y \in dom_frontier[b] => y \in Frontier(succ, b)
  BY <1>3, <1>4, <1>6, <1>7 DEF Before
<1>9. \A y : y \in Frontier(succ, b) => y \in dom_frontier[b]
  BY <1>3, <1>5, <1>6
<1> QED BY <1>8, <1>9

\* The children are those of the dominator tree.
LEMMA ChildrenExact ==
  ASSUME Computing, pc = "tree", NEW b \in Reached(succ)
  PROVE  {c \in Block : idom[c] # c /\ idom[c] = b} =
           {c \in Reached(succ) \ {Entry} : ImmediateDominator(succ, c) = b}
<1>0. IInv /\ Paths /\ QuietInv /\ Settled
  BY DEF Computing, Settled
<1>1. Exact /\ succ \in FlowGraphs(N) /\ Ordered(succ) /\ idom[Entry] = Entry /\ NoBlock \notin Block
  BY <1>0, TreeExact, DomOrder, ListFacts
     DEF Paths, FlowInv, Settled, Climbs, NoBlock, Block
<1>2. ASSUME NEW c \in Block, idom[c] # c, idom[c] = b
      PROVE  c \in Reached(succ) \ {Entry} /\ ImmediateDominator(succ, c) = b
  <2>1. b \in Block
    BY <1>1 DEF Ordered
  <2>2. c \in Reached(succ) /\ c # Entry
    BY <1>1, <1>2, <2>1 DEF Exact
  <2> QED BY <1>0, <1>2, <2>2, IdomExact
<1>3. ASSUME NEW c \in Reached(succ), c # Entry, ImmediateDominator(succ, c) = b
      PROVE  c \in Block /\ idom[c] # c /\ idom[c] = b
  BY <1>0, <1>1, <1>3, IdomExact DEF Ordered
<1> QED BY <1>2, <1>3

\* Dominance as the abstract specification spells it is that of CFG.
LEMMA SameMeaning ==
  /\ \A s : Abstract!Reached(s) = Reached(s)
  /\ \A s, b : /\ Abstract!ImmediateDominator(s, b) = ImmediateDominator(s, b)
               /\ Abstract!Frontier(s, b) = Frontier(s, b)
               /\ Abstract!Children(s, b) =
                    {c \in Reached(s) \ {Entry} : ImmediateDominator(s, c) = b}
  /\ Abstract!Block = Block /\ Abstract!BlockOrNull = BlockOrNull /\ Abstract!Entry = Entry
<1>1. Abstract!Block = Block /\ Abstract!BlockOrNull = BlockOrNull /\ Abstract!Entry = Entry
      /\ Abstract!NoBlock = NoBlock
  BY DEF Abstract!Block, Abstract!BlockOrNull, Abstract!Entry, Abstract!NoBlock,
         Block, BlockOrNull, Entry, NoBlock
<1>2. \A s, d : Abstract!ReachedAvoiding(s, d) = ReachedAvoiding(s, d)
  BY DEF Abstract!ReachedAvoiding, ReachedAvoiding, Abstract!Entry, Entry, Abstract!ToSet, ToSet
<1>3. \A s : Abstract!Reached(s) = Reached(s)
  BY <1>1, <1>2 DEF Abstract!Reached, Reached
<1>4. \A s, b : Abstract!DominatorsOf(s, b) = DominatorsOf(s, b)
  BY <1>1, <1>2, <1>3 DEF Abstract!DominatorsOf, DominatorsOf
<1>5. \A s, b : Abstract!StrictDominators(s, b) = StrictDominators(s, b)
  BY <1>4 DEF Abstract!StrictDominators, StrictDominators
<1>6. \A s, b : Abstract!ImmediateDominator(s, b) = ImmediateDominator(s, b)
  BY <1>4, <1>5 DEF Abstract!ImmediateDominator, ImmediateDominator
<1>7. \A s, b : Abstract!Dominated(s, b) = Dominated(s, b)
  BY <1>2, <1>3 DEF Abstract!Dominated, Dominated
<1>8. \A s, b : Abstract!Preds(s, b) = Preds(s, b)
  BY <1>1 DEF Abstract!Preds, Preds, Abstract!ToSet, ToSet
<1>9. \A s, b : Abstract!Frontier(s, b) = Frontier(s, b)
  BY <1>3, <1>7, <1>8 DEF Abstract!Frontier, Frontier
<1>10. \A s, b : Abstract!Children(s, b) =
                  {c \in Reached(s) \ {Entry} : ImmediateDominator(s, c) = b}
  BY <1>1, <1>3, <1>6 DEF Abstract!Children
<1> QED BY <1>1, <1>3, <1>6, <1>9, <1>10

\* The answer of the run, as the abstract specification sees it.
Result == [idom     |-> [b \in Block |-> idom[b]],
           frontier |-> [b \in Block |-> dom_frontier[b]],
           children |-> [b \in Block |-> dom_tree_succ[b]]]
Answered == IF pc # "done" THEN <<>> ELSE <<Result>>

\* Building the tree gives the answer, and a right one.
LEMMA BuildAnswers ==
  ASSUME Computing, BuildTree
  PROVE  /\ Answered = <<>> /\ Answered' = <<Result'>> /\ UNCHANGED succ
         /\ Result' \in [idom     : [Block -> BlockOrNull],
                         frontier : [Block -> SUBSET Block],
                         children : [Block -> SUBSET Block]]
         /\ Abstract!IsCorrect(succ, Result')
<1>0. IInv /\ Paths /\ QuietInv /\ Settled /\ pc = "tree"
  BY DEF Computing, Settled, BuildTree
<1>1. /\ pc' = "done" /\ UNCHANGED <<succ, idom, dom_frontier>>
      /\ dom_tree_succ' = [b \in BlockOrNull |-> {c \in Block : idom[c] # c /\ idom[c] = b}]
  BY DEF BuildTree, graph
<1>2. /\ idom \in [BlockOrNull -> BlockOrNull] /\ dom_frontier \in [BlockOrNull -> SUBSET Block]
      /\ Block \subseteq BlockOrNull
  BY <1>0 DEF IInv, TypeOK, BlockOrNull
<1>3. \A b \in Block : /\ Result'.idom[b] = idom[b]
                       /\ Result'.frontier[b] = dom_frontier[b]
                       /\ Result'.children[b] = {c \in Block : idom[c] # c /\ idom[c] = b}
  BY <1>1, <1>2 DEF Result
<1>4. Result' \in [idom     : [Block -> BlockOrNull],
                   frontier : [Block -> SUBSET Block],
                   children : [Block -> SUBSET Block]]
  <2> DEFINE f1 == [b \in Block |-> idom'[b]]
             f2 == [b \in Block |-> dom_frontier'[b]]
             f3 == [b \in Block |-> dom_tree_succ'[b]]
  <2>1. f1 \in [Block -> BlockOrNull]
    BY <1>1, <1>2
  <2>2. f2 \in [Block -> SUBSET Block]
    BY <1>1, <1>2
  <2>3. f3 \in [Block -> SUBSET Block]
    BY <1>1, <1>2
  <2>4. Result' = [idom |-> f1, frontier |-> f2, children |-> f3]
    BY DEF Result
  <2> HIDE DEF f1, f2, f3
  <2> QED BY <2>1, <2>2, <2>3, <2>4
<1>5. ASSUME NEW b \in Reached(succ)
      PROVE  /\ Result'.idom[b] = IF b = Entry THEN Entry ELSE ImmediateDominator(succ, b)
             /\ Result'.frontier[b] = Frontier(succ, b)
             /\ Result'.children[b] =
                  {c \in Reached(succ) \ {Entry} : ImmediateDominator(succ, c) = b}
  <2>1. b \in Block /\ idom[Entry] = Entry
    BY <1>0, ListedReached, ListFacts DEF Settled, Climbs
  <2>2. b # Entry => idom[b] = ImmediateDominator(succ, b)
    BY <1>0, IdomExact
  <2>3. dom_frontier[b] = Frontier(succ, b)
    BY <1>0, FrontierExact
  <2>4. {c \in Block : idom[c] # c /\ idom[c] = b} =
          {c \in Reached(succ) \ {Entry} : ImmediateDominator(succ, c) = b}
    BY <1>0, ChildrenExact
  <2> HIDE DEF Result
  <2> QED BY <1>3, <2>1, <2>2, <2>3, <2>4
<1> HIDE DEF Result
<1>6. Abstract!IsCorrect(succ, Result')
  BY <1>5, SameMeaning DEF Abstract!IsCorrect
<1>7. Answered = <<>> /\ Answered' = <<Result'>>
  BY <1>0, <1>1 DEF Answered
<1> QED BY <1>1, <1>4, <1>6, <1>7

\* Dominators::run implements its specification: on every function the idoms,
\* the frontiers and the tree it leaves are those of dominance by paths.
THEOREM DominanceComputed == Spec => ComputesDominance
<1> DEFINE answer == IF pc # "done" THEN <<>>
            ELSE <<[idom     |-> [b \in Block |-> idom[b]],
                    frontier |-> [b \in Block |-> dom_frontier[b]],
                    children |-> [b \in Block |-> dom_tree_succ[b]]]>>
<1>1. answer = Answered
  BY DEF Answered, Result
<1>2. Init => Abstract!Init
  BY DEF Init, Abstract!Init
<1>3. Computing /\ [Next]_vars => [Abstract!Answer]_(Abstract!vars)
  <2> SUFFICES ASSUME Computing, [Next]_vars PROVE Abstract!Answer \/ UNCHANGED Abstract!vars
    OBVIOUS
  <2>1. CASE BuildTree
    <3> DEFINE R == [idom     : [Block -> BlockOrNull],
                     frontier : [Block -> SUBSET Block],
                     children : [Block -> SUBSET Block]]
               r == Result'
    <3>1. /\ Answered = <<>> /\ Answered' = <<r>> /\ UNCHANGED succ /\ r \in R
          /\ Abstract!IsCorrect(succ, r)
      BY <2>1, BuildAnswers
    <3>2. Answered' \in Seq(R) /\ Len(Answered') = 1 /\ Answered'[1] = r
      <4> HIDE DEF R, r
      <4> QED BY <3>1
    <3>3. Abstract!Answer <=>
             /\ answer = <<>> /\ answer' \in Seq(R) /\ Len(answer') = 1
             /\ Abstract!IsCorrect(succ, answer'[1]) /\ UNCHANGED succ
      BY SameMeaning DEF Abstract!Answer
    <3> HIDE DEF answer, R, r
    <3>4. answer' = Answered'
      BY <1>1 DEF answer, Answered, Result
    <3> QED BY <1>1, <3>1, <3>2, <3>3, <3>4
  <2>2. CASE ~BuildTree
    <3>1. succ' = succ
      BY <2>2 DEF Next, CreateReversePostOrder, CreateIdom, CreateDominanceFrontier,
         VisitSuccessor, FinishVisit, SkipRoot, PickPredecessor, JoinPredecessor, Climb, Meet,
         CommitIdom, EndPass, FrontierBlock, RunUp, RunnerArrives, EndFrontier, vars, graph
    <3>2. \/ pc # "done" /\ pc' # "done"
          \/ UNCHANGED vars
      BY <2>2 DEF Next, CreateReversePostOrder, CreateIdom, CreateDominanceFrontier,
         VisitSuccessor, FinishVisit, SkipRoot, PickPredecessor, JoinPredecessor, Climb, Meet,
         CommitIdom, EndPass, FrontierBlock, RunUp, RunnerArrives, EndFrontier, NextBlock, vars
    <3>3. UNCHANGED answer
      <4>1. CASE pc # "done" /\ pc' # "done"
        BY <4>1
      <4>2. CASE UNCHANGED vars
        BY <4>2 DEF vars
      <4> QED BY <3>2, <4>1, <4>2
    <3> QED BY <3>1, <3>3 DEF Abstract!vars
  <2> QED BY <2>1, <2>2
<1>4. Spec => Abstract!Spec
  BY ComputingHolds, <1>2, <1>3, PTL DEF Spec, Abstract!Spec
<1> QED BY <1>4 DEF ComputesDominance
=============================================================================
