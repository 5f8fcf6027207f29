-------------------------- MODULE Mem2RegInvariant --------------------------
(***************************************************************************)
(* What the stacks, the phis, the rewritten code and the values that reach *)
(* a place have to do with the activations of rename, and how each of them *)
(* keeps its part of that when the walk advances in a block, goes down to  *)
(* a child or returns.  Mem2RegProofs puts the parts together.             *)
(***************************************************************************)
EXTENDS Mem2RegRun, Reachability

-----------------------------------------------------------------------------
\* The targets of branches make a graph of Reachability.
LEMMA TargetGraphs == [Block -> Target] \subseteq FlowGraphs(N) /\ N \in Nat \ {0}
<1>1. ASSUME NEW t \in Target PROVE t \in Seq(2..N)
  <2>1. Block \ {Entry} \subseteq 2..N
    BY NAssumption DEF Block, Entry
  <2>2. t = <<>> \/ (\E b \in Block \ {Entry} : t = <<b>>)
          \/ (\E b, c \in Block \ {Entry} : t = <<b, c>>)
    BY DEF Target, SuccList
  <2>3. ASSUME NEW b \in Block \ {Entry} PROVE <<b>> \in Seq(2..N)
    BY <2>1
  <2>4. ASSUME NEW b \in Block \ {Entry}, NEW c \in Block \ {Entry}
        PROVE  <<b, c>> \in Seq(2..N)
    BY <2>1
  <2>5. CASE t = <<>>
    BY <2>5
  <2>6. CASE \E b \in Block \ {Entry} : t = <<b>>
    BY <2>3, <2>6
  <2>7. CASE \E b, c \in Block \ {Entry} : t = <<b, c>>
    BY <2>4, <2>7
  <2> QED BY <2>2, <2>5, <2>6, <2>7
<1> QED BY <1>1, NAssumption DEF FlowGraphs, Block


-----------------------------------------------------------------------------
(* The inductive invariant.  First the walk, by itself: the activations are *)
(* a path down the dominator tree from the entry, each but the innermost at *)
(* its children; a block is on the path, or below a child still to come, or *)
(* re_name has returned from it.  s and src are the function, cs the stack. *)

Kids(s, b) == {c \in Dominated(s, b) \ {b} : ImmediateDominator(s, c) = b}
Frame == [bb : Block, ip : Nat, children : SUBSET Block, wait_delete : SUBSET InstrId]
Fin(src, b) == Len(src[b]) + 1

WalkOK(s, src, cs) ==
  /\ cs \in Seq(Frame)
  /\ cs # <<>> => cs[1].bb = Entry
  /\ \A j \in 1..Len(cs) :
       /\ cs[j].bb \in Reached(s) /\ cs[j].ip <= Fin(src, cs[j].bb) + 1
       /\ cs[j].children \subseteq Kids(s, cs[j].bb)
       /\ cs[j].ip <= Fin(src, cs[j].bb) => j = Len(cs) /\ cs[j].children = Kids(s, cs[j].bb)
       /\ \A a : SDom(s, a, cs[j].bb) <=> \E h \in 1..(j - 1) : cs[h].bb = a
       /\ j > 1 => cs[j].bb \in Kids(s, cs[j - 1].bb) \ cs[j - 1].children

On(cs, b)          == \E j \in 1..Len(cs) : cs[j].bb = b
Pending(s, cs, b)  == \E j \in 1..Len(cs) : \E c \in cs[j].children : Dom(s, c, b)
Returned(s, cs, b) == b \in Reached(s) /\ ~On(cs, b) /\ ~Pending(s, cs, b)

\* The walk has gone past place n of block b: 0 are its phis, Fin its successors.
Passed(s, src, cs, b, n) ==
  /\ n \in 0..Fin(src, b)
  /\ Returned(s, cs, b) \/ \E j \in 1..Len(cs) : cs[j].bb = b /\ n < cs[j].ip

(***************************************************************************)
(* What reaches a place.  H[<<b, n>>][v] is the value v has when place n   *)
(* of b is executed, as re_name found it: the newest definition on the     *)
(* path.  It is not a variable of the pass; the invariant says there is    *)
(* such a function, and every step that passes a place extends it.         *)
(***************************************************************************)
IsDef(src, x) == x \in InstrId /\ x[2] \in DOMAIN src[x[1]]
                   /\ src[x[1]][x[2]].op \in {"load", "call"}
IsLoad(src, x) == IsDef(src, x) /\ src[x[1]][x[2]].op = "load"
VarOf(src, x)  == src[x[1]][x[2]].var

\* The value that stands for x: what reached the load, if x is a load.
Cur(src, H, x) ==
  IF IsLoad(src, x) /\ H[x][VarOf(src, x)] # NoValue THEN H[x][VarOf(src, x)] ELSE x

\* The value x is defined before place n of b whenever that is executed.
Avail(s, src, ph, b, n, x) ==
  \/ x \in ph /\ Dom(s, x[1], b)
  \/ IsDef(src, x) /\ (SDom(s, x[1], b) \/ (x[1] = b /\ x[2] < n))

AtHead(s, src, ph, H, b, v) ==
  IF <<b, v>> \in ph THEN <<b, v>>
  ELSE IF b = Entry THEN NoValue
  ELSE H[<<ImmediateDominator(s, b), Fin(src, ImmediateDominator(s, b))>>][v]
After(src, H, b, n, v) ==
  IF src[b][n].op = "store" /\ src[b][n].var = v THEN Cur(src, H, src[b][n].arg)
                                                 ELSE H[<<b, n>>][v]

ReachOK(s, src, ph, cs, H) ==
  /\ H \in [Block \X Nat -> [Var -> Value \cup {NoValue}]]
  /\ \A b \in Block : \A v \in Var :
       /\ Passed(s, src, cs, b, 0) => H[<<b, 1>>][v] = AtHead(s, src, ph, H, b, v)
       /\ \A n \in DOMAIN src[b] :
            Passed(s, src, cs, b, n) => H[<<b, n + 1>>][v] = After(src, H, b, n, v)
       /\ \A n \in 1..Fin(src, b) :
            Passed(s, src, cs, b, n - 1) /\ H[<<b, n>>][v] # NoValue =>
              Avail(s, src, ph, b, n, H[<<b, n>>][v])

-----------------------------------------------------------------------------
(* The stacks: B[v][j] values of v were pushed by the first j activations,  *)
(* and the newest of them is what reaches the place where the j-th is.      *)

StoresBefore(src, b, n, v) ==
  {k \in 1..(n - 1) \cap DOMAIN src[b] : src[b][k].op = "store" /\ src[b][k].var = v}
Defs(src, ph, c, v) ==
  (IF c.ip > 0 /\ <<c.bb, v>> \in ph THEN 1 ELSE 0)
    + Cardinality(StoresBefore(src, c.bb, c.ip, v))
PlaceOf(src, c) == <<c.bb, IF c.ip > Fin(src, c.bb) THEN Fin(src, c.bb) ELSE c.ip>>
Newest(st, B, v, j) == IF B[v][j] = 0 THEN NoValue ELSE st[v][B[v][j]]

BasesOK(src, ph, cs, B) ==
  /\ B \in [Var -> [Nat -> Nat]]
  /\ \A v \in Var : B[v][0] = 0 /\ \A j \in 1..Len(cs) :
       B[v][j] = B[v][j - 1] + Defs(src, ph, cs[j], v)
StacksOK(src, ph, cs, H, st, B) ==
  /\ st \in [Var -> Seq(Value)]
  /\ BasesOK(src, ph, cs, B)
  /\ \A v \in Var : Len(st[v]) = B[v][Len(cs)]
  /\ \A j \in 1..Len(cs) : cs[j].ip > 0 => \A v \in Var :
       Newest(st, B, v, j) = H[PlaceOf(src, cs[j])][v]

UsedIn(src, v) == \E b \in Block : \E n \in DOMAIN src[b] :
                    src[b][n].op \in {"load", "store"} /\ src[b][n].var = v
KeysOK(src, st, ks) ==
  /\ \A v \in Var : st[v] # <<>> => v \in ks
  /\ \A v \in ks : UsedIn(src, v)

-----------------------------------------------------------------------------
(* The code: what was passed and found a value waits to be erased or is, and *)
(* an operand that names a passed load is what reached the load.  The phis:  *)
(* one pair for each predecessor passed where a value reaches its end.       *)

Gone(src, H, b, n) == \/ src[b][n].op = "store"
                      \/ src[b][n].op = "load" /\ H[<<b, n>>][src[b][n].var] # NoValue
Current(s, src, cs, H, x) ==
  IF IsLoad(src, x) /\ Passed(s, src, cs, x[1], x[2]) THEN Cur(src, H, x) ELSE x

CodeOK(s, src, cs, cd, H) ==
  /\ DOMAIN cd = Block
  /\ \A b \in Block :
       /\ DOMAIN cd[b] \subseteq DOMAIN src[b]
       /\ \A n \in DOMAIN cd[b] :
            /\ cd[b][n] \in Instr /\ cd[b][n].id = <<b, n>>
            /\ cd[b][n].op = src[b][n].op /\ cd[b][n].var = src[b][n].var
       /\ ~Returned(s, cs, b) => cd[b] \in Seq(Instr) /\ Len(cd[b]) = Len(src[b])
       /\ b \in Reached(s) => \A n \in DOMAIN cd[b] :
            cd[b][n].arg = Current(s, src, cs, H, src[b][n].arg)
       /\ Returned(s, cs, b) => DOMAIN cd[b] = {n \in DOMAIN src[b] : ~Gone(src, H, b, n)}
  /\ \A j \in 1..Len(cs) : \A x \in InstrId :
       x \in cs[j].wait_delete <=>
         /\ x[1] = cs[j].bb /\ x[2] \in DOMAIN src[x[1]] /\ x[2] < cs[j].ip
         /\ Gone(src, H, x[1], x[2])

Operands(pr, y, v, p) == {q[1] : q \in {r \in ToSet(pr[<<y, v>>]) : r[2] = p}}
PairsOK(s, src, ph, cs, H, pr) ==
  /\ pr \in [Block \X Var -> Seq(Value \X Block)]
  /\ \A y \in Block : \A v \in Var : \A p \in Block :
       Operands(pr, y, v, p) =
         IF /\ <<y, v>> \in ph /\ y \in ToSet(s[p])
            /\ Passed(s, src, cs, p, Fin(src, p)) /\ H[<<p, Fin(src, p)>>][v] # NoValue
         THEN {H[<<p, Fin(src, p)>>][v]} ELSE {}

-----------------------------------------------------------------------------
(* The phis, and the invariant of the pass. *)

PhisOK(s, src, ph) ==
  /\ ph \subseteq Block \X Var
  /\ \A p \in ph : p[1] \in Reached(s) \ {Entry} /\ UsedIn(src, p[2])

\* What the walk has made of the function: the activations cs, the values that
\* reached the places passed, the stacks, the code and the pairs.
WalkParts(s, src, ph, cs, H, st, B, cd, pr) ==
  /\ WalkOK(s, src, cs)
  /\ ReachOK(s, src, ph, cs, H)
  /\ StacksOK(src, ph, cs, H, st, B)
  /\ CodeOK(s, src, cs, cd, H)
  /\ PairsOK(s, src, ph, cs, H, pr)

WalkStates == {"rename", "assert_failed", "undefined"}
StateOK ==
  /\ pc \in {"place", "remove", "done"} \cup WalkStates
  /\ pc = "place" => /\ calls = <<Enter(Entry)>> /\ code = source /\ keys = {}
                     /\ var_val_stack = [v \in Var |-> <<>>]
                     /\ pairs = [p \in Block \X Var |-> <<>>]
  /\ pc \in {"remove", "done"} <=> calls = <<>>
  /\ pc \in {"assert_failed", "undefined"} =>
       \E v \in Var : UsedIn(source, v) /\ var_val_stack[v] = <<>>

PassOK(H, B) ==
  /\ Legal(succ, source) /\ StateOK
  /\ PhisOK(succ, source, phis)
  /\ KeysOK(source, var_val_stack, keys)
  /\ WalkParts(succ, source, phis, calls, H, var_val_stack, B, code, pairs)

-----------------------------------------------------------------------------
(* The walk. *)

\* The dominator tree re_name walks: Children(bb).
LEMMA KidsAre ==
  ASSUME NEW s \in [Block -> Target], NEW b \in Reached(s)
  PROVE  /\ \A c \in Kids(s, b) : /\ c \in Reached(s) /\ c # Entry /\ SDom(s, b, c)
                                  /\ ImmediateDominator(s, c) = b
                                  /\ \A a : SDom(s, a, c) <=> Dom(s, a, b)
         /\ \A x : SDom(s, b, x) => \E c \in Kids(s, b) : Dom(s, c, x)
         /\ \A c, e \in Kids(s, b) : \A x : Dom(s, c, x) /\ Dom(s, e, x) => c = e
<1>1. \A c \in Kids(s, b) : ImmediateDominator(s, c) = b /\ c \in Reached(s)
  BY DEF Kids, Dominated
<1>2. /\ \A c \in Kids(s, b) : c # Entry /\ SDom(s, b, c)
                               /\ \A a : SDom(s, a, c) <=> Dom(s, a, b)
      /\ \A x : SDom(s, b, x) => \E c \in Kids(s, b) : Dom(s, c, x)
      /\ \A c, e \in Kids(s, b) : \A x : Dom(s, c, x) /\ Dom(s, e, x) => c = e
  BY TreeIs, TargetGraphs DEF Kids
<1> QED BY <1>1, <1>2

\* What Legal says of a program in the forms the proofs use.
LEMMA LegalFacts ==
  ASSUME NEW s, NEW src, Legal(s, src)
  PROVE  /\ s \in [Block -> Target] /\ src \in [Block -> Seq(Instr)] /\ Ordered(s)
         /\ \A b \in Block : /\ Fin(src, b) \in Nat /\ Fin(src, b) >= 1
                             /\ DOMAIN src[b] = 1..(Fin(src, b) - 1)
<1>1. s \in [Block -> Target] /\ src \in [Block -> Seq(Instr)]
  BY DEF Legal
<1>2. Ordered(s)
  BY <1>1, DomOrder, TargetGraphs
<1>3. ASSUME NEW b \in Block
      PROVE  Fin(src, b) \in Nat /\ Fin(src, b) >= 1 /\ DOMAIN src[b] = 1..(Fin(src, b) - 1)
  <2>1. src[b] \in Seq(Instr)
    BY <1>1
  <2> QED BY <2>1 DEF Fin
<1> QED BY <1>1, <1>2, <1>3

\* The activations are a line of strict dominators; none is below a child that
\* is still to come.
LEMMA WalkPath ==
  ASSUME NEW s, NEW src, Legal(s, src), NEW cs, WalkOK(s, src, cs)
  PROVE  /\ \A j, k \in 1..Len(cs) : k < j => SDom(s, cs[k].bb, cs[j].bb)
         /\ \A j, k \in 1..Len(cs) : cs[j].bb = cs[k].bb => j = k
         /\ \A j \in 1..Len(cs) : ~Pending(s, cs, cs[j].bb)
<1>0. s \in [Block -> Target] /\ Ordered(s) /\ cs \in Seq(Frame) /\ Len(cs) \in Nat
  BY LegalFacts DEF WalkOK
<1>1. \A j \in 1..Len(cs) : cs[j].bb \in Reached(s)
  BY DEF WalkOK
<1>2. ASSUME NEW j \in 1..Len(cs), NEW k \in 1..Len(cs), k < j
      PROVE  SDom(s, cs[k].bb, cs[j].bb)
  <2>1. k \in 1..(j - 1)
    BY <1>0, <1>2
  <2> QED BY <2>1 DEF WalkOK
<1>3. ASSUME NEW j \in 1..Len(cs), NEW k \in 1..Len(cs), cs[j].bb = cs[k].bb, j # k
      PROVE  FALSE
  <2>1. j < k \/ k < j
    BY <1>0, <1>3
  <2> QED BY <1>2, <1>3, <2>1 DEF SDom
<1>4. ASSUME NEW j \in 1..Len(cs), NEW k \in 1..Len(cs), NEW c \in cs[k].children,
             Dom(s, c, cs[j].bb)
      PROVE  FALSE
  <2>1. c \in Kids(s, cs[k].bb)
    BY DEF WalkOK
  <2>2. SDom(s, cs[k].bb, c)
    BY <1>0, <1>1, <2>1, KidsAre
  <2>3. CASE j <= k
    <3>1. Dom(s, cs[j].bb, cs[k].bb)
      <4>1. j = k \/ j < k
        BY <1>0, <2>3
      <4> QED BY <1>0, <1>1, <1>2, <4>1 DEF SDom, Ordered
    <3>2. Dom(s, c, cs[k].bb)
      BY <1>0, <1>4, <3>1 DEF Ordered
    <3> QED BY <1>0, <2>2, <3>2 DEF Ordered, SDom
  <2>4. CASE ~(j <= k)
    <3> DEFINE l == k + 1
    <3>1. l \in 1..Len(cs) /\ l > 1 /\ l - 1 = k /\ (l = j \/ l < j)
      BY <1>0, <2>4
    <3> HIDE DEF l
    <3>2. cs[l].bb \in Kids(s, cs[l - 1].bb) \ cs[l - 1].children
      BY <3>1 DEF WalkOK
    <3>3. cs[l].bb \in Kids(s, cs[k].bb) /\ cs[l].bb \notin cs[k].children
      BY <3>1, <3>2
    <3>4. Dom(s, cs[l].bb, cs[j].bb)
      BY <1>0, <1>1, <1>2, <3>1 DEF SDom, Ordered
    <3>5. cs[l].bb = c
      BY <1>0, <1>1, <1>4, <2>1, <3>3, <3>4, KidsAre
    <3> QED BY <3>3, <3>5
  <2> QED BY <2>3, <2>4
<1>5. \A j \in 1..Len(cs) : ~Pending(s, cs, cs[j].bb)
  BY <1>4 DEF Pending
<1> QED BY <1>2, <1>3, <1>5

\* What was passed of a block on the path, and above a block that was entered.
LEMMA PassedIs ==
  ASSUME NEW s, NEW src, Legal(s, src), NEW cs, WalkOK(s, src, cs)
  PROVE  /\ \A j \in 1..Len(cs) : \A n :
              Passed(s, src, cs, cs[j].bb, n) <=> n \in 0..Fin(src, cs[j].bb) /\ n < cs[j].ip
         /\ \A b \in Block : \A n : \A m \in Nat :
              Passed(s, src, cs, b, n) /\ m <= n => Passed(s, src, cs, b, m)
         /\ \A b \in Block : \A n : Passed(s, src, cs, b, n) =>
              /\ b \in Reached(s) /\ n \in 0..Fin(src, b)
              /\ \A e : SDom(s, e, b) => e \in Block /\
                          \A m \in 0..Fin(src, e) : Passed(s, src, cs, e, m)
<1>0. /\ s \in [Block -> Target] /\ Ordered(s) /\ cs \in Seq(Frame) /\ Len(cs) \in Nat
      /\ \A b \in Block : Fin(src, b) \in Nat
      /\ \A j \in 1..Len(cs) : cs[j].bb \in Reached(s) /\ cs[j].bb \in Block /\ cs[j].ip \in Nat
                               /\ cs[j] \in Frame
  <2>1. s \in [Block -> Target] /\ Ordered(s) /\ cs \in Seq(Frame) /\ Len(cs) \in Nat
        /\ \A b \in Block : Fin(src, b) \in Nat
    BY LegalFacts DEF WalkOK
  <2>2. \A j \in 1..Len(cs) : cs[j] \in Frame
    BY <2>1
  <2> QED BY <2>1, <2>2 DEF Frame, WalkOK
<1>1. ASSUME NEW j \in 1..Len(cs), NEW n
      PROVE  Passed(s, src, cs, cs[j].bb, n) <=> n \in 0..Fin(src, cs[j].bb) /\ n < cs[j].ip
  <2>1. ~Returned(s, cs, cs[j].bb)
    BY DEF Returned, On
  <2>2. \A k \in 1..Len(cs) : cs[k].bb = cs[j].bb => k = j
    BY WalkPath
  <2> QED BY <2>1, <2>2 DEF Passed
<1>2. ASSUME NEW b \in Block, NEW n, NEW m \in Nat, Passed(s, src, cs, b, n), m <= n
      PROVE  Passed(s, src, cs, b, m)
  <2>1. n \in 0..Fin(src, b) /\ n \in Nat /\ m \in 0..Fin(src, b)
    BY <1>0, <1>2 DEF Passed
  <2>2. CASE Returned(s, cs, b)
    BY <2>1, <2>2 DEF Passed
  <2>3. CASE ~Returned(s, cs, b)
    <3>1. PICK j \in 1..Len(cs) : cs[j].bb = b /\ n < cs[j].ip
      BY <1>2, <2>3 DEF Passed
    <3>2. m < cs[j].ip
      BY <1>0, <1>2, <2>1, <3>1
    <3> QED BY <2>1, <3>1, <3>2 DEF Passed
  <2> QED BY <2>2, <2>3
<1>3. ASSUME NEW b \in Block, NEW n, Passed(s, src, cs, b, n)
      PROVE  b \in Reached(s) /\ n \in 0..Fin(src, b)
  BY <1>0, <1>3 DEF Passed, Returned
<1>4. ASSUME NEW b \in Block, NEW n, Passed(s, src, cs, b, n), NEW e, SDom(s, e, b),
             NEW m \in 0..Fin(src, e)
      PROVE  Passed(s, src, cs, e, m)
  <2>0. e \in Reached(s) /\ e \in Block /\ Dom(s, e, b) /\ m \in Nat /\ Fin(src, e) \in Nat
        /\ m <= Fin(src, e)
    BY <1>0, <1>4 DEF SDom, Ordered
  <2>1. \A j \in 1..Len(cs) : cs[j].bb = e /\ cs[j].ip > Fin(src, e) => Passed(s, src, cs, e, m)
    <3> SUFFICES ASSUME NEW j \in 1..Len(cs), cs[j].bb = e, cs[j].ip > Fin(src, e)
                 PROVE  Passed(s, src, cs, e, m)
      OBVIOUS
    <3>1. m < cs[j].ip
      BY <1>0, <2>0
    <3> QED BY <1>4, <3>1 DEF Passed
  <2>2. CASE Returned(s, cs, b)
    <3> SUFFICES ASSUME ~Returned(s, cs, e) PROVE Passed(s, src, cs, e, m)
      BY <1>4 DEF Passed
    <3>1. ~Pending(s, cs, e)
      <4> SUFFICES ASSUME NEW j \in 1..Len(cs), NEW c \in cs[j].children, Dom(s, c, e) PROVE FALSE
        BY DEF Pending
      <4>1. Dom(s, c, b)
        BY <1>0, <2>0 DEF Ordered
      <4> QED BY <2>2, <4>1 DEF Returned, Pending
    <3>2. PICK j \in 1..Len(cs) : cs[j].bb = e
      BY <2>0, <3>1 DEF Returned, On
    <3>3. CASE cs[j].ip > Fin(src, e)
      BY <2>1, <3>2, <3>3
    <3>4. CASE ~(cs[j].ip > Fin(src, e))
      <4>1. cs[j].ip <= Fin(src, e)
        BY <1>0, <2>0, <3>4
      <4>2. cs[j].children = Kids(s, e)
        BY <3>2, <4>1 DEF WalkOK
      <4>3. \E c \in Kids(s, e) : Dom(s, c, b)
        BY <1>0, <1>4, <2>0, KidsAre
      <4> QED BY <2>2, <4>2, <4>3 DEF Returned, Pending
    <3> QED BY <3>3, <3>4
  <2>3. CASE ~Returned(s, cs, b)
    <3>1. PICK j \in 1..Len(cs) : cs[j].bb = b
      BY <1>4, <2>3 DEF Passed
    <3>2. PICK k \in 1..(j - 1) : cs[k].bb = e
      BY <1>4, <3>1 DEF WalkOK
    <3>3. k \in 1..Len(cs) /\ k # Len(cs)
      BY <1>0
    <3>4. ~(cs[k].ip <= Fin(src, e))
      BY <3>2, <3>3 DEF WalkOK
    <3>5. cs[k].ip > Fin(src, e)
      BY <1>0, <2>0, <3>3, <3>4
    <3> QED BY <2>1, <3>2, <3>3, <3>5
  <2> QED BY <2>2, <2>3
<1>5. \A b, e : SDom(s, e, b) => e \in Block
  BY <1>0 DEF SDom, Ordered
<1> QED BY <1>1, <1>2, <1>3, <1>4, <1>5

\* A step within the innermost activation.
Advances(src, cs, cs2) ==
  LET m == Len(cs)
  IN  /\ cs # <<>> /\ cs2 \in Seq(Frame) /\ Len(cs2) = m
      /\ \A j \in 1..(m - 1) : cs2[j] = cs[j]
      /\ cs2[m].bb = cs[m].bb /\ cs2[m].children = cs[m].children
      /\ cs2[m].ip = cs[m].ip + 1 /\ cs[m].ip <= Fin(src, cs[m].bb)

\* One place further in a block, the walk is a walk and has returned from no other.
LEMMA WalkAdvances ==
  ASSUME NEW s, NEW src, Legal(s, src), NEW cs, WalkOK(s, src, cs),
         NEW cs2, Advances(src, cs, cs2)
  PROVE  /\ WalkOK(s, src, cs2)
         /\ \A b : Returned(s, cs2, b) <=> Returned(s, cs, b)
         /\ LET c == cs[Len(cs)]
            IN  /\ c.bb \in Block /\ c.ip \in 0..Fin(src, c.bb)
                /\ ~Passed(s, src, cs, c.bb, c.ip) /\ ~Returned(s, cs, c.bb)
                /\ \A b \in Block : \A n : Passed(s, src, cs2, b, n) <=>
                     Passed(s, src, cs, b, n) \/ (b = c.bb /\ n = c.ip)
<1> DEFINE m == Len(cs)
<1>0. /\ Ordered(s) /\ cs \in Seq(Frame) /\ cs2 \in Seq(Frame) /\ m \in Nat /\ m \in 1..m
      /\ Len(cs2) = m
      /\ \A b \in Block : Fin(src, b) \in Nat
  <2>1. Ordered(s) /\ cs \in Seq(Frame) /\ cs2 \in Seq(Frame) /\ Len(cs2) = m /\ cs # <<>>
        /\ \A b \in Block : Fin(src, b) \in Nat
    BY LegalFacts DEF WalkOK, Advances
  <2> QED BY <2>1
<1>1. /\ \A j \in 1..m : j # m => cs2[j] = cs[j]
      /\ cs2[m].bb = cs[m].bb /\ cs2[m].children = cs[m].children
      /\ cs2[m].ip = cs[m].ip + 1 /\ cs[m].ip <= Fin(src, cs[m].bb)
  <2>1. \A j \in 1..m : j # m => j \in 1..(m - 1)
    BY <1>0
  <2> QED BY <2>1 DEF Advances
<1>2. \A j \in 1..m : cs[j] \in Frame /\ cs[j].bb \in Block /\ cs[j].ip \in Nat
                      /\ cs2[j].bb = cs[j].bb /\ cs2[j].children = cs[j].children
  <2>1. \A j \in 1..m : cs[j] \in Frame
    BY <1>0
  <2> HIDE DEF m
  <2> QED BY <1>1, <2>1 DEF Frame
<1> HIDE DEF m
<1>3. WalkOK(s, src, cs2)
  <2>1. cs2 # <<>> /\ cs2[1].bb = Entry
    <3>1. 1 \in 1..m /\ cs # <<>>
      BY <1>0 DEF m, Advances
    <3> QED BY <1>0, <1>2, <3>1 DEF WalkOK
  <2>2. ASSUME NEW j \in 1..m
        PROVE  /\ cs2[j].bb \in Reached(s) /\ cs2[j].ip <= Fin(src, cs2[j].bb) + 1
               /\ cs2[j].children \subseteq Kids(s, cs2[j].bb)
               /\ cs2[j].ip <= Fin(src, cs2[j].bb) => j = m /\ cs2[j].children = Kids(s, cs2[j].bb)
    <3>1. /\ cs[j].bb \in Reached(s) /\ cs[j].ip <= Fin(src, cs[j].bb) + 1
          /\ cs[j].children \subseteq Kids(s, cs[j].bb)
          /\ cs[j].ip <= Fin(src, cs[j].bb) => j = m /\ cs[j].children = Kids(s, cs[j].bb)
      BY DEF WalkOK, m
    <3>2. CASE j # m
      BY <1>1, <3>1, <3>2
    <3>3. CASE j = m
      <4>1. cs[j].ip <= Fin(src, cs[j].bb) /\ cs2[j].ip = cs[j].ip + 1
        BY <1>1, <3>3
      <4> QED BY <1>0, <1>2, <3>1, <3>3, <4>1
    <3> QED BY <3>2, <3>3
  <2>3. ASSUME NEW j \in 1..m, NEW a
        PROVE  SDom(s, a, cs2[j].bb) <=> \E h \in 1..(j - 1) : cs2[h].bb = a
    <3>1. SDom(s, a, cs[j].bb) <=> \E h \in 1..(j - 1) : cs[h].bb = a
      BY DEF WalkOK, m
    <3>2. \A h \in 1..(j - 1) : h \in 1..m
      BY <1>0
    <3> QED BY <1>2, <3>1, <3>2
  <2>4. ASSUME NEW j \in 1..m, j > 1
        PROVE  cs2[j].bb \in Kids(s, cs2[j - 1].bb) \ cs2[j - 1].children
    <3>1. cs[j].bb \in Kids(s, cs[j - 1].bb) \ cs[j - 1].children
      BY <2>4 DEF WalkOK, m
    <3>2. j - 1 \in 1..m
      BY <1>0, <2>4
    <3> QED BY <1>2, <3>1, <3>2
  <2> QED BY <1>0, <2>1, <2>2, <2>3, <2>4 DEF WalkOK
<1>4. ASSUME NEW b PROVE Returned(s, cs2, b) <=> Returned(s, cs, b)
  <2>1. On(cs2, b) <=> On(cs, b)
    BY <1>0, <1>2 DEF On, m
  <2>2. Pending(s, cs2, b) <=> Pending(s, cs, b)
    BY <1>0, <1>2 DEF Pending, m
  <2> QED BY <2>1, <2>2 DEF Returned
<1>5. cs[m].bb \in Block /\ cs[m].ip \in 0..Fin(src, cs[m].bb)
  BY <1>0, <1>1, <1>2
<1>6. ~Passed(s, src, cs, cs[m].bb, cs[m].ip) /\ ~Returned(s, cs, cs[m].bb)
  <2>1. ~Returned(s, cs, cs[m].bb)
    BY <1>0 DEF Returned, On, m
  <2>2. ~(cs[m].ip < cs[m].ip)
    BY <1>0, <1>2
  <2>3. m \in 1..Len(cs)
    BY <1>0 DEF m
  <2> QED BY <2>1, <2>2, <2>3, PassedIs
<1>7. ASSUME NEW b \in Block, NEW n
      PROVE  Passed(s, src, cs2, b, n) <=> Passed(s, src, cs, b, n) \/ (b = cs[m].bb /\ n = cs[m].ip)
  <2>1. CASE b # cs[m].bb
    <3>1. \A j \in 1..m : cs[j].bb = b => cs2[j] = cs[j]
      BY <1>1, <2>1
    <3>2. (\E j \in 1..m : cs2[j].bb = b /\ n < cs2[j].ip)
             <=> (\E j \in 1..m : cs[j].bb = b /\ n < cs[j].ip)
      BY <1>2, <3>1
    <3> QED BY <1>0, <1>4, <2>1, <3>2 DEF Passed, m
  <2>2. CASE b = cs[m].bb
    <3>1. m \in 1..Len(cs) /\ m \in 1..Len(cs2)
      BY <1>0 DEF m
    <3>2. Passed(s, src, cs, b, n) <=> n \in 0..Fin(src, b) /\ n < cs[m].ip
      BY <2>2, <3>1, PassedIs
    <3>3. Passed(s, src, cs2, b, n) <=> n \in 0..Fin(src, b) /\ n < cs2[m].ip
      BY <1>1, <1>3, <2>2, <3>1, PassedIs
    <3>4. cs[m].ip \in 0..Fin(src, b) /\ cs2[m].ip = cs[m].ip + 1 /\ Fin(src, b) \in Nat
      BY <1>0, <1>1, <1>5, <2>2
    <3>5. n \in 0..Fin(src, b) => (n < cs2[m].ip <=> n < cs[m].ip \/ n = cs[m].ip)
      BY <3>4
    <3> QED BY <2>2, <3>2, <3>3, <3>4, <3>5
  <2> QED BY <2>1, <2>2
<1> QED BY <1>3, <1>4, <1>5, <1>6, <1>7 DEF m

\* The call for a child of the block.
Descends(s, cs, cs2, c) ==
  LET m == Len(cs)
  IN  /\ cs # <<>> /\ cs2 \in Seq(Frame) /\ Len(cs2) = m + 1
      /\ \A j \in 1..(m - 1) : cs2[j] = cs[j]
      /\ cs2[m].bb = cs[m].bb /\ cs2[m].ip = cs[m].ip /\ cs2[m].wait_delete = cs[m].wait_delete
      /\ c \in cs[m].children /\ cs2[m].children = cs[m].children \ {c}
      /\ cs2[m + 1].bb = c /\ cs2[m + 1].ip = 0 /\ cs2[m + 1].children = Kids(s, c)
      /\ cs2[m + 1].wait_delete = {}

\* Descend: the call on a child passes no place.
LEMMA WalkDescends ==
  ASSUME NEW s, NEW src, Legal(s, src), NEW cs, WalkOK(s, src, cs),
         NEW cs2, NEW c, Descends(s, cs, cs2, c),
         cs[Len(cs)].ip = Fin(src, cs[Len(cs)].bb) + 1
  PROVE  /\ WalkOK(s, src, cs2)
         /\ \A b : Returned(s, cs2, b) <=> Returned(s, cs, b)
         /\ \A b \in Block : \A n : Passed(s, src, cs2, b, n) <=> Passed(s, src, cs, b, n)
<1> DEFINE m == Len(cs)
           m1 == m + 1
<1>0. /\ s \in [Block -> Target] /\ Ordered(s) /\ cs \in Seq(Frame) /\ cs2 \in Seq(Frame)
      /\ m \in Nat /\ m \in 1..m
      /\ m1 \in Nat /\ m1 \in 1..m1 /\ m1 \notin 1..m /\ m1 - 1 = m /\ m1 > 1 /\ m \in 1..m1
      /\ Len(cs2) = m1 /\ cs # <<>> /\ \A b \in Block : Fin(src, b) \in Nat /\ Fin(src, b) >= 1
  <2>1. Ordered(s) /\ cs \in Seq(Frame) /\ cs2 \in Seq(Frame) /\ Len(cs2) = m + 1 /\ cs # <<>>
        /\ s \in [Block -> Target] /\ \A b \in Block : Fin(src, b) \in Nat /\ Fin(src, b) >= 1
    BY LegalFacts DEF WalkOK, Descends
  <2> QED BY <2>1
<1>1. /\ \A j \in 1..m : j # m => cs2[j] = cs[j]
      /\ cs2[m].bb = cs[m].bb /\ cs2[m].ip = cs[m].ip
      /\ c \in cs[m].children /\ cs2[m].children = cs[m].children \ {c}
      /\ cs2[m1].bb = c /\ cs2[m1].ip = 0 /\ cs2[m1].children = Kids(s, c)
  <2>0. m \in Nat
    BY <1>0
  <2>1. \A j \in 1..m : j # m => j \in 1..(m - 1)
    BY ONLY <2>0
  <2> QED BY <2>1 DEF Descends
<1>2. \A j \in 1..m : cs2[j].bb = cs[j].bb /\ cs2[j].ip = cs[j].ip
                      /\ cs2[j].children \subseteq cs[j].children
  BY <1>1
<1>3. /\ c \in Kids(s, cs[m].bb) /\ cs[m].bb \in Reached(s) /\ c \in Reached(s) /\ c \in Block
      /\ SDom(s, cs[m].bb, c) /\ \A a : SDom(s, a, c) <=> Dom(s, a, cs[m].bb)
  <2>1. c \in Kids(s, cs[m].bb) /\ cs[m].bb \in Reached(s)
    BY <1>0, <1>1 DEF WalkOK
  <2> QED BY <1>0, <2>1, KidsAre DEF Ordered
<1>4. cs[m].ip = Fin(src, cs[m].bb) + 1
  OBVIOUS
<1>5. \A j \in 1..m1 : j # m1 => j \in 1..m
  BY <1>0
<1> HIDE DEF m, m1
<1>6. \A j \in 1..m :
       /\ cs[j].bb \in Reached(s) /\ cs[j].ip <= Fin(src, cs[j].bb) + 1
       /\ cs[j].children \subseteq Kids(s, cs[j].bb)
       /\ cs[j].ip <= Fin(src, cs[j].bb) => j = m
       /\ \A a : SDom(s, a, cs[j].bb) <=> \E h \in 1..(j - 1) : cs[h].bb = a
       /\ j > 1 => cs[j].bb \in Kids(s, cs[j - 1].bb) \ cs[j - 1].children
  BY DEF WalkOK, m
<1>7. WalkOK(s, src, cs2)
  <2>1. cs2 # <<>> /\ cs2[1].bb = Entry
    <3>1. 1 \in 1..m
      BY <1>0
    <3> QED BY <1>0, <1>2, <3>1 DEF WalkOK
  <2>2. ASSUME NEW j \in 1..m
        PROVE  /\ cs2[j].bb \in Reached(s) /\ cs2[j].ip <= Fin(src, cs2[j].bb) + 1
               /\ cs2[j].children \subseteq Kids(s, cs2[j].bb)
               /\ ~(cs2[j].ip <= Fin(src, cs2[j].bb))
    <3>1. cs[j].ip <= Fin(src, cs[j].bb) => cs[j].ip = Fin(src, cs[j].bb) + 1
      BY <1>4, <1>6
    <3>2. Fin(src, cs[j].bb) \in Nat
      BY <1>0, <1>6 DEF Ordered
    <3>3. ~(cs[j].ip <= Fin(src, cs[j].bb))
      BY <3>1, <3>2
    <3> QED BY <1>2, <1>6, <3>3
  <2>3. cs2[m1].bb \in Reached(s) /\ cs2[m1].ip <= Fin(src, cs2[m1].bb) + 1
        /\ cs2[m1].children = Kids(s, cs2[m1].bb)
    BY <1>0, <1>1, <1>3
  <2>4. ASSUME NEW j \in 1..m, NEW a
        PROVE  SDom(s, a, cs2[j].bb) <=> \E h \in 1..(j - 1) : cs2[h].bb = a
    <3>1. \A h \in 1..(j - 1) : h \in 1..m
      BY <1>0
    <3>2. SDom(s, a, cs[j].bb) <=> \E h \in 1..(j - 1) : cs[h].bb = a
      BY <1>6
    <3>3. \A h \in 1..(j - 1) : cs2[h].bb = cs[h].bb
      BY <1>2, <3>1
    <3> QED BY <1>2, <3>2, <3>3
  <2>5. ASSUME NEW a PROVE SDom(s, a, cs2[m1].bb) <=> \E h \in 1..(m1 - 1) : cs2[h].bb = a
    <3>1. SDom(s, a, c) <=> SDom(s, a, cs[m].bb) \/ a = cs[m].bb
      BY <1>0, <1>3 DEF SDom, Ordered
    <3>2. SDom(s, a, cs[m].bb) <=> \E h \in 1..(m - 1) : cs[h].bb = a
      BY <1>0, <1>6
    <3>3. \A h \in 1..m : h \in 1..(m - 1) \/ h = m
      BY <1>0
    <3>4. \A h \in 1..(m - 1) : h \in 1..m
      BY <1>0
    <3>5. SDom(s, a, c) <=> \E h \in 1..m : cs[h].bb = a
      BY <1>0, <3>1, <3>2, <3>3, <3>4
    <3>6. m1 - 1 = m /\ cs2[m1].bb = c /\ \A h \in 1..m : cs2[h].bb = cs[h].bb
      BY <1>0, <1>1, <1>2
    <3> HIDE DEF m, m1
    <3> QED BY <3>5, <3>6
  <2>6. ASSUME NEW j \in 1..m, j > 1
        PROVE  cs2[j].bb \in Kids(s, cs2[j - 1].bb) \ cs2[j - 1].children
    <3>1. cs[j].bb \in Kids(s, cs[j - 1].bb) \ cs[j - 1].children
      BY <1>6, <2>6
    <3>2. j - 1 \in 1..m
      BY <1>0, <2>6
    <3> QED BY <1>2, <3>1, <3>2
  <2>7. cs2[m1].bb \in Kids(s, cs2[m1 - 1].bb) \ cs2[m1 - 1].children
    BY <1>0, <1>1, <1>3
  <2>8. ASSUME NEW j \in 1..m1
        PROVE  /\ cs2[j].bb \in Reached(s) /\ cs2[j].ip <= Fin(src, cs2[j].bb) + 1
               /\ cs2[j].children \subseteq Kids(s, cs2[j].bb)
               /\ cs2[j].ip <= Fin(src, cs2[j].bb) => j = m1 /\ cs2[j].children = Kids(s, cs2[j].bb)
               /\ \A a : SDom(s, a, cs2[j].bb) <=> \E h \in 1..(j - 1) : cs2[h].bb = a
               /\ j > 1 => cs2[j].bb \in Kids(s, cs2[j - 1].bb) \ cs2[j - 1].children
    <3>1. CASE j \in 1..m
      BY <2>2, <2>4, <2>6, <3>1
    <3>2. CASE j = m1
      BY <2>3, <2>5, <2>7, <3>2
    <3> QED BY <1>5, <3>1, <3>2
  <2> QED BY <1>0, <2>1, <2>8 DEF WalkOK
<1>8. ASSUME NEW b PROVE Returned(s, cs2, b) <=> Returned(s, cs, b)
  <2>1. Returned(s, cs, b) => Returned(s, cs2, b)
    <3> SUFFICES ASSUME Returned(s, cs, b), On(cs2, b) \/ Pending(s, cs2, b) PROVE FALSE
      BY DEF Returned
    <3>1. ~Dom(s, c, b) /\ ~On(cs, b) /\ ~Pending(s, cs, b) /\ b \in Reached(s)
      BY <1>0, <1>1 DEF Returned, Pending, m
    <3>2. ~On(cs2, b)
      <4>1. b # c
        BY <1>0, <3>1 DEF Ordered
      <4> QED BY <1>0, <1>1, <1>2, <1>5, <3>1, <4>1 DEF On, m
    <3>3. PICK j \in 1..m1 : \E e \in cs2[j].children : Dom(s, e, b)
      BY <1>0, <3>2 DEF Pending
    <3>4. CASE j # m1
      BY <1>2, <1>5, <3>1, <3>3, <3>4 DEF Pending, m
    <3>5. CASE j = m1
      <4>1. PICK e \in Kids(s, c) : Dom(s, e, b)
        BY <1>1, <3>3, <3>5
      <4>2. SDom(s, c, e)
        BY <1>0, <1>3, KidsAre
      <4> QED BY <1>0, <3>1, <4>1, <4>2 DEF Ordered, SDom
    <3> QED BY <3>4, <3>5
  <2>2. Returned(s, cs2, b) => Returned(s, cs, b)
    <3> SUFFICES ASSUME Returned(s, cs2, b), On(cs, b) \/ Pending(s, cs, b) PROVE FALSE
      BY DEF Returned
    <3>1. ~On(cs, b)
      <4> SUFFICES ASSUME NEW j \in 1..m, cs[j].bb = b PROVE FALSE
        BY DEF On, m
      <4>1. j \in 1..m1 /\ cs2[j].bb = b
        BY <1>0, <1>2
      <4> QED BY <1>0, <4>1 DEF Returned, On
    <3>2. PICK j \in 1..m : \E e \in cs[j].children : Dom(s, e, b)
      BY <3>1 DEF Pending, m
    <3>3. PICK e \in cs[j].children : Dom(s, e, b)
      BY <3>2
    <3>4. j \in 1..m1
      BY <1>0
    <3>5. CASE e \in cs2[j].children
      BY <1>0, <3>3, <3>4, <3>5 DEF Returned, Pending
    <3>6. CASE e \notin cs2[j].children
      <4>1. e = c
        BY <1>1, <3>3, <3>6
      <4>2. CASE b = c
        BY <1>0, <1>1, <4>2 DEF Returned, On
      <4>3. CASE b # c
        <5>1. \E f \in Kids(s, c) : Dom(s, f, b)
          BY <1>0, <1>3, <3>3, <4>1, <4>3, KidsAre DEF SDom
        <5> QED BY <1>0, <1>1, <5>1 DEF Returned, Pending
      <4> QED BY <4>2, <4>3
    <3> QED BY <3>5, <3>6
  <2> QED BY <2>1, <2>2
<1>9. ASSUME NEW b \in Block, NEW n
      PROVE  Passed(s, src, cs2, b, n) <=> Passed(s, src, cs, b, n)
  <2>1. n \in 0..Fin(src, b) =>
          ((\E j \in 1..m1 : cs2[j].bb = b /\ n < cs2[j].ip)
             <=> (\E j \in 1..m : cs[j].bb = b /\ n < cs[j].ip))
    <3>1. \A j \in 1..m : j \in 1..m1
      BY <1>0
    <3>2. n \in 0..Fin(src, b) => ~(n < cs2[m1].ip)
      BY <1>0, <1>1
    <3> QED BY <1>2, <1>5, <3>1, <3>2
  <2> QED BY <1>0, <1>8, <2>1 DEF Passed, m
<1> QED BY <1>7, <1>8, <1>9

\* The return from a block whose children are done.
Leaves(cs, cs2) ==
  LET m == Len(cs)
  IN  /\ cs # <<>> /\ cs2 \in Seq(Frame) /\ Len(cs2) = m - 1
      /\ \A j \in 1..(m - 1) : cs2[j] = cs[j]
      /\ cs[m].children = {}

\* Leave: the block of the innermost call is returned from, and nothing else.
LEMMA WalkLeaves ==
  ASSUME NEW s, NEW src, Legal(s, src), NEW cs, WalkOK(s, src, cs),
         NEW cs2, Leaves(cs, cs2),
         cs[Len(cs)].ip = Fin(src, cs[Len(cs)].bb) + 1
  PROVE  /\ WalkOK(s, src, cs2)
         /\ \A b : Returned(s, cs2, b) <=> Returned(s, cs, b) \/ b = cs[Len(cs)].bb
         /\ \A b \in Block : \A n : Passed(s, src, cs2, b, n) <=> Passed(s, src, cs, b, n)
<1> DEFINE m == Len(cs)
           m1 == m - 1
<1>0. /\ s \in [Block -> Target] /\ Ordered(s) /\ cs \in Seq(Frame) /\ cs2 \in Seq(Frame)
      /\ m \in Nat /\ m \in 1..m /\ m1 \in Nat /\ Len(cs2) = m1 /\ cs # <<>>
      /\ \A j \in 1..m1 : j \in 1..m /\ j # m
      /\ \A j \in 1..m : j \in 1..m1 \/ j = m
      /\ \A b \in Block : Fin(src, b) \in Nat /\ Fin(src, b) >= 1
  <2>1. /\ s \in [Block -> Target] /\ Ordered(s) /\ cs \in Seq(Frame) /\ cs2 \in Seq(Frame)
        /\ cs # <<>> /\ Len(cs2) = m1 /\ \A b \in Block : Fin(src, b) \in Nat /\ Fin(src, b) >= 1
    BY LegalFacts DEF WalkOK, Leaves
  <2>2. m \in Nat /\ m # 0
    BY <2>1
  <2>3. /\ m \in Nat /\ m \in 1..m /\ m1 \in Nat /\ \A j \in 1..m1 : j \in 1..m /\ j # m
        /\ \A j \in 1..m : j \in 1..m1 \/ j = m
    BY ONLY <2>2
  <2> QED BY <2>1, <2>3
<1>1. /\ \A j \in 1..m1 : cs2[j] = cs[j]
      /\ cs[m].children = {} /\ cs[m].ip = Fin(src, cs[m].bb) + 1
  BY DEF Leaves
<1> HIDE DEF m, m1
<1>2. \A j \in 1..m :
       /\ cs[j].bb \in Reached(s) /\ cs[j].ip <= Fin(src, cs[j].bb) + 1
       /\ cs[j].children \subseteq Kids(s, cs[j].bb)
       /\ cs[j].ip <= Fin(src, cs[j].bb) => j = m /\ cs[j].children = Kids(s, cs[j].bb)
       /\ \A a : SDom(s, a, cs[j].bb) <=> \E h \in 1..(j - 1) : cs[h].bb = a
       /\ j > 1 => cs[j].bb \in Kids(s, cs[j - 1].bb) \ cs[j - 1].children
  BY DEF WalkOK, m
<1>3. WalkOK(s, src, cs2)
  <2>1. cs2 # <<>> => cs2[1].bb = Entry
    <3>1. cs2 # <<>> => 1 \in 1..m1
      BY <1>0
    <3> QED BY <1>0, <1>1, <3>1 DEF WalkOK
  <2>2. ASSUME NEW j \in 1..m1
        PROVE  /\ cs2[j].bb \in Reached(s) /\ cs2[j].ip <= Fin(src, cs2[j].bb) + 1
               /\ cs2[j].children \subseteq Kids(s, cs2[j].bb)
               /\ ~(cs2[j].ip <= Fin(src, cs2[j].bb))
               /\ \A a : SDom(s, a, cs2[j].bb) <=> \E h \in 1..(j - 1) : cs2[h].bb = a
               /\ j > 1 => cs2[j].bb \in Kids(s, cs2[j - 1].bb) \ cs2[j - 1].children
    <3>1. j \in 1..m /\ j # m /\ cs2[j] = cs[j]
      BY <1>0, <1>1
    <3>2. \A h \in 1..(j - 1) : cs2[h] = cs[h]
      <4>1. \A h \in 1..(j - 1) : h \in 1..m1
        BY <1>0
      <4> QED BY <1>1, <4>1
    <3>3. j > 1 => j - 1 \in 1..(j - 1)
      BY <1>0
    <3>4. \A a : SDom(s, a, cs[j].bb) <=> \E h \in 1..(j - 1) : cs[h].bb = a
      BY <1>2, <3>1
    <3>5. \A a : SDom(s, a, cs2[j].bb) <=> \E h \in 1..(j - 1) : cs2[h].bb = a
      BY <3>1, <3>2, <3>4
    <3> QED BY <1>2, <3>1, <3>2, <3>3, <3>5
  <2> QED BY <1>0, <2>1, <2>2 DEF WalkOK
<1>4. ASSUME NEW b PROVE Returned(s, cs2, b) <=> Returned(s, cs, b) \/ b = cs[m].bb
  <2>1. On(cs, b) <=> On(cs2, b) \/ b = cs[m].bb
    BY <1>0, <1>1 DEF On, m
  <2>2. Pending(s, cs, b) <=> Pending(s, cs2, b)
    BY <1>0, <1>1 DEF Pending, m
  <2>3. b = cs[m].bb => ~Pending(s, cs, b) /\ b \in Reached(s)
    BY <1>0, <1>2, WalkPath DEF m
  <2>4. b = cs[m].bb => ~On(cs2, b)
    <3> SUFFICES ASSUME NEW j \in 1..m1, cs2[j].bb = cs[m].bb PROVE FALSE
      BY <1>0 DEF On
    <3>1. j \in 1..m /\ j # m /\ cs[j].bb = cs[m].bb
      BY <1>0, <1>1
    <3> QED BY <1>0, <3>1, WalkPath DEF m
  <2> QED BY <2>1, <2>2, <2>3, <2>4 DEF Returned
<1>5. ASSUME NEW b \in Block, NEW n
      PROVE  Passed(s, src, cs2, b, n) <=> Passed(s, src, cs, b, n)
  <2> SUFFICES ASSUME n \in 0..Fin(src, b)
               PROVE  Passed(s, src, cs2, b, n) <=> Passed(s, src, cs, b, n)
    BY DEF Passed
  <2>1. CASE b = cs[m].bb
    <3>1. n < cs[m].ip
      BY <1>0, <1>1, <2>1
    <3>2. Passed(s, src, cs, b, n)
      BY <1>0, <2>1, <3>1 DEF Passed, m
    <3>3. Passed(s, src, cs2, b, n)
      BY <1>4, <2>1 DEF Passed
    <3> QED BY <3>2, <3>3
  <2>2. CASE b # cs[m].bb
    <3>1. (\E j \in 1..m1 : cs2[j].bb = b /\ n < cs2[j].ip)
             <=> (\E j \in 1..m : cs[j].bb = b /\ n < cs[j].ip)
      BY <1>0, <1>1, <2>2
    <3> QED BY <1>0, <1>4, <2>2, <3>1 DEF Passed, m
  <2> QED BY <2>1, <2>2
<1> QED BY <1>3, <1>4, <1>5 DEF m

-----------------------------------------------------------------------------
(* What reaches a place. *)

\* All of a block strictly above one on the path was passed.
LEMMA AbovePath ==
  ASSUME NEW s, NEW src, Legal(s, src), NEW cs, WalkOK(s, src, cs),
         NEW j \in 1..Len(cs), NEW e, SDom(s, e, cs[j].bb)
  PROVE  /\ e \in Block /\ e \in Reached(s)
         /\ \A m \in 0..Fin(src, e) : Passed(s, src, cs, e, m)
<1>0. Ordered(s) /\ cs \in Seq(Frame) /\ Len(cs) \in Nat
  BY LegalFacts DEF WalkOK
<1>1. e \in Reached(s) /\ e \in Block /\ Fin(src, e) \in Nat
  BY <1>0, LegalFacts DEF SDom, Ordered
<1>2. PICK k \in 1..(j - 1) : cs[k].bb = e
  BY DEF WalkOK
<1>3. k \in 1..Len(cs) /\ k # Len(cs)
  BY <1>0
<1>4. ~(cs[k].ip <= Fin(src, e)) /\ cs[k].ip \in Nat
  <2>1. cs[k].ip <= Fin(src, cs[k].bb) => k = Len(cs)
    BY <1>3 DEF WalkOK
  <2>2. cs[k] \in Frame
    BY <1>0, <1>3
  <2> QED BY <1>2, <1>3, <2>1, <2>2 DEF Frame
<1>5. \A m \in 0..Fin(src, e) : m < cs[k].ip
  BY <1>1, <1>4
<1> QED BY <1>1, <1>2, <1>3, <1>5 DEF Passed

\* An operand is defined above its user.
LEMMA ArgIs ==
  ASSUME NEW s, NEW src, Legal(s, src), NEW b \in Reached(s), NEW n \in DOMAIN src[b],
         src[b][n].arg # NoValue
  PROVE  LET x == src[b][n].arg
         IN  /\ IsDef(src, x) /\ x = <<x[1], x[2]>> /\ x[1] \in Block
             /\ x[2] \in 1..(Fin(src, x[1]) - 1)
             /\ SDom(s, x[1], b) \/ (x[1] = b /\ x[2] < n)
<1> DEFINE x == src[b][n].arg
<1>0. b \in Block
  BY LegalFacts DEF Ordered
<1>1. x \in InstrId /\ Defines(src, b, n, x) /\ x[1] \in DominatorsOf(s, b)
  BY <1>0 DEF Legal
<1>2. x = <<x[1], x[2]>> /\ x[1] \in Block
  BY <1>1 DEF InstrId
<1>3. IsDef(src, x) /\ (x[1] = b => x[2] < n)
  BY <1>1 DEF IsDef, Defines
<1>4. x[2] \in 1..(Fin(src, x[1]) - 1)
  BY <1>2, <1>3, LegalFacts DEF IsDef
<1> HIDE DEF x
<1>5. SDom(s, x[1], b) \/ x[1] = b
  BY <1>1 DEF SDom, Dom
<1> QED BY <1>2, <1>3, <1>4, <1>5 DEF x

\* What is available at a place is available wherever that place dominates.
LEMMA AvailDown ==
  ASSUME NEW s, NEW src, Legal(s, src), NEW ph, NEW a, NEW k, NEW b \in Reached(s), NEW n, NEW x,
         Avail(s, src, ph, a, k, x),
         SDom(s, a, b) \/ (a = b /\ k \in Nat /\ n \in Nat /\ k <= n)
  PROVE  Avail(s, src, ph, b, n, x)
<1>0. Ordered(s)
  BY LegalFacts
<1>1. CASE x \in ph /\ Dom(s, x[1], a)
  BY <1>0, <1>1 DEF Avail, Ordered, SDom
<1>2. CASE IsDef(src, x) /\ SDom(s, x[1], a)
  BY <1>0, <1>2 DEF Avail, Ordered, SDom
<1>3. CASE IsDef(src, x) /\ x[1] = a /\ x[2] < k
  <2>1. CASE SDom(s, a, b)
    BY <1>3, <2>1 DEF Avail
  <2>2. CASE a = b /\ k \in Nat /\ n \in Nat /\ k <= n
    <3>1. x[2] \in Nat
      BY <1>3 DEF IsDef, InstrId
    <3>2. x[2] < n
      BY <1>3, <2>2, <3>1
    <3> QED BY <1>3, <2>2, <3>2 DEF Avail
  <2> QED BY <2>1, <2>2
<1> QED BY <1>1, <1>2, <1>3 DEF Avail

\* H and H2 agree on the places reached.
Agree(s, src, cs, H, H2) ==
  \A b \in Block : \A n \in 1..Fin(src, b) :
    Passed(s, src, cs, b, n - 1) => H2[<<b, n>>] = H[<<b, n>>]

\* What is known of a load already does not change when more is known.
LEMMA CurAgrees ==
  ASSUME NEW s, NEW src, Legal(s, src), NEW cs, WalkOK(s, src, cs), NEW H, NEW H2,
         Agree(s, src, cs, H, H2), NEW x,
         IsLoad(src, x) => Passed(s, src, cs, x[1], x[2] - 1)
  PROVE  Cur(src, H2, x) = Cur(src, H, x)
<1>1. CASE ~IsLoad(src, x)
  BY <1>1 DEF Cur
<1>2. CASE IsLoad(src, x)
  <2>1. x[1] \in Block /\ x = <<x[1], x[2]>> /\ x[2] \in DOMAIN src[x[1]]
    BY <1>2 DEF IsLoad, IsDef, InstrId
  <2>2. x[2] \in 1..Fin(src, x[1])
    BY <2>1, LegalFacts
  <2>3. H2[<<x[1], x[2]>>] = H[<<x[1], x[2]>>]
    BY <1>2, <2>1, <2>2 DEF Agree
  <2>4. H2[x] = H[x]
    BY <2>1, <2>3
  <2> QED BY <2>4 DEF Cur
<1> QED BY <1>1, <1>2

\* H2 adds to H what reaches the place after the one re_name is at.
Grows(s, src, ph, cs, H, H2) ==
  LET b == cs[Len(cs)].bb
      n == cs[Len(cs)].ip
  IN  /\ H2 \in [Block \X Nat -> [Var -> Value \cup {NoValue}]]
      /\ Agree(s, src, cs, H, H2)
      /\ n = 0 => \A v \in Var : H2[<<b, 1>>][v] = AtHead(s, src, ph, H, b, v)
      /\ n \in DOMAIN src[b] => \A v \in Var : H2[<<b, n + 1>>][v] = After(src, H, b, n, v)

\* A step past one place extends what is known by what reaches the next.
LEMMA ReachExtends ==
  ASSUME NEW s, NEW src, Legal(s, src), NEW ph, PhisOK(s, src, ph),
         NEW cs, WalkOK(s, src, cs), NEW H, ReachOK(s, src, ph, cs, H),
         NEW cs2, Advances(src, cs, cs2), NEW H2, Grows(s, src, ph, cs, H, H2)
  PROVE  ReachOK(s, src, ph, cs2, H2)
<1> SUFFICES
      ASSUME NEW b0, NEW n0, b0 = cs[Len(cs)].bb, n0 = cs[Len(cs)].ip,
             H2 \in [Block \X Nat -> [Var -> Value \cup {NoValue}]],
             Agree(s, src, cs, H, H2),
             n0 = 0 => \A v \in Var : H2[<<b0, 1>>][v] = AtHead(s, src, ph, H, b0, v),
             n0 \in DOMAIN src[b0] =>
               \A v \in Var : H2[<<b0, n0 + 1>>][v] = After(src, H, b0, n0, v)
      PROVE  ReachOK(s, src, ph, cs2, H2)
  BY DEF Grows
<1>0. /\ Ordered(s) /\ b0 \in Block /\ n0 \in 0..Fin(src, b0)
      /\ \A b \in Block : Fin(src, b) \in Nat /\ Fin(src, b) >= 1 /\ DOMAIN src[b] = 1..(Fin(src, b) - 1)
      /\ ~Passed(s, src, cs, b0, n0)
      /\ Len(cs) \in 1..Len(cs) /\ b0 \in Reached(s)
      /\ s \in [Block -> Target]
  <2>1. b0 \in Block /\ n0 \in 0..Fin(src, b0) /\ ~Passed(s, src, cs, b0, n0)
    BY WalkAdvances
  <2>2. /\ Ordered(s) /\ \A b \in Block : Fin(src, b) \in Nat /\ Fin(src, b) >= 1
                                           /\ DOMAIN src[b] = 1..(Fin(src, b) - 1)
        /\ s \in [Block -> Target]
    BY LegalFacts
  <2>3. Len(cs) \in 1..Len(cs)
    BY DEF Advances, WalkOK
  <2>4. b0 \in Reached(s)
    BY <2>3 DEF WalkOK
  <2> QED BY <2>1, <2>2, <2>3, <2>4
<1>1. \A b \in Block : \A n : Passed(s, src, cs2, b, n) <=>
         Passed(s, src, cs, b, n) \/ (b = b0 /\ n = n0)
  BY WalkAdvances
\* Above what is passed now, everything was passed before.
<1>2. ASSUME NEW b \in Block, NEW n, Passed(s, src, cs2, b, n)
      PROVE  /\ b \in Reached(s) /\ n \in 0..Fin(src, b)
             /\ \A e : SDom(s, e, b) => /\ e \in Block /\ e \in Reached(s)
                                        /\ \A m \in 0..Fin(src, e) : Passed(s, src, cs, e, m)
             /\ \A m \in Nat : m < n => Passed(s, src, cs, b, m)
  <2>1. CASE Passed(s, src, cs, b, n)
    <3>1. /\ b \in Reached(s) /\ n \in 0..Fin(src, b)
          /\ \A e : SDom(s, e, b) => e \in Block /\ \A m \in 0..Fin(src, e) : Passed(s, src, cs, e, m)
      BY <2>1, PassedIs
    <3>2. \A e : SDom(s, e, b) => e \in Reached(s)
      BY <1>0 DEF Ordered, SDom
    <3>3. n \in Nat
      BY <1>0, <3>1
    <3>4. \A m \in Nat : m < n => m <= n
      BY <3>3
    <3>5. \A m \in Nat : m < n => Passed(s, src, cs, b, m)
      BY <2>1, <3>4, PassedIs
    <3> QED BY <3>1, <3>2, <3>5
  <2>2. CASE b = b0 /\ n = n0
    <3>1. \A e : SDom(s, e, b0) => /\ e \in Block /\ e \in Reached(s)
                                   /\ \A m \in 0..Fin(src, e) : Passed(s, src, cs, e, m)
      BY <1>0, AbovePath
    <3>2. \A m \in Nat : m < n0 => Passed(s, src, cs, b0, m)
      <4>1. \A m \in Nat : m < n0 => m \in 0..Fin(src, b0)
        BY <1>0
      <4> QED BY <1>0, <4>1, PassedIs
    <3> QED BY <1>0, <2>2, <3>1, <3>2
  <2> QED BY <1>1, <1>2, <2>1, <2>2
\* Neither side of an equation changes.
<1>3. ASSUME NEW b \in Block, NEW n \in 1..Fin(src, b), Passed(s, src, cs2, b, n)
      PROVE  H2[<<b, n>>] = H[<<b, n>>]
  <2>1. n - 1 \in Nat /\ n - 1 < n
    BY <1>0
  <2>2. Passed(s, src, cs, b, n - 1)
    BY <1>2, <1>3, <2>1
  <2> QED BY <2>2 DEF Agree
<1>4. ASSUME NEW b \in Block, NEW v \in Var, Passed(s, src, cs2, b, 0)
      PROVE  AtHead(s, src, ph, H2, b, v) = AtHead(s, src, ph, H, b, v)
  <2> DEFINE q == ImmediateDominator(s, b)
  <2>1. b # Entry => H2[<<q, Fin(src, q)>>] = H[<<q, Fin(src, q)>>]
    <3> SUFFICES ASSUME b # Entry PROVE H2[<<q, Fin(src, q)>>] = H[<<q, Fin(src, q)>>]
      OBVIOUS
    <3>1. b \in Reached(s)
      BY <1>2, <1>4
    <3>2. SDom(s, q, b)
      BY <1>0, <3>1, IdomIs, TargetGraphs
    <3> HIDE DEF q
    <3>3. q \in Block /\ Fin(src, q) \in 1..Fin(src, q) /\ Fin(src, q) - 1 \in 0..Fin(src, q)
      BY <1>0, <1>2, <1>4, <3>2
    <3>4. Passed(s, src, cs, q, Fin(src, q) - 1)
      BY <1>2, <1>4, <3>2, <3>3
    <3> QED BY <3>3, <3>4 DEF Agree
  <2> QED BY <2>1 DEF AtHead
<1>5. ASSUME NEW b \in Block, NEW n \in DOMAIN src[b], Passed(s, src, cs2, b, n),
             src[b][n].op = "store"
      PROVE  LET x == src[b][n].arg
             IN  /\ IsDef(src, x) /\ x[1] \in Block /\ x = <<x[1], x[2]>>
                 /\ SDom(s, x[1], b) \/ (x[1] = b /\ x[2] < n)
                 /\ x[2] \in 1..Fin(src, x[1]) /\ Passed(s, src, cs, x[1], x[2] - 1)
  <2> DEFINE x == src[b][n].arg
  <2>1. x # NoValue /\ b \in Reached(s)
    BY <1>2, <1>5 DEF Legal
  <2>2. /\ IsDef(src, x) /\ x[1] \in Block /\ x = <<x[1], x[2]>>
        /\ x[2] \in 1..(Fin(src, x[1]) - 1)
        /\ SDom(s, x[1], b) \/ (x[1] = b /\ x[2] < n)
    BY <2>1, ArgIs
  <2> HIDE DEF x
  <2> DEFINE k == x[2] - 1
  <2>3. k \in 0..Fin(src, x[1]) /\ x[2] \in 1..Fin(src, x[1]) /\ k \in Nat
    BY <1>0, <2>2
  <2>4. x[1] = b /\ x[2] < n => k < n
    BY <1>0, <2>2
  <2> HIDE DEF k
  <2>5. Passed(s, src, cs, x[1], k)
    BY <1>2, <1>5, <2>2, <2>3, <2>4
  <2> QED BY <2>2, <2>3, <2>5 DEF x, k
<1>6. ASSUME NEW b \in Block, NEW n \in DOMAIN src[b], Passed(s, src, cs2, b, n), NEW v \in Var
      PROVE  After(src, H2, b, n, v) = After(src, H, b, n, v)
  <2>1. H2[<<b, n>>] = H[<<b, n>>]
    BY <1>0, <1>3, <1>6
  <2>2. src[b][n].op = "store" => Cur(src, H2, src[b][n].arg) = Cur(src, H, src[b][n].arg)
    BY <1>5, <1>6, CurAgrees
  <2> QED BY <2>1, <2>2 DEF After
<1>7. ASSUME NEW b \in Block, NEW v \in Var, Passed(s, src, cs2, b, 0)
      PROVE  H2[<<b, 1>>][v] = AtHead(s, src, ph, H2, b, v)
  <2>1. CASE Passed(s, src, cs, b, 0)
    <3>1. H2[<<b, 1>>] = H[<<b, 1>>]
      <4> DEFINE k == 1
      <4>1. k \in 1..Fin(src, b) /\ k - 1 = 0
        BY <1>0
      <4> HIDE DEF k
      <4>2. H2[<<b, k>>] = H[<<b, k>>]
        BY <2>1, <4>1 DEF Agree
      <4> QED BY <4>2 DEF k
    <3>2. H[<<b, 1>>][v] = AtHead(s, src, ph, H, b, v)
      BY <2>1 DEF ReachOK
    <3> QED BY <1>4, <1>7, <3>1, <3>2
  <2>2. CASE b = b0 /\ 0 = n0
    BY <1>4, <1>7, <2>2
  <2> QED BY <1>1, <1>7, <2>1, <2>2
<1>8. ASSUME NEW b \in Block, NEW v \in Var, NEW n \in DOMAIN src[b], Passed(s, src, cs2, b, n)
      PROVE  H2[<<b, n + 1>>][v] = After(src, H2, b, n, v)
  <2>1. CASE Passed(s, src, cs, b, n)
    <3>1. H2[<<b, n + 1>>] = H[<<b, n + 1>>]
      <4> DEFINE k == n + 1
      <4>1. k \in 1..Fin(src, b) /\ k - 1 = n
        BY <1>0
      <4> HIDE DEF k
      <4>2. H2[<<b, k>>] = H[<<b, k>>]
        BY <2>1, <4>1 DEF Agree
      <4> QED BY <4>2 DEF k
    <3>2. H[<<b, n + 1>>][v] = After(src, H, b, n, v)
      BY <2>1 DEF ReachOK
    <3> QED BY <1>6, <1>8, <3>1, <3>2
  <2>2. CASE b = b0 /\ n = n0
    BY <1>6, <1>8, <2>2
  <2> QED BY <1>1, <1>8, <2>1, <2>2
\* What reaches the new place is available there.
<1>9. ASSUME NEW b \in Block, NEW v \in Var, NEW n \in 1..Fin(src, b),
             Passed(s, src, cs2, b, n - 1), H2[<<b, n>>][v] # NoValue
      PROVE  Avail(s, src, ph, b, n, H2[<<b, n>>][v])
  <2>0. n \in Nat /\ n - 1 \in Nat /\ (n - 1) + 1 = n /\ n - 1 <= n /\ n # 0 /\ n - 1 < n
    BY <1>0, SMTT(30)
  <2>1. CASE Passed(s, src, cs, b, n - 1)
    <3>1. H2[<<b, n>>] = H[<<b, n>>]
      BY <2>1 DEF Agree
    <3> QED BY <1>9, <2>1, <3>1 DEF ReachOK
  <2>2. CASE b = b0 /\ n - 1 = n0 /\ n0 = 0
    <3>0. n = 1
      BY <2>0, <2>2
    <3>1. n = 1 /\ H2[<<b, n>>][v] = AtHead(s, src, ph, H, b, v)
      BY <2>2, <3>0
    <3>2. CASE <<b, v>> \in ph
      <4>1. Dom(s, b, b)
        BY <1>0, <2>2 DEF Ordered
      <4> QED BY <3>1, <3>2, <4>1 DEF AtHead, Avail
    <3>3. CASE <<b, v>> \notin ph
      <4> DEFINE q == ImmediateDominator(s, b)
                 l == Fin(src, q)
      <4>1. b # Entry /\ H2[<<b, n>>][v] = H[<<q, l>>][v]
        BY <1>9, <3>1, <3>3 DEF AtHead
      <4>2. SDom(s, q, b)
        BY <1>0, <2>2, <4>1, IdomIs, TargetGraphs
      <4> HIDE DEF q
      <4>3. q \in Block /\ l \in 1..l /\ l - 1 \in 0..l
        <5>1. q \in Block
          BY <1>2, <1>9, <2>2, <4>2
        <5>2. l \in Nat /\ l >= 1
          BY <1>0, <5>1
        <5> HIDE DEF l
        <5> QED BY <5>1, <5>2
      <4>4. Passed(s, src, cs, q, l - 1)
        BY <1>2, <1>9, <4>2, <4>3
      <4>5. Avail(s, src, ph, q, l, H[<<q, l>>][v])
        BY <1>9, <4>1, <4>3, <4>4 DEF ReachOK
      <4>6. b \in Reached(s)
        BY <1>0, <2>2
      <4> QED BY <4>1, <4>2, <4>5, <4>6, AvailDown
    <3> QED BY <3>2, <3>3
  <2>3. CASE b = b0 /\ n - 1 = n0 /\ n0 # 0
    <3> DEFINE k == n - 1
    <3>1. k \in DOMAIN src[b] /\ k + 1 = n /\ k \in Nat /\ k <= n /\ k = n0 /\ k - 1 \in Nat /\ k - 1 < k
          /\ k \in 1..Fin(src, b)
      BY <1>0, <2>0, <2>3
    <3> HIDE DEF k
    <3>2. H2[<<b, n>>][v] = After(src, H, b, k, v) /\ b \in Reached(s) /\ Passed(s, src, cs2, b, k)
      BY <1>0, <1>9, <2>3, <3>1 DEF k
    <3>3. CASE src[b][k].op = "store" /\ src[b][k].var = v
      <4> DEFINE x == src[b][k].arg
      <4>1. H2[<<b, n>>][v] = Cur(src, H, x)
        BY <3>2, <3>3 DEF After
      <4>2. /\ IsDef(src, x) /\ x[1] \in Block /\ x = <<x[1], x[2]>>
            /\ SDom(s, x[1], b) \/ (x[1] = b /\ x[2] < k)
            /\ x[2] \in 1..Fin(src, x[1]) /\ Passed(s, src, cs, x[1], x[2] - 1)
        BY <1>5, <3>1, <3>2, <3>3
      <4> HIDE DEF x
      <4>3. x[2] \in Nat /\ (x[2] < k => x[2] < n /\ x[2] <= n)
        <5> DEFINE h == x[2]
                   l == Fin(src, x[1])
        <5>1. h \in 1..l /\ l \in Nat /\ x[1] \in Block
          <6>1. x[1] \in Block
            BY <4>2 DEF IsDef, InstrId
          <6> QED BY <1>0, <4>2, <6>1
        <5> HIDE DEF h, l
        <5>2. h \in Nat /\ (h < k => h < n /\ h <= n)
          BY <2>0, <3>1, <5>1
        <5> QED BY <5>2 DEF h
      <4>4. CASE Cur(src, H, x) = x
        BY <4>1, <4>2, <4>3, <4>4 DEF Avail
      <4>5. CASE Cur(src, H, x) # x
        <5> DEFINE w == VarOf(src, x)
        <5>1. IsLoad(src, x) /\ Cur(src, H, x) = H[x][w] /\ H[x][w] # NoValue
          BY <4>5 DEF Cur
        <5>2. w \in Var
          <6>1. src[x[1]] \in Seq(Instr) /\ x[2] \in DOMAIN src[x[1]]
            BY <4>2, LegalFacts DEF IsDef
          <6>2. src[x[1]][x[2]] \in Instr
            BY <6>1
          <6> QED BY <6>2 DEF Instr, VarOf
        <5> HIDE DEF w
        <5>3. H[<<x[1], x[2]>>][w] # NoValue /\ H[<<x[1], x[2]>>][w] = H[x][w]
          BY <4>2, <5>1
        <5>4. Avail(s, src, ph, x[1], x[2], H[<<x[1], x[2]>>][w])
          BY <4>2, <5>2, <5>3 DEF ReachOK
        <5>5. SDom(s, x[1], b) \/ (x[1] = b /\ x[2] \in Nat /\ n \in Nat /\ x[2] <= n)
          BY <2>0, <4>2, <4>3
        <5>6. Avail(s, src, ph, b, n, H[<<x[1], x[2]>>][w])
          BY <3>2, <5>4, <5>5, AvailDown
        <5> QED BY <4>1, <5>1, <5>3, <5>6
      <4> QED BY <4>4, <4>5
    <3>4. CASE ~(src[b][k].op = "store" /\ src[b][k].var = v)
      <4>1. H2[<<b, n>>][v] = H[<<b, k>>][v]
        BY <3>2, <3>4 DEF After
      <4>2. Passed(s, src, cs, b, k - 1)
        BY <1>2, <3>1, <3>2
      <4>3. Avail(s, src, ph, b, k, H[<<b, k>>][v])
        BY <1>9, <3>1, <4>1, <4>2 DEF ReachOK
      <4>4. Avail(s, src, ph, b, n, H[<<b, k>>][v])
        BY <2>0, <3>1, <3>2, <4>3, AvailDown
      <4> QED BY <4>1, <4>4
    <3> QED BY <3>3, <3>4
  <2> QED BY <1>1, <1>9, <2>1, <2>2, <2>3
<1> QED BY <1>7, <1>8, <1>9 DEF ReachOK

-----------------------------------------------------------------------------
(* The code. *)

\* What is available at a place that is reached was passed.
LEMMA AvailPassed ==
  ASSUME NEW s, NEW src, Legal(s, src), NEW ph, PhisOK(s, src, ph),
         NEW cs, WalkOK(s, src, cs), NEW b \in Block, NEW n \in Nat,
         Passed(s, src, cs, b, n - 1), NEW a, NEW k \in Nat,
         Avail(s, src, ph, b, n, <<a, k>>)
  PROVE  Passed(s, src, cs, a, k)
<1>1. <<a, k>> \notin ph
  BY VarAssumption DEF PhisOK
<1>2. IsDef(src, <<a, k>>) /\ (SDom(s, a, b) \/ (a = b /\ k < n))
  BY <1>1 DEF Avail
<1>3. a \in Block /\ k \in 0..Fin(src, a)
  <2>1. a \in Block /\ k \in DOMAIN src[a]
    BY <1>2 DEF IsDef, InstrId
  <2> QED BY <2>1, LegalFacts
<1>4. CASE SDom(s, a, b)
  BY <1>3, <1>4, PassedIs
<1>5. CASE a = b /\ k < n
  <2>1. k <= n - 1
    BY <1>5
  <2> QED BY <1>5, <2>1, PassedIs
<1> QED BY <1>2, <1>4, <1>5

\* The place of an instruction that was passed was reached.
LEMMA LoadPlace ==
  ASSUME NEW s, NEW src, Legal(s, src), NEW cs, WalkOK(s, src, cs), NEW x, IsDef(src, x)
  PROVE  /\ x = <<x[1], x[2]>> /\ x[1] \in Block /\ x[2] \in Nat /\ x[2] - 1 \in Nat
         /\ x[2] \in 1..Fin(src, x[1]) /\ VarOf(src, x) \in Var
         /\ Passed(s, src, cs, x[1], x[2]) => Passed(s, src, cs, x[1], x[2] - 1)
<1>1. x = <<x[1], x[2]>> /\ x[1] \in Block /\ x[2] \in Nat /\ x[2] \in DOMAIN src[x[1]]
  BY DEF IsDef, InstrId
<1>2. x[2] \in 1..(Fin(src, x[1]) - 1) /\ Fin(src, x[1]) \in Nat
  BY <1>1, LegalFacts
<1>3. x[2] - 1 \in Nat /\ x[2] - 1 <= x[2] /\ x[2] \in 1..Fin(src, x[1])
  BY <1>1, <1>2
<1>4. VarOf(src, x) \in Var
  <2>1. src[x[1]] \in Seq(Instr)
    BY <1>1, LegalFacts
  <2>2. src[x[1]][x[2]] \in Instr
    BY <1>1, <2>1
  <2> QED BY <2>2 DEF Instr, VarOf
<1>5. Passed(s, src, cs, x[1], x[2]) => Passed(s, src, cs, x[1], x[2] - 1)
  BY <1>1, <1>3, PassedIs
<1> QED BY <1>1, <1>3, <1>4, <1>5

\* An operand names an instruction not passed yet only if the source does.
LEMMA CurrentIs ==
  ASSUME NEW s, NEW src, Legal(s, src), NEW ph, PhisOK(s, src, ph),
         NEW cs, WalkOK(s, src, cs), NEW H, ReachOK(s, src, ph, cs, H), NEW x,
         NEW a, NEW k \in Nat, ~Passed(s, src, cs, a, k),
         Current(s, src, cs, H, x) = <<a, k>>
  PROVE  x = <<a, k>>
<1> SUFFICES ASSUME IsLoad(src, x), Passed(s, src, cs, x[1], x[2]),
                    H[x][VarOf(src, x)] # NoValue, H[x][VarOf(src, x)] = <<a, k>>
             PROVE  FALSE
  BY DEF Current, Cur
<1>1. /\ x = <<x[1], x[2]>> /\ x[1] \in Block /\ x[2] \in Nat /\ x[2] - 1 \in Nat
      /\ x[2] \in 1..Fin(src, x[1]) /\ VarOf(src, x) \in Var
      /\ Passed(s, src, cs, x[1], x[2] - 1)
  BY LoadPlace DEF IsLoad
<1> DEFINE w == VarOf(src, x)
<1>2. H[<<x[1], x[2]>>][w] = <<a, k>> /\ H[<<x[1], x[2]>>][w] # NoValue /\ w \in Var
  BY <1>1
<1> HIDE DEF w
<1>3. Avail(s, src, ph, x[1], x[2], H[<<x[1], x[2]>>][w])
  BY <1>1, <1>2 DEF ReachOK
<1>4. Avail(s, src, ph, x[1], x[2], <<a, k>>)
  BY <1>2, <1>3
<1>5. Passed(s, src, cs, a, k)
  BY <1>1, <1>4, AvailPassed
<1> QED BY <1>5

\* Passing a place tells what that place was, and nothing else.
LEMMA CurrentAdvances ==
  ASSUME NEW s, NEW src, Legal(s, src), NEW cs, WalkOK(s, src, cs), NEW H, NEW H2,
         Agree(s, src, cs, H, H2), NEW cs2, Advances(src, cs, cs2), NEW o,
         o = <<cs[Len(cs)].bb, cs[Len(cs)].ip>>, NEW x
  PROVE  /\ x # o \/ ~IsLoad(src, x) => Current(s, src, cs2, H2, x) = Current(s, src, cs, H, x)
         /\ x = o /\ IsLoad(src, x) => /\ Current(s, src, cs, H, x) = x
                                       /\ Current(s, src, cs2, H2, x) = Cur(src, H, x)
<1>1. CASE ~IsLoad(src, x)
  BY <1>1 DEF Current
<1>2. CASE IsLoad(src, x)
  <2>1. /\ x = <<x[1], x[2]>> /\ x[1] \in Block /\ x[2] \in Nat
        /\ Passed(s, src, cs, x[1], x[2]) => Passed(s, src, cs, x[1], x[2] - 1)
    BY <1>2, LoadPlace DEF IsLoad
  <2>2. Passed(s, src, cs2, x[1], x[2]) <=> Passed(s, src, cs, x[1], x[2]) \/ x = o
    BY <2>1, WalkAdvances
  <2>3. ~Passed(s, src, cs, o[1], o[2]) /\ o[1] \in Block /\ WalkOK(s, src, cs2)
    BY WalkAdvances
  <2>4. Passed(s, src, cs, x[1], x[2]) => Cur(src, H2, x) = Cur(src, H, x)
    BY <2>1, CurAgrees
  <2>5. x = o => Cur(src, H2, x) = Cur(src, H, x)
    <3> SUFFICES ASSUME x = o PROVE Cur(src, H2, x) = Cur(src, H, x)
      OBVIOUS
    <3>1. Passed(s, src, cs2, x[1], x[2] - 1) /\ x[2] - 1 \in Nat
      BY <1>2, <2>2, <2>3, LoadPlace DEF IsLoad
    <3>2. x[2] - 1 # x[2]
      BY <2>1
    <3>3. Passed(s, src, cs, x[1], x[2] - 1)
      BY <2>1, <3>1, <3>2, WalkAdvances
    <3> QED BY <3>3, CurAgrees
  <2> QED BY <1>2, <2>2, <2>3, <2>4, <2>5 DEF Current
<1> QED BY <1>1, <1>2

\* Value::replace_all_use_with on the operands of the code.
Replaces(cd, cd2, old, new) ==
  cd2 = [b \in Block |-> [n \in DOMAIN cd[b] |->
           IF cd[b][n].arg = old THEN [cd[b][n] EXCEPT !.arg = new] ELSE cd[b][n]]]

\* Nor does whether a passed instruction is to be erased.
LEMMA GoneAgrees ==
  ASSUME NEW s, NEW src, Legal(s, src), NEW cs, WalkOK(s, src, cs), NEW H, NEW H2,
         Agree(s, src, cs, H, H2), NEW b \in Block, NEW n \in DOMAIN src[b],
         Passed(s, src, cs, b, n - 1)
  PROVE  Gone(src, H2, b, n) <=> Gone(src, H, b, n)
<1>1. n \in 1..Fin(src, b)
  BY LegalFacts
<1>2. H2[<<b, n>>] = H[<<b, n>>]
  BY <1>1 DEF Agree
<1> QED BY <1>2 DEF Gone

\* A load that a value reaches is replaced; it and a store wait to be erased.
Renames(src, cs, H, cd, cs2, cd2) ==
  LET o == <<cs[Len(cs)].bb, cs[Len(cs)].ip>>
  IN  /\ IF IsLoad(src, o) /\ H[o][VarOf(src, o)] # NoValue
         THEN Replaces(cd, cd2, o, H[o][VarOf(src, o)]) ELSE cd2 = cd
      /\ \A x \in InstrId : x \in cs2[Len(cs)].wait_delete <=>
           \/ x \in cs[Len(cs)].wait_delete
           \/ x = o /\ x[2] \in DOMAIN src[x[1]] /\ Gone(src, H, x[1], x[2])

\* Code and wait_delete stay right when the walk goes one place further.
LEMMA CodeAdvances ==
  ASSUME NEW s, NEW src, Legal(s, src), NEW ph, PhisOK(s, src, ph),
         NEW cs, WalkOK(s, src, cs), NEW H, ReachOK(s, src, ph, cs, H),
         NEW cd, CodeOK(s, src, cs, cd, H),
         NEW cs2, Advances(src, cs, cs2), NEW H2, Grows(s, src, ph, cs, H, H2),
         NEW cd2, Renames(src, cs, H, cd, cs2, cd2)
  PROVE  CodeOK(s, src, cs2, cd2, H2)
<1> SUFFICES
      ASSUME NEW o, o = <<cs[Len(cs)].bb, cs[Len(cs)].ip>>,
             H2 \in [Block \X Nat -> [Var -> Value \cup {NoValue}]],
             Agree(s, src, cs, H, H2),
             IF IsLoad(src, o) /\ H[o][VarOf(src, o)] # NoValue
             THEN Replaces(cd, cd2, o, H[o][VarOf(src, o)]) ELSE cd2 = cd,
             \A x \in InstrId : x \in cs2[Len(cs)].wait_delete <=>
               \/ x \in cs[Len(cs)].wait_delete
               \/ x = o /\ x[2] \in DOMAIN src[x[1]] /\ Gone(src, H, x[1], x[2])
      PROVE  CodeOK(s, src, cs2, cd2, H2)
  BY DEF Grows, Renames
<1> DEFINE m == Len(cs)
           w == VarOf(src, o)
           new == H[o][w]
<1>0. /\ Ordered(s) /\ o[1] \in Block /\ o[2] \in 0..Fin(src, o[1]) /\ o[2] \in Nat
      /\ \A b \in Block : Fin(src, b) \in Nat /\ DOMAIN src[b] = 1..(Fin(src, b) - 1)
      /\ ~Passed(s, src, cs, o[1], o[2]) /\ m \in 1..m /\ m \in Nat /\ Len(cs2) = m /\ WalkOK(s, src, cs2)
      /\ o = <<o[1], o[2]>> /\ o[1] = cs[m].bb /\ o[2] = cs[m].ip
  <2>1. /\ Ordered(s) /\ o[1] \in Block /\ o[2] \in 0..Fin(src, o[1])
        /\ ~Passed(s, src, cs, o[1], o[2]) /\ Len(cs2) = m /\ WalkOK(s, src, cs2)
    BY LegalFacts, WalkAdvances DEF Advances
  <2>2. m \in Nat /\ m \in 1..m
    BY DEF Advances, WalkOK
  <2>3. \A b \in Block : Fin(src, b) \in Nat /\ DOMAIN src[b] = 1..(Fin(src, b) - 1)
    BY LegalFacts
  <2>4. o = <<o[1], o[2]>> /\ o[1] = cs[m].bb /\ o[2] = cs[m].ip
    OBVIOUS
  <2> QED BY <2>1, <2>2, <2>3, <2>4
<1>1. \A b : Returned(s, cs2, b) <=> Returned(s, cs, b)
  BY WalkAdvances
<1>2. \A b \in Block : \A n : Passed(s, src, cs2, b, n) <=>
         Passed(s, src, cs, b, n) \/ (b = o[1] /\ n = o[2])
  BY WalkAdvances
<1>3. IsLoad(src, o) /\ new # NoValue => new \in Value /\ w \in Var
  <2> SUFFICES ASSUME IsLoad(src, o), new # NoValue PROVE new \in Value /\ w \in Var
    OBVIOUS
  <2>1. w \in Var
    BY LoadPlace DEF IsLoad
  <2>2. o \in Block \X Nat
    BY <1>0
  <2> HIDE DEF w
  <2>3. H[o][w] \in Value \cup {NoValue}
    BY <2>1, <2>2 DEF ReachOK
  <2> QED BY <2>1, <2>3
\* Operands apart, the code stays as it is.
<1>4. /\ DOMAIN cd2 = Block
      /\ \A b \in Block : DOMAIN cd2[b] = DOMAIN cd[b]
      /\ \A b \in Block : \A n \in DOMAIN cd[b] : cd[b][n] \in Instr =>
           /\ cd2[b][n] \in Instr /\ cd2[b][n].id = cd[b][n].id
           /\ cd2[b][n].op = cd[b][n].op /\ cd2[b][n].var = cd[b][n].var
           /\ cd2[b][n].arg = IF IsLoad(src, o) /\ new # NoValue /\ cd[b][n].arg = o
                              THEN new ELSE cd[b][n].arg
      /\ \A b \in Block : cd[b] \in Seq(Instr) => cd2[b] \in Seq(Instr) /\ Len(cd2[b]) = Len(cd[b])
  <2>1. CASE IsLoad(src, o) /\ new # NoValue
    <3>1. cd2 = [b \in Block |-> [n \in DOMAIN cd[b] |->
           IF cd[b][n].arg = o THEN [cd[b][n] EXCEPT !.arg = new] ELSE cd[b][n]]]
      BY <2>1 DEF Replaces
    <3>2. new \in Value
      BY <1>3, <2>1
    <3> HIDE DEF new, w
    <3>3. DOMAIN cd2 = Block /\ \A b \in Block : DOMAIN cd2[b] = DOMAIN cd[b]
      BY <3>1
    <3>4. ASSUME NEW b \in Block, NEW n \in DOMAIN cd[b], cd[b][n] \in Instr
          PROVE  /\ cd2[b][n] \in Instr /\ cd2[b][n].id = cd[b][n].id
                 /\ cd2[b][n].op = cd[b][n].op /\ cd2[b][n].var = cd[b][n].var
                 /\ cd2[b][n].arg = IF cd[b][n].arg = o THEN new ELSE cd[b][n].arg
      <4>1. cd2[b][n] = IF cd[b][n].arg = o THEN [cd[b][n] EXCEPT !.arg = new] ELSE cd[b][n]
        BY <3>1
      <4> QED BY <3>2, <3>4, <4>1 DEF Instr
    <3>5. ASSUME NEW b \in Block, cd[b] \in Seq(Instr)
          PROVE  cd2[b] \in Seq(Instr) /\ Len(cd2[b]) = Len(cd[b])
      <4>1. DOMAIN cd[b] = 1..Len(cd[b]) /\ Len(cd[b]) \in Nat
            /\ \A n \in DOMAIN cd[b] : cd[b][n] \in Instr
        BY <3>5
      <4>2. cd2[b] = [n \in 1..Len(cd[b]) |-> cd2[b][n]]
        BY <3>1, <3>3, <4>1
      <4>3. \A n \in 1..Len(cd[b]) : cd2[b][n] \in Instr
        BY <3>4, <4>1
      <4> DEFINE l == Len(cd[b])
                 g == cd2[b]
      <4>4. l \in Nat /\ g = [n \in 1..l |-> g[n]] /\ \A n \in 1..l : g[n] \in Instr
        BY <4>1, <4>2, <4>3
      <4> HIDE DEF l, g
      <4> DEFINE I == Instr
      <4>5. g = [n \in 1..l |-> g[n]] /\ (\A n \in 1..l : g[n] \in I) /\ l \in Nat
        BY <4>4
      <4> HIDE DEF I
      <4>6. g \in [1..l -> I]
        BY <4>5
      <4>7. g \in Seq(I)
        BY <4>5, <4>6
      <4>8. Len(g) = l
        BY <4>5, <4>6
      <4> QED BY <4>7, <4>8 DEF l, g, I
    <3> QED BY <2>1, <3>3, <3>4, <3>5
  <2>2. CASE ~(IsLoad(src, o) /\ new # NoValue)
    <3>1. cd2 = cd
      BY <2>2
    <3> QED BY <2>2, <3>1 DEF CodeOK
  <2> QED BY <2>1, <2>2
<1>5. ASSUME NEW b \in Reached(s), NEW n \in DOMAIN cd[b]
      PROVE  cd2[b][n].arg = Current(s, src, cs2, H2, src[b][n].arg)
  <2> DEFINE x == src[b][n].arg
  <2>1. b \in Block /\ cd[b][n] \in Instr /\ cd[b][n].arg = Current(s, src, cs, H, x)
    BY <1>0 DEF CodeOK, Ordered
  <2>2. cd2[b][n].arg = IF IsLoad(src, o) /\ new # NoValue /\ cd[b][n].arg = o
                        THEN new ELSE cd[b][n].arg
    BY <1>4, <2>1
  <2> HIDE DEF x
  <2>3. CASE x = o /\ IsLoad(src, o)
    <3>1. Current(s, src, cs, H, x) = x /\ Current(s, src, cs2, H2, x) = Cur(src, H, x)
      BY <2>3, CurrentAdvances
    <3>2. Cur(src, H, o) = IF new # NoValue THEN new ELSE o
      BY <2>3 DEF Cur
    <3> QED BY <2>1, <2>2, <2>3, <3>1, <3>2 DEF x
  <2>4. CASE ~(x = o /\ IsLoad(src, o))
    <3>1. Current(s, src, cs2, H2, x) = Current(s, src, cs, H, x)
      BY <2>4, CurrentAdvances
    <3>2. cd[b][n].arg = o => x = o
      <4> SUFFICES ASSUME Current(s, src, cs, H, x) = o PROVE x = o
        BY <2>1
      <4> DEFINE a == o[1]
                 k == o[2]
      <4>1. k \in Nat /\ ~Passed(s, src, cs, a, k) /\ Current(s, src, cs, H, x) = <<a, k>>
            /\ o = <<a, k>>
        BY <1>0
      <4> HIDE DEF a, k
      <4> QED BY <4>1, CurrentIs
    <3> QED BY <2>1, <2>2, <2>4, <3>1, <3>2 DEF x
  <2> QED BY <2>3, <2>4
<1> HIDE DEF new, w
<1>6. ASSUME NEW b \in Block
      PROVE  /\ DOMAIN cd2[b] \subseteq DOMAIN src[b]
             /\ \A n \in DOMAIN cd2[b] :
                  /\ cd2[b][n] \in Instr /\ cd2[b][n].id = <<b, n>>
                  /\ cd2[b][n].op = src[b][n].op /\ cd2[b][n].var = src[b][n].var
             /\ ~Returned(s, cs2, b) => cd2[b] \in Seq(Instr) /\ Len(cd2[b]) = Len(src[b])
             /\ b \in Reached(s) => \A n \in DOMAIN cd2[b] :
                  cd2[b][n].arg = Current(s, src, cs2, H2, src[b][n].arg)
             /\ Returned(s, cs2, b) => DOMAIN cd2[b] = {n \in DOMAIN src[b] : ~Gone(src, H2, b, n)}
  <2>1. /\ DOMAIN cd[b] \subseteq DOMAIN src[b]
        /\ \A n \in DOMAIN cd[b] :
             /\ cd[b][n] \in Instr /\ cd[b][n].id = <<b, n>>
             /\ cd[b][n].op = src[b][n].op /\ cd[b][n].var = src[b][n].var
        /\ ~Returned(s, cs, b) => cd[b] \in Seq(Instr) /\ Len(cd[b]) = Len(src[b])
        /\ Returned(s, cs, b) => DOMAIN cd[b] = {n \in DOMAIN src[b] : ~Gone(src, H, b, n)}
    BY DEF CodeOK
  <2>2. ASSUME Returned(s, cs, b), NEW n \in DOMAIN src[b]
        PROVE  Gone(src, H2, b, n) <=> Gone(src, H, b, n)
    <3>1. n - 1 \in 0..Fin(src, b)
      BY <1>0
    <3>2. Passed(s, src, cs, b, n - 1)
      BY <2>2, <3>1 DEF Passed
    <3> QED BY <3>2, GoneAgrees
  <2>3. DOMAIN cd2[b] = DOMAIN cd[b]
    BY <1>4
  <2>4. ASSUME NEW n \in DOMAIN cd2[b]
        PROVE  /\ cd2[b][n] \in Instr /\ cd2[b][n].id = <<b, n>>
               /\ cd2[b][n].op = src[b][n].op /\ cd2[b][n].var = src[b][n].var
    BY <1>4, <2>1, <2>3
  <2>5. ~Returned(s, cs2, b) => cd2[b] \in Seq(Instr) /\ Len(cd2[b]) = Len(src[b])
    BY <1>1, <1>4, <2>1
  <2>6. b \in Reached(s) => \A n \in DOMAIN cd2[b] :
          cd2[b][n].arg = Current(s, src, cs2, H2, src[b][n].arg)
    BY <1>5, <2>3
  <2>7. Returned(s, cs2, b) => DOMAIN cd2[b] = {n \in DOMAIN src[b] : ~Gone(src, H2, b, n)}
    BY <1>1, <2>1, <2>2, <2>3
  <2> QED BY <2>1, <2>3, <2>4, <2>5, <2>6, <2>7
<1>7. ASSUME NEW j \in 1..m, NEW x \in InstrId
      PROVE  x \in cs2[j].wait_delete <=>
               /\ x[1] = cs2[j].bb /\ x[2] \in DOMAIN src[x[1]] /\ x[2] < cs2[j].ip
               /\ Gone(src, H2, x[1], x[2])
  <2>0. x = <<x[1], x[2]>> /\ x[1] \in Block /\ x[2] \in Nat
    BY DEF InstrId
  <2>1. x \in cs[j].wait_delete <=>
          /\ x[1] = cs[j].bb /\ x[2] \in DOMAIN src[x[1]] /\ x[2] < cs[j].ip
          /\ Gone(src, H, x[1], x[2])
    BY DEF CodeOK
  <2>2. ASSUME x[1] = cs2[j].bb, x[2] \in DOMAIN src[x[1]], x[2] < cs2[j].ip
        PROVE  Gone(src, H2, x[1], x[2]) <=> Gone(src, H, x[1], x[2])
    <3>1. Passed(s, src, cs2, x[1], x[2])
      BY <1>0, <2>0, <2>2, PassedIs
    <3> DEFINE k == x[2] - 1
    <3>2. k \in Nat /\ k <= x[2] /\ k # x[2] /\ k < x[2]
      <4> DEFINE h == x[2]
                 l == Fin(src, x[1])
      <4>1. h \in 1..(l - 1) /\ l \in Nat
        BY <1>0, <2>0, <2>2, LegalFacts
      <4> HIDE DEF h, l
      <4>2. h - 1 \in Nat /\ h - 1 <= h /\ h - 1 # h /\ h - 1 < h
        BY <4>1
      <4> QED BY <4>2 DEF h
    <3> HIDE DEF k
    <3>3. Passed(s, src, cs2, x[1], k)
      BY <1>0, <2>0, <3>1, <3>2, PassedIs
    <3>4. Passed(s, src, cs, x[1], k)
      <4>1. CASE x[1] = o[1] /\ k = o[2]
        <5>1. o[2] < x[2]
          BY <3>2, <4>1
        <5>2. Passed(s, src, cs, x[1], x[2])
          BY <1>2, <2>0, <3>1, <3>2, <4>1
        <5>3. Passed(s, src, cs, o[1], o[2])
          BY <2>0, <3>2, <4>1, <5>2, PassedIs
        <5> QED BY <1>0, <5>3
      <4>2. CASE ~(x[1] = o[1] /\ k = o[2])
        BY <1>2, <2>0, <3>3, <4>2
      <4> QED BY <4>1, <4>2
    <3> QED BY <2>0, <2>2, <3>4, GoneAgrees DEF k
  <2>3. CASE j # m
    <3>1. cs2[j] = cs[j]
      <4>1. j \in 1..(m - 1)
        BY <1>0, <2>3
      <4> QED BY <4>1 DEF Advances
    <3> QED BY <2>1, <2>2, <3>1
  <2>4. CASE j = m
    <3>1. cs2[m].bb = o[1] /\ cs[m].bb = o[1] /\ cs2[m].ip = o[2] + 1 /\ cs[m].ip = o[2]
      BY <1>0 DEF Advances
    <3>2. x[2] < o[2] + 1 <=> x[2] < o[2] \/ x[2] = o[2]
      BY <1>0, <2>0
    <3>3. x \in cs2[m].wait_delete <=>
            \/ x \in cs[m].wait_delete
            \/ x = o /\ x[2] \in DOMAIN src[x[1]] /\ Gone(src, H, x[1], x[2])
      OBVIOUS
    <3>4. x = o <=> x[1] = o[1] /\ x[2] = o[2]
      BY <1>0, <2>0
    <3> QED BY <2>1, <2>2, <2>4, <3>1, <3>2, <3>3, <3>4
  <2> QED BY <2>3, <2>4
<1> QED BY <1>0, <1>4, <1>6, <1>7 DEF CodeOK

\* What depends on the places passed alone does not change with the others.
LEMMA SamePassed ==
  ASSUME NEW s, NEW src, Legal(s, src), NEW ph, NEW cs, NEW cs2, NEW H, NEW pr,
         \A b \in Block : \A n : Passed(s, src, cs2, b, n) <=> Passed(s, src, cs, b, n)
  PROVE  /\ ReachOK(s, src, ph, cs, H) => ReachOK(s, src, ph, cs2, H)
         /\ PairsOK(s, src, ph, cs, H, pr) => PairsOK(s, src, ph, cs2, H, pr)
<1>1. ReachOK(s, src, ph, cs, H) => ReachOK(s, src, ph, cs2, H)
  BY DEF ReachOK
<1>2. PairsOK(s, src, ph, cs, H, pr) => PairsOK(s, src, ph, cs2, H, pr)
  BY DEF PairsOK
<1> QED BY <1>1, <1>2

\* x is no load that is passed, or its block is one.
LEMMA SameCurrent ==
  ASSUME NEW s, NEW src, Legal(s, src), NEW cs, NEW cs2, NEW H, NEW x,
         \A b \in Block : \A n : Passed(s, src, cs2, b, n) <=> Passed(s, src, cs, b, n)
  PROVE  Current(s, src, cs2, H, x) = Current(s, src, cs, H, x)
<1>1. IsLoad(src, x) => x[1] \in Block
  BY DEF IsLoad, IsDef, InstrId
<1> QED BY <1>1 DEF Current

\* Descend leaves the code right.
LEMMA CodeDescends ==
  ASSUME NEW s, NEW src, Legal(s, src), NEW cs, WalkOK(s, src, cs), NEW H,
         NEW cd, CodeOK(s, src, cs, cd, H), NEW cs2, NEW c, Descends(s, cs, cs2, c),
         cs[Len(cs)].ip = Fin(src, cs[Len(cs)].bb) + 1
  PROVE  CodeOK(s, src, cs2, cd, H)
<1> DEFINE m == Len(cs)
<1>1. /\ \A b : Returned(s, cs2, b) <=> Returned(s, cs, b)
      /\ \A b \in Block : \A n : Passed(s, src, cs2, b, n) <=> Passed(s, src, cs, b, n)
  BY WalkDescends
<1>2. \A x : Current(s, src, cs2, H, x) = Current(s, src, cs, H, x)
  BY <1>1, SameCurrent
<1>3. m \in Nat /\ m # 0 /\ Len(cs2) = m + 1
  BY DEF Descends, WalkOK
<1>4. ASSUME NEW j \in 1..Len(cs2), NEW x \in InstrId
      PROVE  x \in cs2[j].wait_delete <=>
               /\ x[1] = cs2[j].bb /\ x[2] \in DOMAIN src[x[1]] /\ x[2] < cs2[j].ip
               /\ Gone(src, H, x[1], x[2])
  <2>1. CASE j = m + 1
    <3>1. x[2] \in Nat /\ cs2[j].ip = 0 /\ cs2[j].wait_delete = {}
      BY <2>1 DEF Descends, InstrId
    <3>2. ~(x[2] < cs2[j].ip)
      BY <3>1
    <3> QED BY <3>1, <3>2
  <2>2. CASE j # m + 1
    <3>1. j \in 1..m /\ (j # m => j \in 1..(m - 1))
      BY <1>3, <2>2
    <3>2. cs2[j].bb = cs[j].bb /\ cs2[j].ip = cs[j].ip /\ cs2[j].wait_delete = cs[j].wait_delete
      BY <3>1 DEF Descends
    <3> QED BY <3>1, <3>2 DEF CodeOK
  <2> QED BY <2>1, <2>2
<1>5. /\ DOMAIN cd = Block
      /\ \A b \in Block :
           /\ DOMAIN cd[b] \subseteq DOMAIN src[b]
           /\ \A n \in DOMAIN cd[b] :
                /\ cd[b][n] \in Instr /\ cd[b][n].id = <<b, n>>
                /\ cd[b][n].op = src[b][n].op /\ cd[b][n].var = src[b][n].var
           /\ ~Returned(s, cs2, b) => cd[b] \in Seq(Instr) /\ Len(cd[b]) = Len(src[b])
           /\ b \in Reached(s) => \A n \in DOMAIN cd[b] :
                cd[b][n].arg = Current(s, src, cs2, H, src[b][n].arg)
           /\ Returned(s, cs2, b) => DOMAIN cd[b] = {n \in DOMAIN src[b] : ~Gone(src, H, b, n)}
  BY <1>1, <1>2 DEF CodeOK
<1> QED BY <1>4, <1>5 DEF CodeOK

\* The instructions of b0 that wait to be erased are.
Erases(cs, b0, cd, cd2) ==
  /\ DOMAIN cd2 = Block /\ \A b \in Block : b # b0 => cd2[b] = cd[b]
  /\ cd2[b0] = Restrict(cd[b0], {n \in DOMAIN cd[b0] :
                                   cd[b0][n].id \notin cs[Len(cs)].wait_delete})

\* Leave erases exactly what is gone of its block.
LEMMA CodeLeaves ==
  ASSUME NEW s, NEW src, Legal(s, src), NEW cs, WalkOK(s, src, cs), NEW H,
         NEW cd, CodeOK(s, src, cs, cd, H), NEW cs2, Leaves(cs, cs2),
         cs[Len(cs)].ip = Fin(src, cs[Len(cs)].bb) + 1,
         NEW b0, b0 = cs[Len(cs)].bb, NEW cd2, Erases(cs, b0, cd, cd2)
  PROVE  CodeOK(s, src, cs2, cd2, H)
<1> SUFFICES
      ASSUME DOMAIN cd2 = Block, \A b \in Block : b # b0 => cd2[b] = cd[b],
             cd2[b0] = Restrict(cd[b0], {n \in DOMAIN cd[b0] :
                                           cd[b0][n].id \notin cs[Len(cs)].wait_delete})
      PROVE  CodeOK(s, src, cs2, cd2, H)
  BY DEF Erases
<1> DEFINE m == Len(cs)
<1>0. /\ m \in Nat /\ m \in 1..m /\ Len(cs2) = m - 1 /\ b0 \in Block /\ b0 \in Reached(s)
      /\ Fin(src, b0) \in Nat /\ DOMAIN src[b0] = 1..(Fin(src, b0) - 1)
      /\ cs[m].ip = Fin(src, b0) + 1
  <2>1. m \in Nat /\ m \in 1..m /\ Len(cs2) = m - 1
    BY DEF Leaves, WalkOK
  <2>2. b0 \in Reached(s)
    BY <2>1 DEF WalkOK
  <2> QED BY <2>1, <2>2, LegalFacts DEF Ordered
<1>1. /\ \A b : Returned(s, cs2, b) <=> Returned(s, cs, b) \/ b = b0
      /\ \A b \in Block : \A n : Passed(s, src, cs2, b, n) <=> Passed(s, src, cs, b, n)
  BY WalkLeaves
<1>2. \A x : Current(s, src, cs2, H, x) = Current(s, src, cs, H, x)
  BY <1>1, SameCurrent
<1>3. ~Returned(s, cs, b0)
  BY <1>0 DEF Returned, On
<1>4. /\ DOMAIN cd[b0] \subseteq DOMAIN src[b0]
      /\ cd[b0] \in Seq(Instr) /\ Len(cd[b0]) = Len(src[b0])
      /\ \A n \in DOMAIN cd[b0] :
           /\ cd[b0][n] \in Instr /\ cd[b0][n].id = <<b0, n>>
           /\ cd[b0][n].op = src[b0][n].op /\ cd[b0][n].var = src[b0][n].var
  BY <1>0, <1>3 DEF CodeOK
<1>5. DOMAIN cd[b0] = DOMAIN src[b0]
  <2>1. src[b0] \in Seq(Instr)
    BY <1>0, LegalFacts
  <2>2. DOMAIN src[b0] = 1..Len(src[b0])
    BY ONLY <2>1
  <2>3. cd[b0] \in Seq(Instr) /\ Len(cd[b0]) = Len(src[b0])
    BY <1>4
  <2>4. DOMAIN cd[b0] = 1..Len(cd[b0])
    BY ONLY <2>3
  <2> QED BY ONLY <2>2, <2>3, <2>4
<1>6. ASSUME NEW n \in DOMAIN src[b0]
      PROVE  cd[b0][n].id \notin cs[m].wait_delete <=> ~Gone(src, H, b0, n)
  <2> DEFINE x == <<b0, n>>
  <2>1. x \in InstrId /\ n < cs[m].ip
    BY <1>0 DEF InstrId
  <2>2. cd[b0][n].id = x /\ x[1] = b0 /\ x[2] = n
    BY <1>4, <1>5
  <2> HIDE DEF x
  <2>3. x \in cs[m].wait_delete <=> Gone(src, H, b0, n)
    BY <1>0, <2>1, <2>2 DEF CodeOK
  <2> QED BY <2>2, <2>3
<1>7. /\ DOMAIN cd2[b0] = {n \in DOMAIN src[b0] : ~Gone(src, H, b0, n)}
      /\ \A n \in DOMAIN cd2[b0] : cd2[b0][n] = cd[b0][n]
  <2>1. DOMAIN cd2[b0] = {n \in DOMAIN cd[b0] : cd[b0][n].id \notin cs[m].wait_delete}
        /\ \A n \in DOMAIN cd2[b0] : cd2[b0][n] = cd[b0][n]
    BY DEF Restrict
  <2> QED BY <1>5, <1>6, <2>1
<1>8. ASSUME NEW j \in 1..Len(cs2), NEW x \in InstrId
      PROVE  x \in cs2[j].wait_delete <=>
               /\ x[1] = cs2[j].bb /\ x[2] \in DOMAIN src[x[1]] /\ x[2] < cs2[j].ip
               /\ Gone(src, H, x[1], x[2])
  <2>1. j \in 1..m /\ cs2[j] = cs[j]
    BY <1>0 DEF Leaves
  <2> QED BY <2>1 DEF CodeOK
<1>9. ASSUME NEW b \in Block
      PROVE  /\ DOMAIN cd2[b] \subseteq DOMAIN src[b]
             /\ \A n \in DOMAIN cd2[b] :
                  /\ cd2[b][n] \in Instr /\ cd2[b][n].id = <<b, n>>
                  /\ cd2[b][n].op = src[b][n].op /\ cd2[b][n].var = src[b][n].var
             /\ ~Returned(s, cs2, b) => cd2[b] \in Seq(Instr) /\ Len(cd2[b]) = Len(src[b])
             /\ b \in Reached(s) => \A n \in DOMAIN cd2[b] :
                  cd2[b][n].arg = Current(s, src, cs2, H, src[b][n].arg)
             /\ Returned(s, cs2, b) => DOMAIN cd2[b] = {n \in DOMAIN src[b] : ~Gone(src, H, b, n)}
  <2>1. CASE b # b0
    <3>1. cd2[b] = cd[b]
      BY <2>1
    <3> QED BY <1>1, <1>2, <2>1, <3>1 DEF CodeOK
  <2>2. CASE b = b0
    <3>1. \A n \in DOMAIN cd2[b0] : n \in DOMAIN cd[b0] /\ n \in DOMAIN src[b0]
      BY <1>5, <1>7
    <3>2. \A n \in DOMAIN cd[b0] : cd[b0][n].arg = Current(s, src, cs2, H, src[b0][n].arg)
      BY <1>0, <1>2 DEF CodeOK
    <3>3. DOMAIN cd2[b0] \subseteq DOMAIN src[b0]
      BY <3>1
    <3>4. ASSUME NEW n \in DOMAIN cd2[b0]
          PROVE  /\ cd2[b0][n] \in Instr /\ cd2[b0][n].id = <<b0, n>>
                 /\ cd2[b0][n].op = src[b0][n].op /\ cd2[b0][n].var = src[b0][n].var
                 /\ cd2[b0][n].arg = Current(s, src, cs2, H, src[b0][n].arg)
      <4>1. n \in DOMAIN cd[b0] /\ cd2[b0][n] = cd[b0][n]
        BY <1>7, <3>1
      <4>2. cd[b0][n].arg = Current(s, src, cs2, H, src[b0][n].arg)
        BY <3>2, <4>1
      <4> QED BY <1>4, <4>1, <4>2
    <3>5. Returned(s, cs2, b0)
      BY <1>1
    <3> QED BY <1>7, <2>2, <3>3, <3>4, <3>5
  <2> QED BY <2>1, <2>2
<1> QED BY <1>8, <1>9 DEF CodeOK

-----------------------------------------------------------------------------
(* The stacks. *)

\* A phi of v is passed with place 0, a store of v with its own.
NewDef(src, ph, b, n, v) ==
  \/ n = 0 /\ <<b, v>> \in ph
  \/ n \in DOMAIN src[b] /\ src[b][n].op = "store" /\ src[b][n].var = v

\* A place adds one to the definitions met exactly when it defines the variable.
LEMMA DefsAdvance ==
  ASSUME NEW s, NEW src, Legal(s, src), NEW ph, NEW c, NEW v, c.bb \in Block
  PROVE  /\ Defs(src, ph, c, v) \in Nat
         /\ c.ip = 0 => Defs(src, ph, c, v) = 0
         /\ \A c2 : c2.bb = c.bb /\ c.ip \in Nat /\ c2.ip = c.ip + 1 =>
              Defs(src, ph, c2, v) =
                Defs(src, ph, c, v) + IF NewDef(src, ph, c.bb, c.ip, v) THEN 1 ELSE 0
<1> DEFINE b == c.bb
           S(n) == StoresBefore(src, b, n, v)
           phi(n) == IF n > 0 /\ <<b, v>> \in ph THEN 1 ELSE 0
<1>0. /\ Fin(src, b) \in Nat /\ DOMAIN src[b] = 1..(Fin(src, b) - 1)
  BY LegalFacts
<1>1. ASSUME NEW n PROVE IsFiniteSet(S(n)) /\ Cardinality(S(n)) \in Nat
  <2> DEFINE k == Fin(src, b) - 1
  <2>1. S(n) \subseteq 1..k /\ k \in Int
    BY <1>0 DEF StoresBefore
  <2>2. IsFiniteSet(1..k)
    BY <2>1, 1 \in Int, FS_Interval
  <2>3. IsFiniteSet(S(n))
    BY <2>1, <2>2, FS_Subset
  <2> QED BY <2>3, FS_CardinalityType
<1>2. Defs(src, ph, c, v) = phi(c.ip) + Cardinality(S(c.ip))
  BY DEF Defs
<1>3. Defs(src, ph, c, v) \in Nat
  BY <1>1, <1>2
<1>4. ASSUME c.ip = 0 PROVE Defs(src, ph, c, v) = 0
  <2>1. S(0) = {}
    BY <1>0 DEF StoresBefore
  <2>2. Cardinality(S(0)) = 0
    BY <2>1, FS_EmptySet
  <2> QED BY <1>2, <1>4, <2>2
<1>5. ASSUME NEW c2, c2.bb = b, c.ip \in Nat, c2.ip = c.ip + 1
      PROVE  Defs(src, ph, c2, v) =
               Defs(src, ph, c, v) + IF NewDef(src, ph, b, c.ip, v) THEN 1 ELSE 0
  <2> DEFINE n == c.ip
             n1 == n + 1
             new == n \in DOMAIN src[b] /\ src[b][n].op = "store" /\ src[b][n].var = v
  <2>1. Defs(src, ph, c2, v) = phi(n1) + Cardinality(S(n1))
    BY <1>5 DEF Defs
  <2>2. phi(n1) = phi(n) + IF n = 0 /\ <<b, v>> \in ph THEN 1 ELSE 0
    BY <1>5
  <2>3. Cardinality(S(n1)) = Cardinality(S(n)) + IF new THEN 1 ELSE 0
    <3>1. n \notin S(n) /\ \A k : k \in S(n1) <=> k \in S(n) \/ (k = n /\ new)
      <4>1. \A k \in 1..(Fin(src, b) - 1) : k \in 1..(n1 - 1) <=> k \in 1..(n - 1) \/ k = n
        BY <1>0, <1>5
      <4>2. n \notin 1..(n - 1)
        BY <1>5
      <4> QED BY <1>0, <4>1, <4>2 DEF StoresBefore
    <3> HIDE DEF S, new, n1
    <3>2. CASE new
      <4>1. S(n1) = S(n) \cup {n}
        BY <3>1, <3>2
      <4>2. Cardinality(S(n1)) = Cardinality(S(n)) + 1
        BY <1>1, <3>1, <4>1, FS_AddElement
      <4> QED BY <3>2, <4>2
    <3>3. CASE ~new
      <4>1. S(n1) = S(n)
        BY <3>1, <3>3
      <4> QED BY <1>1, <3>3, <4>1
    <3> QED BY <3>2, <3>3
  <2>4. n = 0 => ~new
    BY <1>0
  <2>5. NewDef(src, ph, b, n, v) <=> (n = 0 /\ <<b, v>> \in ph) \/ new
    BY DEF NewDef
  <2> HIDE DEF S, new, n1, n
  <2> QED BY <1>1, <1>2, <2>1, <2>2, <2>3, <2>4, <2>5 DEF n
<1> QED BY <1>3, <1>4, <1>5

\* The bases grow along the path.
LEMMA BasesGrow ==
  ASSUME NEW s, NEW src, Legal(s, src), NEW ph, NEW cs, WalkOK(s, src, cs),
         NEW B, BasesOK(src, ph, cs, B), NEW v \in Var
  PROVE  /\ \A j \in 0..Len(cs) : B[v][j] \in Nat
         /\ \A j, k \in 0..Len(cs) : j <= k => B[v][j] <= B[v][k]
<1> DEFINE m == Len(cs)
           f == B[v]
<1>0. m \in Nat /\ \A j \in 1..m : cs[j].bb \in Block
  BY LegalFacts DEF WalkOK, Ordered
<1>1. f \in [Nat -> Nat]
  BY DEF BasesOK
<1>2. ASSUME NEW j \in 1..m PROVE f[j - 1] <= f[j]
  <2> DEFINE d == Defs(src, ph, cs[j], v)
  <2>1. f[j] = f[j - 1] + d
    BY DEF BasesOK
  <2>2. d \in Nat
    BY <1>0, DefsAdvance
  <2> HIDE DEF d
  <2>3. j - 1 \in Nat
    BY <1>0
  <2>4. f[j - 1] \in Nat
    BY <1>1, <2>3
  <2> HIDE DEF f
  <2> QED BY <2>1, <2>2, <2>4
<1> HIDE DEF m, f
<1>3. ASSUME NEW j \in 0..m, NEW k \in 0..m, j <= k PROVE f[j] <= f[k]
  <2> DEFINE P == {h \in 0..m : j <= h => f[j] <= f[h]}
  <2>1. 0 \in P
    <3>1. j <= 0 => j = 0
      BY <1>0
    <3>2. f[0] <= f[0]
      BY <1>1
    <3> QED BY <1>0, <3>1, <3>2
  <2>2. ASSUME NEW h \in 0..(m - 1), h \in P PROVE h + 1 \in P
    <3> DEFINE h1 == h + 1
    <3>1. h1 \in 1..m /\ h1 \in 0..m /\ h1 - 1 = h /\ h \in Nat /\ h1 \in Nat /\ j \in Nat
      BY <1>0
    <3>2. f[h] <= f[h1]
      BY <1>2, <3>1
    <3>3. f[h] \in Nat /\ f[h1] \in Nat /\ f[j] \in Nat
      BY <1>1, <3>1
    <3>4. j <= h1 => j <= h \/ j = h1
      BY <3>1
    <3>5. j <= h => f[j] <= f[h]
      BY <2>2
    <3> HIDE DEF h1
    <3>6. j <= h1 => f[j] <= f[h1]
      BY <3>2, <3>3, <3>4, <3>5
    <3> QED BY <3>1, <3>6 DEF h1
  <2> HIDE DEF P
  <2>3. \A h \in 0..m : h \in P
    BY <1>0, <2>1, <2>2, UpTo
  <2> QED BY <1>3, <2>3 DEF P
<1>4. \A j \in 0..m : f[j] \in Nat
  BY <1>0, <1>1
<1> QED BY <1>3, <1>4 DEF f, m

\* The top of a stack is what reaches the place re_name is at.
LEMMA StackTop ==
  ASSUME NEW s, NEW src, Legal(s, src), NEW ph, NEW cs, WalkOK(s, src, cs), cs # <<>>,
         NEW H, NEW st, NEW B, StacksOK(src, ph, cs, H, st, B), NEW v \in Var
  PROVE  /\ st[v] \in Seq(Value)
         /\ cs[Len(cs)].ip > 0 =>
              H[PlaceOf(src, cs[Len(cs)])][v] = IF st[v] = <<>> THEN NoValue ELSE Last(st[v])
<1> DEFINE m == Len(cs)
<1>1. m \in Nat /\ m \in 1..m
  BY DEF WalkOK
<1>2. st[v] \in Seq(Value) /\ Len(st[v]) = B[v][m]
  BY DEF StacksOK
<1>3. cs[m].ip > 0 => Newest(st, B, v, m) = H[PlaceOf(src, cs[m])][v]
  BY <1>1 DEF StacksOK
<1>4. Newest(st, B, v, m) = IF st[v] = <<>> THEN NoValue ELSE Last(st[v])
  BY <1>2 DEF Newest, Last
<1> QED BY <1>2, <1>3, <1>4

\* The value a place defines v as: its phi, or what is stored.
NewVal(src, H, b, n, v) == IF n = 0 THEN <<b, v>> ELSE Cur(src, H, src[b][n].arg)

\* The stacks get the definitions of the place re_name is at.
Pushes(src, ph, cs, H, st, st2) ==
  LET b == cs[Len(cs)].bb
      n == cs[Len(cs)].ip
  IN  /\ \A v \in Var : NewDef(src, ph, b, n, v) => NewVal(src, H, b, n, v) \in Value
      /\ st2 = [v \in Var |-> IF NewDef(src, ph, b, n, v)
                              THEN Append(st[v], NewVal(src, H, b, n, v)) ELSE st[v]]

\* The stacks stay right when re_name goes past a place and pushes what it defines.
LEMMA StacksAdvance ==
  ASSUME NEW s, NEW src, Legal(s, src), NEW ph, NEW cs, WalkOK(s, src, cs),
         NEW H, NEW st, NEW B, StacksOK(src, ph, cs, H, st, B),
         NEW cs2, Advances(src, cs, cs2), NEW H2, Grows(s, src, ph, cs, H, H2),
         NEW st2, Pushes(src, ph, cs, H, st, st2)
  PROVE  \E B2 : StacksOK(src, ph, cs2, H2, st2, B2)
<1> DEFINE val == [v \in Var |-> NewVal(src, H, cs[Len(cs)].bb, cs[Len(cs)].ip, v)]
<1> HIDE DEF val
<1> SUFFICES
      ASSUME NEW b0, NEW n0, b0 = cs[Len(cs)].bb, n0 = cs[Len(cs)].ip,
             Agree(s, src, cs, H, H2),
             n0 = 0 => \A v \in Var : H2[<<b0, 1>>][v] = AtHead(s, src, ph, H, b0, v),
             n0 \in DOMAIN src[b0] =>
               \A v \in Var : H2[<<b0, n0 + 1>>][v] = After(src, H, b0, n0, v),
             \A v \in Var : val[v] = NewVal(src, H, b0, n0, v),
             \A v \in Var : NewDef(src, ph, b0, n0, v) => val[v] \in Value,
             st2 = [v \in Var |-> IF NewDef(src, ph, b0, n0, v) THEN Append(st[v], val[v])
                                                                ELSE st[v]]
      PROVE  \E B2 : StacksOK(src, ph, cs2, H2, st2, B2)
  BY DEF Grows, Pushes, val
<1> DEFINE m == Len(cs)
           d(v) == IF NewDef(src, ph, b0, n0, v) THEN 1 ELSE 0
           B2 == [v \in Var |-> [j \in Nat |-> IF j = m THEN B[v][j] + d(v) ELSE B[v][j]]]
<1>0. /\ m \in Nat /\ m \in 1..m /\ m # 0 /\ m \in 0..m /\ Len(cs2) = m /\ WalkOK(s, src, cs2)
      /\ b0 \in Block /\ b0 \in Reached(s) /\ n0 \in 0..Fin(src, b0) /\ n0 \in Nat
      /\ Fin(src, b0) \in Nat /\ Fin(src, b0) >= 1 /\ DOMAIN src[b0] = 1..(Fin(src, b0) - 1)
      /\ ~Passed(s, src, cs, b0, n0)
      /\ cs2[m].bb = b0 /\ cs2[m].ip = n0 + 1 /\ cs[m].bb = b0 /\ cs[m].ip = n0
      /\ \A j \in 1..m : j # m => cs2[j] = cs[j] /\ j \in 1..(m - 1)
  <2>1. m \in Nat /\ m \in 1..m /\ m # 0 /\ m \in 0..m
    BY DEF Advances, WalkOK
  <2>2. \A j \in 1..m : j # m => j \in 1..(m - 1)
    BY <2>1
  <2>3. b0 \in Reached(s)
    BY <2>1 DEF WalkOK
  <2>4. /\ WalkOK(s, src, cs2) /\ b0 \in Block /\ n0 \in 0..Fin(src, b0) /\ ~Passed(s, src, cs, b0, n0)
    BY WalkAdvances
  <2>5. /\ Fin(src, b0) \in Nat /\ Fin(src, b0) >= 1 /\ DOMAIN src[b0] = 1..(Fin(src, b0) - 1)
    BY <2>4, LegalFacts
  <2>6. n0 \in Nat
    BY <2>4, <2>5
  <2>7. Len(cs2) = m /\ cs2[m].bb = b0 /\ cs2[m].ip = n0 + 1 /\ cs[m].bb = b0 /\ cs[m].ip = n0
        /\ \A j \in 1..(m - 1) : cs2[j] = cs[j]
    BY DEF Advances
  <2> QED BY <2>1, <2>2, <2>3, <2>4, <2>5, <2>6, <2>7
<1>1. B \in [Var -> [Nat -> Nat]] /\ BasesOK(src, ph, cs, B)
  BY DEF StacksOK, BasesOK
<1>2. ASSUME NEW v \in Var
      PROVE  /\ d(v) \in {0, 1} /\ B2[v] \in [Nat -> Nat]
             /\ \A j \in Nat : B2[v][j] = IF j = m THEN B[v][j] + d(v) ELSE B[v][j]
             /\ \A j \in Nat : B[v][j] \in Nat
  <2>1. B[v] \in [Nat -> Nat]
    BY <1>1
  <2>2. d(v) \in {0, 1}
    OBVIOUS
  <2> HIDE DEF d
  <2>3. \A j \in Nat : B2[v][j] = IF j = m THEN B[v][j] + d(v) ELSE B[v][j]
    OBVIOUS
  <2>4. B2[v] = [j \in Nat |-> IF j = m THEN B[v][j] + d(v) ELSE B[v][j]]
    OBVIOUS
  <2> HIDE DEF B2
  <2>5. \A j \in Nat : B[v][j] \in Nat
    BY <2>1
  <2>6. B2[v] \in [Nat -> Nat]
    BY <2>2, <2>4, <2>5
  <2> QED BY <2>2, <2>3, <2>5, <2>6
<1>3. B2 \in [Var -> [Nat -> Nat]]
  <2>1. B2 = [v \in Var |-> B2[v]]
    OBVIOUS
  <2> HIDE DEF B2
  <2> QED BY <1>2, <2>1
<1> HIDE DEF B2, m
<1>4. BasesOK(src, ph, cs2, B2)
  <2>1. ASSUME NEW v \in Var PROVE B2[v][0] = 0
    BY <1>0, <1>1, <1>2 DEF BasesOK
  <2>2. ASSUME NEW v \in Var, NEW j \in 1..m
        PROVE  B2[v][j] = B2[v][j - 1] + Defs(src, ph, cs2[j], v)
    <3> DEFINE i1 == j - 1
    <3>1. j \in Nat /\ i1 \in Nat /\ i1 # m
      BY <1>0
    <3>2. B[v][j] = B[v][i1] + Defs(src, ph, cs[j], v)
      BY <1>1 DEF BasesOK, m
    <3>3. B2[v][i1] = B[v][i1]
      BY <1>2, <3>1
    <3> HIDE DEF i1
    <3>4. CASE j # m
      <4>1. B2[v][j] = B[v][j] /\ cs2[j] = cs[j]
        BY <1>0, <1>2, <3>1, <3>4
      <4> QED BY <3>2, <3>3, <4>1 DEF i1
    <3>5. CASE j = m
      <4>1. B2[v][m] = B[v][m] + d(v)
        BY <1>0, <1>2
      <4>2. Defs(src, ph, cs[m], v) \in Nat
            /\ Defs(src, ph, cs2[m], v) = Defs(src, ph, cs[m], v) + d(v)
        <5> DEFINE c == cs[m]
                   c2 == cs2[m]
        <5>1. c.bb = b0 /\ c.ip = n0 /\ c2.bb = b0 /\ c2.ip = n0 + 1 /\ b0 \in Block /\ n0 \in Nat
          BY <1>0
        <5> HIDE DEF c, c2, d
        <5>2. Defs(src, ph, c, v) \in Nat
              /\ Defs(src, ph, c2, v) = Defs(src, ph, c, v)
                   + IF NewDef(src, ph, b0, n0, v) THEN 1 ELSE 0
          BY <5>1, DefsAdvance
        <5> QED BY <5>2 DEF c, c2, d
      <4>3. B[v][i1] \in Nat /\ d(v) \in {0, 1}
        BY <1>2, <3>1
      <4>4. \A x, y \in Nat : \A z \in {0, 1} : (x + y) + z = x + (y + z)
        OBVIOUS
      <4> HIDE DEF d
      <4>5. (B[v][i1] + Defs(src, ph, cs[m], v)) + d(v) = B[v][i1] + (Defs(src, ph, cs[m], v) + d(v))
        BY <4>2, <4>3, <4>4
      <4> QED BY <3>2, <3>3, <3>5, <4>1, <4>2, <4>5 DEF i1
    <3> QED BY <3>4, <3>5
  <2> QED BY <1>0, <1>3, <2>1, <2>2 DEF BasesOK
<1>5. ASSUME NEW v \in Var
      PROVE  /\ st[v] \in Seq(Value) /\ Len(st[v]) = B[v][m]
             /\ st2[v] = IF NewDef(src, ph, b0, n0, v) THEN Append(st[v], val[v]) ELSE st[v]
             /\ st2[v] \in Seq(Value) /\ Len(st2[v]) = B2[v][m]
  <2>1. st[v] \in Seq(Value) /\ Len(st[v]) = B[v][m]
    BY DEF StacksOK, m
  <2>2. st2[v] = IF NewDef(src, ph, b0, n0, v) THEN Append(st[v], val[v]) ELSE st[v]
    OBVIOUS
  <2>3. B2[v][m] = B[v][m] + d(v) /\ B[v][m] \in Nat
    BY <1>0, <1>2
  <2> QED BY <2>1, <2>2, <2>3
<1>6. st2 \in [Var -> Seq(Value)]
  BY <1>5
\* The outer activations keep their newest values, and what reaches them.
<1>7. ASSUME NEW v \in Var, NEW j \in 1..m, j # m, cs2[j].ip > 0
      PROVE  Newest(st2, B2, v, j) = H2[PlaceOf(src, cs2[j])][v]
  <2>1. Newest(st2, B2, v, j) = Newest(st, B, v, j)
    <3> DEFINE x == B[v][j]
    <3>0. j \in Nat /\ j \in 0..m /\ j <= m
      BY <1>0
    <3>1. x \in Nat /\ x <= Len(st[v])
      <4>1. B[v][j] <= B[v][m]
        BY <1>0, <1>1, <3>0, BasesGrow DEF m
      <4> QED BY <1>2, <1>5, <3>0, <4>1
    <3>2. B2[v][j] = x
      BY <1>2, <1>7, <3>0
    <3> HIDE DEF x
    <3>3. x # 0 => st2[v][x] = st[v][x]
      BY <1>5, <3>1
    <3> QED BY <3>2, <3>3 DEF Newest, x
  <2>2. cs2[j] = cs[j]
    BY <1>0, <1>7
  <2>3. Newest(st, B, v, j) = H[PlaceOf(src, cs[j])][v]
    BY <1>7, <2>2 DEF StacksOK, m
  <2> DEFINE b == cs[j].bb
             l == Fin(src, b)
  <2>4. b \in Block /\ l \in Nat /\ l \in 1..l /\ l - 1 \in 0..l /\ cs[j].ip \in Nat
    <3>1. b \in Block /\ cs[j] \in Frame
      BY LegalFacts DEF WalkOK, Ordered, m
    <3>2. l \in Nat /\ l >= 1
      BY <3>1, LegalFacts
    <3>3. cs[j].ip \in Nat
      BY <3>1 DEF Frame
    <3> HIDE DEF l
    <3> QED BY <3>1, <3>2, <3>3
  <2>5. cs[j].ip > l
    <3>1. ~(cs[j].ip <= l)
      BY <1>7 DEF WalkOK, m
    <3> QED BY <2>4, <3>1
  <2>6. PlaceOf(src, cs[j]) = <<b, l>>
    BY <2>5 DEF PlaceOf
  <2>7. Passed(s, src, cs, b, l - 1)
    <3>1. l - 1 < cs[j].ip
      BY <2>4, <2>5
    <3> QED BY <2>4, <3>1, PassedIs DEF m
  <2>8. H2[<<b, l>>] = H[<<b, l>>]
    BY <2>4, <2>7 DEF Agree
  <2> QED BY <2>1, <2>2, <2>3, <2>6, <2>8
\* The innermost has a new one, or the one it had.
<1>8. ASSUME NEW v \in Var
      PROVE  Newest(st2, B2, v, m) =
               IF NewDef(src, ph, b0, n0, v) THEN val[v] ELSE Newest(st, B, v, m)
  <2>1. B2[v][m] = B[v][m] + d(v) /\ B[v][m] \in Nat
    BY <1>0, <1>2
  <2>2. CASE NewDef(src, ph, b0, n0, v)
    <3>1. B2[v][m] = B[v][m] + 1 /\ B2[v][m] # 0
      BY <2>1, <2>2
    <3>2. st2[v] = Append(st[v], val[v]) /\ Len(st[v]) = B[v][m] /\ st[v] \in Seq(Value)
      BY <1>5, <2>2
    <3>3. st2[v][Len(st[v]) + 1] = val[v]
      BY <3>2
    <3> QED BY <2>2, <3>1, <3>2, <3>3 DEF Newest
  <2>3. CASE ~NewDef(src, ph, b0, n0, v)
    <3>1. B2[v][m] = B[v][m]
      BY <2>1, <2>3
    <3>2. st2[v] = st[v]
      BY <1>5, <2>3
    <3> QED BY <2>3, <3>1, <3>2 DEF Newest
  <2> QED BY <2>2, <2>3
<1>9. ASSUME NEW v \in Var
      PROVE  Newest(st2, B2, v, m) = H2[PlaceOf(src, cs2[m])][v]
  <2>1. CASE n0 = 0
    <3>1. PlaceOf(src, cs2[m]) = <<b0, 1>>
      BY <1>0, <2>1 DEF PlaceOf
    <3>2. H2[<<b0, 1>>][v] = AtHead(s, src, ph, H, b0, v)
      BY <2>1
    <3>3. CASE NewDef(src, ph, b0, n0, v)
      <4>1. <<b0, v>> \in ph
        BY <1>0, <2>1, <3>3 DEF NewDef
      <4>2. val[v] = <<b0, v>>
        BY <2>1 DEF NewVal
      <4> QED BY <1>8, <3>1, <3>2, <3>3, <4>1, <4>2 DEF AtHead
    <3>4. CASE ~NewDef(src, ph, b0, n0, v)
      <4>1. <<b0, v>> \notin ph
        BY <2>1, <3>4 DEF NewDef
      <4>2. B[v][m] = B[v][m - 1]
        <5>1. Defs(src, ph, cs[m], v) = 0
          BY <1>0, <2>1, DefsAdvance
        <5>2. B[v][m] = B[v][m - 1] + Defs(src, ph, cs[m], v)
          BY <1>0, <1>1 DEF BasesOK, m
        <5>3. m - 1 \in Nat
          BY <1>0
        <5>4. B[v][m - 1] \in Nat
          BY <1>2, <5>3
        <5> QED BY <5>1, <5>2, <5>4
      <4>3. CASE b0 = Entry
        <5>1. m = 1
          <6> SUFFICES ASSUME m # 1 PROVE FALSE
            OBVIOUS
          <6>1. 1 \in 1..m /\ 1 < m /\ cs # <<>>
            BY <1>0 DEF m
          <6>2. SDom(s, cs[1].bb, cs[m].bb) /\ cs[1].bb = Entry
            BY <1>0, <6>1, WalkPath DEF m, WalkOK
          <6> QED BY <1>0, <4>3, <6>2 DEF SDom
        <5>2. B[v][0] = 0
          BY <1>1 DEF BasesOK
        <5>3. Newest(st, B, v, m) = NoValue
          BY <4>2, <5>1, <5>2 DEF Newest
        <5> QED BY <1>8, <3>1, <3>2, <3>4, <4>1, <4>3, <5>3 DEF AtHead
      <4>4. CASE b0 # Entry
        <5> DEFINE q == ImmediateDominator(s, b0)
                   k == m - 1
        <5>1. k \in 1..m /\ k # m /\ m > 1
          <6>1. m # 1
            <7>1. cs # <<>> => cs[1].bb = Entry
              BY DEF WalkOK
            <7>2. cs # <<>>
              BY <1>0 DEF m
            <7> QED BY <1>0, <4>4, <7>1, <7>2
          <6> QED BY <1>0, <6>1
        <5>2. cs[m].bb \in Kids(s, cs[m - 1].bb)
          BY <1>0, <5>1 DEF WalkOK, m
        <5>3. cs[k].bb = q
          BY <1>0, <5>2 DEF Kids
        <5> HIDE DEF k
        <5>4. cs[k] \in Frame /\ cs[k].bb \in Block
          <6>1. cs \in Seq(Frame) /\ k \in DOMAIN cs
            BY <5>1 DEF WalkOK, m
          <6>2. cs[k].bb \in Reached(s)
            BY <5>1 DEF WalkOK, m
          <6> QED BY <6>1, <6>2, LegalFacts DEF Ordered
        <5>5. ~(cs[k].ip <= Fin(src, q))
          BY <5>1, <5>3 DEF WalkOK, m
        <5>6. Fin(src, q) \in Nat /\ cs[k].ip \in Nat
          BY <5>3, <5>4, LegalFacts DEF Frame
        <5>7. cs[k].ip > Fin(src, q) /\ cs[k].ip > 0
          BY <5>5, <5>6
        <5>8. PlaceOf(src, cs[k]) = <<q, Fin(src, q)>>
          BY <5>3, <5>7 DEF PlaceOf
        <5>9. Newest(st, B, v, k) = H[<<q, Fin(src, q)>>][v]
          BY <5>1, <5>7, <5>8 DEF StacksOK, m
        <5>10. Newest(st, B, v, m) = Newest(st, B, v, k)
          BY <4>2 DEF Newest, k
        <5> QED BY <1>8, <3>1, <3>2, <3>4, <4>1, <4>4, <5>9, <5>10 DEF AtHead
      <4> QED BY <4>3, <4>4
    <3> QED BY <3>3, <3>4
  <2>2. CASE n0 \in DOMAIN src[b0]
    <3>1. n0 > 0 /\ n0 # 0 /\ ~(n0 + 1 > Fin(src, b0)) /\ ~(n0 > Fin(src, b0))
      BY <1>0, <2>2
    <3>2. PlaceOf(src, cs2[m]) = <<b0, n0 + 1>> /\ PlaceOf(src, cs[m]) = <<b0, n0>>
      BY <1>0, <3>1 DEF PlaceOf
    <3>3. Newest(st, B, v, m) = H[<<b0, n0>>][v]
      BY <1>0, <3>1, <3>2 DEF StacksOK, m
    <3>4. H2[<<b0, n0 + 1>>][v] = After(src, H, b0, n0, v)
      BY <2>2
    <3>5. NewDef(src, ph, b0, n0, v) <=> src[b0][n0].op = "store" /\ src[b0][n0].var = v
      BY <2>2, <3>1 DEF NewDef
    <3>6. val[v] = Cur(src, H, src[b0][n0].arg)
      BY <3>1 DEF NewVal
    <3> QED BY <1>8, <3>2, <3>3, <3>4, <3>5, <3>6 DEF After
  <2>3. CASE n0 = Fin(src, b0)
    <3>1. n0 > 0 /\ n0 # 0 /\ n0 + 1 > Fin(src, b0) /\ ~(n0 > Fin(src, b0)) /\ n0 \notin DOMAIN src[b0]
          /\ n0 - 1 \in 0..Fin(src, b0) /\ n0 - 1 < n0 /\ n0 \in 1..Fin(src, b0)
      BY <1>0, <2>3
    <3>2. PlaceOf(src, cs2[m]) = <<b0, n0>> /\ PlaceOf(src, cs[m]) = <<b0, n0>>
      BY <1>0, <2>3, <3>1 DEF PlaceOf
    <3>3. Newest(st, B, v, m) = H[<<b0, n0>>][v]
      BY <1>0, <3>1, <3>2 DEF StacksOK, m
    <3>4. ~NewDef(src, ph, b0, n0, v)
      BY <3>1 DEF NewDef
    <3>5. Passed(s, src, cs, b0, n0 - 1)
      BY <1>0, <3>1, PassedIs DEF m
    <3>6. H2[<<b0, n0>>] = H[<<b0, n0>>]
      BY <1>0, <3>1, <3>5 DEF Agree
    <3> QED BY <1>8, <3>2, <3>3, <3>4, <3>6
  <2>4. n0 = 0 \/ n0 \in DOMAIN src[b0] \/ n0 = Fin(src, b0)
    <3>1. n0 = 0 \/ n0 \in 1..(Fin(src, b0) - 1) \/ n0 = Fin(src, b0)
      BY <1>0
    <3> QED BY <1>0, <3>1
  <2> QED BY <2>1, <2>2, <2>3, <2>4
<1>10. \A j \in 1..Len(cs2) : cs2[j].ip > 0 => \A v \in Var :
          Newest(st2, B2, v, j) = H2[PlaceOf(src, cs2[j])][v]
  BY <1>0, <1>7, <1>9
<1>11. \A v \in Var : Len(st2[v]) = B2[v][Len(cs2)]
  BY <1>0, <1>5
<1>12. StacksOK(src, ph, cs2, H2, st2, B2)
  BY <1>4, <1>6, <1>10, <1>11 DEF StacksOK
<1> QED BY <1>12

\* The child starts with the stacks as its parent left them.
LEMMA StacksDescends ==
  ASSUME NEW s, NEW src, Legal(s, src), NEW ph, NEW cs, WalkOK(s, src, cs),
         NEW H, NEW st, NEW B, StacksOK(src, ph, cs, H, st, B),
         NEW cs2, NEW c, Descends(s, cs, cs2, c)
  PROVE  \E B2 : StacksOK(src, ph, cs2, H, st, B2)
<1> DEFINE m == Len(cs)
           m1 == m + 1
           B2 == [v \in Var |-> [j \in Nat |-> IF j = m1 THEN B[v][m] ELSE B[v][j]]]
<1>0. /\ m \in Nat /\ m # 0 /\ m \in 1..m /\ m1 \in Nat /\ m1 # 0 /\ m # m1 /\ Len(cs2) = m1 /\ m1 - 1 = m
      /\ \A j \in 1..m1 : j # m1 => j \in 1..m
      /\ \A j \in 1..m : j # m => j \in 1..(m - 1)
  <2>1. m \in Nat /\ m # 0 /\ Len(cs2) = m1
    BY DEF Descends, WalkOK
  <2> QED BY <2>1
<1>1. /\ cs2[m1].bb = c /\ cs2[m1].ip = 0 /\ c \in Block
      /\ \A j \in 1..m : cs2[j].bb = cs[j].bb /\ cs2[j].ip = cs[j].ip
  <2>1. cs2[m1].bb = c /\ cs2[m1].ip = 0 /\ c \in cs[m].children
    BY DEF Descends
  <2>2. c \in Kids(s, cs[m].bb) /\ cs[m].bb \in Reached(s)
    BY <1>0, <2>1 DEF WalkOK
  <2>3. c \in Block
    BY <2>2, KidsAre, LegalFacts DEF Ordered
  <2>4. \A j \in 1..m : cs2[j].bb = cs[j].bb /\ cs2[j].ip = cs[j].ip
    BY <1>0 DEF Descends
  <2> QED BY <2>1, <2>3, <2>4
<1>2. B \in [Var -> [Nat -> Nat]] /\ BasesOK(src, ph, cs, B)
  BY DEF StacksOK, BasesOK
<1>3. ASSUME NEW v \in Var
      PROVE  /\ B2[v] \in [Nat -> Nat] /\ \A j \in Nat : B[v][j] \in Nat
             /\ \A j \in Nat : B2[v][j] = IF j = m1 THEN B[v][m] ELSE B[v][j]
  <2>1. B[v] \in [Nat -> Nat]
    BY <1>2
  <2>2. \A j \in Nat : B[v][j] \in Nat
    BY <2>1
  <2>3. B2[v] = [j \in Nat |-> IF j = m1 THEN B[v][m] ELSE B[v][j]]
    OBVIOUS
  <2> HIDE DEF B2
  <2> QED BY <1>0, <2>2, <2>3
<1>4. B2 \in [Var -> [Nat -> Nat]]
  <2>1. B2 = [v \in Var |-> B2[v]]
    OBVIOUS
  <2> HIDE DEF B2
  <2> QED BY <1>3, <2>1
<1> HIDE DEF B2, m, m1
<1>5. ASSUME NEW v \in Var, NEW j \in 1..m
      PROVE  /\ j \in Nat /\ j - 1 \in Nat /\ B2[v][j] = B[v][j] /\ B2[v][j - 1] = B[v][j - 1]
             /\ Defs(src, ph, cs2[j], v) = Defs(src, ph, cs[j], v)
             /\ PlaceOf(src, cs2[j]) = PlaceOf(src, cs[j])
  <2>1. j \in Nat /\ j # m1 /\ j - 1 \in Nat /\ j - 1 # m1
    BY <1>0 DEF m1
  <2>2. B2[v][j] = B[v][j] /\ B2[v][j - 1] = B[v][j - 1]
    BY <1>3, <2>1
  <2> QED BY <1>1, <2>1, <2>2 DEF Defs, PlaceOf
<1>6. BasesOK(src, ph, cs2, B2)
  <2>1. ASSUME NEW v \in Var PROVE B2[v][0] = 0
    BY <1>0, <1>2, <1>3 DEF BasesOK
  <2>2. ASSUME NEW v \in Var, NEW j \in 1..m1
        PROVE  B2[v][j] = B2[v][j - 1] + Defs(src, ph, cs2[j], v)
    <3>1. CASE j # m1
      <4>1. j \in 1..m
        BY <1>0, <3>1
      <4>2. B[v][j] = B[v][j - 1] + Defs(src, ph, cs[j], v)
        BY <1>2, <4>1 DEF BasesOK, m
      <4> QED BY <1>5, <4>1, <4>2
    <3>2. CASE j = m1
      <4>1. Defs(src, ph, cs2[m1], v) = 0
        BY <1>1, DefsAdvance
      <4>2. B2[v][m1] = B[v][m] /\ B2[v][m] = B[v][m] /\ B[v][m] \in Nat
        BY <1>0, <1>3
      <4> QED BY <1>0, <3>2, <4>1, <4>2
    <3> QED BY <3>1, <3>2
  <2> QED BY <1>0, <1>4, <2>1, <2>2 DEF BasesOK
<1>7. \A v \in Var : Len(st[v]) = B2[v][Len(cs2)]
  <2>1. \A v \in Var : Len(st[v]) = B[v][m] /\ B2[v][m1] = B[v][m]
    BY <1>0, <1>3 DEF StacksOK, m
  <2> QED BY <1>0, <2>1
<1>8. ASSUME NEW j \in 1..Len(cs2), cs2[j].ip > 0, NEW v \in Var
      PROVE  Newest(st, B2, v, j) = H[PlaceOf(src, cs2[j])][v]
  <2>1. j # m1
    BY <1>1, <1>8
  <2>2. j \in 1..m
    BY <1>0, <2>1
  <2>3. Newest(st, B, v, j) = H[PlaceOf(src, cs[j])][v]
    BY <1>1, <1>8, <2>2 DEF StacksOK, m
  <2>4. B2[v][j] = B[v][j] /\ PlaceOf(src, cs2[j]) = PlaceOf(src, cs[j])
    BY <1>5, <2>2
  <2> QED BY <2>3, <2>4 DEF Newest
<1>9. StacksOK(src, ph, cs2, H, st, B2)
  BY <1>6, <1>7, <1>8 DEF StacksOK
<1> QED BY <1>9

\* Step 8 pops what the call pushed, no more.
LEMMA StacksLeaves ==
  ASSUME NEW s, NEW src, Legal(s, src), NEW ph, NEW cs, WalkOK(s, src, cs),
         NEW H, NEW st, NEW B, StacksOK(src, ph, cs, H, st, B),
         NEW cs2, Leaves(cs, cs2), NEW st2,
         st2 = [v \in Var |-> SubSeq(st[v], 1, Len(st[v]) - Defs(src, ph, cs[Len(cs)], v))]
  PROVE  StacksOK(src, ph, cs2, H, st2, B)
<1> DEFINE m == Len(cs)
           m1 == m - 1
<1>0. /\ m \in Nat /\ m # 0 /\ m \in 1..m /\ m1 \in Nat /\ m1 \in 0..m /\ m \in 0..m /\ m1 <= m
      /\ Len(cs2) = m1 /\ cs[m].bb \in Block
      /\ \A j \in 1..m1 : j \in 1..m /\ j \in 0..m /\ j <= m1 /\ cs2[j] = cs[j]
  <2>1. m \in Nat /\ m # 0 /\ Len(cs2) = m1 /\ \A j \in 1..m1 : cs2[j] = cs[j]
    BY DEF Leaves, WalkOK
  <2>2. m \in 1..m
    BY <2>1
  <2>3. cs[m].bb \in Block
    BY <2>2, LegalFacts DEF WalkOK, Ordered
  <2> QED BY <2>1, <2>2, <2>3
<1>1. BasesOK(src, ph, cs, B)
  BY DEF StacksOK
<1> HIDE DEF m, m1
<1>2. BasesOK(src, ph, cs2, B)
  BY <1>0, <1>1 DEF BasesOK, m
<1>3. ASSUME NEW v \in Var
      PROVE  /\ st2[v] \in Seq(Value) /\ Len(st2[v]) = B[v][m1] /\ B[v][m1] \in Nat
             /\ \A x \in 1..B[v][m1] : st2[v][x] = st[v][x]
  <2> DEFINE d == Defs(src, ph, cs[m], v)
             k == B[v][m1]
             t == st[v]
  <2>1. t \in Seq(Value) /\ Len(t) = B[v][m]
    BY DEF StacksOK, m
  <2>2. B[v][m] = k + d
    BY <1>0, <1>1 DEF BasesOK, m, m1
  <2>3. d \in Nat
    BY <1>0, DefsAdvance
  <2>4. k \in Nat
    BY <1>0, <1>1, BasesGrow DEF m
  <2>5. st2[v] = SubSeq(t, 1, Len(t) - d)
    BY DEF m
  <2> HIDE DEF d, k, t
  <2>6. Len(t) - d = k /\ k <= Len(t)
    BY <2>1, <2>2, <2>3, <2>4
  <2>7. st2[v] = SubSeq(t, 1, k)
    BY <2>5, <2>6
  <2>8. SubSeq(t, 1, k) \in Seq(Value) /\ Len(SubSeq(t, 1, k)) = k
        /\ \A x \in 1..k : SubSeq(t, 1, k)[x] = t[x]
    BY <2>1, <2>4, <2>6
  <2> QED BY <2>4, <2>7, <2>8 DEF k, t
<1>4. ASSUME NEW j \in 1..m1, cs2[j].ip > 0, NEW v \in Var
      PROVE  Newest(st2, B, v, j) = H[PlaceOf(src, cs2[j])][v]
  <2>1. Newest(st, B, v, j) = H[PlaceOf(src, cs[j])][v]
    BY <1>0, <1>4 DEF StacksOK, m
  <2>2. B[v][j] \in Nat /\ B[v][j] <= B[v][m1]
    BY <1>0, <1>1, BasesGrow DEF m
  <2>3. B[v][j] # 0 => st2[v][B[v][j]] = st[v][B[v][j]]
    <3> DEFINE x == B[v][j]
               k == B[v][m1]
    <3>1. k \in Nat /\ \A y \in 1..k : st2[v][y] = st[v][y]
      BY <1>3
    <3> HIDE DEF x, k
    <3>2. x \in Nat /\ x <= k
      BY <2>2 DEF x, k
    <3>3. x # 0 => x \in 1..k
      BY <3>1, <3>2
    <3>4. x # 0 => st2[v][x] = st[v][x]
      BY <3>1, <3>3
    <3> QED BY <3>4 DEF x
  <2> QED BY <1>0, <2>1, <2>3 DEF Newest
<1>5. st2 \in [Var -> Seq(Value)]
  BY <1>3
<1> QED BY <1>0, <1>2, <1>3, <1>4, <1>5 DEF StacksOK

-----------------------------------------------------------------------------
(* The phis' pairs. *)

\* The phis F of the successors of b0 get what reaches its end.
Fills(src, ph, s, H, b0, F, pr, pr2) ==
  /\ \A y \in Block : \A v \in Var : <<y, v>> \in F <=>
       <<y, v>> \in ph /\ y \in ToSet(s[b0]) /\ H[<<b0, Fin(src, b0)>>][v] # NoValue
  /\ pr2 = [p \in Block \X Var |->
       IF p \in F THEN Append(pr[p], <<H[<<b0, Fin(src, b0)>>][p[2]], b0>>) ELSE pr[p]]

\* A predecessor passed adds its pair to the phis, and to no others.
LEMMA PairsFill ==
  ASSUME NEW s, NEW src, Legal(s, src), NEW ph, NEW cs, WalkOK(s, src, cs),
         NEW H \in [Block \X Nat -> [Var -> Value \cup {NoValue}]],
         NEW pr, PairsOK(s, src, ph, cs, H, pr),
         NEW cs2, Advances(src, cs, cs2), NEW b0, b0 = cs[Len(cs)].bb,
         cs[Len(cs)].ip = Fin(src, b0), NEW F, NEW pr2, Fills(src, ph, s, H, b0, F, pr, pr2)
  PROVE  PairsOK(s, src, ph, cs2, H, pr2)
<1> SUFFICES
      ASSUME \A y \in Block : \A v \in Var : <<y, v>> \in F <=>
               <<y, v>> \in ph /\ y \in ToSet(s[b0]) /\ H[<<b0, Fin(src, b0)>>][v] # NoValue,
             pr2 = [p \in Block \X Var |->
                  IF p \in F THEN Append(pr[p], <<H[<<b0, Fin(src, b0)>>][p[2]], b0>>) ELSE pr[p]]
      PROVE  PairsOK(s, src, ph, cs2, H, pr2)
  BY DEF Fills
<1> DEFINE l == Fin(src, b0)
           val(v) == H[<<b0, l>>][v]
<1>0. b0 \in Block /\ l \in Nat /\ ~Passed(s, src, cs, b0, l)
  BY WalkAdvances, LegalFacts
<1>1. \A p \in Block : Passed(s, src, cs2, p, Fin(src, p)) <=>
         Passed(s, src, cs, p, Fin(src, p)) \/ p = b0
  <2>1. \A b \in Block : \A n : Passed(s, src, cs2, b, n) <=>
         Passed(s, src, cs, b, n) \/ (b = b0 /\ n = l)
    BY WalkAdvances
  <2> QED BY <2>1
<1>2. ASSUME NEW y \in Block, NEW v \in Var
      PROVE  /\ pr[<<y, v>>] \in Seq(Value \X Block)
             /\ <<y, v>> \in F => val(v) \in Value
             /\ pr2[<<y, v>>] = IF <<y, v>> \in F THEN Append(pr[<<y, v>>], <<val(v), b0>>)
                                                  ELSE pr[<<y, v>>]
  <2>1. pr[<<y, v>>] \in Seq(Value \X Block)
    BY DEF PairsOK
  <2>2. val(v) \in Value \cup {NoValue}
    <3>1. <<b0, l>> \in Block \X Nat
      BY <1>0
    <3> QED BY <3>1
  <2>3. pr2[<<y, v>>] = IF <<y, v>> \in F THEN Append(pr[<<y, v>>], <<val(v), b0>>)
                                          ELSE pr[<<y, v>>]
    OBVIOUS
  <2> QED BY <2>1, <2>2, <2>3
<1>3. pr2 \in [Block \X Var -> Seq(Value \X Block)]
  <2>1. ASSUME NEW p \in Block \X Var PROVE pr2[p] \in Seq(Value \X Block)
    <3> DEFINE y == p[1]
               v == p[2]
    <3>1. y \in Block /\ v \in Var /\ p = <<y, v>>
      OBVIOUS
    <3> DEFINE e == <<val(v), b0>>
               t == pr[p]
               E == Value \X Block
    <3>2. pr2[p] = IF p \in F THEN Append(t, e) ELSE t
      OBVIOUS
    <3>4. /\ pr[<<y, v>>] \in Seq(Value \X Block)
          /\ <<y, v>> \in F => val(v) \in Value
      BY <1>2, <3>1
    <3> HIDE DEF y, v, val
    <3>5. t \in Seq(E) /\ (p \in F => e \in E)
      BY <1>0, <3>1, <3>4
    <3> DEFINE u == pr2[p]
    <3> HIDE DEF e, t, E, u
    <3>6. ASSUME p \in F PROVE u \in Seq(E)
      <4>1. u = Append(t, e)
        BY <3>2, <3>6 DEF u
      <4> QED BY <3>5, <3>6, <4>1
    <3>7. ASSUME p \notin F PROVE u \in Seq(E)
      <4>1. u = t
        BY <3>2, <3>7 DEF u
      <4> QED BY <3>5, <4>1
    <3>3. u \in Seq(E)
      BY <3>6, <3>7
    <3> QED BY <3>3 DEF E, u
  <2>2. pr2 = [p \in Block \X Var |-> pr2[p]]
    OBVIOUS
  <2> QED BY <2>1, <2>2
<1>4. ASSUME NEW y \in Block, NEW v \in Var, NEW p \in Block
      PROVE  \A x : x \in Operands(pr2, y, v, p) <=>
                     x \in Operands(pr, y, v, p) \/ (<<y, v>> \in F /\ p = b0 /\ x = val(v))
  <2> DEFINE t == pr[<<y, v>>]
             e == <<val(v), b0>>
             E == Value \X Block
  <2>1. CASE <<y, v>> \in F
    <3>1. pr2[<<y, v>>] = Append(t, e) /\ t \in Seq(E) /\ e \in E
      BY <1>0, <1>2, <2>1
    <3>2. e[1] = val(v) /\ e[2] = b0
      OBVIOUS
    <3>0. t \in Seq(E) /\ e \in E
      BY <3>1
    <3> HIDE DEF t, e, E
    <3>3. ToSet(Append(t, e)) = ToSet(t) \cup {e}
      <4>1. \A x \in E : x \in ToSet(Append(t, e)) <=> x \in ToSet(t) \/ x = e
        <5> DEFINE g == Append(t, e)
                   k == Len(t)
        <5>1. /\ k \in Nat /\ DOMAIN t = 1..k /\ DOMAIN g = 1..(k + 1) /\ g[k + 1] = e
              /\ \A n \in 1..k : g[n] = t[n]
          BY <3>0
        <5>2. \A n \in 1..(k + 1) : n \in 1..k \/ n = k + 1
          BY <5>1
        <5>3. k + 1 \in 1..(k + 1) /\ \A n \in 1..k : n \in 1..(k + 1)
          BY <5>1
        <5> HIDE DEF g, k
        <5>4. \A x : (\E n \in DOMAIN g : g[n] = x) <=> (\E n \in DOMAIN t : t[n] = x) \/ x = e
          BY <5>1, <5>2, <5>3
        <5> QED BY <5>4 DEF ToSet, g
      <4>2. ToSet(Append(t, e)) \subseteq E /\ ToSet(t) \subseteq E
        <5> DEFINE g == Append(t, e)
        <5>1. g \in Seq(E)
          BY <3>0
        <5> HIDE DEF g
        <5>2. \A n \in DOMAIN g : g[n] \in E
          BY <5>1
        <5>3. \A n \in DOMAIN t : t[n] \in E
          BY <3>0
        <5>4. ToSet(g) \subseteq E
          BY <5>2 DEF ToSet
        <5>5. ToSet(t) \subseteq E
          BY <5>3 DEF ToSet
        <5> QED BY <5>4, <5>5 DEF g
      <4> QED BY <3>1, <4>1, <4>2
    <3>4. Operands(pr2, y, v, p) =
            {q[1] : q \in {r \in ToSet(t) \cup {e} : r[2] = p}}
      BY <3>1, <3>3 DEF Operands
    <3>5. Operands(pr, y, v, p) = {q[1] : q \in {r \in ToSet(t) : r[2] = p}}
      BY DEF Operands, t
    <3> QED BY <2>1, <3>2, <3>4, <3>5
  <2>2. CASE <<y, v>> \notin F
    <3>1. pr2[<<y, v>>] = t
      BY <1>2, <2>2
    <3> QED BY <2>2, <3>1 DEF Operands
  <2> QED BY <2>1, <2>2
<1>5. ASSUME NEW y \in Block, NEW v \in Var, NEW p \in Block
      PROVE  Operands(pr2, y, v, p) =
               IF /\ <<y, v>> \in ph /\ y \in ToSet(s[p])
                  /\ Passed(s, src, cs2, p, Fin(src, p)) /\ H[<<p, Fin(src, p)>>][v] # NoValue
               THEN {H[<<p, Fin(src, p)>>][v]} ELSE {}
  <2>1. Operands(pr, y, v, p) =
               IF /\ <<y, v>> \in ph /\ y \in ToSet(s[p])
                  /\ Passed(s, src, cs, p, Fin(src, p)) /\ H[<<p, Fin(src, p)>>][v] # NoValue
               THEN {H[<<p, Fin(src, p)>>][v]} ELSE {}
    BY DEF PairsOK
  <2>2. CASE p # b0
    <3>1. Operands(pr2, y, v, p) = Operands(pr, y, v, p)
      BY <1>4, <2>2
    <3> QED BY <1>1, <2>1, <2>2, <3>1
  <2>3. CASE p = b0
    <3>1. Operands(pr, y, v, p) = {}
      BY <1>0, <2>1, <2>3
    <3>2. Operands(pr2, y, v, p) = IF <<y, v>> \in F THEN {val(v)} ELSE {}
      <4> HIDE DEF val
      <4>1. \A x : x \in Operands(pr2, y, v, p) <=>
                      x \in Operands(pr, y, v, p) \/ (<<y, v>> \in F /\ p = b0 /\ x = val(v))
        BY <1>4
      <4> DEFINE O == Operands(pr2, y, v, p)
      <4>2. \A x : x \in O <=> <<y, v>> \in F /\ x = val(v)
        BY <2>3, <3>1, <4>1
      <4> HIDE DEF O
      <4>5. O = IF <<y, v>> \in F THEN {val(v)} ELSE {}
        BY <4>2
      <4> QED BY <4>5 DEF O
    <3>3. Passed(s, src, cs2, p, Fin(src, p))
      BY <1>1, <2>3
    <3> QED BY <2>3, <3>2, <3>3
  <2> QED BY <2>2, <2>3
<1> QED BY <1>3, <1>5 DEF PairsOK

\* Value::replace_all_use_with on the operands of the phis.
ReplacesPairs(pr, pr2, old, new) ==
  pr2 = [p \in Block \X Var |-> [n \in DOMAIN pr[p] |->
           IF pr[p][n][1] = old THEN <<new, pr[p][n][2]>> ELSE pr[p][n]]]

\* No operand of a phi names an instruction that was not passed.
LEMMA PairsKept ==
  ASSUME NEW s, NEW src, Legal(s, src), NEW ph, PhisOK(s, src, ph),
         NEW cs, WalkOK(s, src, cs), NEW H, ReachOK(s, src, ph, cs, H),
         NEW pr, PairsOK(s, src, ph, cs, H, pr),
         NEW a, NEW k \in Nat, ~Passed(s, src, cs, a, k), NEW o, o = <<a, k>>, NEW new,
         NEW pr2, ReplacesPairs(pr, pr2, o, new)
  PROVE  pr2 = pr
<1> SUFFICES ASSUME pr2 = [p \in Block \X Var |-> [n \in DOMAIN pr[p] |->
                      IF pr[p][n][1] = o THEN <<new, pr[p][n][2]>> ELSE pr[p][n]]]
             PROVE  pr2 = pr
  BY DEF ReplacesPairs
<1>1. pr \in [Block \X Var -> Seq(Value \X Block)]
  BY DEF PairsOK
<1>2. ASSUME NEW p \in Block \X Var, NEW n \in DOMAIN pr[p], pr[p][n][1] = o PROVE FALSE
  <2> DEFINE y == p[1]
             v == p[2]
             q == pr[p][n]
             t == pr[p]
             b == q[2]
             l == Fin(src, b)
  <2>1. y \in Block /\ v \in Var /\ p = <<y, v>>
    OBVIOUS
  <2>2. q \in Value \X Block /\ q \in ToSet(t)
    <3>1. t \in Seq(Value \X Block) /\ n \in DOMAIN t /\ q = t[n]
      BY <1>1
    <3> HIDE DEF t, q
    <3>2. q \in ToSet(t)
      BY <3>1 DEF ToSet
    <3> DEFINE E == Value \X Block
    <3>3. t \in Seq(E)
      BY <3>1
    <3> HIDE DEF E
    <3>4. q \in E
      BY <3>1, <3>3
    <3> QED BY <3>2, <3>4 DEF E
  <2>3. b \in Block /\ q[1] = o
    BY <1>2, <2>2
  <2>4. q[1] \in Operands(pr, y, v, b)
    BY <2>1, <2>2 DEF Operands
  <2>5. l \in Nat /\ l >= 1
    BY <2>3, LegalFacts
  <2> HIDE DEF y, v, q, t, b
  <2>6. Passed(s, src, cs, b, l) /\ H[<<b, l>>][v] # NoValue /\ H[<<b, l>>][v] = o
    <3> DEFINE E == Operands(pr, y, v, b)
               cond == /\ <<y, v>> \in ph /\ y \in ToSet(s[b])
                       /\ Passed(s, src, cs, b, l) /\ H[<<b, l>>][v] # NoValue
    <3>1. E = IF cond THEN {H[<<b, l>>][v]} ELSE {}
      BY <2>1, <2>3 DEF PairsOK
    <3>2. o \in E
      BY <2>3, <2>4
    <3>3. cond => Passed(s, src, cs, b, l) /\ H[<<b, l>>][v] # NoValue
      OBVIOUS
    <3> HIDE DEF E, cond
    <3> QED BY <3>1, <3>2, <3>3
  <2> HIDE DEF l
  <2>7. l \in 1..l /\ l - 1 \in Nat /\ l - 1 <= l
    BY <2>5
  <2>8. Passed(s, src, cs, b, l - 1)
    BY <2>3, <2>6, <2>7, PassedIs
  <2>9. Avail(s, src, ph, b, l, H[<<b, l>>][v])
    BY <2>1, <2>3, <2>6, <2>7, <2>8 DEF ReachOK, l
  <2>10. Avail(s, src, ph, b, l, <<a, k>>)
    BY <2>6, <2>9
  <2> QED BY <2>3, <2>5, <2>8, <2>10, AvailPassed
<1>3. ASSUME NEW p \in Block \X Var PROVE pr2[p] = pr[p]
  <2> DEFINE t == pr[p]
  <2>1. pr2[p] = [n \in DOMAIN t |-> t[n]]
    BY <1>2
  <2>2. t \in Seq(Value \X Block)
    BY <1>1
  <2> HIDE DEF t
  <2>3. t = [n \in DOMAIN t |-> t[n]]
    BY <2>2
  <2> QED BY <2>1, <2>3 DEF t
<1> QED BY <1>1, <1>3

-----------------------------------------------------------------------------
(* One place more. *)

\* What is known, the stacks and the code go one place further together.
LEMMA PartsAdvance ==
  ASSUME NEW s, NEW src, Legal(s, src), NEW ph, PhisOK(s, src, ph),
         NEW cs, NEW H, NEW st, NEW B, NEW cd, NEW pr,
         WalkParts(s, src, ph, cs, H, st, B, cd, pr),
         NEW cs2, Advances(src, cs, cs2), NEW o, o = <<cs[Len(cs)].bb, cs[Len(cs)].ip>>,
         NEW cd2, Renames(src, cs, H, cd, cs2, cd2), NEW st2, Pushes(src, ph, cs, H, st, st2)
  PROVE  \E H2, B2 :
           /\ WalkOK(s, src, cs2) /\ ReachOK(s, src, ph, cs2, H2)
           /\ StacksOK(src, ph, cs2, H2, st2, B2) /\ CodeOK(s, src, cs2, cd2, H2)
           /\ IF o[2] = Fin(src, o[1]) THEN H2 = H ELSE PairsOK(s, src, ph, cs2, H2, pr)
<1> DEFINE b0 == o[1]
           n0 == o[2]
           top == [v \in Var |-> IF n0 = 0 THEN AtHead(s, src, ph, H, b0, v)
                                           ELSE After(src, H, b0, n0, v)]
           n1 == n0 + 1
           H2 == IF n0 = Fin(src, b0) THEN H ELSE [H EXCEPT ![<<b0, n1>>] = top]
<1>0. /\ WalkOK(s, src, cs) /\ ReachOK(s, src, ph, cs, H) /\ StacksOK(src, ph, cs, H, st, B)
      /\ CodeOK(s, src, cs, cd, H) /\ PairsOK(s, src, ph, cs, H, pr)
  BY DEF WalkParts
<1>1. /\ b0 = cs[Len(cs)].bb /\ n0 = cs[Len(cs)].ip /\ o = <<b0, n0>>
      /\ b0 \in Block /\ n0 \in 0..Fin(src, b0) /\ ~Passed(s, src, cs, b0, n0) /\ n0 \in Nat
      /\ Fin(src, b0) \in Nat /\ Fin(src, b0) >= 1 /\ DOMAIN src[b0] = 1..(Fin(src, b0) - 1)
      /\ s \in [Block -> Target] /\ Ordered(s) /\ b0 \in Reached(s)
      /\ \A b \in Block : Fin(src, b) \in Nat /\ Fin(src, b) >= 1
  <2>1. b0 = cs[Len(cs)].bb /\ n0 = cs[Len(cs)].ip /\ o = <<b0, n0>>
    OBVIOUS
  <2>2. b0 \in Block /\ n0 \in 0..Fin(src, b0) /\ ~Passed(s, src, cs, b0, n0)
    BY <1>0, <2>1, WalkAdvances
  <2>3. b0 \in Reached(s)
    BY <1>0, <2>1 DEF Advances, WalkOK
  <2>4. s \in [Block -> Target] /\ Ordered(s)
        /\ Fin(src, b0) \in Nat /\ Fin(src, b0) >= 1 /\ DOMAIN src[b0] = 1..(Fin(src, b0) - 1)
        /\ \A b \in Block : Fin(src, b) \in Nat /\ Fin(src, b) >= 1
    BY <2>2, LegalFacts
  <2> QED BY <2>1, <2>2, <2>3, <2>4
<1>2. H \in [Block \X Nat -> [Var -> Value \cup {NoValue}]]
  BY <1>0 DEF ReachOK
<1> HIDE DEF b0, n0
<1>3. n1 \in Nat /\ <<b0, n1>> \in Block \X Nat
  BY <1>1
<1>4. n0 # Fin(src, b0) => top \in [Var -> Value \cup {NoValue}]
  <2> SUFFICES ASSUME n0 # Fin(src, b0), NEW v \in Var
               PROVE  (IF n0 = 0 THEN AtHead(s, src, ph, H, b0, v) ELSE After(src, H, b0, n0, v))
                        \in Value \cup {NoValue}
    OBVIOUS
  <2>1. \A b \in Block : \A n \in Nat : \A w \in Var : H[<<b, n>>][w] \in Value \cup {NoValue}
    BY <1>2
  <2>2. CASE n0 = 0
    <3>1. <<b0, v>> \in Value
      BY <1>1 DEF Value
    <3>2. ASSUME b0 # Entry
          PROVE  H[<<ImmediateDominator(s, b0), Fin(src, ImmediateDominator(s, b0))>>][v]
                   \in Value \cup {NoValue}
      <4> DEFINE q == ImmediateDominator(s, b0)
      <4>1. SDom(s, q, b0)
        BY <1>1, <3>2, IdomIs, TargetGraphs
      <4> HIDE DEF q
      <4>2. q \in Block /\ Fin(src, q) \in Nat
        BY <1>1, <4>1 DEF SDom, Ordered
      <4>3. H[<<q, Fin(src, q)>>][v] \in Value \cup {NoValue}
        BY <2>1, <4>2
      <4> QED BY <4>3 DEF q
    <3> QED BY <2>2, <3>1, <3>2 DEF AtHead
  <2>3. CASE n0 # 0
    <3>1. n0 \in DOMAIN src[b0]
      BY <1>1, <2>3
    <3> DEFINE x == src[b0][n0].arg
    <3>2. x \in Value \cup {NoValue}
      <4>1. src[b0] \in Seq(Instr)
        BY <1>1, LegalFacts
      <4>2. src[b0][n0] \in Instr
        BY <3>1, <4>1
      <4> QED BY <4>2 DEF Instr
    <3> HIDE DEF x
    <3>3. Cur(src, H, x) \in Value \cup {NoValue}
      <4>1. CASE IsLoad(src, x)
        <5>1. x = <<x[1], x[2]>> /\ x[1] \in Block /\ x[2] \in Nat /\ VarOf(src, x) \in Var
          BY <1>0, <4>1, LoadPlace DEF IsLoad
        <5> DEFINE w == VarOf(src, x)
        <5>2. w \in Var
          BY <5>1
        <5> HIDE DEF w
        <5>3. H[<<x[1], x[2]>>][w] \in Value \cup {NoValue}
          BY <2>1, <5>1, <5>2
        <5>4. H[x][w] \in Value \cup {NoValue}
          BY <5>1, <5>3
        <5> QED BY <3>2, <5>4 DEF Cur, w
      <4>2. CASE ~IsLoad(src, x)
        BY <3>2, <4>2 DEF Cur
      <4> QED BY <4>1, <4>2
    <3>4. H[<<b0, n0>>][v] \in Value \cup {NoValue}
      BY <1>1, <2>1
    <3> QED BY <2>3, <3>3, <3>4 DEF After, x
  <2> QED BY <2>2, <2>3
<1>5. \A v \in Var : top[v] = IF n0 = 0 THEN AtHead(s, src, ph, H, b0, v) ELSE After(src, H, b0, n0, v)
  OBVIOUS
<1> HIDE DEF top, n1
<1>6. H2 \in [Block \X Nat -> [Var -> Value \cup {NoValue}]]
  BY <1>2, <1>3, <1>4
<1>7. Agree(s, src, cs, H, H2)
  <2> SUFFICES ASSUME n0 # Fin(src, b0), NEW b \in Block, NEW n \in 1..Fin(src, b),
                      Passed(s, src, cs, b, n - 1)
               PROVE  H2[<<b, n>>] = H[<<b, n>>]
    BY DEF Agree
  <2>1. <<b, n>> # <<b0, n1>>
    <3> SUFFICES ASSUME b = b0, n = n1 PROVE FALSE
      OBVIOUS
    <3>1. n - 1 = n0
      BY <1>1 DEF n1
    <3> QED BY <1>1, <3>1
  <2>2. n \in Nat
    BY <1>1
  <2> DEFINE p == <<b, n>>
             p0 == <<b0, n1>>
  <2>3. p \in Block \X Nat /\ p # p0
    BY <2>1, <2>2
  <2> HIDE DEF p, p0
  <2>4. H2[p] = H[p]
    BY <1>2, <2>3 DEF p0
  <2> QED BY <2>4 DEF p
<1>8. n0 # Fin(src, b0) => \A v \in Var : H2[<<b0, n1>>][v] = top[v]
  BY <1>2, <1>3
<1> HIDE DEF H2
<1>9. n0 = 0 => \A v \in Var : H2[<<b0, 1>>][v] = AtHead(s, src, ph, H, b0, v)
  <2> SUFFICES ASSUME n0 = 0 PROVE \A v \in Var : H2[<<b0, 1>>][v] = AtHead(s, src, ph, H, b0, v)
    OBVIOUS
  <2>1. n1 = 1 /\ n0 # Fin(src, b0)
    BY <1>1 DEF n1
  <2> QED BY <1>5, <1>8, <2>1
<1>10. n0 \in DOMAIN src[b0] => \A v \in Var : H2[<<b0, n0 + 1>>][v] = After(src, H, b0, n0, v)
  <2> SUFFICES ASSUME n0 \in DOMAIN src[b0]
               PROVE  \A v \in Var : H2[<<b0, n1>>][v] = After(src, H, b0, n0, v)
    BY DEF n1
  <2>1. n0 # 0 /\ n0 # Fin(src, b0)
    BY <1>1
  <2> QED BY <1>5, <1>8, <2>1
<1>g. Grows(s, src, ph, cs, H, H2)
  BY <1>1, <1>6, <1>7, <1>9, <1>10 DEF Grows
<1>11. ReachOK(s, src, ph, cs2, H2)
  BY <1>0, <1>g, ReachExtends
<1>12. \E B2 : StacksOK(src, ph, cs2, H2, st2, B2)
  BY <1>0, <1>g, StacksAdvance
<1>13. CodeOK(s, src, cs2, cd2, H2)
  BY <1>0, <1>g, CodeAdvances
<1>14. WalkOK(s, src, cs2)
  BY <1>0, WalkAdvances
<1>15. ASSUME n0 # Fin(src, b0) PROVE PairsOK(s, src, ph, cs2, H2, pr)
  <2>1. ASSUME NEW p \in Block
        PROVE  /\ Passed(s, src, cs2, p, Fin(src, p)) <=> Passed(s, src, cs, p, Fin(src, p))
               /\ Passed(s, src, cs, p, Fin(src, p)) =>
                    H2[<<p, Fin(src, p)>>] = H[<<p, Fin(src, p)>>]
    <3> DEFINE l == Fin(src, p)
    <3>1. l \in Nat /\ l \in 1..l /\ l - 1 \in Nat /\ l - 1 <= l
      BY <1>1
    <3> HIDE DEF l
    <3>2. Passed(s, src, cs2, p, l) <=> Passed(s, src, cs, p, l) \/ (p = b0 /\ l = n0)
      BY <1>0, <1>1, WalkAdvances
    <3>3. ~(p = b0 /\ l = n0)
      BY <1>15 DEF l
    <3>4. Passed(s, src, cs, p, l) => Passed(s, src, cs, p, l - 1)
      BY <1>0, <3>1, PassedIs
    <3>5. Passed(s, src, cs, p, l) => H2[<<p, l>>] = H[<<p, l>>]
      BY <1>7, <3>1, <3>4 DEF Agree, l
    <3> QED BY <3>2, <3>3, <3>5 DEF l
  <2> QED BY <1>0, <2>1 DEF PairsOK
<1>16. n0 = Fin(src, b0) => H2 = H
  BY DEF H2
<1>17. IF o[2] = Fin(src, o[1]) THEN H2 = H ELSE PairsOK(s, src, ph, cs2, H2, pr)
  BY <1>15, <1>16 DEF n0, b0
<1> QED BY <1>11, <1>12, <1>13, <1>14, <1>17

-----------------------------------------------------------------------------
(* The walk begins. *)

StartStack(s) == <<[bb |-> Entry, ip |-> 0, children |-> Kids(s, Entry), wait_delete |-> {}]>>

\* The walk starts at the entry with nothing known.
LEMMA Starts ==
  ASSUME NEW s, NEW src, Legal(s, src), NEW ph, PhisOK(s, src, ph)
  PROVE  \E H, B : WalkParts(s, src, ph, StartStack(s), H, [v \in Var |-> <<>>], B, src,
                             [p \in Block \X Var |-> <<>>])
<1> DEFINE cs == StartStack(s)
           H == [x \in Block \X Nat |-> [v \in Var |-> NoValue]]
           B == [v \in Var |-> [j \in Nat |-> 0]]
           st == [v \in Var |-> <<>>]
           pr == [p \in Block \X Var |-> <<>>]
<1>0. /\ s \in [Block -> Target] /\ src \in [Block -> Seq(Instr)] /\ Ordered(s)
      /\ \A b \in Block : /\ Fin(src, b) \in Nat /\ Fin(src, b) >= 1
                          /\ DOMAIN src[b] = 1..(Fin(src, b) - 1)
      /\ Entry \in Block /\ Entry \in Reached(s)
  BY LegalFacts DEF Ordered
<1>1. /\ cs \in Seq(Frame) /\ Len(cs) = 1 /\ cs[1].bb = Entry /\ cs[1].ip = 0
      /\ cs[1].children = Kids(s, Entry) /\ cs[1].wait_delete = {}
  <2> DEFINE c == [bb |-> Entry, ip |-> 0, children |-> Kids(s, Entry), wait_delete |-> {}]
  <2>1. Kids(s, Entry) \subseteq Block
    BY <1>0, KidsAre DEF Ordered
  <2>2. c \in Frame /\ c.bb = Entry /\ c.ip = 0 /\ c.children = Kids(s, Entry) /\ c.wait_delete = {}
    BY <1>0, <2>1 DEF Frame
  <2>3. cs = <<c>>
    BY DEF StartStack
  <2> HIDE DEF c, cs
  <2>4. cs \in Seq(Frame) /\ Len(cs) = 1 /\ cs[1] = c
    BY <2>2, <2>3
  <2> QED BY <2>2, <2>4
<1> HIDE DEF cs
<1>2. WalkOK(s, src, cs)
  <2>1. \A a : ~SDom(s, a, Entry)
    BY <1>0 DEF Ordered, SDom
  <2>2. \A j \in 1..1 : j = 1 /\ ~(j > 1)
    OBVIOUS
  <2>3. ~\E h \in 1..(1 - 1) : cs[h].bb = Entry
    OBVIOUS
  <2>4. 0 <= Fin(src, Entry) + 1
    BY <1>0
  <2>5. \A a : SDom(s, a, Entry) <=> \E h \in 1..(1 - 1) : cs[h].bb = a
    BY <2>1
  <2> QED BY <1>0, <1>1, <2>2, <2>4, <2>5 DEF WalkOK
<1>3. ASSUME NEW b, Returned(s, cs, b) PROVE FALSE
  <2>1. b \in Reached(s) /\ b # Entry
    BY <1>1, <1>3 DEF Returned, On
  <2>2. SDom(s, Entry, b)
    BY <1>0, <2>1 DEF Ordered, SDom
  <2>3. \E c \in Kids(s, Entry) : Dom(s, c, b)
    BY <1>0, <2>2, KidsAre
  <2>4. Pending(s, cs, b)
    BY <1>1, <2>3 DEF Pending
  <2> QED BY <1>3, <2>4 DEF Returned
<1>4. ASSUME NEW b \in Block, NEW n, Passed(s, src, cs, b, n) PROVE FALSE
  <2>1. PICK j \in 1..1 : n < cs[j].ip
    BY <1>1, <1>3, <1>4 DEF Passed
  <2>2. n \in 0..Fin(src, b)
    BY <1>4 DEF Passed
  <2>3. n \in Nat /\ n < 0
    BY <1>0, <1>1, <2>1, <2>2
  <2> QED BY <2>3
<1>5. H \in [Block \X Nat -> [Var -> Value \cup {NoValue}]]
  OBVIOUS
<1>6. ReachOK(s, src, ph, cs, H)
  <2> HIDE DEF H
  <2> QED BY <1>4, <1>5 DEF ReachOK
<1>7. StacksOK(src, ph, cs, H, st, B)
  <2>1. st \in [Var -> Seq(Value)] /\ \A v \in Var : Len(st[v]) = 0
    OBVIOUS
  <2>2. B \in [Var -> [Nat -> Nat]] /\ \A v \in Var : B[v][0] = 0 /\ B[v][1] = 0
    OBVIOUS
  <2>3. \A v \in Var : Defs(src, ph, cs[1], v) = 0
    BY <1>0, <1>1, DefsAdvance
  <2> HIDE DEF B, st, H
  <2>4. \A v \in Var : \A j \in 1..1 : j = 1 /\ B[v][j] = B[v][j - 1] + Defs(src, ph, cs[j], v)
    BY <2>2, <2>3
  <2>5. BasesOK(src, ph, cs, B)
    BY <1>1, <2>2, <2>4 DEF BasesOK
  <2>6. \A j \in 1..1 : ~(cs[j].ip > 0)
    BY <1>1
  <2> QED BY <1>1, <2>1, <2>2, <2>5, <2>6 DEF StacksOK
<1>8. CodeOK(s, src, cs, src, H)
  <2>1. \A b \in Block : \A n \in DOMAIN src[b] : src[b][n] \in Instr /\ src[b][n].id = <<b, n>>
    BY <1>0 DEF Legal
  <2>2. \A x : Current(s, src, cs, H, x) = x
    BY <1>4 DEF Current, IsLoad, IsDef, InstrId
  <2>3. \A j \in 1..1 : \A x \in InstrId : ~(x[2] < cs[j].ip) /\ x \notin cs[j].wait_delete
    BY <1>1 DEF InstrId
  <2> HIDE DEF H
  <2> QED BY <1>0, <1>1, <1>3, <2>1, <2>2, <2>3 DEF CodeOK
<1>9. PairsOK(s, src, ph, cs, H, pr)
  <2>1. pr \in [Block \X Var -> Seq(Value \X Block)]
    OBVIOUS
  <2>2. \A y \in Block : \A v \in Var : \A p : Operands(pr, y, v, p) = {}
    BY DEF Operands, ToSet
  <2> HIDE DEF H, pr
  <2>3. \A p \in Block : ~Passed(s, src, cs, p, Fin(src, p))
    BY <1>4
  <2> QED BY <2>1, <2>2, <2>3 DEF PairsOK
<1>10. WalkParts(s, src, ph, cs, H, st, B, src, pr)
  BY <1>2, <1>6, <1>7, <1>8, <1>9 DEF WalkParts
<1> QED BY <1>10 DEF cs

-----------------------------------------------------------------------------
(* The steps of the pass. *)

\* The block re_name is in.
LEMMA TopFacts ==
  ASSUME NEW H, NEW B, PassOK(H, B), pc = "rename"
  PROVE  /\ calls # <<>> /\ calls \in Seq(Frame) /\ Len(calls) \in 1..Len(calls)
         /\ Top = calls[Len(calls)] /\ Top \in Frame /\ bb = calls[Len(calls)].bb
         /\ bb \in Block /\ bb \in Reached(succ) /\ Top.ip \in 0..(Fin(source, bb) + 1)
         /\ Fin(source, bb) \in Nat /\ Fin(source, bb) >= 1
         /\ DOMAIN source[bb] = 1..(Fin(source, bb) - 1)
         /\ code[bb] \in Seq(Instr) /\ Len(code[bb]) + 1 = Fin(source, bb)
         /\ DOMAIN code[bb] = DOMAIN source[bb]
         /\ \A n \in DOMAIN source[bb] :
              /\ code[bb][n] \in Instr /\ code[bb][n].id = <<bb, n>>
              /\ code[bb][n].op = source[bb][n].op /\ code[bb][n].var = source[bb][n].var
              /\ code[bb][n].arg = Current(succ, source, calls, H, source[bb][n].arg)
<1> DEFINE m == Len(calls)
<1>0. Legal(succ, source) /\ WalkOK(succ, source, calls) /\ CodeOK(succ, source, calls, code, H)
  BY DEF PassOK, WalkParts
<1>1. calls # <<>>
  BY DEF PassOK, StateOK
<1>2. calls \in Seq(Frame) /\ m \in 1..m
  BY <1>0, <1>1 DEF WalkOK
<1>3. Top = calls[m] /\ Top \in Frame /\ bb = calls[m].bb
  <2>1. m \in DOMAIN calls
    BY <1>2
  <2>2. calls[m] \in Frame
    BY <1>2, <2>1
  <2> QED BY <2>2 DEF Top, bb
<1>4. bb \in Reached(succ) /\ Top.ip <= Fin(source, bb) + 1
  BY <1>0, <1>2, <1>3 DEF WalkOK
<1>5. bb \in Block /\ Fin(source, bb) \in Nat /\ Fin(source, bb) >= 1
      /\ DOMAIN source[bb] = 1..(Fin(source, bb) - 1) /\ source[bb] \in Seq(Instr)
  <2>1. bb \in Block
    BY <1>0, <1>4, LegalFacts DEF Ordered
  <2> QED BY <1>0, <2>1, LegalFacts
<1>6. Top.ip \in 0..(Fin(source, bb) + 1)
  <2>1. Top.ip \in Nat
    BY <1>3 DEF Frame
  <2> HIDE DEF Top, bb
  <2> QED BY <1>4, <1>5, <2>1
<1>7. ~Returned(succ, calls, bb)
  BY <1>2, <1>3 DEF Returned, On
<1> HIDE DEF Top, bb
<1>8. code[bb] \in Seq(Instr) /\ Len(code[bb]) = Len(source[bb])
  BY <1>0, <1>5, <1>7 DEF CodeOK
<1>9. DOMAIN code[bb] = DOMAIN source[bb] /\ Len(code[bb]) + 1 = Fin(source, bb)
  BY <1>5, <1>8 DEF Fin
<1>10. \A n \in DOMAIN source[bb] :
         /\ code[bb][n] \in Instr /\ code[bb][n].id = <<bb, n>>
         /\ code[bb][n].op = source[bb][n].op /\ code[bb][n].var = source[bb][n].var
         /\ code[bb][n].arg = Current(succ, source, calls, H, source[bb][n].arg)
  BY <1>0, <1>4, <1>5, <1>9 DEF CodeOK
<1> QED BY <1>1, <1>2, <1>3, <1>4, <1>5, <1>6, <1>8, <1>9, <1>10

\* The innermost activation becomes t, a place further.
SetsTop(src, cs, cs2, t) ==
  /\ cs # <<>> /\ t.bb = cs[Len(cs)].bb /\ t.children = cs[Len(cs)].children
  /\ t.ip = cs[Len(cs)].ip + 1 /\ cs[Len(cs)].ip <= Fin(src, cs[Len(cs)].bb)
  /\ cs2 = [cs EXCEPT ![Len(cs)] = t]

\* SetTop with the next ip is an advance of the walk.
LEMMA TopAdvances ==
  ASSUME NEW src, NEW cs \in Seq(Frame), NEW t \in Frame, NEW cs2, SetsTop(src, cs, cs2, t)
  PROVE  Advances(src, cs, cs2) /\ cs2[Len(cs)] = t /\ cs2 # <<>>
<1> SUFFICES ASSUME cs # <<>>, t.bb = cs[Len(cs)].bb, t.children = cs[Len(cs)].children,
                    t.ip = cs[Len(cs)].ip + 1, cs[Len(cs)].ip <= Fin(src, cs[Len(cs)].bb),
                    cs2 = [cs EXCEPT ![Len(cs)] = t]
             PROVE  Advances(src, cs, cs2) /\ cs2[Len(cs)] = t /\ cs2 # <<>>
  BY DEF SetsTop
<1> DEFINE m == Len(cs)
<1>1. m \in Nat /\ m # 0 /\ m \in DOMAIN cs /\ DOMAIN cs = 1..m
  OBVIOUS
<1>2. DOMAIN cs2 = 1..m /\ cs2[m] = t /\ \A j \in 1..m : j # m => cs2[j] = cs[j]
  BY <1>1
<1>3. \A j \in 1..m : cs2[j] \in Frame
  <2>1. \A j \in DOMAIN cs : cs[j] \in Frame
    OBVIOUS
  <2> QED BY <1>1, <1>2, <2>1
<1>4. cs2 = [j \in 1..m |-> cs2[j]]
  BY <1>1
<1> HIDE DEF m
<1> DEFINE F == Frame
<1> HIDE DEF F
<1>5. cs2 \in [1..m -> F]
  BY <1>3, <1>4 DEF F
<1>0. m \in Nat
  BY <1>1
<1>6. cs2 \in Seq(F)
  BY ONLY <1>0, <1>5
<1>7. Len(cs2) = m
  BY <1>1, <1>2, <1>6
<1>8. \A j \in 1..(m - 1) : j \in 1..m /\ j # m
  BY <1>1
<1>9. cs2 # <<>>
  BY <1>1, <1>7
<1> QED BY <1>2, <1>6, <1>7, <1>8, <1>9 DEF Advances, F, m

\* An activation after one step.
LEMMA FrameStep ==
  ASSUME NEW c \in Frame, NEW x \in InstrId
  PROVE  /\ LET t == [c EXCEPT !.ip = @ + 1]
            IN  /\ t \in Frame /\ t.bb = c.bb /\ t.children = c.children /\ t.ip = c.ip + 1
                /\ t.wait_delete = c.wait_delete
         /\ LET t == [c EXCEPT !.ip = @ + 1, !.wait_delete = @ \cup {x}]
            IN  /\ t \in Frame /\ t.bb = c.bb /\ t.children = c.children /\ t.ip = c.ip + 1
                /\ t.wait_delete = c.wait_delete \cup {x}
<1>1. /\ c.bb \in Block /\ c.ip \in Nat /\ c.children \in SUBSET Block
      /\ c.wait_delete \in SUBSET InstrId
      /\ c = [bb |-> c.bb, ip |-> c.ip, children |-> c.children, wait_delete |-> c.wait_delete]
  BY DEF Frame
<1>2. c.ip + 1 \in Nat /\ c.wait_delete \cup {x} \in SUBSET InstrId
  BY <1>1
<1>3. [c EXCEPT !.ip = @ + 1] =
        [bb |-> c.bb, ip |-> c.ip + 1, children |-> c.children, wait_delete |-> c.wait_delete]
  BY <1>1
<1>4. [c EXCEPT !.ip = @ + 1, !.wait_delete = @ \cup {x}] =
        [bb |-> c.bb, ip |-> c.ip + 1, children |-> c.children, wait_delete |-> c.wait_delete \cup {x}]
  <2> DEFINE w == c.wait_delete \cup {x}
             k == c.ip + 1
  <2>1. c.wait_delete \cup {x} = w /\ c.ip + 1 = k
    OBVIOUS
  <2> HIDE DEF w, k
  <2>2. [c EXCEPT !.ip = k, !.wait_delete = w] =
          [bb |-> c.bb, ip |-> k, children |-> c.children, wait_delete |-> w]
    <3> DEFINE e == [c EXCEPT !.ip = k]
    <3>1. e = [bb |-> c.bb, ip |-> k, children |-> c.children, wait_delete |-> c.wait_delete]
      BY <1>1
    <3> HIDE DEF e
    <3>2. [e EXCEPT !.wait_delete = w] =
            [bb |-> c.bb, ip |-> k, children |-> c.children, wait_delete |-> w]
      BY <3>1
    <3> QED BY <3>2 DEF e
  <2> QED BY <2>1, <2>2
<1> QED BY <1>1, <1>2, <1>3, <1>4 DEF Frame

\* A step of the innermost activation.
LEMMA TopMoves ==
  ASSUME NEW H, NEW B, PassOK(H, B), pc = "rename", Top.ip <= Fin(source, bb),
         NEW t \in Frame, t.bb = bb, t.children = Top.children, t.ip = Top.ip + 1,
         calls' = [calls EXCEPT ![Len(calls)] = t]
  PROVE  Advances(source, calls, calls') /\ calls' # <<>>
<1>1. /\ calls # <<>> /\ calls \in Seq(Frame)
      /\ Top = calls[Len(calls)] /\ bb = calls[Len(calls)].bb /\ Top.ip = calls[Len(calls)].ip
  BY TopFacts
<1>2. /\ t.bb = calls[Len(calls)].bb /\ t.children = calls[Len(calls)].children
      /\ t.ip = calls[Len(calls)].ip + 1
      /\ calls[Len(calls)].ip <= Fin(source, calls[Len(calls)].bb)
  BY <1>1
<1>3. SetsTop(source, calls, calls', t)
  BY <1>1, <1>2 DEF SetsTop
<1> QED BY <1>1, <1>3, TopAdvances

\* Past the phis or an instruction.
LEMMA PassStep ==
  ASSUME NEW H, NEW B, PassOK(H, B), pc = "rename", pc' = "rename",
         UNCHANGED <<succ, source, phis>>,
         NEW t \in Frame, t.bb = bb, t.children = Top.children, t.ip = Top.ip + 1,
         Top.ip < Fin(source, bb), calls' = [calls EXCEPT ![Len(calls)] = t],
         Renames(source, calls, H, code, calls', code'),
         Pushes(source, phis, calls, H, var_val_stack, var_val_stack'),
         pairs' = pairs, KeysOK(source, var_val_stack', keys')
  PROVE  \E H2, B2 : PassOK(H2, B2)'
<1>0. /\ Legal(succ, source) /\ PhisOK(succ, source, phis)
      /\ WalkParts(succ, source, phis, calls, H, var_val_stack, B, code, pairs)
  BY DEF PassOK
<1>1. /\ calls # <<>> /\ calls \in Seq(Frame)
      /\ Top = calls[Len(calls)] /\ bb = calls[Len(calls)].bb /\ Top.ip = calls[Len(calls)].ip
      /\ Top.ip <= Fin(source, bb) /\ Top.ip # Fin(source, bb)
  BY TopFacts
<1>2. Advances(source, calls, calls') /\ calls' # <<>>
  BY <1>1, TopMoves
<1> DEFINE o == <<bb, Top.ip>>
<1>3. o = <<calls[Len(calls)].bb, calls[Len(calls)].ip>> /\ o[2] # Fin(source, o[1])
  BY <1>1
<1> HIDE DEF o
<1>4. PICK H2, B2 :
        /\ WalkOK(succ, source, calls') /\ ReachOK(succ, source, phis, calls', H2)
        /\ StacksOK(source, phis, calls', H2, var_val_stack', B2)
        /\ CodeOK(succ, source, calls', code', H2)
        /\ PairsOK(succ, source, phis, calls', H2, pairs)
  BY <1>0, <1>2, <1>3, PartsAdvance
<1>5. WalkParts(succ, source, phis, calls', H2, var_val_stack', B2, code', pairs')
  BY <1>4 DEF WalkParts
<1>6. StateOK'
  BY <1>2 DEF StateOK, WalkStates
<1> QED BY <1>0, <1>5, <1>6 DEF PassOK

\* PushPhis: what is known of the first place of the block are its phis or what came in.
LEMMA PushesPhis ==
  ASSUME NEW H, NEW B, PassOK(H, B), PushPhis, UNCHANGED source
  PROVE  \E H2, B2 : PassOK(H2, B2)'
<1> DEFINE t == [Top EXCEPT !.ip = @ + 1]
<1>1. /\ calls # <<>> /\ calls \in Seq(Frame) /\ Len(calls) \in 1..Len(calls)
      /\ Top = calls[Len(calls)] /\ bb = calls[Len(calls)].bb
      /\ Top \in Frame /\ Fin(source, bb) >= 1 /\ Fin(source, bb) \in Nat /\ bb \in Block
      /\ DOMAIN source[bb] = 1..(Fin(source, bb) - 1) /\ Top.ip = 0 /\ pc = "rename"
  BY TopFacts DEF PushPhis
<1>2. /\ t \in Frame /\ t.bb = Top.bb /\ t.children = Top.children /\ t.ip = Top.ip + 1
      /\ t.wait_delete = Top.wait_delete
  <2>1. <<Entry, 0>> \in InstrId
    BY NAssumption DEF InstrId, Block, Entry
  <2> QED BY <1>1, <2>1, FrameStep
<1>3. calls' = [calls EXCEPT ![Len(calls)] = t] /\ pc' = "rename" /\ UNCHANGED <<succ, phis, code, pairs>>
      /\ keys' = keys \cup PhiVars(bb)
      /\ var_val_stack' = [v \in Var |-> IF v \in PhiVars(bb)
                                     THEN Append(var_val_stack[v], <<bb, v>>) ELSE var_val_stack[v]]
  BY <1>1 DEF PushPhis, Advance, SetTop
<1> HIDE DEF t
<1>4. Renames(source, calls, H, code, calls', code')
  <2> DEFINE o == <<calls[Len(calls)].bb, calls[Len(calls)].ip>>
  <2>1. o[2] \notin DOMAIN source[o[1]]
    BY <1>1
  <2>2. calls'[Len(calls)].wait_delete = calls[Len(calls)].wait_delete
    BY <1>1, <1>2, <1>3
  <2>3. ~IsLoad(source, o)
    BY <2>1 DEF IsLoad, IsDef
  <2> HIDE DEF o
  <2> QED BY <1>3, <2>1, <2>2, <2>3 DEF Renames, o
<1>5. \A v \in Var : NewDef(source, phis, bb, 0, v) <=> v \in PhiVars(bb)
  BY <1>1 DEF NewDef, PhiVars
<1>6. Pushes(source, phis, calls, H, var_val_stack, var_val_stack')
  <2>1. \A v \in Var : NewVal(source, H, bb, 0, v) = <<bb, v>> /\ <<bb, v>> \in Value
    BY <1>1 DEF NewVal, Value
  <2>2. calls[Len(calls)].bb = bb /\ calls[Len(calls)].ip = 0
    BY <1>1
  <2>3. var_val_stack' = [v \in Var |-> IF NewDef(source, phis, bb, 0, v)
            THEN Append(var_val_stack[v], NewVal(source, H, bb, 0, v)) ELSE var_val_stack[v]]
    BY <1>3, <1>5, <2>1
  <2> QED BY <2>1, <2>2, <2>3 DEF Pushes
<1>7. KeysOK(source, var_val_stack', keys')
  <2>1. KeysOK(source, var_val_stack, keys) /\ PhisOK(succ, source, phis)
    BY DEF PassOK
  <2>2. \A v \in Var : var_val_stack'[v] # <<>> => v \in keys'
    BY <1>3, <2>1 DEF KeysOK
  <2>3. \A v \in keys' : UsedIn(source, v)
    BY <1>3, <2>1 DEF KeysOK, PhisOK, PhiVars
  <2> QED BY <2>2, <2>3 DEF KeysOK
<1>8. Top.ip < Fin(source, bb) /\ t.bb = bb
  BY <1>1, <1>2 DEF bb
<1> QED BY <1>1, <1>2, <1>3, <1>4, <1>6, <1>7, <1>8, PassStep
=============================================================================
