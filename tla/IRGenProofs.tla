---------------------------- MODULE IRGenProofs ----------------------------
(***************************************************************************)
(* For every function, however deep its statements nest: no instruction    *)
(* follows a terminator, no block is lost, the two edge lists agree, loops *)
(* are entered at their head, only joins of two returning arms are not led *)
(* to, and a variable is used where its alloca has been executed.  First   *)
(* the invariant of the visits, IInv, and what each visit does to it; then *)
(* the graph alone: the moves that visits are, the regions moves respect,  *)
(* the invariant GraphInv, and CFG's terms; last the scopes, with UseIInv. *)
(***************************************************************************)
EXTENDS IRGenGraph, FiniteSets, TLAPS, FiniteSetTheorems

-----------------------------------------------------------------------------
(* The inductive invariant.  First the blocks, by themselves. *)

Ends == {<<"br">>, <<"ret">>}
EndsLast(code) == \A i \in 1..(Len(code) - 1) : code[i] \notin Ends

\* The blocks are records of lists; whatever was emitted counts as an instruction.
Emitted(bs) == UNION {ToSet(bs[b].code) : b \in 1..Len(bs)}
Blk(S) == [code : Seq(S), succ : Seq(Nat), pre : Seq(Nat)]

\* What EdgesMatch says of the lists of block b.
Edges(bs, b) ==
  /\ \A t \in 1..Len(bs) : t \in ToSet(bs[b].succ) <=> b \in ToSet(bs[t].pre)
  /\ ToSet(bs[b].succ) \subseteq 2..Len(bs) /\ ToSet(bs[b].pre) \subseteq 1..Len(bs)
  /\ Len(bs[b].succ) \in {0, 1, 2}
  /\ Len(bs[b].succ) = 2 => bs[b].succ[1] # bs[b].succ[2]
  /\ \A i, j \in 1..Len(bs[b].pre) : i # j => bs[b].pre[i] # bs[b].pre[j]
  /\ bs[b].succ # <<>> <=> <<"br">> \in ToSet(bs[b].code)

BlocksOK(bs) ==
  /\ bs \in Seq(Blk(Emitted(bs)))
  /\ \A b \in 1..Len(bs) : EndsLast(bs[b].code) /\ Edges(bs, b)

\* A block without predecessor is the join of two arms.
Joins(bs, b) == bs[b].pre = <<>> => \E c \in 1..Len(bs) : bs[c].succ = <<b + 1, b - 1>>
OrphanInv == \A b \in 2..Len(blocks) : Joins(blocks, b)

\* Then the visits under way.  Some places put an instruction into the insert
\* block whatever it holds, others look for a terminator first.  Only an
\* expression is visited before a place that emits: the insert block is open
\* whenever such a place is reached.
Emitting == {"compound", "decls", "stmt", "expr", "index", "if", "while", "return"}
Joining  == {"list", "then", "else", "body", "fun"}
Computing == {"expr", "index"}

Waits(f) == IF "waiting" \in DOMAIN f THEN ToSet(f.waiting) ELSE {}
FrameOK(f, n) ==
  /\ "at" \in DOMAIN f /\ f.at \in Emitting \cup Joining
  /\ "waiting" \in DOMAIN f <=> f.at \in {"then", "else", "body"}
  /\ f.at = "if" => f.arms \in {1, 2}
  /\ f.at \in {"then", "else", "body"} => f.waiting \in Seq(2..n)
  /\ f.at = "then" => \/ Len(f.waiting) = 1
                      \/ Len(f.waiting) = 2 /\ f.waiting[1] # f.waiting[2]
  /\ f.at \in {"else", "body"} => Len(f.waiting) = 1
  /\ f.at \in {"while", "body"} => f.expr \in 2..n
FollowOK(f, g) ==
  g.at \in Joining \/ (g.at \in {"index", "if", "while", "return"} /\ f.at \in Computing)

FramesInv ==
  /\ todo \in Seq(ToSet(todo))
  /\ \A i \in DOMAIN todo : FrameOK(todo[i], Len(blocks))
  /\ todo # <<>> => todo[Len(todo)].at = "fun"
StackInv ==
  /\ todo # <<>> => Top.at \in Joining \/ ~Terminated(blocks, cur)
  /\ \A i \in 1..(Len(todo) - 1) : FollowOK(todo[i], todo[i + 1])
CurInv ==
  /\ cur \in Id \cup {0}
  /\ cur = 0 => blocks = <<>> /\ todo = <<>>

IInv == /\ BlocksOK(blocks) /\ OrphanInv
        /\ FramesInv /\ StackInv /\ CurInv /\ NoBlockLost

-----------------------------------------------------------------------------
(* Lists, and what the builder does to the blocks. *)

\* The elements of a sequence lie in its set.
LEMMA InSeq == \A S : \A s \in Seq(S) : \A i \in 1..Len(s) : s[i] \in S
OBVIOUS

\* A sequence is one over the set of its elements, and over any larger set.
LEMMA SeqOver ==
  ASSUME NEW S, NEW s \in Seq(S)
  PROVE  /\ s \in Seq(ToSet(s)) /\ ToSet(s) \subseteq S
         /\ \A T : ToSet(s) \subseteq T => s \in Seq(T)
<1>1. ToSet(s) \subseteq S
  BY InSeq DEF ToSet
<1>2. ASSUME NEW T, ToSet(s) \subseteq T PROVE s \in Seq(T)
  <2>1. Len(s) \in Nat /\ DOMAIN s = 1..Len(s) /\ s = [i \in 1..Len(s) |-> s[i]]
    OBVIOUS
  <2>2. \A i \in 1..Len(s) : s[i] \in T
    BY <1>2, <2>1 DEF ToSet
  <2>3. [i \in 1..Len(s) |-> s[i]] \in Seq(T)
    BY <2>1, <2>2
  <2> QED BY <2>1, <2>3
<1> QED BY <1>1, <1>2

\* What each list of a block is, by position.
LEMMA BlkFacts ==
  ASSUME NEW S, NEW bs \in Seq(Blk(S)), NEW b \in 1..Len(bs)
  PROVE  /\ bs[b] \in Blk(S)
         /\ bs[b].code \in Seq(S) /\ bs[b].succ \in Seq(Nat) /\ bs[b].pre \in Seq(Nat)
         /\ DOMAIN bs = 1..Len(bs) /\ Len(bs) \in Nat
         /\ bs[b] = [code |-> bs[b].code, succ |-> bs[b].succ, pre |-> bs[b].pre]
<1>1. bs[b] \in Blk(S)
  BY InSeq
<1> QED BY <1>1 DEF Blk

\* What a list followed by another holds.
LEMMA ConcatFacts ==
  ASSUME NEW S, NEW s \in Seq(S), NEW t \in Seq(S)
  PROVE  /\ s \o t \in Seq(S) /\ Len(s \o t) = Len(s) + Len(t)
         /\ \A i \in 1..Len(s) : (s \o t)[i] = s[i]
         /\ \A i \in 1..Len(t) : (s \o t)[Len(s) + i] = t[i]
OBVIOUS

\* ... and which elements.
LEMMA ConcatSet ==
  ASSUME NEW S, NEW s \in Seq(S), NEW t \in Seq(S)
  PROVE  ToSet(s \o t) = ToSet(s) \cup ToSet(t)
<1> DEFINE u == s \o t
<1>1. /\ Len(u) = Len(s) + Len(t) /\ DOMAIN u = 1..Len(u)
      /\ Len(s) \in Nat /\ Len(t) \in Nat
      /\ DOMAIN s = 1..Len(s) /\ DOMAIN t = 1..Len(t)
      /\ \A i \in 1..Len(s) : u[i] = s[i]
      /\ \A i \in 1..Len(t) : u[Len(s) + i] = t[i]
  OBVIOUS
<1> HIDE DEF u
<1>2. ASSUME NEW i \in 1..Len(u) PROVE u[i] \in ToSet(s) \/ u[i] \in ToSet(t)
  <2>1. CASE i <= Len(s)
    BY <1>1, <2>1 DEF ToSet
  <2>2. CASE i > Len(s)
    <3>1. i - Len(s) \in 1..Len(t) /\ i = Len(s) + (i - Len(s))
      BY <1>1, <2>2
    <3>2. u[i] = t[i - Len(s)]
      BY <1>1, <3>1
    <3> QED BY <1>1, <3>1, <3>2 DEF ToSet
  <2> QED BY <1>1, <2>1, <2>2
<1>3. ASSUME NEW i \in 1..Len(s) PROVE s[i] \in ToSet(u)
  <2>1. i \in 1..Len(u) /\ u[i] = s[i]
    BY <1>1
  <2> QED BY <1>1, <2>1 DEF ToSet
<1>4. ASSUME NEW i \in 1..Len(t) PROVE t[i] \in ToSet(u)
  <2>1. Len(s) + i \in 1..Len(u) /\ u[Len(s) + i] = t[i]
    BY <1>1
  <2> QED BY <1>1, <2>1 DEF ToSet
<1>5. ToSet(u) \subseteq ToSet(s) \cup ToSet(t)
  BY <1>1, <1>2 DEF ToSet
<1>6. ToSet(s) \subseteq ToSet(u) /\ ToSet(t) \subseteq ToSet(u)
  BY <1>1, <1>3, <1>4 DEF ToSet
<1> QED BY <1>5, <1>6 DEF u

\* The same for one element.
LEMMA AppendFacts ==
  ASSUME NEW S, NEW s \in Seq(S), NEW x \in S
  PROVE  /\ Append(s, x) \in Seq(S) /\ Len(Append(s, x)) = Len(s) + 1
         /\ \A i \in 1..Len(s) : Append(s, x)[i] = s[i]
         /\ Append(s, x)[Len(s) + 1] = x
         /\ ToSet(Append(s, x)) = ToSet(s) \cup {x}
<1>1. /\ Append(s, x) \in Seq(S) /\ Len(Append(s, x)) = Len(s) + 1
      /\ \A i \in 1..Len(s) : Append(s, x)[i] = s[i]
      /\ Append(s, x)[Len(s) + 1] = x
  OBVIOUS
<1>2. <<x>> \in Seq(S) /\ ToSet(<<x>>) = {x}
  BY DEF ToSet
<1>3. Append(s, x) = s \o <<x>>
  OBVIOUS
<1>4. ToSet(s \o <<x>>) = ToSet(s) \cup {x}
  <2> DEFINE t == <<x>>
  <2>1. t \in Seq(S) /\ ToSet(t) = {x}
    BY <1>2
  <2> HIDE DEF t
  <2>2. ToSet(s \o t) = ToSet(s) \cup ToSet(t)
    BY <2>1, ConcatSet
  <2> QED BY <2>1, <2>2 DEF t
<1> QED BY <1>1, <1>2, <1>3, <1>4

\* ... which therefore is not empty.
LEMMA AppendNat ==
  \A s \in Seq(Nat), x \in Nat :
     /\ Append(s, x) \in Seq(Nat) /\ Append(s, x) # <<>>
     /\ ToSet(Append(s, x)) = ToSet(s) \cup {x}
<1> SUFFICES ASSUME NEW s \in Seq(Nat), NEW x \in Nat
             PROVE  /\ Append(s, x) \in Seq(Nat) /\ Append(s, x) # <<>>
                    /\ ToSet(Append(s, x)) = ToSet(s) \cup {x}
  OBVIOUS
<1>1. Append(s, x) \in Seq(Nat)
  OBVIOUS
<1>2. Append(s, x) # <<>>
  <2>1. Len(Append(s, x)) = Len(s) + 1 /\ Len(s) \in Nat
    OBVIOUS
  <2>2. Len(Append(s, x)) # 0
    BY <2>1
  <2> QED BY <2>2
<1>3. ToSet(Append(s, x)) = ToSet(s) \cup {x}
  <2> DEFINE N == Nat
  <2>1. s \in Seq(N) /\ x \in N
    OBVIOUS
  <2> HIDE DEF N
  <2> QED BY <2>1, AppendFacts
<1> QED BY <1>1, <1>2, <1>3

\* Two elements appended to none are a pair.
LEMMA AppendTwo ==
  ASSUME NEW x, NEW y
  PROVE  Append(Append(<<>>, x), y) = <<x, y>>
<1>1. Append(<<>>, x) = <<x>>
  OBVIOUS
<1> DEFINE one == <<x>>
           two == <<x, y>>
           new == Append(one, y)
<1>2. one \in Seq({x, y}) /\ Len(one) = 1 /\ one[1] = x
  OBVIOUS
<1>3. two = [i \in 1..2 |-> two[i]] /\ two[1] = x /\ two[2] = y
  OBVIOUS
<1> HIDE DEF one, two
<1>4. new \in Seq({x, y}) /\ Len(new) = 2 /\ new[1] = x /\ new[2] = y
  <2> DEFINE E == {x, y}
  <2>1. one \in Seq(E) /\ y \in E
    BY <1>2
  <2> HIDE DEF E
  <2>2. Len(new) = Len(one) + 1 /\ new \in Seq(E) /\ new[Len(one) + 1] = y
    BY <2>1, AppendFacts
  <2>3. new[1] = one[1]
    <3>1. 1 \in 1..Len(one)
      BY <1>2
    <3> QED BY <2>1, <3>1, AppendFacts
  <2> QED BY <1>2, <2>2, <2>3 DEF E
<1> HIDE DEF new
<1>5. new = [i \in 1..2 |-> new[i]]
  BY <1>4
<1>6. [i \in 1..2 |-> new[i]] = [i \in 1..2 |-> two[i]]
  <2>1. ASSUME NEW i \in 1..2 PROVE new[i] = two[i]
    <3>1. i = 1 \/ i = 2
      OBVIOUS
    <3> QED BY <1>3, <1>4, <3>1
  <2> QED BY <2>1
<1> QED BY <1>1, <1>3, <1>5, <1>6 DEF one, two, new

\* A list without repetition stays one when a new element is appended.
LEMMA AppendDistinct ==
  ASSUME NEW p \in Seq(Nat), NEW b \in Nat, b \notin ToSet(p),
         \A k, l \in 1..Len(p) : k # l => p[k] # p[l]
  PROVE  \A k, l \in 1..Len(Append(p, b)) : k # l => Append(p, b)[k] # Append(p, b)[l]
<1> DEFINE q == Append(p, b)
<1>1. /\ Len(q) = Len(p) + 1 /\ Len(p) \in Nat /\ DOMAIN p = 1..Len(p)
      /\ \A k \in 1..Len(p) : q[k] = p[k]
      /\ q[Len(p) + 1] = b
  OBVIOUS
<1>2. \A k \in 1..Len(p) : p[k] # b
  BY <1>1 DEF ToSet
<1> HIDE DEF q
<1>3. ASSUME NEW k \in 1..Len(q), NEW l \in 1..Len(q), k # l PROVE q[k] # q[l]
  <2>1. CASE k = Len(p) + 1
    BY <1>1, <1>2, <1>3, <2>1
  <2>2. CASE l = Len(p) + 1
    BY <1>1, <1>2, <1>3, <2>2
  <2>3. CASE k # Len(p) + 1 /\ l # Len(p) + 1
    BY <1>1, <1>3, <2>3
  <2> QED BY <2>1, <2>2, <2>3
<1> QED BY <1>3 DEF q

\* New blocks come last and are empty.
LEMMA CreateFacts ==
  ASSUME NEW S, NEW bs \in Seq(Blk(S)), NEW k \in Nat
  PROVE  LET new == Create(bs, k)
         IN  /\ new \in Seq(Blk(S)) /\ Len(new) = Len(bs) + k
             /\ \A b \in 1..Len(bs) : new[b] = bs[b]
             /\ \A b \in (Len(bs) + 1)..(Len(bs) + k) : new[b] = EmptyBlock
<1> DEFINE e == [i \in 1..k |-> EmptyBlock]
<1>1. EmptyBlock \in Blk(S)
  BY DEF EmptyBlock, Blk
<1>2. e \in Seq(Blk(S)) /\ Len(e) = k /\ \A i \in 1..k : e[i] = EmptyBlock
  BY <1>1
<1> HIDE DEF e
<1>3. /\ bs \o e \in Seq(Blk(S)) /\ Len(bs \o e) = Len(bs) + k
      /\ \A i \in 1..Len(bs) : (bs \o e)[i] = bs[i]
      /\ \A i \in 1..k : (bs \o e)[Len(bs) + i] = EmptyBlock
  <2> DEFINE B == Blk(S)
  <2>1. bs \in Seq(B) /\ e \in Seq(B) /\ Len(e) = k
    BY <1>2
  <2> HIDE DEF B
  <2>2. /\ bs \o e \in Seq(B) /\ Len(bs \o e) = Len(bs) + Len(e)
        /\ \A i \in 1..Len(bs) : (bs \o e)[i] = bs[i]
        /\ \A i \in 1..Len(e) : (bs \o e)[Len(bs) + i] = e[i]
    BY <2>1
  <2> QED BY <1>2, <2>1, <2>2 DEF B
<1>4. ASSUME NEW b \in (Len(bs) + 1)..(Len(bs) + k) PROVE (bs \o e)[b] = EmptyBlock
  <2>1. b - Len(bs) \in 1..k /\ b = Len(bs) + (b - Len(bs))
    OBVIOUS
  <2> QED BY <1>3, <2>1
<1>5. Create(bs, k) = bs \o e
  BY DEF Create, e
<1> QED BY <1>3, <1>4, <1>5

\* An instruction goes to the end of its block and changes nothing else.
LEMMA EmitFacts ==
  ASSUME NEW S, NEW bs \in Seq(Blk(S)), NEW b \in 1..Len(bs), NEW ins \in Seq(S)
  PROVE  LET new == Emit(bs, b, ins)
         IN  /\ new \in Seq(Blk(S)) /\ Len(new) = Len(bs)
             /\ \A c \in 1..Len(bs) : /\ new[c].succ = bs[c].succ /\ new[c].pre = bs[c].pre
                                      /\ new[c].code = IF c = b THEN bs[b].code \o ins ELSE bs[c].code
<1> DEFINE r == [bs[b] EXCEPT !.code = @ \o ins]
<1>1. /\ r \in Blk(S) /\ r.code = bs[b].code \o ins
      /\ r.succ = bs[b].succ /\ r.pre = bs[b].pre
  <2>1. bs[b].code \o ins \in Seq(S)
    BY BlkFacts, ConcatFacts
  <2>2. bs[b] \in Blk(S)
    BY BlkFacts
  <2> QED BY <2>1, <2>2 DEF Blk
<1>2. Emit(bs, b, ins) = [bs EXCEPT ![b] = r]
  BY DEF Emit
<1> HIDE DEF r
<1>3. [bs EXCEPT ![b] = r] \in Seq(Blk(S)) /\ Len([bs EXCEPT ![b] = r]) = Len(bs)
  BY <1>1
<1>4. \A c \in 1..Len(bs) : [bs EXCEPT ![b] = r][c] = IF c = b THEN r ELSE bs[c]
  OBVIOUS
<1> QED BY <1>1, <1>2, <1>3, <1>4 DEF r

\* An edge is entered at the end of both lists.
EdgeEntered(S, bs, b, t, new) ==
  /\ new \in Seq(Blk(S)) /\ Len(new) = Len(bs)
  /\ \A c \in 1..Len(bs) :
       /\ new[c].code = bs[c].code
       /\ new[c].succ = IF c = b THEN Append(bs[b].succ, t) ELSE bs[c].succ
       /\ new[c].pre = IF c = t THEN Append(bs[t].pre, b) ELSE bs[c].pre

\* Edge does so ...
LEMMA EdgeEnters ==
  ASSUME NEW S, NEW bs \in Seq(Blk(S)), NEW b \in 1..Len(bs), NEW t \in 1..Len(bs)
  PROVE  EdgeEntered(S, bs, b, t, Edge(bs, b, t))
<1> DEFINE r == [bs[t] EXCEPT !.pre = Append(@, b)]
           mid == [bs EXCEPT ![t] = r]
           q == [mid[b] EXCEPT !.succ = Append(@, t)]
<1>1. /\ r \in Blk(S) /\ r.code = bs[t].code
      /\ r.succ = bs[t].succ /\ r.pre = Append(bs[t].pre, b)
  <2>1. Append(bs[t].pre, b) \in Seq(Nat)
    <3>1. bs[t].pre \in Seq(Nat)
      BY BlkFacts
    <3>2. b \in Nat
      OBVIOUS
    <3> QED BY <3>1, <3>2, AppendFacts
  <2>2. bs[t] \in Blk(S)
    BY BlkFacts
  <2> QED BY <2>1, <2>2 DEF Blk
<1>2. mid \in Seq(Blk(S)) /\ Len(mid) = Len(bs)
  <2> HIDE DEF r
  <2> QED BY <1>1
<1>3. \A c \in 1..Len(bs) : mid[c] = IF c = t THEN r ELSE bs[c]
  <2> HIDE DEF r
  <2> QED OBVIOUS
<1>4. mid[b].succ = bs[b].succ /\ mid[b].code = bs[b].code
  BY <1>1, <1>3
<1>5. Edge(bs, b, t) = [mid EXCEPT ![b] = q]
  BY DEF Edge
<1>6. /\ q \in Blk(S) /\ q.code = bs[b].code
      /\ q.succ = Append(bs[b].succ, t) /\ q.pre = mid[b].pre
  <2> HIDE DEF mid
  <2>1. Append(mid[b].succ, t) \in Seq(Nat)
    <3>1. mid[b].succ \in Seq(Nat)
      BY <1>2, BlkFacts
    <3>2. t \in Nat
      OBVIOUS
    <3> QED BY <3>1, <3>2, AppendFacts
  <2>2. mid[b] \in Blk(S)
    BY <1>2, BlkFacts
  <2> QED BY <1>4, <2>1, <2>2 DEF Blk
<1> HIDE DEF q, mid, r
<1>7. [mid EXCEPT ![b] = q] \in Seq(Blk(S)) /\ Len([mid EXCEPT ![b] = q]) = Len(bs)
  BY <1>2, <1>6
<1>8. \A c \in 1..Len(bs) : [mid EXCEPT ![b] = q][c] = IF c = b THEN q ELSE mid[c]
  BY <1>2
<1>9. /\ Edge(bs, b, t) \in Seq(Blk(S)) /\ Len(Edge(bs, b, t)) = Len(bs)
      /\ \A c \in 1..Len(bs) :
           /\ Edge(bs, b, t)[c].code = bs[c].code
           /\ Edge(bs, b, t)[c].succ = IF c = b THEN Append(bs[b].succ, t) ELSE bs[c].succ
           /\ Edge(bs, b, t)[c].pre = IF c = t THEN Append(bs[t].pre, b) ELSE bs[c].pre
  BY <1>1, <1>3, <1>5, <1>6, <1>7, <1>8
<1> QED BY <1>9 DEF EdgeEntered

\* ... and nothing else changes.
LEMMA EdgeFacts ==
  ASSUME NEW S, NEW bs \in Seq(Blk(S)), NEW b \in 1..Len(bs), NEW t \in 1..Len(bs)
  PROVE  LET new == Edge(bs, b, t)
         IN  /\ new \in Seq(Blk(S)) /\ Len(new) = Len(bs)
             /\ \A c \in 1..Len(bs) :
                  /\ new[c].code = bs[c].code
                  /\ new[c].succ = IF c = b THEN Append(bs[b].succ, t) ELSE bs[c].succ
                  /\ new[c].pre = IF c = t THEN Append(bs[t].pre, b) ELSE bs[c].pre
<1>1. EdgeEntered(S, bs, b, t, Edge(bs, b, t))
  BY EdgeEnters
<1> QED BY ONLY <1>1 DEF EdgeEntered

\* Blocks of any type are of the type of what was emitted.
LEMMA BlocksOver ==
  ASSUME NEW S, NEW bs \in Seq(Blk(S))
  PROVE  bs \in Seq(Blk(Emitted(bs)))
<1> DEFINE E == Emitted(bs)
<1>1. ASSUME NEW b \in 1..Len(bs) PROVE bs[b] \in Blk(E)
  <2>1. bs[b].code \in Seq(S) /\ bs[b].succ \in Seq(Nat) /\ bs[b].pre \in Seq(Nat)
    BY BlkFacts
  <2>2. ToSet(bs[b].code) \subseteq E
    BY DEF Emitted
  <2>3. bs[b].code \in Seq(E)
    BY <2>1, <2>2, SeqOver
  <2>4. bs[b] = [code |-> bs[b].code, succ |-> bs[b].succ, pre |-> bs[b].pre]
    BY BlkFacts
  <2> HIDE DEF E
  <2> QED BY <2>1, <2>3, <2>4 DEF Blk
<1> HIDE DEF E
<1>2. Len(bs) \in Nat /\ DOMAIN bs = 1..Len(bs) /\ bs = [i \in 1..Len(bs) |-> bs[i]]
  OBVIOUS
<1>3. [i \in 1..Len(bs) |-> bs[i]] \in Seq(Blk(E))
  BY <1>1, <1>2
<1> QED BY <1>2, <1>3 DEF E

\* No instruction of an open block is a terminator.
LEMMA OpenFacts ==
  ASSUME NEW bs, BlocksOK(bs), NEW b \in 1..Len(bs), ~Terminated(bs, b)
  PROVE  /\ \A i \in 1..Len(bs[b].code) : bs[b].code[i] \notin Ends
         /\ ToSet(bs[b].code) \cap Ends = {}
         /\ bs[b].succ = <<>> /\ Len(bs[b].succ) = 0
<1>1. EndsLast(bs[b].code) /\ Edges(bs, b) /\ bs \in Seq(Blk(Emitted(bs)))
  BY DEF BlocksOK
<1>2. bs[b].code \in Seq(Emitted(bs)) /\ bs[b].succ \in Seq(Nat)
  BY <1>1, BlkFacts
<1>3. ASSUME NEW i \in 1..Len(bs[b].code) PROVE bs[b].code[i] \notin Ends
  <2>1. CASE i = Len(bs[b].code)
    <3>1. bs[b].code # <<>> /\ Last(bs[b].code) = bs[b].code[i]
      BY <1>2, <2>1 DEF Last
    <3> QED BY <3>1 DEF Terminated, Ends
  <2>2. CASE i # Len(bs[b].code)
    BY <1>1, <1>2, <2>2 DEF EndsLast
  <2> QED BY <2>1, <2>2
<1>4. ToSet(bs[b].code) \cap Ends = {}
  BY <1>2, <1>3 DEF ToSet
<1>5. <<"br">> \notin ToSet(bs[b].code)
  BY <1>4 DEF Ends
<1>6. bs[b].succ = <<>>
  BY <1>1, <1>5 DEF Edges
<1> QED BY <1>3, <1>4, <1>6

\* A list of instructions put at the end of an open block.
LEMMA CodeFacts ==
  ASSUME NEW S, NEW s \in Seq(S), NEW ins \in Seq(S), Len(ins) > 0,
         \A i \in 1..Len(s) : s[i] \notin Ends, EndsLast(ins)
  PROVE  EndsLast(s \o ins) /\ s \o ins # <<>> /\ Last(s \o ins) = Last(ins)
<1> DEFINE u == s \o ins
<1>1. /\ u \in Seq(S) /\ Len(u) = Len(s) + Len(ins) /\ Len(s) \in Nat /\ Len(ins) \in Nat
      /\ \A i \in 1..Len(s) : u[i] = s[i]
      /\ \A i \in 1..Len(ins) : u[Len(s) + i] = ins[i]
  BY ConcatFacts
<1> HIDE DEF u
<1>2. ASSUME NEW i \in 1..(Len(u) - 1) PROVE u[i] \notin Ends
  <2>1. CASE i <= Len(s)
    BY <1>1, <2>1
  <2>2. CASE i > Len(s)
    <3>1. i - Len(s) \in 1..(Len(ins) - 1) /\ i = Len(s) + (i - Len(s))
      BY <1>1, <2>2
    <3>2. u[i] = ins[i - Len(s)]
      BY <1>1, <3>1
    <3> QED BY <3>1, <3>2 DEF EndsLast
  <2> QED BY <1>1, <2>1, <2>2
<1>3. u # <<>>
  BY <1>1
<1>4. u[Len(u)] = ins[Len(ins)]
  BY <1>1
<1> QED BY <1>2, <1>3, <1>4 DEF EndsLast, Last, u

\* The builder changes the code and the successors of one open block only.
Only(bs, new, b) ==
  /\ Len(new) = Len(bs)
  /\ \A c \in 1..Len(bs) : /\ c # b => new[c].code = bs[c].code /\ new[c].succ = bs[c].succ
                           /\ bs[c].pre # <<>> => new[c].pre # <<>>

\* Instructions that end in no branch keep the blocks in order.
LEMMA EmitOK ==
  ASSUME NEW bs, BlocksOK(bs), NEW b \in 1..Len(bs), ~Terminated(bs, b),
         NEW S, NEW ins \in Seq(S), Len(ins) > 0, EndsLast(ins), Last(ins) # <<"br">>
  PROVE  LET new == Emit(bs, b, ins)
         IN  /\ BlocksOK(new) /\ Only(bs, new, b)
             /\ Terminated(new, b) <=> Last(ins) = <<"ret">>
<1> DEFINE new == Emit(bs, b, ins)
           T == Emitted(bs) \cup S
<1>1. bs \in Seq(Blk(T)) /\ ins \in Seq(T)
  <2>1. bs \in Seq(Blk(Emitted(bs)))
    BY DEF BlocksOK
  <2>2. ASSUME NEW c \in 1..Len(bs) PROVE bs[c] \in Blk(T)
    <3>1. bs[c].code \in Seq(Emitted(bs)) /\ bs[c].succ \in Seq(Nat) /\ bs[c].pre \in Seq(Nat)
      BY <2>1, BlkFacts
    <3>2. bs[c].code \in Seq(T)
      BY <3>1
    <3>3. bs[c] = [code |-> bs[c].code, succ |-> bs[c].succ, pre |-> bs[c].pre]
      BY <2>1, BlkFacts
    <3> HIDE DEF T
    <3> QED BY <3>1, <3>2, <3>3 DEF Blk
  <2>3. Len(bs) \in Nat /\ bs = [c \in 1..Len(bs) |-> bs[c]]
    BY <2>1
  <2> HIDE DEF T
  <2>4. bs \in Seq(Blk(T))
    <3>1. [c \in 1..Len(bs) |-> bs[c]] \in Seq(Blk(T))
      BY <2>2, <2>3
    <3> QED BY <3>1, <2>3
  <2>5. ins \in Seq(T)
    BY DEF T
  <2> QED BY <2>4, <2>5
<1> HIDE DEF T
<1>2. /\ new \in Seq(Blk(T)) /\ Len(new) = Len(bs)
      /\ \A c \in 1..Len(bs) : /\ new[c].succ = bs[c].succ /\ new[c].pre = bs[c].pre
                               /\ new[c].code = IF c = b THEN bs[b].code \o ins ELSE bs[c].code
  <2>1. bs \in Seq(Blk(T)) /\ b \in 1..Len(bs) /\ ins \in Seq(T)
    BY <1>1
  <2> QED BY <2>1, EmitFacts
<1> HIDE DEF new
<1>3. new \in Seq(Blk(Emitted(new)))
  BY <1>2, BlocksOver
<1>4. /\ \A i \in 1..Len(bs[b].code) : bs[b].code[i] \notin Ends
      /\ ToSet(bs[b].code) \cap Ends = {} /\ bs[b].succ = <<>>
  BY OpenFacts
<1>5. bs[b].code \in Seq(T)
  BY <1>1, BlkFacts
<1>6. EndsLast(new[b].code) /\ new[b].code # <<>> /\ Last(new[b].code) = Last(ins)
  <2>1. new[b].code = bs[b].code \o ins
    BY <1>2
  <2>2. EndsLast(bs[b].code \o ins) /\ bs[b].code \o ins # <<>>
          /\ Last(bs[b].code \o ins) = Last(ins)
    BY <1>1, <1>4, <1>5, CodeFacts
  <2> QED BY <2>1, <2>2
<1>7. Terminated(new, b) <=> Last(ins) = <<"ret">>
  BY <1>6 DEF Terminated
<1>8. <<"br">> \notin ToSet(new[b].code)
  <2>1. ToSet(new[b].code) = ToSet(bs[b].code) \cup ToSet(ins)
    BY <1>1, <1>2, <1>5, ConcatSet
  <2>2. ASSUME NEW i \in 1..Len(ins) PROVE ins[i] # <<"br">>
    <3>1. CASE i = Len(ins)
      BY <3>1 DEF Last
    <3>2. CASE i # Len(ins)
      <4>1. i \in 1..(Len(ins) - 1)
        BY <3>2
      <4> QED BY <4>1 DEF EndsLast, Ends
    <3> QED BY <3>1, <3>2
  <2>3. <<"br">> \notin ToSet(ins)
    <3>1. DOMAIN ins = 1..Len(ins)
      OBVIOUS
    <3> QED BY <3>1, <2>2 DEF ToSet
  <2> QED BY <2>1, <2>3, <1>4 DEF Ends
<1>9. ASSUME NEW c \in 1..Len(new) PROVE EndsLast(new[c].code) /\ Edges(new, c)
  <2>1. EndsLast(bs[c].code) /\ Edges(bs, c)
    BY <1>2 DEF BlocksOK
  <2>2. EndsLast(new[c].code)
    BY <1>2, <1>6, <2>1
  <2>3. new[c].succ # <<>> <=> <<"br">> \in ToSet(new[c].code)
    BY <1>2, <1>4, <1>8, <2>1 DEF Edges
  <2>4. Edges(new, c)
    BY <1>2, <2>1, <2>3 DEF Edges
  <2> QED BY <2>2, <2>4
<1>10. Only(bs, new, b)
  BY <1>2 DEF Only
<1> QED BY <1>3, <1>7, <1>9, <1>10 DEF BlocksOK, new

\* Blocks over a set of instructions are blocks over a larger one.
LEMMA BlocksUp ==
  ASSUME NEW bs, BlocksOK(bs), NEW S
  PROVE  bs \in Seq(Blk(Emitted(bs) \cup S))
<1> DEFINE T == Emitted(bs) \cup S
<1>1. bs \in Seq(Blk(Emitted(bs)))
  BY DEF BlocksOK
<1>2. ASSUME NEW c \in 1..Len(bs) PROVE bs[c] \in Blk(T)
  <2>1. bs[c].code \in Seq(Emitted(bs)) /\ bs[c].succ \in Seq(Nat) /\ bs[c].pre \in Seq(Nat)
    BY <1>1, BlkFacts
  <2>2. bs[c].code \in Seq(T)
    BY <2>1
  <2>3. bs[c] = [code |-> bs[c].code, succ |-> bs[c].succ, pre |-> bs[c].pre]
    BY <1>1, BlkFacts
  <2> HIDE DEF T
  <2> QED BY <2>1, <2>2, <2>3 DEF Blk
<1>3. Len(bs) \in Nat /\ bs = [c \in 1..Len(bs) |-> bs[c]]
  BY <1>1
<1> HIDE DEF T
<1>4. [c \in 1..Len(bs) |-> bs[c]] \in Seq(Blk(T))
  BY <1>2, <1>3
<1> QED BY <1>3, <1>4 DEF T

\* A branch with the targets ts at the end of block b: what becomes of the lists.
Branched(bs, new, b, ins, ts) ==
  /\ Len(new) = Len(bs)
  /\ \A c \in 1..Len(bs) :
       /\ new[c].code = IF c = b THEN bs[b].code \o ins ELSE bs[c].code
       /\ new[c].succ = IF c = b THEN ts ELSE bs[c].succ
       /\ new[c].pre = IF c \in ToSet(ts) THEN Append(bs[c].pre, b) ELSE bs[c].pre

\* A branch at the end of an open block, to one block or to two.
LEMMA BranchOK ==
  ASSUME NEW bs, BlocksOK(bs), NEW b \in 1..Len(bs), ~Terminated(bs, b),
         NEW S, NEW ins \in Seq(S), Len(ins) > 0, EndsLast(ins), Last(ins) = <<"br">>,
         NEW ts \in Seq(2..Len(bs)), Len(ts) \in {1, 2}, Len(ts) = 2 => ts[1] # ts[2],
         NEW T, NEW new \in Seq(Blk(T)), Branched(bs, new, b, ins, ts)
  PROVE  BlocksOK(new) /\ Only(bs, new, b) /\ Terminated(new, b)
<1>1. new \in Seq(Blk(Emitted(new)))
  BY BlocksOver
<1>2. /\ \A i \in 1..Len(bs[b].code) : bs[b].code[i] \notin Ends
      /\ bs[b].succ = <<>>
  BY OpenFacts
<1> DEFINE U == Emitted(bs) \cup S
<1>3. bs \in Seq(Blk(U)) /\ ins \in Seq(U)
  <2>1. bs \in Seq(Blk(U))
    BY BlocksUp
  <2>2. ins \in Seq(U)
    OBVIOUS
  <2> QED BY <2>1, <2>2
<1> HIDE DEF U
<1>4. bs[b].code \in Seq(U)
  BY <1>3, BlkFacts
<1>5. /\ EndsLast(new[b].code) /\ new[b].code # <<>> /\ Last(new[b].code) = <<"br">>
      /\ ToSet(new[b].code) = ToSet(bs[b].code) \cup ToSet(ins)
  <2>1. new[b].code = bs[b].code \o ins
    BY DEF Branched
  <2>2. EndsLast(bs[b].code \o ins) /\ bs[b].code \o ins # <<>>
          /\ Last(bs[b].code \o ins) = Last(ins)
    BY <1>2, <1>3, <1>4, CodeFacts
  <2>3. ToSet(bs[b].code \o ins) = ToSet(bs[b].code) \cup ToSet(ins)
    BY <1>3, <1>4, ConcatSet
  <2> QED BY <2>1, <2>2, <2>3
<1>6. Terminated(new, b)
  BY <1>5 DEF Terminated
<1>7. <<"br">> \in ToSet(new[b].code)
  <2>1. Len(ins) \in DOMAIN ins /\ ins[Len(ins)] = <<"br">>
    BY DEF Last
  <2> QED BY <1>5, <2>1 DEF ToSet
<1>8. /\ ToSet(ts) \subseteq 2..Len(bs) /\ ts # <<>>
      /\ Len(bs) \in Nat /\ b \in Nat /\ Len(new) = Len(bs)
  <2>1. DOMAIN ts = 1..Len(ts) /\ ts # <<>>
    OBVIOUS
  <2>2. ToSet(ts) \subseteq 2..Len(bs)
    BY <2>1, InSeq DEF ToSet
  <2>3. Len(bs) \in Nat
    BY <1>3
  <2>4. b \in Nat
    BY <2>3
  <2> QED BY <2>1, <2>2, <2>3, <2>4 DEF Branched
<1>9. ASSUME NEW c \in 1..Len(bs)
      PROVE  /\ Edges(bs, c) /\ EndsLast(bs[c].code) /\ bs[c].pre \in Seq(Nat)
             /\ new[c].pre \in Seq(Nat) /\ b \notin ToSet(bs[c].pre)
             /\ new[c].code = IF c = b THEN bs[b].code \o ins ELSE bs[c].code
             /\ new[c].succ = IF c = b THEN ts ELSE bs[c].succ
             /\ new[c].pre = IF c \in ToSet(ts) THEN Append(bs[c].pre, b) ELSE bs[c].pre
             /\ ToSet(new[c].pre) = IF c \in ToSet(ts) THEN ToSet(bs[c].pre) \cup {b}
                                                       ELSE ToSet(bs[c].pre)
  <2>1. Edges(bs, c) /\ EndsLast(bs[c].code) /\ Edges(bs, b)
    BY DEF BlocksOK
  <2>2. bs[c].pre \in Seq(Nat)
    BY <1>3, BlkFacts
  <2>3. Append(bs[c].pre, b) \in Seq(Nat) /\ ToSet(Append(bs[c].pre, b)) = ToSet(bs[c].pre) \cup {b}
    <3>1. b \in Nat
      BY <1>8
    <3> QED BY <2>2, <3>1, AppendNat
  <2>4. b \notin ToSet(bs[c].pre)
    <3>1. c \notin ToSet(bs[b].succ)
      BY <1>2 DEF ToSet
    <3> QED BY <2>1, <3>1 DEF Edges
  <2>5. /\ new[c].code = IF c = b THEN bs[b].code \o ins ELSE bs[c].code
        /\ new[c].succ = IF c = b THEN ts ELSE bs[c].succ
        /\ new[c].pre = IF c \in ToSet(ts) THEN Append(bs[c].pre, b) ELSE bs[c].pre
    BY DEF Branched
  <2> QED BY <2>1, <2>2, <2>3, <2>4, <2>5
<1>10. ASSUME NEW c \in 1..Len(bs), NEW i \in 1..Len(new[c].pre), NEW j \in 1..Len(new[c].pre),
              i # j
       PROVE  new[c].pre[i] # new[c].pre[j]
  <2>1. \A k, l \in 1..Len(bs[c].pre) : k # l => bs[c].pre[k] # bs[c].pre[l]
    BY <1>9 DEF Edges
  <2>2. CASE c \in ToSet(ts)
    <3>1. bs[c].pre \in Seq(Nat) /\ b \in Nat /\ b \notin ToSet(bs[c].pre)
      BY <1>8, <1>9
    <3>2. new[c].pre = Append(bs[c].pre, b)
      BY <1>9, <2>2
    <3>3. \A k, l \in 1..Len(Append(bs[c].pre, b)) :
             k # l => Append(bs[c].pre, b)[k] # Append(bs[c].pre, b)[l]
      BY <2>1, <3>1, AppendDistinct
    <3> QED BY <1>10, <3>2, <3>3
  <2>3. CASE c \notin ToSet(ts)
    <3>1. new[c].pre = bs[c].pre
      BY <1>9, <2>3
    <3>2. i \in 1..Len(bs[c].pre) /\ j \in 1..Len(bs[c].pre)
      BY <3>1
    <3> QED BY <1>10, <2>1, <3>1, <3>2
  <2> QED BY <2>2, <2>3
<1>11. ASSUME NEW c \in 1..Len(bs) PROVE EndsLast(new[c].code) /\ Edges(new, c)
  <2>1. EndsLast(new[c].code)
    BY <1>5, <1>9
  <2>2. new[c].succ # <<>> <=> <<"br">> \in ToSet(new[c].code)
    <3>1. CASE c = b
      BY <1>7, <1>8, <1>9, <3>1
    <3>2. CASE c # b
      <4>1. bs[c].succ # <<>> <=> <<"br">> \in ToSet(bs[c].code)
        BY <1>9 DEF Edges
      <4>2. new[c].succ = bs[c].succ /\ new[c].code = bs[c].code
        BY <1>9, <3>2
      <4> QED BY <4>1, <4>2
    <3> QED BY <3>1, <3>2
  <2>3. ASSUME NEW t \in 1..Len(bs)
        PROVE  t \in ToSet(new[c].succ) <=> c \in ToSet(new[t].pre)
    <3>1. t \in ToSet(bs[c].succ) <=> c \in ToSet(bs[t].pre)
      BY <1>9 DEF Edges
    <3>2. CASE c = b
      BY <1>9, <3>2
    <3>3. CASE c # b
      <4>1. ToSet(new[c].succ) = ToSet(bs[c].succ)
        BY <1>9, <3>3
      <4>2. c \in ToSet(new[t].pre) <=> c \in ToSet(bs[t].pre)
        BY <1>9, <3>3
      <4> QED BY <3>1, <4>1, <4>2
    <3> QED BY <3>2, <3>3
  <2>4. /\ ToSet(new[c].succ) \subseteq 2..Len(bs) /\ Len(new[c].succ) \in {0, 1, 2}
        /\ Len(new[c].succ) = 2 => new[c].succ[1] # new[c].succ[2]
    <3>1. CASE c = b
      BY <1>8, <1>9, <3>1
    <3>2. CASE c # b
      <4>1. /\ ToSet(bs[c].succ) \subseteq 2..Len(bs) /\ Len(bs[c].succ) \in {0, 1, 2}
            /\ Len(bs[c].succ) = 2 => bs[c].succ[1] # bs[c].succ[2]
        BY <1>9 DEF Edges
      <4>2. new[c].succ = bs[c].succ
        BY <1>9, <3>2
      <4> QED BY <4>1, <4>2
    <3> QED BY <3>1, <3>2
  <2>5. ToSet(new[c].pre) \subseteq 1..Len(bs)
    <3>1. ToSet(bs[c].pre) \subseteq 1..Len(bs) /\ b \in 1..Len(bs)
      BY <1>8, <1>9 DEF Edges
    <3> QED BY <1>8, <1>9, <3>1
  <2> QED BY <1>8, <2>1, <2>2, <2>3, <2>4, <2>5, <1>10 DEF Edges
<1>12. Only(bs, new, b)
  <2>1. ASSUME NEW c \in 1..Len(bs), bs[c].pre # <<>> PROVE new[c].pre # <<>>
    <3>1. bs[c].pre \in Seq(Nat) /\ b \in Nat
      BY <1>8, <1>9
    <3>2. Append(bs[c].pre, b) # <<>>
      BY <3>1, AppendNat
    <3> QED BY <1>9, <2>1, <3>2
  <2> QED BY <1>8, <1>9, <2>1 DEF Only
<1> QED BY <1>1, <1>6, <1>8, <1>11, <1>12 DEF BlocksOK

\* An unconditional branch.
LEMMA CreateBrOK ==
  ASSUME NEW bs, BlocksOK(bs), NEW b \in 1..Len(bs), ~Terminated(bs, b), NEW t \in 2..Len(bs)
  PROVE  LET new == CreateBr(bs, b, t)
         IN  /\ BlocksOK(new) /\ Only(bs, new, b) /\ Terminated(new, b)
             /\ new[t].pre # <<>>
<1> DEFINE ins == <<<<"br">>>>
           T == Emitted(bs) \cup {<<"br">>}
           mid == Emit(bs, b, ins)
           new == Edge(mid, b, t)
           ts == <<t>>
<1>1. ins \in Seq(T) /\ ins \in Seq({<<"br">>}) /\ Len(ins) > 0 /\ EndsLast(ins) /\ Last(ins) = <<"br">>
  BY DEF EndsLast, Last
<1>2. ts \in Seq(2..Len(bs)) /\ Len(ts) = 1 /\ ToSet(ts) = {t} /\ t \in 1..Len(bs) /\ t \in Nat
  BY DEF ToSet
<1>3. bs \in Seq(Blk(T))
  BY BlocksUp
<1> HIDE DEF T, ins
<1>4. /\ mid \in Seq(Blk(T)) /\ Len(mid) = Len(bs)
      /\ \A c \in 1..Len(bs) : /\ mid[c].succ = bs[c].succ /\ mid[c].pre = bs[c].pre
                               /\ mid[c].code = IF c = b THEN bs[b].code \o ins ELSE bs[c].code
  BY <1>1, <1>3, EmitFacts
<1> HIDE DEF mid
<1>5. /\ new \in Seq(Blk(T)) /\ Len(new) = Len(mid)
      /\ \A c \in 1..Len(mid) :
           /\ new[c].code = mid[c].code
           /\ new[c].succ = IF c = b THEN Append(mid[b].succ, t) ELSE mid[c].succ
           /\ new[c].pre = IF c = t THEN Append(mid[t].pre, b) ELSE mid[c].pre
  <2>1. mid \in Seq(Blk(T)) /\ b \in 1..Len(mid) /\ t \in 1..Len(mid)
    BY <1>2, <1>4
  <2> QED BY <2>1, EdgeFacts
<1> HIDE DEF new
<1>6. bs[b].succ = <<>> /\ Append(bs[b].succ, t) = ts
  <2>1. bs[b].succ = <<>>
    BY OpenFacts
  <2>2. Append(<<>>, t) = ts
    OBVIOUS
  <2> QED BY <2>1, <2>2
<1> HIDE DEF ts
<1>7. Branched(bs, new, b, ins, ts)
  BY <1>2, <1>4, <1>5, <1>6 DEF Branched
<1>8. BlocksOK(new) /\ Only(bs, new, b) /\ Terminated(new, b)
  <2>1. /\ ins \in Seq({<<"br">>}) /\ Len(ins) > 0 /\ EndsLast(ins) /\ Last(ins) = <<"br">>
        /\ ts \in Seq(2..Len(bs)) /\ Len(ts) \in {1, 2} /\ (Len(ts) = 2 => ts[1] # ts[2])
        /\ new \in Seq(Blk(T)) /\ Branched(bs, new, b, ins, ts)
    BY <1>1, <1>2, <1>5, <1>7
  <2> QED BY <2>1, BranchOK
<1>9. new[t].pre # <<>>
  <2>1. bs[t].pre \in Seq(Nat)
    BY <1>2, <1>3, BlkFacts
  <2>2. new[t].pre = Append(bs[t].pre, b)
    BY <1>2, <1>7 DEF Branched
  <2>3. b \in Nat
    OBVIOUS
  <2>4. Append(bs[t].pre, b) # <<>>
    BY <2>1, <2>3
  <2> QED BY <2>2, <2>4
<1>10. CreateBr(bs, b, t) = new
  BY DEF CreateBr, new, mid, ins
<1> QED BY <1>8, <1>9, <1>10

\* A conditional branch lists the block for `false` first.
LEMMA CreateCondBrOK ==
  ASSUME NEW bs, BlocksOK(bs), NEW b \in 1..Len(bs), ~Terminated(bs, b),
         NEW t \in 2..Len(bs), NEW f \in 2..Len(bs), t # f
  PROVE  LET new == CreateCondBr(bs, b, t, f)
         IN  /\ BlocksOK(new) /\ Only(bs, new, b) /\ Terminated(new, b)
             /\ new[b].succ = <<f, t>> /\ new[t].pre # <<>> /\ new[f].pre # <<>>
<1> DEFINE ins == <<<<"cmp">>, <<"br">>>>
           T == Emitted(bs) \cup {<<"cmp">>, <<"br">>}
           mid == Emit(bs, b, ins)
           one == Edge(mid, b, f)
           new == Edge(one, b, t)
           ts == <<f, t>>
<1>1. ins \in Seq(T) /\ ins \in Seq({<<"cmp">>, <<"br">>}) /\ Len(ins) = 2
        /\ EndsLast(ins) /\ Last(ins) = <<"br">>
  <2>1. <<"cmp">> \notin Ends
    BY DEF Ends
  <2> QED BY <2>1 DEF EndsLast, Last
<1>2. /\ ts \in Seq(2..Len(bs)) /\ Len(ts) = 2 /\ ts[1] # ts[2] /\ ToSet(ts) = {t, f}
      /\ t \in 1..Len(bs) /\ t \in Nat /\ f \in 1..Len(bs) /\ f \in Nat
  BY DEF ToSet
<1>3. bs \in Seq(Blk(T))
  BY BlocksUp
<1> HIDE DEF T, ins
<1>4. /\ mid \in Seq(Blk(T)) /\ Len(mid) = Len(bs)
      /\ \A c \in 1..Len(bs) : /\ mid[c].succ = bs[c].succ /\ mid[c].pre = bs[c].pre
                               /\ mid[c].code = IF c = b THEN bs[b].code \o ins ELSE bs[c].code
  BY <1>1, <1>3, EmitFacts
<1> HIDE DEF mid
<1>5. /\ one \in Seq(Blk(T)) /\ Len(one) = Len(mid)
      /\ \A c \in 1..Len(mid) :
           /\ one[c].code = mid[c].code
           /\ one[c].succ = IF c = b THEN Append(mid[b].succ, f) ELSE mid[c].succ
           /\ one[c].pre = IF c = f THEN Append(mid[f].pre, b) ELSE mid[c].pre
  <2>1. mid \in Seq(Blk(T)) /\ b \in 1..Len(mid) /\ f \in 1..Len(mid)
    BY <1>2, <1>4
  <2> QED BY <2>1, EdgeFacts
<1> HIDE DEF one
<1>6. /\ new \in Seq(Blk(T)) /\ Len(new) = Len(one)
      /\ \A c \in 1..Len(one) :
           /\ new[c].code = one[c].code
           /\ new[c].succ = IF c = b THEN Append(one[b].succ, t) ELSE one[c].succ
           /\ new[c].pre = IF c = t THEN Append(one[t].pre, b) ELSE one[c].pre
  BY <1>2, <1>4, <1>5, EdgeFacts
<1> HIDE DEF new
<1>7. bs[b].succ = <<>> /\ Append(Append(bs[b].succ, f), t) = ts
  <2>1. bs[b].succ = <<>>
    BY OpenFacts
  <2>2. Append(Append(<<>>, f), t) = ts
    BY AppendTwo
  <2> QED BY <2>1, <2>2
<1>8. new[b].succ = ts
  <2>1. b \in 1..Len(mid) /\ b \in 1..Len(one)
    BY <1>4, <1>5
  <2>2. new[b].succ = Append(one[b].succ, t) /\ one[b].succ = Append(mid[b].succ, f)
    BY <1>5, <1>6, <2>1
  <2>3. mid[b].succ = bs[b].succ
    BY <1>4
  <2> QED BY <1>7, <2>2, <2>3
<1> HIDE DEF ts
<1>9. Branched(bs, new, b, ins, ts)
  BY <1>2, <1>4, <1>5, <1>6, <1>8 DEF Branched
<1>10. BlocksOK(new) /\ Only(bs, new, b) /\ Terminated(new, b)
  <2>1. /\ ins \in Seq({<<"cmp">>, <<"br">>}) /\ Len(ins) > 0 /\ EndsLast(ins)
        /\ Last(ins) = <<"br">>
        /\ ts \in Seq(2..Len(bs)) /\ Len(ts) \in {1, 2} /\ (Len(ts) = 2 => ts[1] # ts[2])
        /\ new \in Seq(Blk(T)) /\ Branched(bs, new, b, ins, ts)
    BY <1>1, <1>2, <1>6, <1>9
  <2> QED BY <2>1, BranchOK
<1>11. ASSUME NEW c \in {t, f} PROVE new[c].pre # <<>>
  <2>1. c \in 1..Len(bs) /\ c \in Nat
    BY <1>2
  <2>2. bs[c].pre \in Seq(Nat)
    BY <1>3, <2>1, BlkFacts
  <2>3. new[c].pre = Append(bs[c].pre, b)
    BY <1>2, <1>9, <2>1 DEF Branched
  <2>4. b \in Nat
    OBVIOUS
  <2>5. Append(bs[c].pre, b) # <<>>
    BY <2>2, <2>4
  <2> QED BY <2>3, <2>5
<1>12. CreateCondBr(bs, b, t, f) = new
  BY DEF CreateCondBr, new, one, mid, ins
<1> QED BY <1>8, <1>10, <1>11, <1>12 DEF ts

\* New blocks are in order, being empty.
LEMMA CreateOK ==
  ASSUME NEW bs, BlocksOK(bs), NEW k \in Nat
  PROVE  LET new == Create(bs, k)
         IN  /\ BlocksOK(new) /\ Len(new) = Len(bs) + k /\ Len(bs) \in Nat
             /\ \A b \in 1..Len(bs) : new[b] = bs[b]
             /\ \A b \in (Len(bs) + 1)..(Len(bs) + k) : new[b] = EmptyBlock
<1> DEFINE new == Create(bs, k)
           E == Emitted(bs)
<1>1. bs \in Seq(Blk(E))
  BY DEF BlocksOK
<1> HIDE DEF E
<1>2. /\ new \in Seq(Blk(E)) /\ Len(new) = Len(bs) + k
      /\ \A b \in 1..Len(bs) : new[b] = bs[b]
      /\ \A b \in (Len(bs) + 1)..(Len(bs) + k) : new[b] = EmptyBlock
  BY <1>1, CreateFacts
<1> HIDE DEF new
<1>3. Len(bs) \in Nat
  BY <1>1
<1>4. new \in Seq(Blk(Emitted(new)))
  BY <1>2, BlocksOver
<1>5. \A b \in 1..Len(bs) : EndsLast(bs[b].code) /\ Edges(bs, b)
  BY DEF BlocksOK
<1>6. /\ EmptyBlock.code = <<>> /\ EmptyBlock.succ = <<>> /\ EmptyBlock.pre = <<>>
      /\ ToSet(<<>>) = {}
  BY DEF EmptyBlock, ToSet
<1>7. ASSUME NEW b \in 1..Len(new) PROVE EndsLast(new[b].code) /\ Edges(new, b)
  <2>1. CASE b \in 1..Len(bs)
    <3>1. ASSUME NEW t \in 1..Len(new)
          PROVE  t \in ToSet(new[b].succ) <=> b \in ToSet(new[t].pre)
      <4>1. CASE t \in 1..Len(bs)
        BY <1>2, <1>5, <2>1, <4>1 DEF Edges
      <4>2. CASE t \notin 1..Len(bs)
        <5>1. new[t].pre = <<>>
          BY <1>2, <1>3, <1>6, <4>2
        <5>2. ToSet(bs[b].succ) \subseteq 2..Len(bs)
          BY <1>5, <2>1 DEF Edges
        <5>3. t \notin ToSet(bs[b].succ)
          BY <1>3, <4>2, <5>2
        <5> QED BY <1>2, <1>6, <2>1, <5>1, <5>3
      <4> QED BY <4>1, <4>2
    <3>2. Edges(bs, b) /\ EndsLast(bs[b].code) /\ new[b] = bs[b]
      BY <1>2, <1>5, <2>1
    <3>3. /\ ToSet(bs[b].succ) \subseteq 2..Len(new) /\ ToSet(bs[b].pre) \subseteq 1..Len(new)
      <4>1. ToSet(bs[b].succ) \subseteq 2..Len(bs) /\ ToSet(bs[b].pre) \subseteq 1..Len(bs)
        BY <3>2 DEF Edges
      <4>2. 2..Len(bs) \subseteq 2..Len(new) /\ 1..Len(bs) \subseteq 1..Len(new)
        BY <1>2, <1>3
      <4> QED BY <4>1, <4>2
    <3> QED BY <3>1, <3>2, <3>3 DEF Edges
  <2>2. CASE b \notin 1..Len(bs)
    <3>1. new[b] = EmptyBlock
      BY <1>2, <1>3, <2>2
    <3>2. new[b].code = <<>> /\ new[b].succ = <<>> /\ new[b].pre = <<>>
      BY <1>6, <3>1
    <3>3. ASSUME NEW t \in 1..Len(new) PROVE b \notin ToSet(new[t].pre)
      <4>1. CASE t \in 1..Len(bs)
        <5>1. ToSet(bs[t].pre) \subseteq 1..Len(bs)
          BY <1>5, <4>1 DEF Edges
        <5> QED BY <1>2, <2>2, <4>1, <5>1
      <4>2. CASE t \notin 1..Len(bs)
        BY <1>2, <1>3, <1>6, <4>2
      <4> QED BY <4>1, <4>2
    <3>4. Edges(new, b)
      BY <1>6, <3>2, <3>3 DEF Edges
    <3>5. EndsLast(new[b].code)
      BY <3>2 DEF EndsLast
    <3> QED BY <3>4, <3>5
  <2> QED BY <2>1, <2>2
<1> QED BY <1>2, <1>3, <1>4, <1>7 DEF BlocksOK, new

\* A join stays one: the builder gives a block more predecessors, and only an
\* open block, which has no successors, new successors.
LEMMA JoinsKept ==
  ASSUME NEW bs, BlocksOK(bs), NEW new, NEW b \in 1..Len(bs), ~Terminated(bs, b),
         Only(bs, new, b), NEW x \in 1..Len(bs), Joins(bs, x)
  PROVE  Joins(new, x)
<1>1. bs[b].succ = <<>>
  BY OpenFacts
<1>2. SUFFICES ASSUME new[x].pre = <<>>
               PROVE  \E c \in 1..Len(new) : new[c].succ = <<x + 1, x - 1>>
  BY DEF Joins
<1>3. bs[x].pre = <<>>
  BY <1>2 DEF Only
<1>4. PICK c \in 1..Len(bs) : bs[c].succ = <<x + 1, x - 1>>
  BY <1>3 DEF Joins
<1>5. c # b
  <2>1. <<x + 1, x - 1>> # <<>>
    OBVIOUS
  <2> QED BY <1>1, <1>4, <2>1
<1> QED BY <1>4, <1>5 DEF Only

\* New blocks make no old one an orphan.
LEMMA CreateJoins ==
  ASSUME NEW bs, BlocksOK(bs), NEW k \in Nat, NEW x \in 1..Len(bs), Joins(bs, x)
  PROVE  Joins(Create(bs, k), x)
<1> DEFINE new == Create(bs, k)
<1>1. /\ Len(new) = Len(bs) + k /\ Len(bs) \in Nat
      /\ \A b \in 1..Len(bs) : new[b] = bs[b]
  BY CreateOK
<1> HIDE DEF new
<1>2. \A b \in 1..Len(bs) : b \in 1..Len(new)
  BY <1>1
<1>3. Joins(new, x)
  BY <1>1, <1>2 DEF Joins
<1> QED BY <1>3 DEF new

\* Whether an old block is open does not change either, and the new ones are.
LEMMA CreateOpen ==
  ASSUME NEW bs, BlocksOK(bs), NEW k \in Nat
  PROVE  /\ \A b \in 1..Len(bs) : Terminated(Create(bs, k), b) <=> Terminated(bs, b)
         /\ \A b \in (Len(bs) + 1)..(Len(bs) + k) :
              Create(bs, k)[b].code = <<>> /\ ~Terminated(Create(bs, k), b)
<1>1. /\ \A b \in 1..Len(bs) : Create(bs, k)[b] = bs[b]
      /\ \A b \in (Len(bs) + 1)..(Len(bs) + k) : Create(bs, k)[b] = EmptyBlock
  BY CreateOK
<1> QED BY <1>1 DEF Terminated, EmptyBlock

-----------------------------------------------------------------------------
(* What a step does to the visits under way: the innermost one is replaced by *)
(* the frames fs.                                                             *)

\* The list of frames after such a step, by position.
LEMMA ThenFacts ==
  ASSUME FramesInv, todo # <<>>, NEW F, NEW fs \in Seq(F), todo' = fs \o Tail(todo)
  PROVE  /\ todo' \in Seq(ToSet(todo')) /\ DOMAIN todo' = 1..Len(todo')
         /\ Len(todo) \in Nat /\ Len(todo) > 0 /\ Len(fs) \in Nat /\ DOMAIN todo = 1..Len(todo)
         /\ Len(todo') = Len(fs) + Len(todo) - 1
         /\ \A i \in 1..Len(fs) : todo'[i] = fs[i]
         /\ \A i \in (Len(fs) + 1)..Len(todo') :
              i - Len(fs) + 1 \in 2..Len(todo) /\ todo'[i] = todo[i - Len(fs) + 1]
<1> DEFINE G == F \cup ToSet(todo)
           rest == Tail(todo)
           new == fs \o rest
<1>1. todo \in Seq(G) /\ fs \in Seq(G)
  <2>1. todo \in Seq(ToSet(todo))
    BY DEF FramesInv
  <2>2. fs \in Seq(G)
    OBVIOUS
  <2>3. todo \in Seq(G)
    BY <2>1
  <2> QED BY <2>2, <2>3
<1> HIDE DEF G
<1>2. /\ Len(todo) \in Nat /\ Len(todo) > 0 /\ Len(fs) \in Nat /\ DOMAIN todo = 1..Len(todo)
      /\ rest \in Seq(G) /\ Len(rest) = Len(todo) - 1
      /\ \A i \in 1..Len(rest) : rest[i] = todo[i + 1]
  <2>1. Len(todo) > 0
    BY <1>1
  <2> QED BY <1>1, <2>1
<1> HIDE DEF rest
<1>3. /\ new \in Seq(G) /\ Len(new) = Len(fs) + Len(rest)
      /\ \A i \in 1..Len(fs) : new[i] = fs[i]
      /\ \A i \in 1..Len(rest) : new[Len(fs) + i] = rest[i]
  <2>1. fs \in Seq(G) /\ rest \in Seq(G)
    BY <1>1, <1>2
  <2> QED BY ONLY <2>1, ConcatFacts
<1> HIDE DEF new
<1>4. ASSUME NEW i \in (Len(fs) + 1)..Len(new)
      PROVE  i - Len(fs) + 1 \in 2..Len(todo) /\ new[i] = todo[i - Len(fs) + 1]
  <2> DEFINE j == i - Len(fs)
  <2>1. /\ j \in 1..Len(rest) /\ i = Len(fs) + j
        /\ j + 1 \in 2..Len(todo) /\ i - Len(fs) + 1 = j + 1
    BY <1>2, <1>3
  <2> HIDE DEF j
  <2>2. new[i] = rest[j]
    BY <1>3, <2>1
  <2>3. rest[j] = todo[j + 1]
    BY <1>2, <2>1
  <2> QED BY <2>1, <2>2, <2>3
<1>5. new \in Seq(ToSet(new)) /\ DOMAIN new = 1..Len(new)
  BY <1>3, SeqOver
<1>6. todo' = new
  BY DEF new, rest
<1> QED BY <1>2, <1>3, <1>4, <1>5, <1>6

\* A frame stays sound when blocks are added.
LEMMA FrameUp ==
  ASSUME NEW f, NEW n \in Nat, NEW m \in Nat, n <= m, FrameOK(f, n)
  PROVE  FrameOK(f, m)
<1>1. 2..n \subseteq 2..m
  OBVIOUS
<1>2. ASSUME f.waiting \in Seq(2..n) PROVE f.waiting \in Seq(2..m)
  <2> DEFINE A == 2..n
             B == 2..m
  <2>1. f.waiting \in Seq(A) /\ A \subseteq B
    BY <1>1, <1>2
  <2> HIDE DEF A, B
  <2>2. f.waiting \in Seq(B)
    BY <2>1
  <2> QED BY <2>2 DEF B
<1> QED BY <1>1, <1>2 DEF FrameOK

\* What a step does to the visits and to the insert block.
LEMMA ControlStep ==
  ASSUME IInv, todo # <<>>, NEW F, NEW fs \in Seq(F), todo' = fs \o Tail(todo),
         Len(blocks') \in Nat, Len(blocks') >= Len(blocks), cur' \in 1..Len(blocks'),
         \A i \in 1..Len(fs) : FrameOK(fs[i], Len(blocks')),
         \A i \in 1..(Len(fs) - 1) : FollowOK(fs[i], fs[i + 1]),
         Len(fs) > 0 => /\ Top.at # "fun"
                        /\ Top.at \in Computing => fs[Len(fs)].at \in Computing
                        /\ fs[1].at \in Joining \/ ~Terminated(blocks', cur'),
         Len(fs) = 0 /\ Top.at \in Computing => ~Terminated(blocks', cur')
  PROVE  FramesInv' /\ StackInv' /\ CurInv'
<1>1. /\ todo' \in Seq(ToSet(todo')) /\ DOMAIN todo' = 1..Len(todo')
      /\ Len(todo) \in Nat /\ Len(todo) > 0 /\ Len(fs) \in Nat /\ DOMAIN todo = 1..Len(todo)
      /\ Len(todo') = Len(fs) + Len(todo) - 1
      /\ \A i \in 1..Len(fs) : todo'[i] = fs[i]
      /\ \A i \in (Len(fs) + 1)..Len(todo') :
           i - Len(fs) + 1 \in 2..Len(todo) /\ todo'[i] = todo[i - Len(fs) + 1]
  BY ThenFacts DEF IInv
<1>2. Len(blocks) \in Nat
  BY DEF IInv, BlocksOK
<1>3. /\ \A i \in 1..Len(todo) : FrameOK(todo[i], Len(blocks))
      /\ todo[Len(todo)].at = "fun"
      /\ \A i \in 1..(Len(todo) - 1) : FollowOK(todo[i], todo[i + 1])
  BY <1>1 DEF IInv, FramesInv, StackInv
<1>4. ASSUME NEW i \in 1..Len(todo') PROVE FrameOK(todo'[i], Len(blocks'))
  <2>1. CASE i <= Len(fs)
    BY <1>1, <2>1
  <2>2. CASE i > Len(fs)
    <3>1. i - Len(fs) + 1 \in 2..Len(todo) /\ todo'[i] = todo[i - Len(fs) + 1]
      BY <1>1, <2>2
    <3>2. FrameOK(todo[i - Len(fs) + 1], Len(blocks))
      BY <1>1, <1>3, <3>1
    <3> QED BY <1>2, <3>1, <3>2, FrameUp
  <2> QED BY <1>1, <2>1, <2>2
<1>5. ASSUME todo' # <<>> PROVE todo'[Len(todo')].at = "fun"
  <2>1. Len(todo') > 0
    BY <1>1, <1>5
  <2>2. Len(todo) > 1
    <3>1. CASE Len(fs) > 0
      <4>1. Top.at # "fun"
        BY <3>1
      <4>2. Len(todo) # 1
        BY <1>3, <4>1 DEF Top
      <4> QED BY <1>1, <4>2
    <3>2. CASE Len(fs) = 0
      BY <1>1, <2>1, <3>2
    <3> QED BY <1>1, <3>1, <3>2
  <2>3. Len(todo') \in (Len(fs) + 1)..Len(todo') /\ Len(todo') - Len(fs) + 1 = Len(todo)
    BY <1>1, <2>2
  <2>4. todo'[Len(todo')] = todo[Len(todo)]
    BY <1>1, <2>3
  <2> QED BY <1>3, <2>4
<1>6. FramesInv'
  BY <1>1, <1>4, <1>5 DEF FramesInv
<1>7. ASSUME NEW i \in 1..(Len(todo') - 1) PROVE FollowOK(todo'[i], todo'[i + 1])
  <2>1. CASE i + 1 <= Len(fs)
    <3>1. i \in 1..(Len(fs) - 1) /\ i \in 1..Len(fs) /\ i + 1 \in 1..Len(fs)
      BY <1>1, <2>1
    <3>2. todo'[i] = fs[i] /\ todo'[i + 1] = fs[i + 1]
      BY <1>1, <3>1
    <3> QED BY <3>1, <3>2
  <2>2. CASE i = Len(fs)
    <3>1. i \in 1..Len(fs) /\ i + 1 \in (Len(fs) + 1)..Len(todo') /\ 1 \in 1..(Len(todo) - 1)
      BY <1>1, <2>2
    <3>2. todo'[i] = fs[Len(fs)] /\ todo'[i + 1] = todo[i + 1 - Len(fs) + 1]
      BY <1>1, <2>2, <3>1
    <3>3. i + 1 - Len(fs) + 1 = 2 /\ 1 + 1 = 2
      BY <1>1, <2>2
    <3>4. FollowOK(todo[1], todo[2])
      BY <1>3, <3>1, <3>3
    <3>5. Len(fs) > 0 /\ todo'[i + 1] = todo[2]
      BY <1>1, <2>2, <3>2, <3>3
    <3>6. Top.at \in Computing => fs[Len(fs)].at \in Computing
      BY <3>5
    <3> QED BY <3>2, <3>4, <3>5, <3>6 DEF FollowOK, Top
  <2>3. CASE i > Len(fs)
    <3>1. i \in (Len(fs) + 1)..Len(todo') /\ i + 1 \in (Len(fs) + 1)..Len(todo')
      BY <1>1, <2>3
    <3> DEFINE j == i - Len(fs) + 1
    <3>2. todo'[i] = todo[j] /\ j \in 2..Len(todo)
      BY <1>1, <3>1
    <3>3. todo'[i + 1] = todo[i + 1 - Len(fs) + 1] /\ i + 1 - Len(fs) + 1 \in 2..Len(todo)
      BY <1>1, <3>1
    <3>4. i + 1 - Len(fs) + 1 = j + 1 /\ j \in 1..(Len(todo) - 1)
      BY <1>1, <3>2, <3>3
    <3> HIDE DEF j
    <3>5. FollowOK(todo[j], todo[j + 1])
      BY <1>3, <3>4
    <3> QED BY <3>2, <3>3, <3>4, <3>5
  <2>4. i + 1 <= Len(fs) \/ i = Len(fs) \/ i > Len(fs)
    BY <1>1
  <2> QED BY <2>1, <2>2, <2>3, <2>4
<1>8. ASSUME todo' # <<>> PROVE todo'[1].at \in Joining \/ ~Terminated(blocks', cur')
  <2>1. Len(todo') > 0
    BY <1>1, <1>8
  <2>2. CASE Len(fs) > 0
    <3>1. todo'[1] = fs[1]
      BY <1>1, <2>2
    <3>2. fs[1].at \in Joining \/ ~Terminated(blocks', cur')
      BY <2>2
    <3> QED BY <3>1, <3>2
  <2>3. CASE Len(fs) = 0
    <3>1. 1 \in (Len(fs) + 1)..Len(todo') /\ 1 - Len(fs) + 1 = 2 /\ 1 \in 1..(Len(todo) - 1) /\ 1 + 1 = 2
      BY <1>1, <2>1, <2>3
    <3>2. todo'[1] = todo[2]
      BY <1>1, <3>1
    <3>3. FollowOK(todo[1], todo[2])
      BY <1>3, <3>1
    <3>4. Top.at \in Computing => ~Terminated(blocks', cur')
      BY <2>3
    <3>5. CASE todo[2].at \in Joining
      BY <3>2, <3>5
    <3>6. CASE todo[2].at \notin Joining
      <4>1. Top.at \in Computing
        BY <3>3, <3>6 DEF FollowOK, Top
      <4> QED BY <3>4, <4>1
    <3> QED BY <3>5, <3>6
  <2>4. Len(fs) > 0 \/ Len(fs) = 0
    BY <1>1
  <2> QED BY <2>2, <2>3, <2>4
<1>9. StackInv'
  BY <1>7, <1>8 DEF StackInv, Top
<1>10. CurInv'
  <2>1. cur' \in 1..Len(blocks') /\ cur' # 0
    OBVIOUS
  <2> QED BY <2>1 DEF CurInv, Id
<1> QED BY <1>6, <1>9, <1>10

\* The same hypotheses in one name: the frames fs may take the place of the first.
Replaces(fs) ==
  /\ todo' = fs \o Tail(todo) /\ cur' \in 1..Len(blocks') /\ Len(blocks') >= Len(blocks)
  /\ \A i \in 1..Len(fs) : FrameOK(fs[i], Len(blocks'))
  /\ \A i \in 1..(Len(fs) - 1) : FollowOK(fs[i], fs[i + 1])
  /\ Len(fs) > 0 => /\ Top.at # "fun"
                    /\ Top.at \in Computing => fs[Len(fs)].at \in Computing
                    /\ fs[1].at \in Joining \/ ~Terminated(blocks', cur')
  /\ Len(fs) = 0 /\ Top.at \in Computing => ~Terminated(blocks', cur')

\* What it does to the blocks: only the insert block and new ones are filled,
\* and a block left open is the insert block or waits in one of the frames fs.
AllWaits(fs) == UNION {Waits(fs[i]) : i \in 1..Len(fs)}
New == (Len(blocks) + 1)..Len(blocks')
Fills(fs) ==
  /\ \A b \in Id : b # cur => blocks'[b].code = blocks[b].code
  /\ \A b \in New : /\ b \in AllWaits(fs) => blocks'[b].code = <<>>
                    /\ Terminated(blocks', b) \/ b \in AllWaits(fs) \cup {cur'}
  /\ AllWaits(fs) \subseteq Waits(Top) \cup New
  /\ Waits(Top) \subseteq AllWaits(fs) \cup {cur'}
  /\ \A i, j \in 1..Len(fs) : i # j => Waits(fs[i]) \cap Waits(fs[j]) = {}
  /\ cur' \in ({cur} \cup Waits(Top) \cup New) \ AllWaits(fs)
  /\ cur' = cur \/ Terminated(blocks', cur)
  /\ Top.at = "fun" => Terminated(blocks', cur')

\* Which blocks wait before the step and after it.
LEMMA PendingStep ==
  ASSUME IInv, todo # <<>>, NEW F, NEW fs \in Seq(F), Replaces(fs), Fills(fs),
         Len(blocks') \in Nat
  PROVE  LET rest == UNION {Waits(todo[i]) : i \in 2..Len(todo)}
         IN  /\ Pending = Waits(Top) \cup rest /\ Pending' = AllWaits(fs) \cup rest
             /\ Waits(Top) \cap rest = {} /\ AllWaits(fs) \cap rest = {}
             /\ Pending \subseteq Id
             /\ (\A i, j \in DOMAIN todo : i # j => Waiting(i) \cap Waiting(j) = {})'
<1> DEFINE rest == UNION {Waits(todo[i]) : i \in 2..Len(todo)}
<1>1. /\ DOMAIN todo' = 1..Len(todo')
      /\ Len(todo) \in Nat /\ Len(todo) > 0 /\ Len(fs) \in Nat /\ DOMAIN todo = 1..Len(todo)
      /\ Len(todo') = Len(fs) + Len(todo) - 1
      /\ \A i \in 1..Len(fs) : todo'[i] = fs[i]
      /\ \A i \in (Len(fs) + 1)..Len(todo') :
           i - Len(fs) + 1 \in 2..Len(todo) /\ todo'[i] = todo[i - Len(fs) + 1]
  BY ThenFacts DEF IInv, Replaces
<1>2. /\ \A i \in 1..Len(todo) : Waiting(i) = Waits(todo[i])
      /\ \A i \in 1..Len(todo') : Waiting(i)' = Waits(todo'[i])
  BY DEF Waiting, Waits
<1>3. \A i, j \in 1..Len(todo) : i # j => Waits(todo[i]) \cap Waits(todo[j]) = {}
  BY <1>1, <1>2 DEF IInv, NoBlockLost
<1>4. ASSUME NEW i \in 1..Len(todo) PROVE Waits(todo[i]) \subseteq Id
  <2>1. FrameOK(todo[i], Len(blocks)) /\ Len(blocks) \in Nat
    <3>1. FrameOK(todo[i], Len(blocks))
      BY <1>1 DEF IInv, FramesInv
    <3>2. Len(blocks) \in Nat
      BY DEF IInv, BlocksOK
    <3> QED BY <3>1, <3>2
  <2>2. ASSUME "waiting" \in DOMAIN todo[i] PROVE ToSet(todo[i].waiting) \subseteq Id
    <3>1. todo[i].waiting \in Seq(2..Len(blocks))
      BY <2>1, <2>2 DEF FrameOK
    <3>2. ToSet(todo[i].waiting) \subseteq 2..Len(blocks)
      <4> DEFINE A == 2..Len(blocks)
      <4>1. todo[i].waiting \in Seq(A)
        BY <3>1
      <4> HIDE DEF A
      <4>2. ToSet(todo[i].waiting) \subseteq A
        BY <4>1, SeqOver
      <4> QED BY <4>2 DEF A
    <3> QED BY <2>1, <3>2 DEF Id
  <2> QED BY <2>2 DEF Waits
<1>5. Top = todo[1] /\ 1 \in 1..Len(todo)
  BY <1>1 DEF Top
<1>6. Pending = Waits(Top) \cup rest
  <2>1. \A i \in 1..Len(todo) : i = 1 \/ i \in 2..Len(todo)
    BY <1>1
  <2> QED BY <1>1, <1>2, <1>5, <2>1 DEF Pending
<1>7. Pending' = AllWaits(fs) \cup rest
  <2>1. ASSUME NEW i \in 1..Len(todo') PROVE Waits(todo'[i]) \subseteq AllWaits(fs) \cup rest
    <3>1. CASE i <= Len(fs)
      BY <1>1, <3>1 DEF AllWaits
    <3>2. CASE i > Len(fs)
      BY <1>1, <3>2
    <3> QED BY <1>1, <3>1, <3>2
  <2>2. ASSUME NEW i \in 1..Len(fs) PROVE Waits(fs[i]) \subseteq Pending'
    <3>1. i \in 1..Len(todo') /\ todo'[i] = fs[i]
      BY <1>1
    <3> QED BY <1>1, <1>2, <3>1 DEF Pending
  <2>3. ASSUME NEW i \in 2..Len(todo) PROVE Waits(todo[i]) \subseteq Pending'
    <3> DEFINE k == i + Len(fs) - 1
    <3>1. k \in (Len(fs) + 1)..Len(todo') /\ k - Len(fs) + 1 = i /\ k \in 1..Len(todo')
      BY <1>1
    <3> HIDE DEF k
    <3>2. todo'[k] = todo[i]
      BY <1>1, <3>1
    <3> QED BY <1>1, <1>2, <3>1, <3>2 DEF Pending
  <2>4. Pending' \subseteq AllWaits(fs) \cup rest
    BY <1>1, <1>2, <2>1 DEF Pending
  <2> QED BY <2>2, <2>3, <2>4 DEF AllWaits
<1>8. Waits(Top) \cap rest = {}
  <2>1. \A i \in 2..Len(todo) : i \in 1..Len(todo) /\ i # 1
    BY <1>1
  <2> QED BY <1>3, <1>5, <2>1
<1>9. Pending \subseteq Id
  BY <1>1, <1>2, <1>4 DEF Pending
<1>10. AllWaits(fs) \cap rest = {}
  <2>1. AllWaits(fs) \subseteq Waits(Top) \cup New
    BY DEF Fills
  <2>2. New \cap Id = {}
    BY DEF New, Id, IInv, BlocksOK
  <2> QED BY <1>6, <1>8, <1>9, <2>1, <2>2
<1>11. ASSUME NEW i \in 1..Len(todo'), NEW j \in 1..Len(todo'), i # j
       PROVE  Waits(todo'[i]) \cap Waits(todo'[j]) = {}
  <2>1. ASSUME NEW k \in 1..Len(todo'), k > Len(fs)
        PROVE  Waits(todo'[k]) \subseteq rest /\ todo'[k] = todo[k - Len(fs) + 1]
               /\ k - Len(fs) + 1 \in 1..Len(todo)
    BY <1>1, <2>1
  <2>2. ASSUME NEW k \in 1..Len(todo'), k <= Len(fs)
        PROVE  Waits(todo'[k]) \subseteq AllWaits(fs) /\ todo'[k] = fs[k] /\ k \in 1..Len(fs)
    BY <1>1, <2>2 DEF AllWaits
  <2>3. CASE i <= Len(fs) /\ j <= Len(fs)
    <3>1. \A k, l \in 1..Len(fs) : k # l => Waits(fs[k]) \cap Waits(fs[l]) = {}
      BY DEF Fills
    <3>2. /\ todo'[i] = fs[i] /\ i \in 1..Len(fs)
          /\ todo'[j] = fs[j] /\ j \in 1..Len(fs)
      BY <2>2, <2>3
    <3> QED BY <1>11, <3>1, <3>2
  <2>4. CASE i > Len(fs) /\ j > Len(fs)
    <3>1. /\ todo'[i] = todo[i - Len(fs) + 1] /\ i - Len(fs) + 1 \in 1..Len(todo)
          /\ todo'[j] = todo[j - Len(fs) + 1] /\ j - Len(fs) + 1 \in 1..Len(todo)
      BY <2>1, <2>4
    <3>2. i - Len(fs) + 1 # j - Len(fs) + 1
      BY <1>1, <1>11
    <3> QED BY <1>3, <3>1, <3>2
  <2>5. CASE i <= Len(fs) /\ j > Len(fs)
    BY <1>10, <2>1, <2>2, <2>5
  <2>6. CASE i > Len(fs) /\ j <= Len(fs)
    BY <1>10, <2>1, <2>2, <2>6
  <2>7. /\ i <= Len(fs) \/ i > Len(fs)
        /\ j <= Len(fs) \/ j > Len(fs)
    BY <1>1
  <2> QED BY <2>3, <2>4, <2>5, <2>6, <2>7
<1>12. (\A i, j \in DOMAIN todo : i # j => Waiting(i) \cap Waiting(j) = {})'
  <2>1. \A i, j \in 1..Len(todo') : i # j => Waiting(i)' \cap Waiting(j)' = {}
    BY <1>2, <1>11
  <2>2. DOMAIN todo' = 1..Len(todo')
    BY <1>1
  <2> QED BY <2>1, <2>2
<1> QED BY <1>6, <1>7, <1>8, <1>9, <1>10, <1>12

\* Such a step loses no block.
LEMMA BlocksStep ==
  ASSUME IInv, todo # <<>>, NEW F, NEW fs \in Seq(F), Replaces(fs), Fills(fs),
         Len(blocks') \in Nat
  PROVE  NoBlockLost'
<1> DEFINE rest == UNION {Waits(todo[i]) : i \in 2..Len(todo)}
<1>1. /\ Pending = Waits(Top) \cup rest /\ Pending' = AllWaits(fs) \cup rest
      /\ Waits(Top) \cap rest = {} /\ AllWaits(fs) \cap rest = {}
      /\ Pending \subseteq Id
      /\ (\A i, j \in DOMAIN todo : i # j => Waiting(i) \cap Waiting(j) = {})'
  BY PendingStep
<1> HIDE DEF rest
<1>2. /\ \A b \in Id : ~Terminated(blocks, b) => b \in Pending \cup {cur}
      /\ \A b \in Pending : blocks[b].code = <<>> /\ b # cur
  BY DEF IInv, NoBlockLost
<1>3. Len(blocks) \in Nat /\ Len(blocks') >= Len(blocks)
  BY DEF IInv, BlocksOK, Replaces
<1>4. \A b \in Id : b # cur => blocks'[b].code = blocks[b].code
  BY DEF Fills
<1>5. New \cap Id = {} /\ Id' = Id \cup New
  BY <1>3 DEF New, Id
<1>6. ASSUME NEW b \in Id', ~Terminated(blocks', b) PROVE b \in Pending' \cup {cur'}
  <2>1. CASE b \in New
    <3>1. Terminated(blocks', b) \/ b \in AllWaits(fs) \cup {cur'}
      BY <2>1 DEF Fills
    <3> QED BY <1>1, <1>6, <3>1
  <2>2. CASE b = cur
    <3>1. cur' = cur \/ Terminated(blocks', cur)
      BY DEF Fills
    <3> QED BY <1>6, <2>2, <3>1
  <2>3. CASE b \in Id /\ b # cur
    <3>1. ~Terminated(blocks, b)
      BY <1>4, <1>6, <2>3 DEF Terminated
    <3>2. b \in Waits(Top) \cup rest
      BY <1>1, <1>2, <2>3, <3>1
    <3>3. Waits(Top) \subseteq AllWaits(fs) \cup {cur'}
      BY DEF Fills
    <3> QED BY <1>1, <3>2, <3>3
  <2> QED BY <1>5, <1>6, <2>1, <2>2, <2>3
<1>7. ASSUME todo' = <<>> PROVE Terminated(blocks', cur')
  <2>1. /\ Len(todo) \in Nat /\ Len(fs) \in Nat /\ Len(todo) > 0
        /\ Len(todo') = Len(fs) + Len(todo) - 1
    BY ThenFacts DEF IInv, Replaces
  <2>2. Len(todo') = 0
    BY <1>7
  <2>3. Len(todo) = 1
    <3> DEFINE l == Len(todo)
               m == Len(todo')
               n == Len(fs)
    <3>1. l \in Nat /\ n \in Nat /\ l > 0 /\ m = n + l - 1 /\ m = 0
      BY <2>1, <2>2
    <3> HIDE DEF l, m, n
    <3>2. l = 1
      BY ONLY <3>1
    <3> QED BY <3>2 DEF l
  <2>4. todo[Len(todo)].at = "fun"
    BY DEF IInv, FramesInv
  <2>5. Top.at = "fun"
    BY <2>3, <2>4 DEF Top
  <2> QED BY <2>5 DEF Fills
<1>8. ASSUME NEW b \in Pending' PROVE blocks'[b].code = <<>> /\ b # cur'
  <2>1. /\ cur' \in ({cur} \cup Waits(Top) \cup New) \ AllWaits(fs)
        /\ AllWaits(fs) \subseteq Waits(Top) \cup New
    BY DEF Fills
  <2>2. CASE b \in Pending
    <3>1. blocks'[b].code = <<>>
      BY <1>1, <1>2, <1>4, <2>2
    <3>2. b # cur'
      BY <1>1, <1>2, <1>5, <1>8, <2>1, <2>2
    <3> QED BY <3>1, <3>2
  <2>3. CASE b \in New /\ b \in AllWaits(fs)
    <3>1. blocks'[b].code = <<>>
      BY <2>3 DEF Fills
    <3> QED BY <2>1, <2>3, <3>1
  <2> QED BY <1>1, <1>8, <2>1, <2>2, <2>3
<1>9. ASSUME NEW b \in Id', ~Terminated(blocks', b)
      PROVE  b \in Pending' \cup (IF todo' = <<>> THEN {} ELSE {cur'})
  <2>1. b \in Pending' \cup {cur'}
    BY <1>6, <1>9
  <2>2. CASE todo' = <<>>
    <3>1. b # cur'
      BY <1>7, <1>9, <2>2
    <3> QED BY <2>1, <3>1
  <2>3. CASE todo' # <<>>
    BY <2>1, <2>3
  <2> QED BY <2>2, <2>3
<1> QED BY <1>1, <1>8, <1>9 DEF NoBlockLost

\* A step that is all of this keeps the invariant.
LEMMA VisitStep ==
  ASSUME IInv, todo # <<>>, NEW F, NEW fs \in Seq(F), Replaces(fs), Fills(fs),
         BlocksOK(blocks'), OrphanInv'
  PROVE  IInv'
<1>1. Len(blocks') \in Nat
  BY DEF BlocksOK
<1>2. NoBlockLost'
  BY <1>1, BlocksStep
<1>3. FramesInv' /\ StackInv' /\ CurInv'
  BY <1>1, ControlStep DEF Replaces
<1> QED BY <1>2, <1>3 DEF IInv

-----------------------------------------------------------------------------
(* Steps that stay in the insert block, by the number of frames they leave.  *)

\* A step that gives no block away: it writes to an open insert block, or none.
Stays ==
  /\ todo # <<>> /\ cur' = cur /\ Waits(Top) = {} /\ cur \in Id /\ BlocksOK(blocks')
  /\ blocks' = blocks \/ (~Terminated(blocks, cur) /\ Only(blocks, blocks', cur))

\* The innermost visit, as the invariant has it.
LEMMA TopFacts ==
  ASSUME IInv, todo # <<>>
  PROVE  /\ FrameOK(Top, Len(blocks)) /\ Len(blocks) \in Nat /\ cur \in Id /\ cur # 0
         /\ Top.at \in Emitting => ~Terminated(blocks, cur)
         /\ Top.at \notin {"then", "else", "body"} => Waits(Top) = {}
<1>1. Len(todo) \in Nat /\ Len(todo) > 0 /\ 1 \in DOMAIN todo
  <2>1. todo \in Seq(ToSet(todo))
    BY DEF IInv, FramesInv
  <2> QED BY <2>1
<1>2. FrameOK(Top, Len(blocks))
  BY <1>1 DEF IInv, FramesInv, Top
<1>3. Len(blocks) \in Nat
  BY DEF IInv, BlocksOK
<1>4. cur \in Id /\ cur # 0
  BY DEF IInv, CurInv
<1>5. ASSUME Top.at \in Emitting PROVE ~Terminated(blocks, cur)
  <2>1. Top.at \in Joining \/ ~Terminated(blocks, cur)
    BY DEF IInv, StackInv
  <2> QED BY <1>5, <2>1 DEF Emitting, Joining
<1>6. Top.at \notin {"then", "else", "body"} => Waits(Top) = {}
  BY <1>2 DEF FrameOK, Waits
<1> QED BY <1>2, <1>3, <1>4, <1>5, <1>6

\* What a step that stays does not touch.
LEMMA StaysStep ==
  ASSUME IInv, Stays, NEW F, NEW fs \in Seq(F), Replaces(fs),
         \A i \in 1..Len(fs) : Waits(fs[i]) = {},
         Top.at = "fun" => Terminated(blocks', cur)
  PROVE  IInv'
<1>1. Len(blocks) \in Nat /\ todo # <<>> /\ cur \in 1..Len(blocks) /\ cur' = cur
  BY DEF IInv, BlocksOK, Stays, Id
<1>2. /\ Len(blocks') = Len(blocks)
      /\ \A b \in Id : b # cur => blocks'[b].code = blocks[b].code
  BY DEF Stays, Only, Id
<1>3. OrphanInv'
  <2>1. CASE blocks' = blocks
    BY <2>1 DEF IInv, OrphanInv
  <2>2. CASE ~Terminated(blocks, cur) /\ Only(blocks, blocks', cur)
    <3>1. BlocksOK(blocks) /\ \A x \in 2..Len(blocks) : Joins(blocks, x)
      BY DEF IInv, OrphanInv
    <3>2. ASSUME NEW x \in 2..Len(blocks) PROVE Joins(blocks', x)
      <4>1. x \in 1..Len(blocks) /\ Joins(blocks, x)
        BY <3>1
      <4> QED BY <1>1, <2>2, <3>1, <4>1, JoinsKept
    <3> QED BY <1>2, <3>2 DEF OrphanInv
  <2> QED BY <2>1, <2>2 DEF Stays
<1>4. AllWaits(fs) = {} /\ New = {}
  <2>1. AllWaits(fs) = {}
    BY DEF AllWaits
  <2>2. New = {}
    BY <1>1, <1>2 DEF New
  <2> QED BY <2>1, <2>2
<1>5. Fills(fs)
  <2>1. Waits(Top) = {}
    BY DEF Stays
  <2>2. Top.at = "fun" => Terminated(blocks', cur')
    BY <1>1
  <2> QED BY <1>1, <1>2, <1>4, <2>1, <2>2 DEF Fills
<1>6. BlocksOK(blocks')
  BY DEF Stays
<1> QED BY <1>1, <1>3, <1>5, <1>6, VisitStep

\* The visit is over.
LEMMA Stays0 ==
  ASSUME IInv, Stays, Then(<<>>),
         Top.at \in Computing => ~Terminated(blocks', cur),
         Top.at = "fun" => Terminated(blocks', cur)
  PROVE  IInv'
<1> DEFINE fs == <<>>
<1>1. fs \in Seq({}) /\ Len(fs) = 0
  OBVIOUS
<1>2. todo' = fs \o Tail(todo)
  BY DEF Then
<1> HIDE DEF fs
<1>3. /\ cur' = cur /\ cur \in 1..Len(blocks) /\ Len(blocks') = Len(blocks)
      /\ Len(blocks) \in Nat
  BY DEF Stays, Only, Id, IInv, BlocksOK
<1>4. cur' \in 1..Len(blocks') /\ Len(blocks') >= Len(blocks)
  BY <1>3
<1>5. /\ \A i \in 1..Len(fs) : FrameOK(fs[i], Len(blocks')) /\ Waits(fs[i]) = {}
      /\ \A i \in 1..(Len(fs) - 1) : FollowOK(fs[i], fs[i + 1])
      /\ ~(Len(fs) > 0)
  BY <1>1
<1>6. Replaces(fs)
  BY <1>2, <1>3, <1>4, <1>5 DEF Replaces
<1>7. \A i \in 1..Len(fs) : Waits(fs[i]) = {}
  BY <1>5
<1> QED BY <1>1, <1>6, <1>7, StaysStep

\* One visit takes its place.
LEMMA Stays1 ==
  ASSUME IInv, Stays, NEW f, Then(<<f>>), FrameOK(f, Len(blocks)), Waits(f) = {}, Top.at # "fun",
         Top.at \in Computing => f.at \in Computing,
         f.at \in Joining \/ ~Terminated(blocks', cur)
  PROVE  IInv'
<1> DEFINE fs == <<f>>
<1>1. fs \in Seq({f}) /\ Len(fs) = 1 /\ fs[1] = f
  OBVIOUS
<1>2. todo' = fs \o Tail(todo)
  BY DEF Then
<1> HIDE DEF fs
<1>3. /\ cur' = cur /\ cur \in 1..Len(blocks) /\ Len(blocks') = Len(blocks)
      /\ Len(blocks) \in Nat
  BY DEF Stays, Only, Id, IInv, BlocksOK
<1>4. cur' \in 1..Len(blocks') /\ Len(blocks') >= Len(blocks)
  BY <1>3
<1>5. /\ \A i \in 1..Len(fs) : i = 1
      /\ \A i \in 1..(Len(fs) - 1) : FALSE
      /\ Len(fs) # 0
  BY <1>1
<1>6. /\ \A i \in 1..Len(fs) : FrameOK(fs[i], Len(blocks')) /\ Waits(fs[i]) = {}
      /\ \A i \in 1..(Len(fs) - 1) : FollowOK(fs[i], fs[i + 1])
  BY <1>1, <1>3, <1>5
<1>7. /\ Top.at \in Computing => fs[Len(fs)].at \in Computing
      /\ fs[1].at \in Joining \/ ~Terminated(blocks', cur')
  BY <1>1, <1>3
<1>8. Replaces(fs)
  BY <1>2, <1>4, <1>5, <1>6, <1>7 DEF Replaces
<1>9. \A i \in 1..Len(fs) : Waits(fs[i]) = {}
  BY <1>6
<1> QED BY <1>1, <1>8, <1>9, StaysStep

\* Two visits take its place.
LEMMA Stays2 ==
  ASSUME IInv, Stays, NEW f, NEW g, Then(<<f, g>>),
         FrameOK(f, Len(blocks)), Waits(f) = {}, FrameOK(g, Len(blocks)), Waits(g) = {},
         FollowOK(f, g), Top.at # "fun",
         Top.at \in Computing => g.at \in Computing,
         f.at \in Joining \/ ~Terminated(blocks', cur)
  PROVE  IInv'
<1> DEFINE fs == <<f, g>>
<1>1. fs \in Seq({f, g}) /\ Len(fs) = 2 /\ fs[1] = f /\ fs[2] = g
  OBVIOUS
<1>2. todo' = fs \o Tail(todo)
  BY DEF Then
<1> HIDE DEF fs
<1>3. /\ cur' = cur /\ cur \in 1..Len(blocks) /\ Len(blocks') = Len(blocks)
      /\ Len(blocks) \in Nat
  BY DEF Stays, Only, Id, IInv, BlocksOK
<1>4. cur' \in 1..Len(blocks') /\ Len(blocks') >= Len(blocks)
  BY <1>3
<1>5. /\ \A i \in 1..Len(fs) : i = 1 \/ i = 2
      /\ \A i \in 1..(Len(fs) - 1) : i = 1 /\ i + 1 = 2
      /\ Len(fs) # 0
  BY <1>1
<1>6. /\ \A i \in 1..Len(fs) : FrameOK(fs[i], Len(blocks')) /\ Waits(fs[i]) = {}
      /\ \A i \in 1..(Len(fs) - 1) : FollowOK(fs[i], fs[i + 1])
  BY <1>1, <1>3, <1>5
<1>7. /\ Top.at \in Computing => fs[Len(fs)].at \in Computing
      /\ fs[1].at \in Joining \/ ~Terminated(blocks', cur')
  BY <1>1, <1>3
<1>8. Replaces(fs)
  BY <1>2, <1>4, <1>5, <1>6, <1>7 DEF Replaces
<1>9. \A i \in 1..Len(fs) : Waits(fs[i]) = {}
  BY <1>6
<1> QED BY <1>1, <1>8, <1>9, StaysStep

\* A frame without any field of its own.
LEMMA PlainFrame ==
  ASSUME NEW n, NEW p, p \in (Emitting \cup Joining) \ {"then", "else", "body", "if", "while"}
  PROVE  FrameOK(Frame(p), n) /\ Waits(Frame(p)) = {} /\ Frame(p).at = p
BY DEF FrameOK, Waits, Frame, Emitting, Joining

\* A step that writes nothing stays.
LEMMA WritesNothing ==
  ASSUME IInv, todo # <<>>, UNCHANGED <<blocks, cur>>, Top.at \notin {"then", "else", "body"}
  PROVE  Stays
<1>1. Waits(Top) = {} /\ cur \in Id
  BY TopFacts
<1>2. blocks' = blocks /\ cur' = cur /\ BlocksOK(blocks)
  BY DEF IInv
<1> QED BY <1>1, <1>2 DEF Stays

\* A step that puts instructions into an open insert block, too.
LEMMA Writes ==
  ASSUME IInv, todo # <<>>, Top.at \notin {"then", "else", "body"}, ~Terminated(blocks, cur),
         NEW S, NEW ins \in Seq(S), Len(ins) > 0, EndsLast(ins), Last(ins) # <<"br">>,
         blocks' = Emit(blocks, cur, ins), cur' = cur
  PROVE  Stays /\ (Terminated(blocks', cur) <=> Last(ins) = <<"ret">>)
<1>1. Waits(Top) = {} /\ cur \in Id
  BY TopFacts
<1>2. BlocksOK(blocks) /\ cur \in 1..Len(blocks)
  BY <1>1 DEF IInv, Id
<1>3. /\ BlocksOK(blocks') /\ Only(blocks, blocks', cur)
      /\ Terminated(blocks', cur) <=> Last(ins) = <<"ret">>
  BY <1>2, EmitOK
<1> QED BY <1>1, <1>3 DEF Stays

-----------------------------------------------------------------------------
(* The actions, one by one.  First those that write nothing. *)

\* Entering a compound statement.
LEMMA EnterCompoundStep ==
  ASSUME IInv, EnterCompound PROVE IInv'
<1> DEFINE f == [at |-> "decls", exits |-> ~pre_enter_scope]
<1>1. todo # <<>> /\ Top.at = "compound" /\ Then(<<f>>) /\ UNCHANGED <<blocks, cur>>
  BY DEF EnterCompound, At
<1>2. FrameOK(f, Len(blocks)) /\ Waits(f) = {} /\ f.at = "decls"
  BY DEF FrameOK, Waits, Emitting, Joining
<1> HIDE DEF f
<1>3. ~Terminated(blocks, cur) /\ Stays
  BY <1>1, TopFacts, WritesNothing DEF Emitting
<1>4. ~Terminated(blocks', cur)
  BY <1>1, <1>3
<1>5. Top.at # "fun" /\ Top.at \notin Computing
  BY <1>1 DEF Computing
<1> QED BY <1>1, <1>2, <1>3, <1>4, <1>5, Stays1

\* Visiting the next statement of a list.
LEMMA NextStatementStep ==
  ASSUME IInv, NextStatement PROVE IInv'
<1> DEFINE g == [Top EXCEPT !.at = "list"]
           f == Frame("stmt")
<1>1. /\ todo # <<>> /\ Then(<<f, g>>) /\ UNCHANGED <<blocks, cur>>
      /\ Top.at \in {"decls", "list"}
  BY DEF NextStatement, At
<1>2. ~Terminated(blocks, cur)
  <2>1. CASE Top.at = "decls"
    BY <1>1, <2>1, TopFacts DEF Emitting
  <2>2. CASE Top.at = "list"
    BY <2>2 DEF NextStatement, At
  <2> QED BY <1>1, <2>1, <2>2
<1>3. FrameOK(Top, Len(blocks))
  BY <1>1, TopFacts
<1>4. "waiting" \notin DOMAIN Top /\ "at" \in DOMAIN Top
  BY <1>1, <1>3 DEF FrameOK
<1>5. DOMAIN g = DOMAIN Top /\ g.at = "list"
  BY <1>4
<1> HIDE DEF g
<1>6. FrameOK(g, Len(blocks)) /\ Waits(g) = {}
  BY <1>4, <1>5 DEF FrameOK, Waits, Joining
<1>7. FrameOK(f, Len(blocks)) /\ Waits(f) = {} /\ f.at = "stmt"
  BY PlainFrame DEF Emitting
<1> HIDE DEF f
<1>8. FollowOK(f, g) /\ Top.at # "fun" /\ Top.at \notin Computing
  BY <1>1, <1>5 DEF FollowOK, Joining, Computing
<1>9. Stays /\ ~Terminated(blocks', cur)
  BY <1>1, <1>2, WritesNothing
<1> QED BY <1>1, <1>6, <1>7, <1>8, <1>9, Stays2

\* The end of a list, reached or not.
LEMMA LeaveCompoundStep ==
  ASSUME IInv, LeaveCompound PROVE IInv'
<1>1. /\ todo # <<>> /\ Then(<<>>) /\ UNCHANGED <<blocks, cur>>
      /\ Top.at \in {"decls", "list"}
  BY DEF LeaveCompound, At
<1>2. Top.at # "fun" /\ Top.at \notin Computing /\ Stays
  BY <1>1, WritesNothing DEF Computing
<1> QED BY <1>1, <1>2, Stays0

\* A statement that is only another visit, or nothing.
LEMMA StatementStep ==
  ASSUME IInv, EmptyStatement \/ ExpressionStmt \/ CompoundStmt \/ ReturnStmt PROVE IInv'
<1>1. todo # <<>> /\ Top.at = "stmt" /\ UNCHANGED <<blocks, cur>>
  BY DEF EmptyStatement, ExpressionStmt, CompoundStmt, ReturnStmt, At
<1>2. ~Terminated(blocks, cur) /\ Stays /\ Top.at # "fun" /\ Top.at \notin Computing
  BY <1>1, TopFacts, WritesNothing DEF Emitting, Computing
<1>3. ~Terminated(blocks', cur)
  BY <1>1, <1>2
<1>4. CASE EmptyStatement
  BY <1>2, <1>4, Stays0 DEF EmptyStatement
<1>5. ASSUME NEW p \in {"expr", "compound"}, Then(<<Frame(p)>>) PROVE IInv'
  <2> DEFINE f == Frame(p)
  <2>1. FrameOK(f, Len(blocks)) /\ Waits(f) = {}
    BY PlainFrame DEF Emitting
  <2>2. Then(<<f>>)
    BY <1>5
  <2> HIDE DEF f
  <2> QED BY <1>2, <1>3, <2>1, <2>2, Stays1
<1>6. CASE ReturnStmt
  <2> DEFINE f == Frame("expr")
             g == Frame("return")
  <2>1. /\ FrameOK(f, Len(blocks)) /\ Waits(f) = {} /\ f.at = "expr"
        /\ FrameOK(g, Len(blocks)) /\ Waits(g) = {} /\ g.at = "return"
    BY PlainFrame DEF Emitting
  <2>2. Then(<<f, g>>)
    BY <1>6 DEF ReturnStmt
  <2> HIDE DEF f, g
  <2>3. FollowOK(f, g)
    BY <2>1 DEF FollowOK, Computing
  <2> QED BY <1>2, <1>3, <2>1, <2>2, <2>3, Stays2
<1> QED BY <1>4, <1>5, <1>6 DEF ExpressionStmt, CompoundStmt

\* `if`: the condition first.
LEMMA SelectionStep ==
  ASSUME IInv, SelectionStmt PROVE IInv'
<1>1. todo # <<>> /\ Top.at = "stmt" /\ UNCHANGED <<blocks, cur>>
  BY DEF SelectionStmt, At
<1>2. ~Terminated(blocks, cur) /\ Stays /\ Top.at # "fun" /\ Top.at \notin Computing
  BY <1>1, TopFacts, WritesNothing DEF Emitting, Computing
<1>3. ~Terminated(blocks', cur)
  BY <1>1, <1>2
<1>4. PICK arms \in {1, 2} : Then(<<Frame("expr"), [at |-> "if", arms |-> arms]>>)
  BY DEF SelectionStmt
<1> DEFINE f == Frame("expr")
           g == [at |-> "if", arms |-> arms]
<1>5. FrameOK(f, Len(blocks)) /\ Waits(f) = {} /\ f.at = "expr"
  BY PlainFrame DEF Emitting
<1>6. FrameOK(g, Len(blocks)) /\ Waits(g) = {} /\ g.at = "if"
  BY DEF FrameOK, Waits, Emitting
<1>7. Then(<<f, g>>)
  BY <1>4
<1> HIDE DEF f, g
<1>8. FollowOK(f, g)
  BY <1>5, <1>6 DEF FollowOK, Computing
<1> QED BY <1>2, <1>3, <1>5, <1>6, <1>7, <1>8, Stays2

\* An expression that writes nothing.
LEMMA ExpressionStep ==
  ASSUME IInv, Number \/ IndexedVar PROVE IInv'
<1>1. todo # <<>> /\ Top.at = "expr" /\ UNCHANGED <<blocks, cur>>
  BY DEF Number, IndexedVar, At
<1>2. ~Terminated(blocks, cur) /\ Stays /\ Top.at # "fun"
  BY <1>1, TopFacts, WritesNothing DEF Emitting
<1>3. ~Terminated(blocks', cur)
  BY <1>1, <1>2
<1>4. CASE Number
  BY <1>2, <1>3, <1>4, Stays0 DEF Number
<1>5. CASE IndexedVar
  <2>1. PICK n \in Names : Then(<<Frame("expr"), [at |-> "index", var |-> Find(n)]>>)
    BY <1>5 DEF IndexedVar
  <2> DEFINE f == Frame("expr")
             g == [at |-> "index", var |-> Find(n)]
  <2>2. FrameOK(f, Len(blocks)) /\ Waits(f) = {} /\ f.at = "expr"
    BY PlainFrame DEF Emitting
  <2>3. FrameOK(g, Len(blocks)) /\ Waits(g) = {} /\ g.at = "index"
    BY DEF FrameOK, Waits, Emitting
  <2>4. Then(<<f, g>>)
    BY <2>1
  <2> HIDE DEF f, g
  <2>5. FollowOK(f, g) /\ g.at \in Computing
    BY <2>2, <2>3 DEF FollowOK, Computing
  <2> QED BY <1>2, <1>3, <2>2, <2>3, <2>4, <2>5, Stays2
<1> QED BY <1>4, <1>5

-----------------------------------------------------------------------------
(* The actions that write to the insert block and leave it only by a return. *)

\* A declaration.  It may be followed by others.
LEMMA VarDeclarationStep ==
  ASSUME IInv, VarDeclaration PROVE IInv'
<1> DEFINE ins == <<<<"alloca">>>>
           S == {<<"alloca">>}
<1>1. /\ todo # <<>> /\ Top.at = "decls" /\ todo' = todo
      /\ blocks' = Emit(blocks, cur, ins) /\ cur' = cur
  BY DEF VarDeclaration, At
<1>2. /\ ins \in Seq(S) /\ Len(ins) = 1 /\ EndsLast(ins)
      /\ Last(ins) = <<"alloca">> /\ Last(ins) # <<"br">> /\ Last(ins) # <<"ret">>
  BY DEF EndsLast, Last
<1> HIDE DEF ins, S
<1>3. ~Terminated(blocks, cur) /\ FrameOK(Top, Len(blocks)) /\ Waits(Top) = {}
  BY <1>1, TopFacts DEF Emitting
<1>4. Stays /\ ~Terminated(blocks', cur)
  <2>1. Top.at \notin {"then", "else", "body"} /\ Len(ins) > 0
    BY <1>1, <1>2
  <2> QED BY <1>1, <1>2, <1>3, <2>1, Writes
<1>5. Then(<<Top>>)
  <2>1. todo \in Seq(ToSet(todo))
    BY DEF IInv, FramesInv
  <2>2. todo = <<Top>> \o Tail(todo)
    BY <1>1, <2>1 DEF Top
  <2> QED BY <1>1, <2>2 DEF Then
<1>6. Top.at # "fun" /\ Top.at \notin Computing
  BY <1>1 DEF Computing
<1> QED BY <1>3, <1>4, <1>5, <1>6, Stays1

\* A variable.
LEMMA VarStep ==
  ASSUME IInv, Var PROVE IInv'
<1>1. PICK n \in Names : blocks' = Emit(blocks, cur, <<<<"use", Find(n)>>>>)
  BY DEF Var
<1> DEFINE v == Find(n)
           ins == <<<<"use", v>>>>
           S == {<<"use", v>>}
<1>2. /\ todo # <<>> /\ Top.at = "expr" /\ Then(<<>>)
      /\ blocks' = Emit(blocks, cur, ins) /\ cur' = cur
  BY <1>1 DEF Var, At
<1> HIDE DEF v
<1>3. /\ ins \in Seq(S) /\ Len(ins) = 1 /\ EndsLast(ins)
      /\ Last(ins) = <<"use", v>> /\ Last(ins) # <<"br">> /\ Last(ins) # <<"ret">>
  BY DEF EndsLast, Last
<1> HIDE DEF ins, S
<1>4. Stays /\ ~Terminated(blocks', cur)
  <2>1. Top.at \notin {"then", "else", "body"} /\ Len(ins) > 0 /\ ~Terminated(blocks, cur)
    BY <1>2, <1>3, TopFacts DEF Emitting
  <2> QED BY <1>2, <1>3, <2>1, Writes
<1>5. Top.at # "fun"
  BY <1>2
<1> QED BY <1>2, <1>4, <1>5, Stays0

\* A return.
LEMMA ReturnStep ==
  ASSUME IInv, VoidReturn \/ EndReturn PROVE IInv'
<1> DEFINE ins == <<<<"ret">>>>
           S == {<<"ret">>}
<1>1. /\ todo # <<>> /\ Top.at \in {"stmt", "return"} /\ Then(<<>>)
      /\ blocks' = Emit(blocks, cur, ins) /\ cur' = cur
  BY DEF VoidReturn, EndReturn, At
<1>2. /\ ins \in Seq(S) /\ Len(ins) = 1 /\ EndsLast(ins)
      /\ Last(ins) = <<"ret">> /\ Last(ins) # <<"br">>
  BY DEF EndsLast, Last
<1> HIDE DEF ins, S
<1>3. Stays
  <2>1. Top.at \notin {"then", "else", "body"} /\ Len(ins) > 0 /\ ~Terminated(blocks, cur)
    BY <1>1, <1>2, TopFacts DEF Emitting
  <2> QED BY <1>1, <1>2, <2>1, Writes
<1>4. Top.at # "fun" /\ Top.at \notin Computing
  BY <1>1 DEF Computing
<1> QED BY <1>1, <1>3, <1>4, Stays0

\* The end of the function.
LEMMA EndFunctionStep ==
  ASSUME IInv, EndFunction PROVE IInv'
<1> DEFINE ins == <<<<"ret">>>>
           S == {<<"ret">>}
<1>1. /\ todo # <<>> /\ Top.at = "fun" /\ Then(<<>>)
      /\ blocks' = RetUnlessTerminated(blocks, cur) /\ cur' = cur
  BY DEF EndFunction, At
<1>2. /\ ins \in Seq(S) /\ Len(ins) = 1 /\ EndsLast(ins)
      /\ Last(ins) = <<"ret">> /\ Last(ins) # <<"br">>
  BY DEF EndsLast, Last
<1>3. Top.at \notin {"then", "else", "body"} /\ Top.at \notin Computing
  BY <1>1 DEF Computing
<1>4. Stays /\ Terminated(blocks', cur)
  <2>1. CASE Terminated(blocks, cur)
    BY <1>1, <1>3, <2>1, WritesNothing DEF RetUnlessTerminated
  <2>2. CASE ~Terminated(blocks, cur)
    <3>1. blocks' = Emit(blocks, cur, ins)
      BY <1>1, <2>2 DEF RetUnlessTerminated
    <3> HIDE DEF ins, S
    <3>2. Len(ins) > 0
      BY <1>2
    <3> QED BY <1>1, <1>2, <1>3, <2>2, <3>1, <3>2, Writes
  <2> QED BY <2>1, <2>2
<1> QED BY <1>1, <1>3, <1>4, Stays0

-----------------------------------------------------------------------------
(* The end of an arm or of a loop body: the insert block is closed with a    *)
(* branch, unless it is closed already, and one that waited is filled next.  *)

\* What the branch leaves.
LEMMA CloseFacts ==
  ASSUME IInv, todo # <<>>, NEW t \in 2..Len(blocks), blocks' = BrUnlessTerminated(blocks, cur, t)
  PROVE  /\ BlocksOK(blocks') /\ OrphanInv' /\ Terminated(blocks', cur)
         /\ Len(blocks') = Len(blocks) /\ Len(blocks) \in Nat
         /\ \A b \in Id : b # cur => blocks'[b].code = blocks[b].code
<1>1. cur \in 1..Len(blocks) /\ Len(blocks) \in Nat /\ BlocksOK(blocks)
  BY TopFacts DEF Id, IInv
<1>2. CASE Terminated(blocks, cur)
  BY <1>1, <1>2 DEF BrUnlessTerminated, IInv, OrphanInv
<1>3. CASE ~Terminated(blocks, cur)
  <2>1. blocks' = CreateBr(blocks, cur, t)
    BY <1>3 DEF BrUnlessTerminated
  <2>2. BlocksOK(blocks') /\ Only(blocks, blocks', cur) /\ Terminated(blocks', cur)
    BY <1>1, <1>3, <2>1, CreateBrOK
  <2>3. ASSUME NEW x \in 2..Len(blocks) PROVE Joins(blocks', x)
    <3>1. x \in 1..Len(blocks) /\ Joins(blocks, x)
      BY <1>1 DEF IInv, OrphanInv
    <3> QED BY <1>1, <1>3, <2>2, <3>1, JoinsKept
  <2>4. Len(blocks') = Len(blocks)
    BY <2>2 DEF Only
  <2>5. OrphanInv'
    BY <2>3, <2>4 DEF OrphanInv
  <2> QED BY <1>1, <2>2, <2>4, <2>5 DEF Only, Id
<1> QED BY <1>2, <1>3

\* The visit is over and the block that waited last comes next.
LEMMA JoinStep ==
  ASSUME IInv, todo # <<>>, NEW t \in 2..Len(blocks), blocks' = BrUnlessTerminated(blocks, cur, t),
         Then(<<>>), Waits(Top) = {cur'}, Top.at \in {"then", "else", "body"}
  PROVE  IInv'
<1> DEFINE fs == <<>>
<1>1. fs \in Seq({}) /\ Len(fs) = 0 /\ todo' = fs \o Tail(todo)
  BY DEF Then
<1> HIDE DEF fs
<1>2. /\ BlocksOK(blocks') /\ OrphanInv' /\ Terminated(blocks', cur)
      /\ Len(blocks') = Len(blocks) /\ Len(blocks) \in Nat
      /\ \A b \in Id : b # cur => blocks'[b].code = blocks[b].code
  BY CloseFacts
<1>3. AllWaits(fs) = {} /\ New = {}
  <2>1. \A i \in 1..Len(fs) : FALSE
    BY <1>1
  <2> QED BY <1>2, <2>1 DEF AllWaits, New
<1>4. Top.at # "fun" /\ Top.at \notin Computing
  BY DEF Computing
<1>5. cur' \in Id
  <2>1. Waits(Top) \subseteq Pending
    <3>1. 1 \in DOMAIN todo
      <4>1. todo \in Seq(ToSet(todo))
        BY DEF IInv, FramesInv
      <4> QED BY <4>1
    <3> QED BY <3>1 DEF Pending, Waiting, Waits, Top
  <2>2. ToSet(Top.waiting) = {cur'} /\ Top.waiting \in Seq(2..Len(blocks))
    <3>1. FrameOK(Top, Len(blocks))
      BY TopFacts
    <3> QED BY <3>1 DEF FrameOK, Waits
  <2>3. ToSet(Top.waiting) \subseteq 2..Len(blocks)
    <3> DEFINE A == 2..Len(blocks)
    <3>1. Top.waiting \in Seq(A)
      BY <2>2
    <3> HIDE DEF A
    <3>2. ToSet(Top.waiting) \subseteq A
      BY <3>1, SeqOver
    <3> QED BY <3>2 DEF A
  <2> QED BY <1>2, <2>2, <2>3 DEF Id
<1>6. Fills(fs)
  <2>1. \A i \in 1..Len(fs) : FALSE
    BY <1>1
  <2> QED BY <1>2, <1>3, <1>4, <2>1 DEF Fills
<1>7. Replaces(fs)
  <2>1. /\ \A i \in 1..Len(fs) : FALSE
        /\ \A i \in 1..(Len(fs) - 1) : FALSE
        /\ ~(Len(fs) > 0)
    BY <1>1
  <2>2. cur' \in 1..Len(blocks') /\ Len(blocks') >= Len(blocks)
    BY <1>2, <1>5 DEF Id
  <2> QED BY <1>1, <1>4, <2>1, <2>2 DEF Replaces
<1> QED BY <1>1, <1>2, <1>6, <1>7, VisitStep

\* The blocks an arm or a body waits with, by position.
LEMMA WaitFacts ==
  ASSUME IInv, todo # <<>>, Top.at \in {"then", "else", "body"}
  PROVE  LET w == Top.waiting
         IN  /\ w \in Seq(2..Len(blocks)) /\ Waits(Top) = ToSet(w)
             /\ Len(w) = 1 \/ Len(w) = 2
             /\ Len(w) = 1 => Head(w) = Last(w) /\ ToSet(w) = {Head(w)}
             /\ Len(w) = 2 => /\ Top.at = "then" /\ Head(w) # Last(w)
                              /\ ToSet(w) = {Head(w), Last(w)} /\ Tail(w) = <<Last(w)>>
             /\ Head(w) \in 2..Len(blocks) /\ Last(w) \in 2..Len(blocks)
             /\ Top.at = "body" => Top.expr \in 2..Len(blocks)
<1> DEFINE w == Top.waiting
           A == 2..Len(blocks)
<1>1. FrameOK(Top, Len(blocks))
  BY TopFacts
<1>2. w \in Seq(A) /\ Waits(Top) = ToSet(w)
  BY <1>1 DEF FrameOK, Waits
<1>3. Len(w) = 1 \/ (Len(w) = 2 /\ Top.at = "then" /\ w[1] # w[2])
  BY <1>1 DEF FrameOK
<1>4. Top.at = "body" => Top.expr \in A
  BY <1>1 DEF FrameOK
<1> HIDE DEF A, w
<1>5. /\ Len(w) \in Nat /\ DOMAIN w = 1..Len(w) /\ (Len(w) > 0 => Head(w) = w[1])
      /\ Last(w) = w[Len(w)]
  BY <1>2 DEF Last
<1>6. CASE Len(w) = 1
  <2>1. Head(w) = w[1] /\ Last(w) = w[1] /\ DOMAIN w = {1}
    BY <1>5, <1>6
  <2>2. w[1] \in A
    BY <1>2, <1>6, InSeq
  <2>3. ToSet(w) = {w[1]}
    BY <2>1 DEF ToSet
  <2>4. Len(w) # 2
    BY <1>6
  <2> QED BY <1>2, <1>4, <1>6, <2>1, <2>2, <2>3, <2>4 DEF A, w
<1>7. CASE Len(w) = 2 /\ Top.at = "then" /\ w[1] # w[2]
  <2>1. Head(w) = w[1] /\ Last(w) = w[2] /\ DOMAIN w = {1, 2}
    BY <1>5, <1>7
  <2>2. w[1] \in A /\ w[2] \in A
    <3>1. 1 \in 1..Len(w) /\ 2 \in 1..Len(w)
      BY <1>7
    <3> QED BY <1>2, <3>1, InSeq
  <2>3. ToSet(w) = {w[1], w[2]}
    BY <2>1 DEF ToSet
  <2>4. Tail(w) = <<w[2]>>
    <3>1. /\ Tail(w) \in Seq(A) /\ Len(Tail(w)) = 1 /\ Tail(w)[1] = w[2]
      BY <1>2, <1>7
    <3> DEFINE tl == Tail(w)
               x == w[2]
    <3>2. tl \in Seq(A) /\ Len(tl) = 1 /\ tl[1] = x
      BY <3>1
    <3> HIDE DEF tl, x
    <3>3. tl = [i \in 1..1 |-> tl[i]]
      BY <3>2
    <3>4. <<x>> = [i \in 1..1 |-> x]
      OBVIOUS
    <3>5. \A i \in 1..1 : tl[i] = x
      BY <3>2
    <3>6. tl = <<x>>
      BY <3>3, <3>4, <3>5
    <3> QED BY <3>6 DEF tl, x
  <2>5. Len(w) # 1
    BY <1>7
  <2> QED BY <1>2, <1>4, <1>7, <2>1, <2>2, <2>3, <2>4, <2>5 DEF A, w
<1> QED BY <1>3, <1>6, <1>7

\* The end of the second arm.
LEMMA EndElseStep ==
  ASSUME IInv, EndElse PROVE IInv'
<1>1. /\ todo # <<>> /\ Top.at = "else" /\ Then(<<>>)
      /\ blocks' = BrUnlessTerminated(blocks, cur, Last(Top.waiting))
      /\ cur' = Last(Top.waiting)
  BY DEF EndElse, At
<1>2. Waits(Top) = {cur'} /\ Last(Top.waiting) \in 2..Len(blocks)
  BY <1>1, WaitFacts
<1> QED BY <1>1, <1>2, JoinStep

\* The end of a loop's body.
LEMMA EndBodyStep ==
  ASSUME IInv, EndBody PROVE IInv'
<1>1. /\ todo # <<>> /\ Top.at = "body" /\ Then(<<>>)
      /\ blocks' = BrUnlessTerminated(blocks, cur, Top.expr)
      /\ cur' = Head(Top.waiting)
  BY DEF EndBody, At
<1>2. Waits(Top) = {cur'} /\ Top.expr \in 2..Len(blocks)
  BY <1>1, WaitFacts
<1> QED BY <1>1, <1>2, JoinStep

\* The end of the first arm, with a second arm to come or without.
LEMMA EndThenStep ==
  ASSUME IInv, EndThen PROVE IInv'
<1> DEFINE w == Top.waiting
<1>1. /\ todo # <<>> /\ Top.at = "then" /\ cur' = Head(w)
      /\ blocks' = BrUnlessTerminated(blocks, cur, Last(w))
      /\ Then(IF Len(w) = 2
              THEN <<Frame("stmt"), [at |-> "else", waiting |-> Tail(w)]>>
              ELSE <<>>)
  BY DEF EndThen, At
<1>2. /\ Waits(Top) = ToSet(w)
      /\ Len(w) = 1 \/ Len(w) = 2
      /\ Len(w) = 1 => Head(w) = Last(w) /\ ToSet(w) = {Head(w)}
      /\ Len(w) = 2 => /\ Head(w) # Last(w)
                       /\ ToSet(w) = {Head(w), Last(w)} /\ Tail(w) = <<Last(w)>>
      /\ Head(w) \in 2..Len(blocks) /\ Last(w) \in 2..Len(blocks)
  BY <1>1, WaitFacts
<1> HIDE DEF w
<1>3. CASE Len(w) = 1
  <2>1. Len(w) # 2
    BY <1>3
  <2>2. Then(<<>>) /\ Waits(Top) = {cur'}
    BY <1>1, <1>2, <1>3, <2>1
  <2>3. Last(w) \in 2..Len(blocks) /\ Top.at \in {"then", "else", "body"}
    BY <1>1, <1>2
  <2> QED BY <1>1, <2>2, <2>3, JoinStep
<1>4. CASE Len(w) = 2
  <2> DEFINE head == Head(w)
             last == Last(w)
             g == [at |-> "else", waiting |-> <<last>>]
             f == Frame("stmt")
             fs == <<f, g>>
  <2>1. /\ Waits(Top) = {head, last} /\ head # last /\ cur' = head
        /\ head \in 2..Len(blocks) /\ last \in 2..Len(blocks)
        /\ Then(fs) /\ blocks' = BrUnlessTerminated(blocks, cur, last)
    BY <1>1, <1>2, <1>4
  <2> HIDE DEF head, last
  <2>2. /\ BlocksOK(blocks') /\ OrphanInv' /\ Terminated(blocks', cur)
        /\ Len(blocks') = Len(blocks) /\ Len(blocks) \in Nat
        /\ \A b \in Id : b # cur => blocks'[b].code = blocks[b].code
    BY <1>1, <2>1, CloseFacts
  <2>3. FrameOK(f, Len(blocks')) /\ Waits(f) = {} /\ f.at = "stmt"
    BY PlainFrame DEF Emitting
  <2>4. FrameOK(g, Len(blocks')) /\ Waits(g) = {last} /\ g.at = "else"
    <3>1. <<last>> \in Seq(2..Len(blocks)) /\ Len(<<last>>) = 1 /\ ToSet(<<last>>) = {last}
      BY <2>1 DEF ToSet
    <3>2. DOMAIN g = {"at", "waiting"} /\ g.at = "else" /\ g.waiting = <<last>>
      OBVIOUS
    <3> HIDE DEF g
    <3> QED BY <2>2, <3>1, <3>2 DEF FrameOK, Waits, Joining
  <2>5. fs \in Seq({f, g}) /\ Len(fs) = 2 /\ fs[1] = f /\ fs[2] = g /\ todo' = fs \o Tail(todo)
    BY <2>1 DEF Then
  <2> HIDE DEF fs, f, g
  <2>6. /\ \A i \in 1..Len(fs) : i = 1 \/ i = 2
        /\ \A i \in 1..(Len(fs) - 1) : i = 1 /\ i + 1 = 2
        /\ 1 \in 1..Len(fs) /\ 2 \in 1..Len(fs)
    BY <2>5
  <2>7. AllWaits(fs) = {last} /\ New = {}
    <3>1. AllWaits(fs) = Waits(f) \cup Waits(g)
      BY <2>5, <2>6 DEF AllWaits
    <3> QED BY <2>2, <2>3, <2>4, <3>1 DEF New
  <2>8. Top.at # "fun" /\ Top.at \notin Computing
    BY <1>1 DEF Computing
  <2>9. ~Terminated(blocks', head) /\ head \in Id /\ head # cur
    <3>1. head \in Id
      BY <2>1, <2>2 DEF Id
    <3>2. head \in Pending
      <4>1. 1 \in DOMAIN todo
        <5>1. todo \in Seq(ToSet(todo))
          BY DEF IInv, FramesInv
        <5> QED BY <1>1, <5>1
      <4>2. Waits(Top) \subseteq Pending
        BY <4>1 DEF Pending, Waiting, Waits, Top
      <4> QED BY <2>1, <4>2
    <3>3. blocks[head].code = <<>> /\ head # cur
      BY <3>2 DEF IInv, NoBlockLost
    <3> QED BY <2>2, <3>1, <3>3 DEF Terminated
  <2>10. Fills(fs)
    <3>1. \A i, j \in 1..Len(fs) : i # j => Waits(fs[i]) \cap Waits(fs[j]) = {}
      BY <2>3, <2>5, <2>6
    <3> QED BY <2>1, <2>2, <2>7, <2>8, <3>1 DEF Fills
  <2>11. Replaces(fs)
    <3>1. cur' \in 1..Len(blocks') /\ Len(blocks') >= Len(blocks)
      BY <2>1, <2>2, <2>9 DEF Id
    <3>2. \A i \in 1..Len(fs) : FrameOK(fs[i], Len(blocks'))
      BY <2>3, <2>4, <2>5, <2>6
    <3>3. \A i \in 1..(Len(fs) - 1) : FollowOK(fs[i], fs[i + 1])
      <4>1. FollowOK(f, g)
        BY <2>4 DEF FollowOK, Joining
      <4> QED BY <2>5, <2>6, <4>1
    <3>4. Len(fs) # 0 /\ ~Terminated(blocks', cur')
      BY <2>1, <2>5, <2>9
    <3> QED BY <2>5, <2>8, <3>1, <3>2, <3>3, <3>4 DEF Replaces
  <2> QED BY <1>1, <2>2, <2>5, <2>10, <2>11, VisitStep
<1> QED BY <1>2, <1>3, <1>4

-----------------------------------------------------------------------------
(* The actions that create blocks. *)

\* A conditional branch from the insert block to two of k new blocks.
LEMMA Fork ==
  ASSUME IInv, NEW b \in Id, ~Terminated(blocks, b), NEW k \in Nat,
         NEW t \in (Len(blocks) + 1)..(Len(blocks) + k),
         NEW f \in (Len(blocks) + 1)..(Len(blocks) + k), t # f
  PROVE  LET new == CreateCondBr(Create(blocks, k), b, t, f)
         IN  /\ BlocksOK(new) /\ Len(new) = Len(blocks) + k /\ Len(blocks) \in Nat
             /\ Terminated(new, b) /\ new[b].succ = <<f, t>>
             /\ \A c \in Id : c # b => new[c].code = blocks[c].code
             /\ \A c \in (Len(blocks) + 1)..(Len(blocks) + k) :
                  new[c].code = <<>> /\ ~Terminated(new, c)
             /\ \A x \in 2..Len(blocks) : Joins(new, x)
             /\ new[t].pre # <<>> /\ new[f].pre # <<>>
<1> DEFINE bs == Create(blocks, k)
           new == CreateCondBr(bs, b, t, f)
           L == Len(blocks)
<1>1. BlocksOK(blocks) /\ L \in Nat /\ b \in 1..L
  BY DEF IInv, BlocksOK, Id
<1>2. /\ BlocksOK(bs) /\ Len(bs) = L + k
      /\ \A c \in 1..L : bs[c] = blocks[c]
      /\ \A c \in (L + 1)..(L + k) : bs[c] = EmptyBlock
  BY <1>1, CreateOK
<1>3. ~Terminated(bs, b)
  BY <1>1, <1>2 DEF Terminated
<1>4. \A x \in 2..L : Joins(bs, x)
  <2>1. \A x \in 2..L : x \in 1..L /\ Joins(blocks, x)
    BY <1>1 DEF IInv, OrphanInv
  <2> QED BY <1>1, <2>1, CreateJoins
<1> HIDE DEF bs, L
<1>5. b \in 1..Len(bs) /\ t \in 2..Len(bs) /\ f \in 2..Len(bs)
  BY <1>1, <1>2 DEF L
<1>6. /\ BlocksOK(new) /\ Only(bs, new, b) /\ Terminated(new, b)
      /\ new[b].succ = <<f, t>> /\ new[t].pre # <<>> /\ new[f].pre # <<>>
  BY <1>2, <1>3, <1>5, CreateCondBrOK
<1> HIDE DEF new
<1>7. /\ Len(new) = Len(bs)
      /\ \A c \in 1..Len(bs) : c # b => new[c].code = bs[c].code
  BY <1>6 DEF Only
<1>8. \A c \in 1..L : c # b => new[c].code = blocks[c].code
  BY <1>1, <1>2, <1>7
<1>9. \A c \in (L + 1)..(L + k) : new[c].code = <<>> /\ ~Terminated(new, c)
  <2>1. ASSUME NEW c \in (L + 1)..(L + k) PROVE new[c].code = <<>>
    <3>1. c # b /\ c \in 1..Len(bs)
      BY <1>1, <1>2
    <3> QED BY <1>2, <1>7, <3>1 DEF EmptyBlock
  <2> QED BY <2>1 DEF Terminated
<1>10. \A x \in 2..L : Joins(new, x)
  <2>1. ASSUME NEW x \in 2..L PROVE Joins(new, x)
    <3>1. x \in 1..Len(bs) /\ Joins(bs, x)
      BY <1>1, <1>2, <1>4
    <3> QED BY <1>2, <1>3, <1>5, <1>6, <3>1, JoinsKept
  <2> QED BY <2>1
<1> QED BY <1>1, <1>2, <1>6, <1>7, <1>8, <1>9, <1>10 DEF new, bs, L, Id

\* What the two steps that fork have in common: a statement is visited next,
\* in the first of the new blocks, and the others wait.
LEMMA ForkStep ==
  ASSUME IInv, todo # <<>>, Top.at \in {"if", "while"}, NEW k \in {2, 3}, NEW g,
         NEW f \in (Len(blocks) + 2)..(Len(blocks) + k),
         blocks' = CreateCondBr(Create(blocks, k), cur, Len(blocks) + 1, f),
         cur' = Len(blocks) + 1, Then(<<Frame("stmt"), g>>),
         FrameOK(g, Len(blocks) + k), g.at \in Joining,
         Waits(g) = (Len(blocks) + 2)..(Len(blocks) + k),
         k = 3 => f = Len(blocks) + 3
  PROVE  IInv'
<1> DEFINE L == Len(blocks)
           t == L + 1
           st == Frame("stmt")
           fs == <<st, g>>
<1>1. /\ ~Terminated(blocks, cur) /\ cur \in Id /\ L \in Nat /\ Waits(Top) = {}
      /\ Top.at # "fun" /\ Top.at \notin Computing
  <2>1. Top.at # "fun" /\ Top.at \notin Computing
    BY DEF Computing
  <2> QED BY <2>1, TopFacts DEF Emitting
<1>2. t \in (L + 1)..(L + k) /\ f \in (L + 1)..(L + k) /\ t # f /\ k \in Nat
  BY <1>1
<1> DEFINE new == CreateCondBr(Create(blocks, k), cur, t, f)
<1>3. /\ BlocksOK(blocks') /\ Len(blocks') = L + k
      /\ Terminated(blocks', cur) /\ blocks'[cur].succ = <<f, t>>
      /\ \A c \in Id : c # cur => blocks'[c].code = blocks[c].code
      /\ \A c \in (L + 1)..(L + k) : blocks'[c].code = <<>> /\ ~Terminated(blocks', c)
      /\ \A x \in 2..L : Joins(blocks', x)
      /\ blocks'[t].pre # <<>> /\ blocks'[f].pre # <<>>
  <2>1. /\ BlocksOK(new) /\ Len(new) = L + k
        /\ Terminated(new, cur) /\ new[cur].succ = <<f, t>>
        /\ \A c \in Id : c # cur => new[c].code = blocks[c].code
        /\ \A c \in (L + 1)..(L + k) : new[c].code = <<>> /\ ~Terminated(new, c)
        /\ \A x \in 2..L : Joins(new, x)
        /\ new[t].pre # <<>> /\ new[f].pre # <<>>
    BY ONLY IInv, <1>1, <1>2, Fork, SMTT(20)
  <2>2. blocks' = new
    OBVIOUS
  <2> HIDE DEF new
  <2> QED BY <2>1, <2>2
<1>4. OrphanInv'
  <2>1. ASSUME NEW x \in 2..(L + k) PROVE Joins(blocks', x)
    <3>1. CASE x \in 2..L
      BY <1>3, <3>1
    <3>2. CASE x = t \/ x = f
      BY <1>3, <3>2 DEF Joins
    <3>3. CASE x \notin 2..L /\ x # t /\ x # f
      <4>1. k = 3 /\ x = L + 2 /\ f = x + 1 /\ t = x - 1
        BY <1>1, <1>2, <3>3
      <4>2. cur \in 1..Len(blocks')
        BY <1>1, <1>3 DEF Id
      <4> QED BY <1>3, <4>1, <4>2 DEF Joins
    <3> QED BY <3>1, <3>2, <3>3
  <2> QED BY <1>3, <2>1 DEF OrphanInv
<1>5. FrameOK(st, Len(blocks')) /\ Waits(st) = {} /\ st.at = "stmt"
  BY PlainFrame DEF Emitting
<1>6. fs \in Seq({st, g}) /\ Len(fs) = 2 /\ fs[1] = st /\ fs[2] = g /\ todo' = fs \o Tail(todo)
  BY DEF Then
<1> HIDE DEF fs, st
<1>7. /\ \A i \in 1..Len(fs) : i = 1 \/ i = 2
      /\ \A i \in 1..(Len(fs) - 1) : i = 1 /\ i + 1 = 2
      /\ 1 \in 1..Len(fs) /\ 2 \in 1..Len(fs)
  BY <1>6
<1>8. AllWaits(fs) = (L + 2)..(L + k) /\ New = (L + 1)..(L + k)
  <2>1. AllWaits(fs) = Waits(st) \cup Waits(g)
    BY <1>6, <1>7 DEF AllWaits
  <2> QED BY <1>3, <1>5, <2>1 DEF New
<1>9. Fills(fs)
  <2>1. \A i, j \in 1..Len(fs) : i # j => Waits(fs[i]) \cap Waits(fs[j]) = {}
    BY <1>5, <1>6, <1>7
  <2>2. cur' \in New /\ cur' \notin AllWaits(fs) /\ AllWaits(fs) \subseteq New
    BY <1>1, <1>8
  <2>3. \A c \in New : c \in AllWaits(fs) \cup {cur'}
    BY <1>1, <1>8
  <2> QED BY <1>1, <1>3, <1>8, <2>1, <2>2, <2>3 DEF Fills
<1>10. Replaces(fs)
  <2>1. cur' \in 1..Len(blocks') /\ Len(blocks') >= Len(blocks)
    BY <1>1, <1>2, <1>3
  <2>2. \A i \in 1..Len(fs) : FrameOK(fs[i], Len(blocks'))
    BY <1>3, <1>5, <1>6, <1>7
  <2>3. \A i \in 1..(Len(fs) - 1) : FollowOK(fs[i], fs[i + 1])
    <3>1. FollowOK(st, g)
      BY DEF FollowOK
    <3> QED BY <1>6, <1>7, <3>1
  <2>4. Len(fs) # 0 /\ ~Terminated(blocks', cur')
    BY <1>2, <1>3, <1>6
  <2> QED BY <1>1, <1>6, <2>1, <2>2, <2>3, <2>4 DEF Replaces
<1> QED BY <1>3, <1>4, <1>6, <1>9, <1>10, VisitStep

\* `if`, after its condition.
LEMMA BranchStep ==
  ASSUME IInv, Branch PROVE IInv'
<1> DEFINE L == Len(blocks)
           w == IF Top.arms = 2 THEN <<L + 3, L + 2>> ELSE <<L + 2>>
           f == IF Top.arms = 2 THEN L + 3 ELSE L + 2
           k == Top.arms + 1
           g == [at |-> "then", waiting |-> w]
<1>1. /\ todo # <<>> /\ Top.at = "if" /\ cur' = L + 1 /\ Then(<<Frame("stmt"), g>>)
      /\ blocks' = CreateCondBr(Create(blocks, k), cur, L + 1, f)
  BY DEF Branch, At
<1>2. Top.arms \in {1, 2} /\ L \in Nat
  BY <1>1, TopFacts DEF FrameOK
<1>3. /\ k \in {2, 3} /\ f \in (L + 2)..(L + k) /\ (k = 3 => f = L + 3)
  BY <1>2
<1>4. /\ w \in Seq(2..(L + k)) /\ ToSet(w) = (L + 2)..(L + k)
      /\ Len(w) = 1 \/ (Len(w) = 2 /\ w[1] # w[2])
  <2>1. CASE Top.arms = 1
    <3>1. w = <<L + 2>> /\ k = 2
      BY <2>1
    <3>2. ToSet(<<L + 2>>) = {L + 2} /\ (L + 2)..(L + 2) = {L + 2}
      BY <1>2 DEF ToSet
    <3>3. <<L + 2>> \in Seq(2..(L + 2)) /\ Len(<<L + 2>>) = 1
      BY <1>2
    <3> HIDE DEF w, k
    <3> QED BY <3>1, <3>2, <3>3
  <2>2. CASE Top.arms = 2
    <3>1. w = <<L + 3, L + 2>> /\ k = 3
      BY <2>2
    <3>2. ToSet(<<L + 3, L + 2>>) = {L + 3, L + 2} /\ (L + 2)..(L + 3) = {L + 3, L + 2}
      BY <1>2 DEF ToSet
    <3>3. <<L + 3, L + 2>> \in Seq(2..(L + 3)) /\ Len(<<L + 3, L + 2>>) = 2 /\ L + 3 # L + 2
      BY <1>2
    <3> HIDE DEF w, k
    <3> QED BY <3>1, <3>2, <3>3
  <2> QED BY <1>2, <2>1, <2>2
<1> HIDE DEF w, f, k
<1>5. DOMAIN g = {"at", "waiting"} /\ g.at = "then" /\ g.waiting = w
  OBVIOUS
<1> HIDE DEF g
<1>6. FrameOK(g, L + k) /\ Waits(g) = (L + 2)..(L + k) /\ g.at \in Joining
  BY <1>4, <1>5 DEF FrameOK, Waits, Joining
<1>7. Top.at \in {"if", "while"}
  BY <1>1
<1> QED BY <1>1, <1>3, <1>6, <1>7, ForkStep

\* A loop, after its condition.
LEMMA LoopBranchStep ==
  ASSUME IInv, LoopBranch PROVE IInv'
<1> DEFINE L == Len(blocks)
           w == <<L + 2>>
           g == [at |-> "body", expr |-> Top.expr, waiting |-> w]
<1>1. /\ todo # <<>> /\ Top.at = "while" /\ cur' = L + 1 /\ Then(<<Frame("stmt"), g>>)
      /\ blocks' = CreateCondBr(Create(blocks, 2), cur, L + 1, L + 2)
  BY DEF LoopBranch, At
<1>2. Top.expr \in 2..L /\ L \in Nat
  BY <1>1, TopFacts DEF FrameOK
<1>3. /\ w \in Seq(2..(L + 2)) /\ ToSet(w) = (L + 2)..(L + 2) /\ Len(w) = 1
      /\ L + 2 \in (L + 2)..(L + 2) /\ Top.expr \in 2..(L + 2)
  <2>1. ToSet(w) = {L + 2} /\ (L + 2)..(L + 2) = {L + 2}
    BY <1>2 DEF ToSet
  <2>2. w \in Seq(2..(L + 2)) /\ Len(w) = 1 /\ Top.expr \in 2..(L + 2)
    BY <1>2
  <2> QED BY <2>1, <2>2
<1> HIDE DEF w
<1>4. /\ DOMAIN g = {"at", "expr", "waiting"} /\ g.at = "body" /\ g.waiting = w
      /\ g.expr = Top.expr
  OBVIOUS
<1> HIDE DEF g
<1>5. FrameOK(g, L + 2) /\ Waits(g) = (L + 2)..(L + 2) /\ g.at \in Joining
  BY <1>3, <1>4 DEF FrameOK, Waits, Joining
<1>6. Top.at \in {"if", "while"} /\ 2 \in {2, 3} /\ 2 # 3
  BY <1>1
<1> DEFINE k == 2
           f == L + 2
<1>7. /\ k \in {2, 3} /\ f \in (L + 2)..(L + k) /\ k # 3
      /\ blocks' = CreateCondBr(Create(blocks, k), cur, L + 1, f)
      /\ FrameOK(g, L + k) /\ Waits(g) = (L + 2)..(L + k)
  BY <1>1, <1>3, <1>5, <1>6
<1> HIDE DEF k, f
<1> QED BY <1>1, <1>5, <1>6, <1>7, ForkStep

\* A loop: its condition gets a block of its own, which the insert block enters.
LEMMA IterationStep ==
  ASSUME IInv, IterationStmt PROVE IInv'
<1> DEFINE L == Len(blocks)
           bs == Create(blocks, 1)
           t == L + 1
           f == Frame("expr")
           g == [at |-> "while", expr |-> t]
           fs == <<f, g>>
<1>1. /\ todo # <<>> /\ Top.at = "stmt" /\ cur' = t /\ Then(fs)
      /\ blocks' = BrUnlessTerminated(bs, cur, t)
  BY DEF IterationStmt, At
<1>2. /\ BlocksOK(blocks) /\ ~Terminated(blocks, cur) /\ cur \in 1..L /\ L \in Nat
      /\ Waits(Top) = {} /\ Top.at # "fun" /\ Top.at \notin Computing
  <2>1. Top.at # "fun" /\ Top.at \notin Computing
    BY <1>1 DEF Computing
  <2> QED BY <1>1, <2>1, TopFacts DEF Emitting, Id, IInv
<1>3. /\ BlocksOK(bs) /\ Len(bs) = L + 1
      /\ \A c \in 1..L : bs[c] = blocks[c]
      /\ \A c \in (L + 1)..(L + 1) : bs[c] = EmptyBlock
  <2> DEFINE k == 1
             one == Create(blocks, k)
  <2>1. k \in Nat /\ BlocksOK(blocks)
    BY <1>2
  <2> HIDE DEF k
  <2>2. /\ BlocksOK(one) /\ Len(one) = L + k
        /\ \A c \in 1..L : one[c] = blocks[c]
        /\ \A c \in (L + 1)..(L + k) : one[c] = EmptyBlock
    BY ONLY <2>1, CreateOK
  <2> QED BY <2>2 DEF k
<1>4. bs[t].code = <<>>
  BY <1>2, <1>3 DEF EmptyBlock
<1>5. ~Terminated(bs, cur) /\ blocks' = CreateBr(bs, cur, t)
  <2>1. ~Terminated(bs, cur)
    BY <1>2, <1>3 DEF Terminated
  <2> QED BY <1>1, <2>1 DEF BrUnlessTerminated
<1>6. \A x \in 2..L : Joins(bs, x)
  <2>1. \A x \in 2..L : x \in 1..L /\ Joins(blocks, x)
    BY <1>2 DEF IInv, OrphanInv
  <2> QED BY <1>2, <2>1, CreateJoins
<1> HIDE DEF bs, L
<1>7. cur \in 1..Len(bs) /\ t \in 2..Len(bs) /\ t # cur /\ t \in Nat
  BY <1>2, <1>3
<1>8. /\ BlocksOK(blocks') /\ Only(bs, blocks', cur) /\ Terminated(blocks', cur)
      /\ blocks'[t].pre # <<>>
  BY <1>3, <1>5, <1>7, CreateBrOK
<1>9. /\ Len(blocks') = L + 1
      /\ \A c \in Id : c # cur => blocks'[c].code = blocks[c].code
      /\ blocks'[t].code = <<>>
  BY <1>2, <1>3, <1>4, <1>7, <1>8 DEF Only, Id, L
<1>10. OrphanInv'
  <2>1. ASSUME NEW x \in 2..(L + 1) PROVE Joins(blocks', x)
    <3>1. CASE x = t
      BY <1>8, <3>1 DEF Joins
    <3>2. CASE x # t
      <4>1. x \in 2..L /\ x \in 1..Len(bs)
        BY <1>2, <1>3, <3>2
      <4>2. Joins(bs, x)
        BY <1>6, <4>1
      <4> QED BY <1>3, <1>5, <1>7, <1>8, <4>1, <4>2, JoinsKept
    <3> QED BY <3>1, <3>2
  <2> QED BY <1>9, <2>1 DEF OrphanInv
<1>11. FrameOK(f, Len(blocks')) /\ Waits(f) = {} /\ f.at = "expr"
  BY PlainFrame DEF Emitting
<1>12. FrameOK(g, Len(blocks')) /\ Waits(g) = {} /\ g.at = "while"
  <2>1. DOMAIN g = {"at", "expr"} /\ g.at = "while" /\ g.expr = t
    OBVIOUS
  <2> HIDE DEF g
  <2>2. t \in 2..Len(blocks')
    BY <1>3, <1>7, <1>9
  <2> QED BY <2>1, <2>2 DEF FrameOK, Waits, Emitting
<1>13. fs \in Seq({f, g}) /\ Len(fs) = 2 /\ fs[1] = f /\ fs[2] = g /\ todo' = fs \o Tail(todo)
  BY <1>1 DEF Then
<1> HIDE DEF fs, f, g
<1>14. /\ \A i \in 1..Len(fs) : i = 1 \/ i = 2
       /\ \A i \in 1..(Len(fs) - 1) : i = 1 /\ i + 1 = 2
       /\ 1 \in 1..Len(fs) /\ 2 \in 1..Len(fs)
  BY <1>13
<1>15. AllWaits(fs) = {} /\ New = {t}
  <2>1. AllWaits(fs) = Waits(f) \cup Waits(g)
    BY <1>13, <1>14 DEF AllWaits
  <2>2. New = {t}
    BY <1>2, <1>9 DEF New, L
  <2> QED BY <1>11, <1>12, <2>1, <2>2
<1>16. Fills(fs)
  <2>1. \A i, j \in 1..Len(fs) : i # j => Waits(fs[i]) \cap Waits(fs[j]) = {}
    BY <1>11, <1>13, <1>14
  <2> QED BY <1>1, <1>2, <1>8, <1>9, <1>15, <2>1 DEF Fills
<1>17. Replaces(fs)
  <2>1. cur' \in 1..Len(blocks') /\ Len(blocks') >= Len(blocks)
    BY <1>1, <1>2, <1>3, <1>7, <1>9 DEF L
  <2>2. \A i \in 1..Len(fs) : FrameOK(fs[i], Len(blocks'))
    BY <1>11, <1>12, <1>13, <1>14
  <2>3. \A i \in 1..(Len(fs) - 1) : FollowOK(fs[i], fs[i + 1])
    <3>1. FollowOK(f, g)
      BY <1>11, <1>12 DEF FollowOK, Computing
    <3> QED BY <1>13, <1>14, <3>1
  <2>4. Len(fs) # 0 /\ ~Terminated(blocks', cur')
    BY <1>1, <1>9, <1>13 DEF Terminated
  <2> QED BY <1>2, <1>13, <2>1, <2>2, <2>3, <2>4 DEF Replaces
<1> QED BY <1>1, <1>8, <1>10, <1>13, <1>16, <1>17, VisitStep

\* An index: the block for a negative one calls and returns, the other uses
\* the variable and is filled further.
LEMMA CheckIndexStep ==
  ASSUME IInv, CheckIndex PROVE IInv'
<1> DEFINE L == Len(blocks)
           v == Find("neg_idx_except")
           t == L + 1
           f == L + 2
           call == <<<<"call", v>>, <<"ret">>>>
           use == <<<<"use", Top.var>>>>
           split == CreateCondBr(Create(blocks, 2), cur, t, f)
           one == Emit(split, t, call)
           fs == <<>>
<1>1. /\ todo # <<>> /\ Top.at = "index" /\ cur' = f /\ Then(fs)
      /\ blocks' = Emit(one, f, use)
  BY DEF CheckIndex, At
<1>2. /\ ~Terminated(blocks, cur) /\ cur \in Id /\ L \in Nat /\ Waits(Top) = {} /\ cur # 0
      /\ Top.at # "fun"
  <2>1. Top.at # "fun"
    BY <1>1
  <2> QED BY <1>1, <2>1, TopFacts DEF Emitting
<1>3. /\ BlocksOK(split) /\ Len(split) = L + 2
      /\ Terminated(split, cur)
      /\ \A c \in Id : c # cur => split[c].code = blocks[c].code
      /\ \A c \in (L + 1)..(L + 2) : split[c].code = <<>> /\ ~Terminated(split, c)
      /\ \A x \in 2..L : Joins(split, x)
      /\ split[t].pre # <<>> /\ split[f].pre # <<>>
  <2> DEFINE k == 2
  <2>1. k \in Nat /\ t \in (L + 1)..(L + k) /\ f \in (L + 1)..(L + k) /\ t # f
    BY <1>2
  <2> QED BY <1>2, <2>1, Fork
<1>4. /\ call \in Seq({<<"call", v>>, <<"ret">>}) /\ Len(call) > 0 /\ EndsLast(call)
      /\ Last(call) = <<"ret">> /\ Last(call) # <<"br">>
  <2> HIDE DEF v
  <2>1. <<"call", v>> \notin Ends
    BY DEF Ends
  <2>2. Len(call) = 2 /\ call[1] = <<"call", v>> /\ call[2] = <<"ret">>
    OBVIOUS
  <2>3. EndsLast(call)
    BY <2>1, <2>2 DEF EndsLast
  <2> QED BY <2>2, <2>3 DEF Last
<1>5. /\ use \in Seq({<<"use", Top.var>>}) /\ Len(use) > 0 /\ EndsLast(use)
      /\ Last(use) = <<"use", Top.var>> /\ Last(use) # <<"br">> /\ Last(use) # <<"ret">>
  BY DEF EndsLast, Last
<1> DEFINE S1 == {<<"call", v>>, <<"ret">>}
           S2 == {<<"use", Top.var>>}
<1>6. call \in Seq(S1) /\ use \in Seq(S2)
  BY <1>4, <1>5
<1> HIDE DEF split, L, call, use, v, S1, S2
<1>7. t \in 1..Len(split) /\ f \in 1..Len(split) /\ t \in (L + 1)..(L + 2) /\ f \in (L + 1)..(L + 2)
  BY <1>2, <1>3
<1>8. BlocksOK(one) /\ Only(split, one, t) /\ Terminated(one, t)
  BY <1>3, <1>4, <1>6, <1>7, EmitOK
<1> HIDE DEF one
<1>9. /\ Len(one) = Len(split) /\ one[f].code = <<>> /\ ~Terminated(one, f)
      /\ \A c \in 1..L : one[c].code = split[c].code
  <2>1. t # f
    BY <1>2
  <2>2. Len(one) = Len(split) /\ \A c \in 1..Len(split) : c # t => one[c].code = split[c].code
    BY <1>8 DEF Only
  <2>3. one[f].code = <<>>
    BY <1>3, <1>7, <2>1, <2>2
  <2>4. \A c \in 1..L : c \in 1..Len(split) /\ c # t
    BY <1>2, <1>3
  <2> QED BY <2>2, <2>3, <2>4 DEF Terminated
<1>10. BlocksOK(blocks') /\ Only(one, blocks', f) /\ ~Terminated(blocks', f)
  BY <1>1, <1>5, <1>6, <1>7, <1>8, <1>9, EmitOK
<1>11. /\ Len(blocks') = L + 2
       /\ \A c \in 1..(L + 1) : blocks'[c].code = one[c].code
  <2>1. Len(blocks') = Len(one) /\ \A c \in 1..Len(one) : c # f => blocks'[c].code = one[c].code
    BY <1>10 DEF Only
  <2>2. \A c \in 1..(L + 1) : c \in 1..Len(one) /\ c # f
    BY <1>2, <1>3, <1>9
  <2> QED BY <1>3, <1>9, <2>1, <2>2
<1>12. Terminated(blocks', cur) /\ Terminated(blocks', t)
  <2>1. cur \in 1..L /\ cur \in 1..(L + 1) /\ t \in 1..(L + 1)
    BY <1>2 DEF Id, L
  <2>2. blocks'[cur].code = split[cur].code /\ blocks'[t].code = one[t].code
    BY <1>9, <1>11, <2>1
  <2> QED BY <1>3, <1>8, <2>2 DEF Terminated
<1>13. \A c \in Id : c # cur => blocks'[c].code = blocks[c].code
  <2>1. \A c \in Id : c \in 1..L /\ c \in 1..(L + 1)
    BY <1>2 DEF Id, L
  <2> QED BY <1>3, <1>9, <1>11, <2>1
<1>14. OrphanInv'
  <2>1. ASSUME NEW x \in 2..(L + 2) PROVE Joins(blocks', x)
    <3>1. x \in 1..Len(split) /\ x \in 1..Len(one)
      BY <1>2, <1>3, <1>9
    <3>2. CASE x \in 2..L
      <4>1. Joins(split, x)
        BY <1>3, <3>2
      <4>2. Joins(one, x)
        BY <1>3, <1>7, <1>8, <3>1, <4>1, JoinsKept
      <4>3. f \in 1..Len(one)
        BY <1>7, <1>9
      <4> QED BY <1>8, <1>9, <1>10, <3>1, <4>2, <4>3, JoinsKept
    <3>3. CASE x = t \/ x = f
      <4>1. split[x].pre # <<>>
        BY <1>3, <3>3
      <4>2. one[x].pre # <<>>
        BY <1>8, <3>1, <4>1 DEF Only
      <4>3. blocks'[x].pre # <<>>
        BY <1>10, <3>1, <4>2 DEF Only
      <4> QED BY <4>3 DEF Joins
    <3> QED BY <1>2, <3>2, <3>3
  <2> QED BY <1>11, <2>1 DEF OrphanInv
<1>15. fs \in Seq({}) /\ Len(fs) = 0 /\ todo' = fs \o Tail(todo)
  BY <1>1 DEF Then
<1> HIDE DEF fs
<1>16. /\ \A i \in 1..Len(fs) : FALSE
       /\ \A i \in 1..(Len(fs) - 1) : FALSE
       /\ ~(Len(fs) > 0)
  BY <1>15
<1>17. AllWaits(fs) = {} /\ New = {t, f}
  <2>1. AllWaits(fs) = {}
    BY <1>16 DEF AllWaits
  <2>2. New = {t, f}
    BY <1>2, <1>11 DEF New, L
  <2> QED BY <2>1, <2>2
<1>18. Fills(fs)
  BY <1>1, <1>2, <1>12, <1>13, <1>16, <1>17 DEF Fills
<1>19. Replaces(fs)
  <2>1. cur' \in 1..Len(blocks') /\ Len(blocks') >= Len(blocks)
    BY <1>1, <1>2, <1>11 DEF L
  <2>2. ~Terminated(blocks', cur')
    BY <1>1, <1>10
  <2> QED BY <1>15, <1>16, <2>1, <2>2 DEF Replaces
<1> QED BY <1>1, <1>10, <1>14, <1>15, <1>18, <1>19, VisitStep

-----------------------------------------------------------------------------
(* The first block, and the invariant. *)

\* The one block of a function that has only stored its arguments.
LEMMA FirstBlock ==
  ASSUME NEW S, NEW bs \in Seq(Blk(S)), Len(bs) = 1, ToSet(bs[1].code) \cap Ends = {},
         bs[1].succ = <<>>, bs[1].pre = <<>>
  PROVE  BlocksOK(bs) /\ ~Terminated(bs, 1)
<1>1. bs \in Seq(Blk(Emitted(bs)))
  BY BlocksOver
<1>2. bs[1].code \in Seq(S)
  <2>1. 1 \in 1..Len(bs)
    OBVIOUS
  <2> QED BY <2>1, BlkFacts
<1>3. \A i \in 1..Len(bs[1].code) : bs[1].code[i] \notin Ends
  BY <1>2 DEF ToSet
<1>4. EndsLast(bs[1].code)
  BY <1>2, <1>3 DEF EndsLast
<1>5. ~Terminated(bs, 1)
  <2>1. ASSUME bs[1].code # <<>> PROVE Last(bs[1].code) \notin Ends
    <3>1. Len(bs[1].code) \in 1..Len(bs[1].code)
      BY <1>2, <2>1
    <3> QED BY <1>3, <3>1 DEF Last
  <2> QED BY <2>1 DEF Terminated, Ends
<1>6. Edges(bs, 1)
  <2>1. ToSet(<<>>) = {} /\ Len(<<>>) = 0
    BY DEF ToSet
  <2>2. <<"br">> \notin ToSet(bs[1].code)
    BY DEF Ends
  <2>3. \A t \in 1..Len(bs) : t = 1
    OBVIOUS
  <2> QED BY <2>1, <2>2, <2>3 DEF Edges
<1>7. \A b \in 1..Len(bs) : b = 1
  OBVIOUS
<1> QED BY <1>1, <1>4, <1>5, <1>6, <1>7 DEF BlocksOK

\* The declaration of the function.
LEMMA FunDeclarationStep ==
  ASSUME IInv, FunDeclaration PROVE IInv'
<1>1. blocks = <<>> /\ BlocksOK(blocks) /\ todo = <<>>
  BY DEF FunDeclaration, IInv, CurInv
<1>2. PICK params \in BoundedSeq(Names, MaxParams) :
        blocks' = Emit(Create(blocks, 1), 1,
            [k \in 1..(2 * Len(params)) |->
               IF k % 2 = 1 THEN <<"alloca">> ELSE <<"use", <<1, k - 1>>>>])
  BY DEF FunDeclaration
<1> DEFINE n == Len(params)
           ins == [k \in 1..(2 * n) |->
                     IF k % 2 = 1 THEN <<"alloca">> ELSE <<"use", <<1, k - 1>>>>]
           S == {<<"alloca">>} \cup {<<"use", <<1, j>>>> : j \in Int}
           bs == Create(blocks, 1)
<1>3. n \in Nat
  BY BoundsAssumption DEF BoundedSeq
<1> HIDE DEF n
<1>4. ASSUME NEW k \in 1..(2 * n)
      PROVE  ins[k] \in S /\ ins[k] \notin Ends
  <2>1. CASE k % 2 = 1
    BY <2>1 DEF Ends
  <2>2. CASE k % 2 # 1
    <3>1. ins[k] = <<"use", <<1, k - 1>>>> /\ k - 1 \in Int
      BY <2>2
    <3> QED BY <3>1 DEF Ends
  <2> QED BY <2>1, <2>2
<1>5. ins \in Seq(S) /\ ToSet(ins) \cap Ends = {}
  <2>1. 2 * n \in Nat /\ DOMAIN ins = 1..(2 * n)
    BY <1>3
  <2>2. ins = [k \in 1..(2 * n) |-> ins[k]]
    OBVIOUS
  <2> HIDE DEF ins, S
  <2>3. [k \in 1..(2 * n) |-> ins[k]] \in Seq(S)
    BY <1>4, <2>1
  <2> QED BY <1>4, <2>1, <2>2, <2>3 DEF ToSet
<1> HIDE DEF ins, S
<1>6. BlocksOK(bs) /\ Len(bs) = 1 /\ bs[1] = EmptyBlock
  <2>1. Len(blocks) = 0 /\ 1 \in Nat
    BY <1>1
  <2> DEFINE k == 1
  <2>2. k \in Nat
    OBVIOUS
  <2> HIDE DEF k
  <2>3. /\ BlocksOK(Create(blocks, k)) /\ Len(Create(blocks, k)) = Len(blocks) + k
        /\ \A b \in (Len(blocks) + 1)..(Len(blocks) + k) : Create(blocks, k)[b] = EmptyBlock
    BY <1>1, <2>2, CreateOK
  <2>4. k = 1 /\ 1 \in (Len(blocks) + 1)..(Len(blocks) + k) /\ Len(blocks) + k = 1
    BY <2>1 DEF k
  <2> QED BY <2>3, <2>4
<1> HIDE DEF bs
<1>7. bs \in Seq(Blk(S)) /\ 1 \in 1..Len(bs)
  <2>1. bs \in Seq(Blk(Emitted(bs))) /\ 1 \in 1..Len(bs)
    BY <1>6 DEF BlocksOK
  <2>2. bs[1].code = <<>> /\ bs[1].succ = <<>> /\ bs[1].pre = <<>>
    BY <1>6 DEF EmptyBlock
  <2>3. EmptyBlock \in Blk(S)
    BY DEF EmptyBlock, Blk
  <2>4. bs = [i \in 1..1 |-> bs[i]]
    BY <1>6, <2>1
  <2>5. \A i \in 1..1 : bs[i] \in Blk(S)
    BY <1>6, <2>3
  <2> QED BY <2>1, <2>4, <2>5
<1>8. /\ blocks' \in Seq(Blk(S)) /\ Len(blocks') = 1
      /\ blocks'[1].succ = <<>> /\ blocks'[1].pre = <<>> /\ blocks'[1].code = <<>> \o ins
  <2>1. blocks' = Emit(bs, 1, ins)
    BY <1>2 DEF bs, ins, n
  <2>2. /\ blocks' \in Seq(Blk(S)) /\ Len(blocks') = Len(bs)
        /\ \A c \in 1..Len(bs) : /\ blocks'[c].succ = bs[c].succ /\ blocks'[c].pre = bs[c].pre
                                 /\ blocks'[c].code = IF c = 1 THEN bs[1].code \o ins ELSE bs[c].code
    BY <1>5, <1>7, <2>1, EmitFacts
  <2> QED BY <1>6, <1>7, <2>2 DEF EmptyBlock
<1>9. <<>> \o ins = ins
  BY <1>5
<1>10. BlocksOK(blocks') /\ ~Terminated(blocks', 1)
  BY <1>5, <1>8, <1>9, FirstBlock
<1> DEFINE f == Frame("compound")
           g == Frame("fun")
           fs == <<f, g>>
<1>11. cur' = 1 /\ todo' = fs
  BY DEF FunDeclaration
<1>12. /\ FrameOK(f, Len(blocks')) /\ Waits(f) = {} /\ f.at = "compound"
       /\ FrameOK(g, Len(blocks')) /\ Waits(g) = {} /\ g.at = "fun"
  BY PlainFrame DEF Emitting, Joining
<1>13. /\ fs \in Seq(ToSet(fs)) /\ Len(fs) = 2 /\ DOMAIN fs = 1..2 /\ fs[1] = f /\ fs[2] = g
       /\ fs # <<>>
  <2>1. fs \in Seq({f, g}) /\ Len(fs) = 2 /\ DOMAIN fs = 1..2 /\ fs[1] = f /\ fs[2] = g
    OBVIOUS
  <2> HIDE DEF fs, f, g
  <2>2. fs # <<>>
    BY ONLY <2>1
  <2>3. fs \in Seq(ToSet(fs))
    <3> DEFINE E == {f, g}
    <3>1. fs \in Seq(E)
      BY <2>1
    <3> HIDE DEF E
    <3> QED BY <3>1, SeqOver
  <2> QED BY <2>1, <2>2, <2>3
<1> HIDE DEF fs, f, g
<1>14. \A i \in 1..2 : i = 1 \/ i = 2
  OBVIOUS
<1>15. FramesInv'
  <2>1. \A i \in DOMAIN fs : FrameOK(fs[i], Len(blocks'))
    BY <1>12, <1>13, <1>14
  <2> QED BY <1>11, <1>12, <1>13, <2>1 DEF FramesInv
<1>16. StackInv'
  <2>1. FollowOK(f, g)
    BY <1>12 DEF FollowOK, Joining
  <2>2. \A i \in 1..(Len(fs) - 1) : i = 1 /\ i + 1 = 2
    BY <1>13
  <2>3. \A i \in 1..(Len(fs) - 1) : FollowOK(fs[i], fs[i + 1])
    BY <1>13, <2>1, <2>2
  <2> QED BY <1>10, <1>11, <2>3 DEF StackInv
<1>17. CurInv'
  <2>1. 1 \in 1..Len(blocks') /\ 1 # 0
    BY <1>8
  <2> QED BY <1>11, <2>1 DEF CurInv, Id
<1>18. OrphanInv'
  <2>1. 2..Len(blocks') = {}
    BY <1>8
  <2> QED BY <2>1 DEF OrphanInv
<1>19. NoBlockLost'
  <2>1. \A i \in DOMAIN todo' : Waiting(i)' = {}
    <3>1. \A i \in DOMAIN todo' : Waits(todo'[i]) = {}
      BY <1>11, <1>12, <1>13, <1>14
    <3> QED BY <3>1 DEF Waiting, Waits
  <2>2. Pending' = {}
    BY <2>1 DEF Pending
  <2>3. \A b \in Id' : b = cur'
    BY <1>8, <1>11 DEF Id
  <2>4. \A i, j \in DOMAIN todo' : Waiting(i)' \cap Waiting(j)' = {}
    BY <2>1
  <2>5. todo' # <<>>
    BY <1>11, <1>13
  <2> QED BY <2>2, <2>3, <2>4, <2>5 DEF NoBlockLost
<1> QED BY <1>10, <1>15, <1>16, <1>17, <1>18, <1>19 DEF IInv

\* Nothing has been built yet.
LEMMA InitInv == Init => IInv
<1> SUFFICES ASSUME Init PROVE IInv
  OBVIOUS
<1>1. blocks = <<>> /\ cur = 0 /\ todo = <<>>
  BY DEF Init
<1>2. Len(<<>>) = 0 /\ 1..0 = {} /\ 2..0 = {} /\ DOMAIN <<>> = {} /\ 1..(0 - 1) = {}
  OBVIOUS
<1>3. \A S : <<>> \in Seq(S)
  OBVIOUS
<1>4. BlocksOK(blocks) /\ OrphanInv
  BY <1>1, <1>2, <1>3 DEF BlocksOK, OrphanInv
<1>5. FramesInv /\ StackInv /\ CurInv
  BY <1>1, <1>2, <1>3 DEF FramesInv, StackInv, CurInv
<1>6. NoBlockLost
  <2>1. Pending = {}
    BY <1>1, <1>2 DEF Pending
  <2> QED BY <1>1, <1>2, <2>1 DEF NoBlockLost, Id
<1> QED BY <1>4, <1>5, <1>6 DEF IInv

\* Every step of a visit keeps the invariant.
LEMMA StepInv == IInv /\ [Next]_vars => IInv'
<1> SUFFICES ASSUME IInv, [Next]_vars PROVE IInv'
  OBVIOUS
<1>1. CASE UNCHANGED vars
  BY <1>1 DEF vars, IInv, OrphanInv, FramesInv, StackInv, CurInv, NoBlockLost, Pending, Waiting,
              Top, Id
<1>2. CASE FunDeclaration \/ EndFunction
  BY <1>2, FunDeclarationStep, EndFunctionStep
<1>3. CASE EnterCompound \/ VarDeclaration \/ NextStatement \/ LeaveCompound
  BY <1>3, EnterCompoundStep, VarDeclarationStep, NextStatementStep, LeaveCompoundStep
<1>4. CASE EmptyStatement \/ ExpressionStmt \/ CompoundStmt \/ ReturnStmt
  BY <1>4, StatementStep
<1>5. CASE VoidReturn \/ EndReturn
  BY <1>5, ReturnStep
<1>6. CASE SelectionStmt \/ Branch \/ EndThen \/ EndElse
  BY <1>6, SelectionStep, BranchStep, EndThenStep, EndElseStep
<1>7. CASE IterationStmt \/ LoopBranch \/ EndBody
  BY <1>7, IterationStep, LoopBranchStep, EndBodyStep
<1>8. CASE Number \/ Var \/ IndexedVar \/ CheckIndex
  BY <1>8, ExpressionStep, VarStep, CheckIndexStep
<1>9. CASE Finished
  BY <1>1, <1>9 DEF Finished
<1> QED BY <1>1, <1>2, <1>3, <1>4, <1>5, <1>6, <1>7, <1>8, <1>9 DEF Next

\* The invariant holds in every reachable state.
THEOREM Invariant == Spec => []IInv
<1>1. Init => IInv
  BY InitInv
<1>2. IInv /\ [Next]_vars => IInv'
  BY StepInv
<1> QED BY <1>1, <1>2, PTL DEF Spec

-----------------------------------------------------------------------------
(* What the reader of a function may count on. *)

\* What the invariant says of the instructions of one block.
LEMMA InvTerminatorLast == IInv => TerminatorLast
BY DEF IInv, BlocksOK, EndsLast, Ends, TerminatorLast, Id

\* Passes and printer find the terminator in the last place of each block, and
\* nowhere else, in every state of the builder (CminusfBuilder::visit of the
\* lists and returns, the `get_terminator` tests before its branches).
THEOREM BranchesEndBlocks == Spec => []TerminatorLast
BY Invariant, InvTerminatorLast, PTL

\* Each block without a terminator is the insert block, or is empty and waits
\* in exactly one visit under way; so none is left when the visits are over.
THEOREM EveryBlockFilled == Spec => []NoBlockLost
<1>1. IInv => NoBlockLost
  BY DEF IInv
<1> QED BY <1>1, Invariant, PTL

\* CFG's operators on sequences are the builder's own.
LEMMA GraphOps ==
  \A s : Graph!ToSet(s) = ToSet(s) /\ Graph!IsInjective(s) = IsInjective(s)
BY DEF Graph!ToSet, ToSet, Graph!IsInjective, IsInjective

\* What the invariant says of the edges.
LEMMA InvEdges == IInv => (cur # 0 => EdgesMatch)
<1> SUFFICES ASSUME IInv, cur # 0 PROVE EdgesMatch
  OBVIOUS
<1> DEFINE S == Emitted(blocks)
<1>1. blocks \in Seq(Blk(S)) /\ \A b \in 1..Len(blocks) : Edges(blocks, b)
  BY DEF IInv, BlocksOK
<1> HIDE DEF S
<1>2. ASSUME NEW b \in Id
      PROVE  /\ blocks[b].succ \in Seq(Nat) /\ blocks[b].pre \in Seq(Nat)
             /\ Succ[b] = blocks[b].succ /\ Pre[b] = blocks[b].pre
             /\ b \in 1..Len(blocks) /\ Len(blocks) \in Nat
             /\ Edges(blocks, b)
  BY <1>1, BlkFacts DEF Id, Succ, Pre
<1>3. Graph!Consistent(Succ, Pre)
  <2>1. ASSUME NEW b \in Id PROVE IsInjective(Pre[b])
    <3>1. \A i, j \in 1..Len(blocks[b].pre) : i # j => blocks[b].pre[i] # blocks[b].pre[j]
      BY <1>2 DEF Edges
    <3>2. DOMAIN blocks[b].pre = 1..Len(blocks[b].pre)
      BY <1>2
    <3> QED BY <1>2, <3>1, <3>2 DEF IsInjective
  <2>2. ASSUME NEW b \in Id PROVE ToSet(Pre[b]) = Graph!Preds(Succ, b)
    <3>1. ASSUME NEW p \in Id PROVE p \in ToSet(Pre[b]) <=> b \in ToSet(Succ[p])
      BY <1>2 DEF Edges
    <3>2. ToSet(Pre[b]) \subseteq Id
      BY <1>2 DEF Edges, Id
    <3>3. Graph!Preds(Succ, b) = {p \in Id : b \in ToSet(Succ[p])}
      BY GraphOps DEF Graph!Preds, Graph!Block, Id
    <3> QED BY <3>1, <3>2, <3>3
  <2> QED BY <2>1, <2>2, GraphOps DEF Graph!Consistent, Graph!Block, Id
<1>4. ASSUME NEW b \in Id PROVE Succ[b] = <<>> \/ Succ[b] \in Graph!Target
  <2> DEFINE s == blocks[b].succ
             A == 2..Len(blocks)
  <2>1. /\ ToSet(s) \subseteq A /\ Len(s) \in {0, 1, 2} /\ (Len(s) = 2 => s[1] # s[2])
    BY <1>2 DEF Edges
  <2>2. s \in Seq(Nat) /\ Succ[b] = s /\ \A i \in 1..Len(s) : s[i] \in ToSet(s)
    BY <1>2 DEF ToSet
  <2>3. A = Graph!Block \ {Graph!Entry}
    BY <1>2 DEF Graph!Block, Graph!Entry
  <2> HIDE DEF s, A
  <2>4. CASE Len(s) = 0
    BY <2>2, <2>4
  <2>5. CASE Len(s) = 1
    <3>1. s[1] \in A /\ s = <<s[1]>> /\ IsInjective(s)
      <4>1. 1 \in 1..Len(s)
        BY <2>5
      <4>2. s[1] \in A /\ DOMAIN s = {1}
        BY <2>1, <2>2, <2>5, <4>1
      <4> DEFINE x == s[1]
      <4>3. s = [i \in 1..1 |-> x] /\ <<x>> = [i \in 1..1 |-> x]
        BY <2>2, <2>5
      <4> QED BY <4>2, <4>3 DEF IsInjective
    <3>2. s \in Graph!SuccList
      BY <2>3, <3>1 DEF Graph!SuccList
    <3> QED BY <2>2, <3>1, <3>2, GraphOps DEF Graph!Target
  <2>6. CASE Len(s) = 2
    <3> DEFINE x == s[1]
               y == s[2]
    <3>1. 1 \in 1..Len(s) /\ 2 \in 1..Len(s) /\ DOMAIN s = {1, 2}
      BY <2>2, <2>6
    <3>2. x \in A /\ y \in A /\ x # y
      BY <2>1, <2>2, <2>6, <3>1
    <3>3. s = <<x, y>>
      BY <2>2, <2>6
    <3>4. IsInjective(s)
      BY <3>1, <3>2 DEF IsInjective
    <3> HIDE DEF x, y
    <3>5. s \in Graph!SuccList
      BY <2>3, <3>2, <3>3 DEF Graph!SuccList
    <3> QED BY <2>2, <3>4, <3>5, GraphOps DEF Graph!Target
  <2> QED BY <2>1, <2>4, <2>5, <2>6
<1>5. ASSUME NEW b \in Id PROVE Succ[b] # <<>> <=> <<"br">> \in ToSet(blocks[b].code)
  BY <1>2 DEF Edges
<1> QED BY <1>3, <1>4, <1>5 DEF EdgesMatch

\* From the declaration of the function on, successor and predecessor lists are
\* those CFG takes for granted, and say the same.
THEOREM EdgesAgree == Spec => [](cur # 0 => EdgesMatch)
BY Invariant, InvEdges, PTL

-----------------------------------------------------------------------------
(* The shape of the graph.  Edges are all that matters for it: which blocks  *)
(* lead to block b, and where the visits under way will still lead.          *)
Flow == INSTANCE Reachability WITH N <- Len(blocks)
Numbers == INSTANCE Reachability WITH N <- 1  \* its induction, for lists of any length

Into(b)  == ToSet(blocks[b].pre)
Loops(f) == IF f.at \in {"while", "body"} THEN {f.expr} ELSE {}

\* The step replaces the innermost visit by fs and adds an edge from the insert
\* block to each block of T.  It leads to a new block, or where the innermost
\* visit was to lead: to a block that waits in it, to the head of its loop.
Grows(T) ==
  /\ Len(blocks') \in Nat /\ Len(blocks) <= Len(blocks')
  /\ \A b \in 1..Len(blocks') : \A p :
       p \in Into(b)' <=> (b \in Id /\ p \in Into(b)) \/ (b \in T /\ p = cur)
Heads(fs, i, T) ==
  \/ Loops(fs[i]) \subseteq Loops(Top)
  \/ /\ Loops(fs[i]) = {cur'} /\ cur' = Len(blocks') /\ cur' \in New \cap T
     /\ \A k \in 1..Len(fs) : Waits(fs[k]) = {}
Moves(fs, T) ==
  /\ todo # <<>> /\ fs \in Seq(ToSet(fs)) /\ todo' = fs \o Tail(todo)
  /\ Grows(T)
  /\ \/ T \subseteq Waits(Top) \cup New
     \/ T \subseteq Loops(Top) /\ fs = <<>>
  /\ cur' \in {cur} \cup Waits(Top) \cup New
  /\ \A i \in 1..Len(fs) : /\ Waits(fs[i]) \subseteq Waits(Top) \cup New
                           /\ Heads(fs, i, T)
                           /\ Loops(fs[i]) # {} => i = Len(fs)

\* Instructions that are no branch add no edge, ...
LEMMA EmitInto ==
  ASSUME NEW bs, BlocksOK(bs), NEW b \in 1..Len(bs), NEW S, NEW ins \in Seq(S)
  PROVE  LET new == Emit(bs, b, ins)
         IN  /\ Len(new) = Len(bs)
             /\ \A c \in 1..Len(bs) : new[c].pre = bs[c].pre
<1> DEFINE A == Emitted(bs) \cup S
<1>1. bs \in Seq(Blk(A))
  BY BlocksUp
<1>2. ins \in Seq(A)
  BY SeqOver
<1> HIDE DEF A
<1> QED BY <1>1, <1>2, EmitFacts

\* ... a branch one for each of its targets.
Linked(bs, new, b, T) ==
  /\ Len(new) = Len(bs)
  /\ \A c \in 1..Len(bs) : \A p :
       p \in ToSet(new[c].pre) <=> p \in ToSet(bs[c].pre) \/ (c \in T /\ p = b)

\* The edge itself.
LEMMA EdgeInto ==
  ASSUME NEW S, NEW bs \in Seq(Blk(S)), NEW b \in 1..Len(bs), NEW t \in 1..Len(bs)
  PROVE  Edge(bs, b, t) \in Seq(Blk(S)) /\ Linked(bs, Edge(bs, b, t), b, {t})
<1> DEFINE new == Edge(bs, b, t)
<1>1. /\ new \in Seq(Blk(S)) /\ Len(new) = Len(bs)
      /\ \A c \in 1..Len(bs) : new[c].pre = IF c = t THEN Append(bs[t].pre, b) ELSE bs[c].pre
  BY EdgeFacts
<1> HIDE DEF new
<1>2. b \in Nat /\ bs[t].pre \in Seq(Nat)
  <2>1. bs[t].pre \in Seq(Nat)
    BY BlkFacts
  <2> QED BY <2>1
<1>3. ToSet(Append(bs[t].pre, b)) = ToSet(bs[t].pre) \cup {b}
  BY <1>2, AppendNat
<1>4. ASSUME NEW c \in 1..Len(bs), NEW p
      PROVE  p \in ToSet(new[c].pre) <=> p \in ToSet(bs[c].pre) \/ (c \in {t} /\ p = b)
  <2>1. CASE c = t
    BY <1>1, <1>3, <2>1
  <2>2. CASE c # t
    BY <1>1, <2>2
  <2> QED BY <2>1, <2>2
<1>5. Linked(bs, new, b, {t})
  BY <1>1, <1>4 DEF Linked
<1> QED BY <1>1, <1>5 DEF new

\* Edges of one step after those of another.
LEMMA LinkedTwice ==
  ASSUME NEW bs, NEW mid, NEW new, NEW b, NEW S, NEW T, Linked(bs, mid, b, S), Linked(mid, new, b, T)
  PROVE  Linked(bs, new, b, S \cup T)
BY DEF Linked

\* A branch and a conditional branch.
LEMMA BranchInto ==
  ASSUME NEW bs, BlocksOK(bs), NEW b \in 1..Len(bs), NEW t \in 1..Len(bs), NEW f \in 1..Len(bs)
  PROVE  /\ Linked(bs, CreateBr(bs, b, t), b, {t})
         /\ Linked(bs, CreateCondBr(bs, b, t, f), b, {f} \cup {t})
<1> DEFINE br == <<<<"br">>>>
           cmp == <<<<"cmp">>, <<"br">>>>
           I == {<<"br">>, <<"cmp">>}
           A == Emitted(bs) \cup I
           one == Emit(bs, b, br)
           two == Emit(bs, b, cmp)
           mid == Edge(two, b, f)
<1>1. br \in Seq(I) /\ cmp \in Seq(I)
  OBVIOUS
<1>2. bs \in Seq(Blk(A))
  BY BlocksUp
<1>3. br \in Seq(A) /\ cmp \in Seq(A)
  BY <1>1, SeqOver
<1>4. Edge(one, b, t) = CreateBr(bs, b, t) /\ Edge(mid, b, t) = CreateCondBr(bs, b, t, f)
  BY DEF CreateBr, CreateCondBr
<1> HIDE DEF br, cmp, I, A
<1>5. /\ one \in Seq(Blk(A)) /\ Len(one) = Len(bs)
      /\ \A c \in 1..Len(bs) : one[c].pre = bs[c].pre
  BY <1>2, <1>3, EmitFacts
<1>6. /\ two \in Seq(Blk(A)) /\ Len(two) = Len(bs)
      /\ \A c \in 1..Len(bs) : two[c].pre = bs[c].pre
  BY <1>2, <1>3, EmitFacts
<1> HIDE DEF one, two
<1>7. Linked(one, Edge(one, b, t), b, {t})
  BY <1>5, EdgeInto
<1>8. mid \in Seq(Blk(A)) /\ Linked(two, mid, b, {f})
  BY <1>6, EdgeInto
<1>9. Linked(bs, Edge(one, b, t), b, {t})
  BY <1>5, <1>7 DEF Linked
<1>10. Linked(bs, mid, b, {f}) /\ Len(mid) = Len(bs)
  BY <1>6, <1>8 DEF Linked
<1> HIDE DEF mid
<1>11. Linked(mid, Edge(mid, b, t), b, {t})
  BY <1>8, <1>10, EdgeInto
<1>12. Linked(bs, Edge(mid, b, t), b, {f} \cup {t})
  BY <1>10, <1>11, LinkedTwice
<1> QED BY <1>4, <1>9, <1>12

\* Blocks created and not yet branched to have no predecessor.
LEMMA CreateInto ==
  ASSUME NEW bs, BlocksOK(bs), NEW k \in Nat
  PROVE  LET new == Create(bs, k)
         IN  /\ BlocksOK(new) /\ Len(new) = Len(bs) + k /\ Len(bs) \in Nat
             /\ \A c \in 1..Len(new) : \A p :
                  p \in ToSet(new[c].pre) <=> c \in 1..Len(bs) /\ p \in ToSet(bs[c].pre)
<1> DEFINE new == Create(bs, k)
<1>1. /\ BlocksOK(new) /\ Len(new) = Len(bs) + k /\ Len(bs) \in Nat
      /\ \A b \in 1..Len(bs) : new[b] = bs[b]
      /\ \A b \in (Len(bs) + 1)..(Len(bs) + k) : new[b] = EmptyBlock
  BY CreateOK
<1>2. ToSet(EmptyBlock.pre) = {}
  BY DEF EmptyBlock, ToSet
<1> HIDE DEF new
<1>3. ASSUME NEW c \in 1..Len(new), NEW p
      PROVE  p \in ToSet(new[c].pre) <=> c \in 1..Len(bs) /\ p \in ToSet(bs[c].pre)
  <2>1. c \in 1..Len(bs) \/ c \in (Len(bs) + 1)..(Len(bs) + k)
    BY <1>1
  <2>2. CASE c \in 1..Len(bs)
    BY <1>1, <2>2
  <2>3. CASE c \notin 1..Len(bs)
    <3>1. new[c] = EmptyBlock
      BY <1>1, <2>1, <2>3
    <3> QED BY <1>2, <2>3, <3>1
  <2> QED BY <2>2, <2>3
<1> QED BY <1>1, <1>3 DEF new

-----------------------------------------------------------------------------
(* Every action moves.  First those that add no edge. *)

Quiet ==
  /\ todo # <<>> /\ cur' = cur /\ Len(blocks') = Len(blocks)
  /\ \A b \in Id : blocks'[b].pre = blocks[b].pre

\* Visits that lead nowhere new replace the innermost.
LEMMA QuietMoves ==
  ASSUME IInv, Quiet, NEW F, NEW fs \in Seq(F), todo' = fs \o Tail(todo),
         \A i \in 1..Len(fs) : Waits(fs[i]) = {} /\ Loops(fs[i]) = {}
  PROVE  Moves(fs, {})
<1>1. Len(blocks) \in Nat /\ Id = 1..Len(blocks)
  BY DEF IInv, BlocksOK, Id
<1>2. Grows({})
  BY <1>1 DEF Quiet, Grows, Into
<1>3. fs \in Seq(ToSet(fs))
  BY SeqOver
<1>4. \A i \in 1..Len(fs) : Heads(fs, i, {})
  BY DEF Heads
<1> QED BY <1>2, <1>3, <1>4 DEF Moves, Quiet

\* None, ...
LEMMA QuietNone ==
  ASSUME IInv, Quiet, Then(<<>>) PROVE Moves(<<>>, {})
<1> DEFINE fs == <<>>
<1>1. /\ fs \in Seq({}) /\ todo' = fs \o Tail(todo)
      /\ \A i \in 1..Len(fs) : Waits(fs[i]) = {} /\ Loops(fs[i]) = {}
  BY DEF Then
<1> HIDE DEF fs
<1>2. Moves(fs, {})
  BY <1>1, QuietMoves
<1> QED BY <1>2 DEF fs

\* ... one, ...
LEMMA QuietOne ==
  ASSUME IInv, Quiet, NEW f, todo' = <<f>> \o Tail(todo), Waits(f) = {}, Loops(f) = {}
  PROVE  Moves(<<f>>, {})
<1> DEFINE fs == <<f>>
<1>1. fs \in Seq({f}) /\ Len(fs) = 1 /\ fs[1] = f /\ todo' = fs \o Tail(todo)
  OBVIOUS
<1> HIDE DEF fs
<1>2. \A i \in 1..Len(fs) : Waits(fs[i]) = {} /\ Loops(fs[i]) = {}
  BY <1>1
<1>3. Moves(fs, {})
  BY <1>1, <1>2, QuietMoves
<1> QED BY <1>3 DEF fs

\* ... or two.
LEMMA QuietTwo ==
  ASSUME IInv, Quiet, NEW f, NEW g, Then(<<f, g>>), Waits(f) = {}, Loops(f) = {},
         Waits(g) = {}, Loops(g) = {}
  PROVE  Moves(<<f, g>>, {})
<1> DEFINE fs == <<f, g>>
<1>1. fs \in Seq({f, g}) /\ Len(fs) = 2 /\ fs[1] = f /\ fs[2] = g /\ todo' = fs \o Tail(todo)
  BY DEF Then
<1> HIDE DEF fs
<1>2. \A i \in 1..Len(fs) : i = 1 \/ i = 2
  BY <1>1
<1>3. \A i \in 1..Len(fs) : Waits(fs[i]) = {} /\ Loops(fs[i]) = {}
  BY <1>1, <1>2
<1>4. Moves(fs, {})
  BY <1>1, <1>3, QuietMoves
<1> QED BY <1>4 DEF fs

\* What leaves the blocks alone is quiet, ...
LEMMA QuietSame ==
  ASSUME todo # <<>>, UNCHANGED <<blocks, cur>> PROVE Quiet
BY DEF Quiet

\* ... and so is what only emits.
LEMMA QuietEmit ==
  ASSUME IInv, todo # <<>>, NEW S, NEW ins \in Seq(S), blocks' = Emit(blocks, cur, ins), cur' = cur
  PROVE  Quiet
<1>1. BlocksOK(blocks) /\ cur \in 1..Len(blocks)
  BY TopFacts DEF IInv, Id
<1>2. Len(blocks') = Len(blocks) /\ \A c \in 1..Len(blocks) : blocks'[c].pre = blocks[c].pre
  BY <1>1, EmitInto
<1> QED BY <1>2 DEF Quiet, Id

\* Frames that hold no block.
LEMMA BareFrame ==
  ASSUME NEW f, "waiting" \notin DOMAIN f, f.at \notin {"while", "body"}
  PROVE  Waits(f) = {} /\ Loops(f) = {}
BY DEF Waits, Loops

\* The plain ones among them.
LEMMA BarePlain ==
  ASSUME NEW p, p \notin {"while", "body"}
  PROVE  Waits(Frame(p)) = {} /\ Loops(Frame(p)) = {} /\ Frame(p).at = p
BY DEF Waits, Loops, Frame

\* Neither a scope nor a variable hangs on these.
Bare(f) == f.at \notin {"fun", "decls", "list", "index"}

\* The steps between two others.
LEMMA QuietSteps ==
  ASSUME IInv,
         \/ EmptyStatement \/ ExpressionStmt \/ CompoundStmt \/ ReturnStmt \/ SelectionStmt
         \/ VoidReturn \/ EndReturn \/ Number \/ Var
  PROVE  \E fs : Moves(fs, {}) /\ Bare(Top) /\ \A i \in 1..Len(fs) : Bare(fs[i])
<1>1. CASE EmptyStatement \/ Number
  <2>1. todo # <<>> /\ Then(<<>>) /\ UNCHANGED <<blocks, cur>> /\ Top.at \in {"stmt", "expr"}
    BY <1>1 DEF EmptyStatement, Number, At
  <2>2. Moves(<<>>, {}) /\ Bare(Top)
    BY <2>1, QuietSame, QuietNone DEF Bare
  <2> QED BY <2>2
<1>2. CASE VoidReturn \/ EndReturn
  <2> DEFINE ins == <<<<"ret">>>>
  <2>1. /\ todo # <<>> /\ Then(<<>>) /\ Top.at \in {"stmt", "return"} /\ cur' = cur
        /\ blocks' = Emit(blocks, cur, ins) /\ ins \in Seq({<<"ret">>})
    BY <1>2 DEF VoidReturn, EndReturn, At
  <2> HIDE DEF ins
  <2>2. Moves(<<>>, {}) /\ Bare(Top)
    BY <2>1, QuietEmit, QuietNone DEF Bare
  <2> QED BY <2>2
<1>3. CASE Var
  <2> PICK n \in Names : blocks' = Emit(blocks, cur, <<<<"use", Find(n)>>>>)
    BY <1>3 DEF Var
  <2> DEFINE v == Find(n)
             ins == <<<<"use", v>>>>
  <2>1. ins \in Seq({<<"use", v>>})
    OBVIOUS
  <2>2. todo # <<>> /\ Then(<<>>) /\ Top.at = "expr" /\ cur' = cur /\ blocks' = Emit(blocks, cur, ins)
    BY <1>3 DEF Var, At
  <2> HIDE DEF ins
  <2>3. Moves(<<>>, {}) /\ Bare(Top)
    BY <2>1, <2>2, QuietEmit, QuietNone DEF Bare
  <2> QED BY <2>3
<1>4. CASE ExpressionStmt \/ CompoundStmt
  <2> DEFINE p == IF ExpressionStmt THEN "expr" ELSE "compound"
             f == Frame(p)
  <2>1. todo # <<>> /\ Then(<<f>>) /\ UNCHANGED <<blocks, cur>> /\ Top.at = "stmt"
    BY <1>4 DEF ExpressionStmt, CompoundStmt, At
  <2>2. p \in {"expr", "compound"}
    OBVIOUS
  <2> HIDE DEF p
  <2>3. Waits(f) = {} /\ Loops(f) = {} /\ f.at = p
    BY <2>2, BarePlain
  <2> HIDE DEF f
  <2>4. Moves(<<f>>, {})
    BY <2>1, <2>3, QuietSame, QuietOne DEF Then
  <2>5. Bare(Top) /\ \A i \in 1..Len(<<f>>) : Bare(<<f>>[i])
    BY <2>1, <2>2, <2>3 DEF Bare
  <2> QED BY <2>4, <2>5
<1>5. CASE ReturnStmt
  <2> DEFINE f == Frame("expr")
             g == Frame("return")
  <2>1. todo # <<>> /\ Then(<<f, g>>) /\ UNCHANGED <<blocks, cur>> /\ Top.at = "stmt"
    BY <1>5 DEF ReturnStmt, At
  <2>2. Waits(f) = {} /\ Loops(f) = {} /\ f.at = "expr" /\ Waits(g) = {} /\ Loops(g) = {} /\ g.at = "return"
    BY BarePlain
  <2> HIDE DEF f, g
  <2>3. Moves(<<f, g>>, {})
    BY <2>1, <2>2, QuietSame, QuietTwo
  <2>4. Bare(Top) /\ \A i \in 1..Len(<<f, g>>) : Bare(<<f, g>>[i])
    BY <2>1, <2>2 DEF Bare
  <2> QED BY <2>3, <2>4
<1>6. CASE SelectionStmt
  <2> DEFINE f == Frame("expr")
  <2>1. PICK arms \in {1, 2} : Then(<<f, [at |-> "if", arms |-> arms]>>)
    BY <1>6 DEF SelectionStmt
  <2> DEFINE g == [at |-> "if", arms |-> arms]
  <2>2. todo # <<>> /\ Then(<<f, g>>) /\ UNCHANGED <<blocks, cur>> /\ Top.at = "stmt"
    BY <1>6, <2>1 DEF SelectionStmt, At
  <2>3. Waits(f) = {} /\ Loops(f) = {} /\ f.at = "expr"
    BY BarePlain
  <2>4. Waits(g) = {} /\ Loops(g) = {} /\ g.at = "if"
    <3>1. "waiting" \notin DOMAIN g /\ g.at = "if"
      OBVIOUS
    <3> HIDE DEF g
    <3> QED BY <3>1, BareFrame
  <2> HIDE DEF f, g
  <2>5. Moves(<<f, g>>, {})
    BY <2>2, <2>3, <2>4, QuietSame, QuietTwo
  <2>6. Bare(Top) /\ \A i \in 1..Len(<<f, g>>) : Bare(<<f, g>>[i])
    BY <2>2, <2>3, <2>4 DEF Bare
  <2> QED BY <2>5, <2>6
<1> QED BY <1>1, <1>2, <1>3, <1>4, <1>5, <1>6

-----------------------------------------------------------------------------
(* Then those that branch. *)

\* From the insert block to two of k new blocks.
LEMMA ForkGrows ==
  ASSUME IInv, todo # <<>>, NEW k \in Nat,
         NEW t \in (Len(blocks) + 1)..(Len(blocks) + k),
         NEW f \in (Len(blocks) + 1)..(Len(blocks) + k),
         NEW new, Linked(CreateCondBr(Create(blocks, k), cur, t, f), new, cur, {})
  PROVE  /\ Len(new) = Len(blocks) + k /\ Len(blocks) \in Nat
         /\ \A b \in 1..Len(new) : \A p :
              p \in ToSet(new[b].pre)
                <=> (b \in Id /\ p \in Into(b)) \/ (b \in {f} \cup {t} /\ p = cur)
<1> DEFINE bs == Create(blocks, k)
           split == CreateCondBr(bs, cur, t, f)
<1>1. BlocksOK(blocks) /\ cur \in 1..Len(blocks)
  BY TopFacts DEF IInv, Id
<1>2. /\ BlocksOK(bs) /\ Len(bs) = Len(blocks) + k /\ Len(blocks) \in Nat
      /\ \A c \in 1..Len(bs) : \A p :
           p \in ToSet(bs[c].pre) <=> c \in 1..Len(blocks) /\ p \in ToSet(blocks[c].pre)
  BY <1>1, CreateInto
<1> HIDE DEF bs
<1>3. cur \in 1..Len(bs) /\ t \in 1..Len(bs) /\ f \in 1..Len(bs)
  BY <1>1, <1>2
<1>4. Linked(bs, split, cur, {f} \cup {t})
  BY <1>2, <1>3, BranchInto
<1> DEFINE T == {f} \cup {t}
<1>5. Linked(bs, new, cur, T)
  <2>1. Linked(split, new, cur, {}) /\ Linked(bs, split, cur, T)
    BY <1>4 DEF bs
  <2>2. T \cup {} = T
    OBVIOUS
  <2> HIDE DEF split, T
  <2> DEFINE E == {}
  <2> HIDE DEF E
  <2>3. Linked(bs, new, cur, T \cup E)
    BY <2>1, LinkedTwice DEF E
  <2> QED BY <2>2, <2>3 DEF E
<1>6. Len(new) = Len(bs)
  BY <1>5 DEF Linked
<1>7. ASSUME NEW b \in 1..Len(new), NEW p
      PROVE  p \in ToSet(new[b].pre) <=> (b \in Id /\ p \in Into(b)) \/ (b \in T /\ p = cur)
  <2> HIDE DEF T
  <2>1. p \in ToSet(new[b].pre) <=> p \in ToSet(bs[b].pre) \/ (b \in T /\ p = cur)
    BY <1>5, <1>6 DEF Linked
  <2> QED BY <1>2, <1>6, <2>1 DEF Into, Id
<1> QED BY <1>2, <1>6, <1>7

\* An instruction more changes nothing.
LEMMA LinkedSame ==
  ASSUME NEW bs, NEW b PROVE Linked(bs, bs, b, {})
BY DEF Linked

\* `if` and the head of a loop: the statement is visited in the first of the
\* new blocks, the others wait in g.
LEMMA ForkMoves ==
  ASSUME IInv, todo # <<>>, NEW k \in {2, 3}, NEW g,
         NEW f \in (Len(blocks) + 2)..(Len(blocks) + k),
         blocks' = CreateCondBr(Create(blocks, k), cur, Len(blocks) + 1, f),
         cur' = Len(blocks) + 1, Then(<<Frame("stmt"), g>>),
         Waits(g) = (Len(blocks) + 2)..(Len(blocks) + k), Loops(g) \subseteq Loops(Top)
  PROVE  Moves(<<Frame("stmt"), g>>, {f} \cup {Len(blocks) + 1})
<1> DEFINE t == Len(blocks) + 1
           st == Frame("stmt")
           fs == <<st, g>>
           T == {f} \cup {t}
<1>1. Len(blocks) \in Nat
  BY DEF IInv, BlocksOK
<1>2. t \in (Len(blocks) + 1)..(Len(blocks) + k) /\ f \in (Len(blocks) + 1)..(Len(blocks) + k) /\ k \in Nat
  BY <1>1
<1>3. blocks' = CreateCondBr(Create(blocks, k), cur, t, f) /\ cur' = t
  OBVIOUS
<1> HIDE DEF t
<1>4. Linked(CreateCondBr(Create(blocks, k), cur, t, f), blocks', cur, {})
  BY <1>3, LinkedSame
<1>5. /\ Len(blocks') = Len(blocks) + k
      /\ \A b \in 1..Len(blocks') : \A p :
           p \in ToSet(blocks'[b].pre) <=> (b \in Id /\ p \in Into(b)) \/ (b \in {f} \cup {t} /\ p = cur)
  BY <1>2, <1>4, ForkGrows
<1>6. Grows(T)
  <2>1. Len(blocks') \in Nat /\ Len(blocks) <= Len(blocks')
    BY <1>1, <1>2, <1>5
  <2> QED BY <1>5, <2>1 DEF Grows, Into
<1>7. Waits(st) = {} /\ Loops(st) = {}
  BY BarePlain
<1> HIDE DEF st
<1>8. fs \in Seq({st, g}) /\ Len(fs) = 2 /\ fs[1] = st /\ fs[2] = g /\ todo' = fs \o Tail(todo)
  BY DEF Then, st
<1> HIDE DEF fs
<1>9. \A i \in 1..Len(fs) : i = 1 \/ i = 2
  BY <1>8
<1>10. fs \in Seq(ToSet(fs))
  BY <1>8, SeqOver
<1>11. T \subseteq New /\ cur' \in New /\ Waits(g) \subseteq New
  BY <1>1, <1>2, <1>3, <1>5 DEF New
<1>12. \A i \in 1..Len(fs) : /\ Waits(fs[i]) \subseteq New /\ Loops(fs[i]) \subseteq Loops(Top)
                             /\ Loops(fs[i]) # {} => i = Len(fs)
  BY <1>7, <1>8, <1>9, <1>11
<1> HIDE DEF T
<1>13. Moves(fs, T)
  BY <1>6, <1>8, <1>10, <1>11, <1>12 DEF Moves, Heads
<1> QED BY <1>13 DEF fs, st, T, t

\* The step that follows the condition of an `if` or of a loop.
LEMMA ForkSteps ==
  ASSUME IInv, Branch \/ LoopBranch
  PROVE  \E fs, T : Moves(fs, T) /\ Bare(Top) /\ \A i \in 1..Len(fs) : Bare(fs[i])
<1> DEFINE L == Len(blocks)
           st == Frame("stmt")
<1>1. L \in Nat /\ todo # <<>> /\ FrameOK(Top, L)
  BY TopFacts DEF Branch, LoopBranch, At
<1>2. CASE Branch
  <2> DEFINE w == IF Top.arms = 2 THEN <<L + 3, L + 2>> ELSE <<L + 2>>
             f == IF Top.arms = 2 THEN L + 3 ELSE L + 2
             k == Top.arms + 1
             g == [at |-> "then", waiting |-> w]
             fs == <<st, g>>
  <2>1. /\ Top.at = "if" /\ cur' = L + 1 /\ Then(fs)
        /\ blocks' = CreateCondBr(Create(blocks, k), cur, L + 1, f)
    BY <1>2 DEF Branch, At
  <2>2. Top.arms \in {1, 2}
    BY <1>1, <2>1 DEF FrameOK
  <2>3. k \in {2, 3} /\ f \in (L + 2)..(L + k)
    BY <1>1, <2>2
  <2>4. ToSet(w) = (L + 2)..(L + k)
    <3>1. CASE Top.arms = 1
      <4>1. w = <<L + 2>> /\ k = 2
        BY <3>1
      <4>2. ToSet(<<L + 2>>) = {L + 2} /\ (L + 2)..(L + 2) = {L + 2}
        BY <1>1 DEF ToSet
      <4> HIDE DEF w, k
      <4> QED BY <4>1, <4>2
    <3>2. CASE Top.arms = 2
      <4>1. w = <<L + 3, L + 2>> /\ k = 3
        BY <3>2
      <4>2. ToSet(<<L + 3, L + 2>>) = {L + 3, L + 2} /\ (L + 2)..(L + 3) = {L + 3, L + 2}
        BY <1>1 DEF ToSet
      <4> HIDE DEF w, k
      <4> QED BY <4>1, <4>2
    <3> QED BY <2>2, <3>1, <3>2
  <2> HIDE DEF w, f, k
  <2>5. DOMAIN g = {"at", "waiting"} /\ g.at = "then" /\ g.waiting = w
    OBVIOUS
  <2> HIDE DEF g
  <2>6. Waits(g) = (L + 2)..(L + k) /\ Loops(g) \subseteq Loops(Top)
    BY <2>4, <2>5 DEF Waits, Loops
  <2> DEFINE T == {f} \cup {L + 1}
  <2>7. Moves(fs, T)
    BY <1>1, <2>1, <2>3, <2>6, ForkMoves
  <2>8. st.at = "stmt"
    BY BarePlain
  <2>9. Bare(Top) /\ \A i \in 1..Len(fs) : Bare(fs[i])
    BY <2>1, <2>5, <2>8 DEF Bare
  <2> HIDE DEF fs, T
  <2> QED BY <2>7, <2>9
<1>3. CASE LoopBranch
  <2> DEFINE w == <<L + 2>>
             g == [at |-> "body", expr |-> Top.expr, waiting |-> w]
             fs == <<st, g>>
             k == 2
             f == L + 2
  <2>1. /\ Top.at = "while" /\ cur' = L + 1 /\ Then(fs)
        /\ blocks' = CreateCondBr(Create(blocks, k), cur, L + 1, f)
    BY <1>3 DEF LoopBranch, At
  <2>2. k \in {2, 3} /\ f \in (L + 2)..(L + k)
    BY <1>1
  <2>3. ToSet(w) = (L + 2)..(L + k)
    <3>1. ToSet(w) = {L + 2} /\ (L + 2)..(L + 2) = {L + 2}
      BY <1>1 DEF ToSet
    <3> QED BY <3>1
  <2> HIDE DEF w, f, k
  <2>4. DOMAIN g = {"at", "expr", "waiting"} /\ g.at = "body" /\ g.waiting = w /\ g.expr = Top.expr
    OBVIOUS
  <2> HIDE DEF g
  <2>5. Waits(g) = (L + 2)..(L + k) /\ Loops(g) \subseteq Loops(Top)
    BY <2>1, <2>3, <2>4 DEF Waits, Loops
  <2> DEFINE T == {f} \cup {L + 1}
  <2>6. Moves(fs, T)
    BY <1>1, <2>1, <2>2, <2>5, ForkMoves
  <2>7. st.at = "stmt"
    BY BarePlain
  <2>8. Bare(Top) /\ \A i \in 1..Len(fs) : Bare(fs[i])
    BY <2>1, <2>4, <2>7 DEF Bare
  <2> HIDE DEF fs, T
  <2> QED BY <2>6, <2>8
<1> QED BY <1>2, <1>3

\* A checked index: the block of the exception, and the one to go on in.
LEMMA CheckIndexMoves ==
  ASSUME IInv, CheckIndex
  PROVE  Moves(<<>>, {Len(blocks) + 2} \cup {Len(blocks) + 1})
<1> DEFINE k == 2
           t == Len(blocks) + 1
           f == Len(blocks) + 2
           split == CreateCondBr(Create(blocks, k), cur, t, f)
           v == Find("neg_idx_except")
           ins1 == <<<<"call", v>>, <<"ret">>>>
           u == Top.var
           ins2 == <<<<"use", u>>>>
           mid == Emit(split, t, ins1)
           T == {f} \cup {t}
           fs == <<>>
<1>1. todo # <<>> /\ Then(fs) /\ cur' = f /\ blocks' = Emit(mid, f, ins2)
  BY DEF CheckIndex, At
<1>2. /\ BlocksOK(blocks) /\ ~Terminated(blocks, cur) /\ cur \in Id /\ Len(blocks) \in Nat
  BY <1>1, TopFacts DEF CheckIndex, At, Emitting, IInv
<1>3. k \in Nat /\ t \in (Len(blocks) + 1)..(Len(blocks) + k) /\ f \in (Len(blocks) + 1)..(Len(blocks) + k) /\ t # f
  BY <1>2
<1>4. ins1 \in Seq({<<"call", v>>, <<"ret">>}) /\ ins2 \in Seq({<<"use", u>>})
  OBVIOUS
<1>5. f = t + 1 /\ t \in Nat /\ t = Len(blocks) + 1
  BY <1>2
<1> HIDE DEF k, t, f, ins1, ins2, v, u
<1>6. BlocksOK(split) /\ Len(split) = Len(blocks) + k
  BY <1>2, <1>3, Fork
<1> HIDE DEF split
<1> DEFINE S == {<<"call", v>>, <<"ret">>} \cup {<<"use", u>>}
           A == Emitted(split) \cup S
<1>7. split \in Seq(Blk(A))
  BY <1>6, BlocksUp
<1>8. ins1 \in Seq(A) /\ ins2 \in Seq(A)
  BY <1>4, SeqOver
<1> HIDE DEF S, A
<1>9. t \in 1..Len(split) /\ f \in 1..Len(split)
  BY <1>2, <1>3, <1>6
<1>10. /\ mid \in Seq(Blk(A)) /\ Len(mid) = Len(split)
       /\ \A c \in 1..Len(split) : mid[c].pre = split[c].pre
  BY <1>7, <1>8, <1>9, EmitFacts
<1> HIDE DEF mid
<1>a. f \in 1..Len(mid)
  BY <1>9, <1>10
<1>11. /\ Len(blocks') = Len(mid)
       /\ \A c \in 1..Len(mid) : blocks'[c].pre = mid[c].pre
  BY SMTT(30), <1>1, <1>8, <1>10, <1>a, EmitFacts
<1>12. Linked(split, blocks', cur, {})
  BY <1>10, <1>11 DEF Linked
<1>b. Linked(CreateCondBr(Create(blocks, k), cur, t, f), blocks', cur, {})
  BY <1>12 DEF split
<1>c. todo # <<>>
  BY <1>1
<1>13. /\ Len(blocks') = Len(blocks) + k
       /\ \A b \in 1..Len(blocks') : \A p :
            p \in ToSet(blocks'[b].pre) <=> (b \in Id /\ p \in Into(b)) \/ (b \in {f} \cup {t} /\ p = cur)
  BY ONLY IInv, <1>3, <1>b, <1>c, ForkGrows
<1>14. Grows(T)
  <2>1. Len(blocks') \in Nat /\ Len(blocks) <= Len(blocks')
    BY <1>2, <1>3, <1>13
  <2> QED BY <1>13, <2>1 DEF Grows, Into
<1>15. T \subseteq New /\ cur' \in New
  BY <1>1, <1>2, <1>3, <1>13 DEF New
<1>16. fs \in Seq(ToSet(fs)) /\ Len(fs) = 0 /\ todo' = fs \o Tail(todo)
  BY <1>1 DEF Then
<1> HIDE DEF fs, T
<1>17. Moves(fs, T)
  BY <1>1, <1>14, <1>15, <1>16 DEF Moves
<1> QED BY <1>5, <1>17 DEF fs, T, t, f

\* A branch to a block that exists, unless the insert block is closed.
LEMMA CloseGrows ==
  ASSUME IInv, todo # <<>>, NEW t \in 2..Len(blocks), blocks' = BrUnlessTerminated(blocks, cur, t)
  PROVE  Len(blocks') = Len(blocks) /\ \E T \in SUBSET {t} : Grows(T)
<1>1. BlocksOK(blocks) /\ cur \in 1..Len(blocks) /\ Len(blocks) \in Nat
  BY TopFacts DEF IInv, Id
<1>2. CASE Terminated(blocks, cur)
  <2>1. blocks' = blocks
    BY <1>2 DEF BrUnlessTerminated
  <2>2. Len(blocks') = Len(blocks) /\ Grows({})
    BY <1>1, <2>1 DEF Grows, Into, Id
  <2> QED BY <2>2
<1>3. CASE ~Terminated(blocks, cur)
  <2>1. blocks' = CreateBr(blocks, cur, t) /\ t \in 1..Len(blocks)
    BY <1>1, <1>3 DEF BrUnlessTerminated
  <2>2. Linked(blocks, CreateBr(blocks, cur, t), cur, {t})
    BY <1>1, <2>1, BranchInto
  <2>3. Linked(blocks, blocks', cur, {t})
    BY <2>1, <2>2
  <2>4. Len(blocks') = Len(blocks) /\ Grows({t})
    BY <1>1, <2>3 DEF Linked, Grows, Into, Id
  <2> QED BY <2>4
<1> QED BY <1>2, <1>3

\* The end of an arm or of the body of a loop.
LEMMA JoinSteps ==
  ASSUME IInv, EndThen \/ EndElse \/ EndBody
  PROVE  \E fs, T : Moves(fs, T) /\ Bare(Top) /\ \A i \in 1..Len(fs) : Bare(fs[i])
<1> DEFINE w == Top.waiting
           t == IF Top.at = "body" THEN Top.expr ELSE Last(w)
<1>1. /\ todo # <<>> /\ Top.at \in {"then", "else", "body"}
      /\ blocks' = BrUnlessTerminated(blocks, cur, t)
  BY DEF EndThen, EndElse, EndBody, At
<1>2. /\ w \in Seq(2..Len(blocks)) /\ Waits(Top) = ToSet(w)
      /\ Len(w) = 1 \/ Len(w) = 2
      /\ Len(w) = 1 => Head(w) = Last(w) /\ ToSet(w) = {Head(w)}
      /\ Len(w) = 2 => /\ Top.at = "then" /\ Head(w) # Last(w)
                       /\ ToSet(w) = {Head(w), Last(w)} /\ Tail(w) = <<Last(w)>>
      /\ Head(w) \in 2..Len(blocks) /\ Last(w) \in 2..Len(blocks)
      /\ Top.at = "body" => Top.expr \in 2..Len(blocks)
  BY <1>1, WaitFacts
<1>3. t \in 2..Len(blocks)
  BY <1>1, <1>2 DEF Loops
<1>4. Bare(Top)
  BY <1>1 DEF Bare
<1> DEFINE head == Head(w)
           last == Last(w)
<1>5. /\ Len(w) = 2 => Then(<<Frame("stmt"), [at |-> "else", waiting |-> Tail(w)]>>)
      /\ Len(w) = 1 => Then(<<>>)
      /\ cur' \in {head, last}
  BY <1>2 DEF EndThen, EndElse, EndBody, At
<1>6. cur' \in Waits(Top)
  BY <1>2, <1>5
<1>7. PICK T \in SUBSET {t} : Grows(T)
  <2> HIDE DEF t
  <2> QED BY <1>1, <1>3, CloseGrows
<1>8. \/ T \subseteq Waits(Top)
      \/ T \subseteq Loops(Top) /\ Len(w) = 1
  BY <1>1, <1>2, <1>7 DEF Loops
<1>9. CASE Len(w) = 1
  <2> DEFINE fs == <<>>
  <2>1. fs \in Seq(ToSet(fs)) /\ Len(fs) = 0 /\ todo' = fs \o Tail(todo)
    BY <1>5, <1>9 DEF Then
  <2> HIDE DEF fs
  <2>2. Moves(fs, T)
    BY <1>1, <1>6, <1>7, <1>8, <2>1 DEF Moves
  <2>3. \A i \in 1..Len(fs) : Bare(fs[i])
    BY <2>1
  <2> QED BY <1>4, <2>2, <2>3
<1>10. CASE Len(w) = 2
  <2> DEFINE st == Frame("stmt")
             g == [at |-> "else", waiting |-> <<last>>]
             fs == <<st, g>>
  <2>1. Then(fs) /\ Waits(Top) = {head, last}
    BY <1>2, <1>5, <1>10
  <2>2. DOMAIN g = {"at", "waiting"} /\ g.at = "else" /\ g.waiting = <<last>> /\ ToSet(<<last>>) = {last}
    BY DEF ToSet
  <2> HIDE DEF g, head, last
  <2>3. Waits(g) \subseteq Waits(Top) /\ Loops(g) = {}
    BY <2>1, <2>2 DEF Waits, Loops
  <2>4. Waits(st) = {} /\ Loops(st) = {} /\ st.at = "stmt"
    BY BarePlain
  <2> HIDE DEF st
  <2>5. fs \in Seq({st, g}) /\ Len(fs) = 2 /\ fs[1] = st /\ fs[2] = g /\ todo' = fs \o Tail(todo)
    BY <2>1 DEF Then
  <2> HIDE DEF fs
  <2>6. \A i \in 1..Len(fs) : i = 1 \/ i = 2
    BY <2>5
  <2>7. fs \in Seq(ToSet(fs))
    BY <2>5, SeqOver
  <2>8. \A i \in 1..Len(fs) : /\ Waits(fs[i]) \subseteq Waits(Top) /\ Loops(fs[i]) = {}
                              /\ Bare(fs[i])
    BY <2>2, <2>3, <2>4, <2>5, <2>6 DEF Bare
  <2>9. Moves(fs, T)
    BY <1>1, <1>6, <1>7, <1>8, <1>10, <2>5, <2>7, <2>8 DEF Moves, Heads
  <2> QED BY <1>4, <2>8, <2>9
<1> QED BY <1>2, <1>9, <1>10

\* A loop begins: the insert block leads to the block of its condition.
LEMMA LoopStep ==
  ASSUME IInv, IterationStmt
  PROVE  \E fs, T : Moves(fs, T) /\ Bare(Top) /\ \A i \in 1..Len(fs) : Bare(fs[i])
<1> DEFINE L == Len(blocks)
           k == 1
           bs == Create(blocks, k)
           t == L + 1
           f == Frame("expr")
           g == [at |-> "while", expr |-> t]
           fs == <<f, g>>
           T == {t}
<1>1. /\ todo # <<>> /\ Top.at = "stmt" /\ cur' = t /\ Then(fs)
      /\ blocks' = BrUnlessTerminated(bs, cur, t)
  BY DEF IterationStmt, At
<1>2. /\ BlocksOK(blocks) /\ ~Terminated(blocks, cur) /\ cur \in 1..L /\ L \in Nat /\ k \in Nat
      /\ t \in 1..(L + k) /\ t = L + k /\ t >= L + 1
  BY <1>1, TopFacts DEF Emitting, Id, IInv
<1> HIDE DEF k
<1>3. /\ BlocksOK(bs) /\ Len(bs) = L + k
      /\ \A c \in 1..L : bs[c] = blocks[c]
  BY <1>2, CreateOK
<1>4. \A c \in 1..Len(bs) : \A p :
        p \in ToSet(bs[c].pre) <=> c \in 1..Len(blocks) /\ p \in ToSet(blocks[c].pre)
  BY <1>2, CreateInto
<1>5. ~Terminated(bs, cur)
  BY <1>2, <1>3 DEF Terminated
<1> HIDE DEF bs
<1>6. blocks' = CreateBr(bs, cur, t) /\ cur \in 1..Len(bs) /\ t \in 1..Len(bs)
  BY <1>1, <1>2, <1>3, <1>5 DEF BrUnlessTerminated
<1> HIDE DEF t
<1>7. Linked(bs, CreateBr(bs, cur, t), cur, {t})
  BY <1>3, <1>6, BranchInto
<1>8. Linked(bs, blocks', cur, T)
  BY <1>6, <1>7
<1> HIDE DEF T
<1>9. Grows(T) /\ Len(blocks') = L + k
  <2>1. Len(blocks') = L + k /\ Len(blocks') \in Nat /\ Len(blocks) <= Len(blocks')
    BY <1>2, <1>3, <1>8 DEF Linked
  <2>2. ASSUME NEW b \in 1..Len(blocks'), NEW p
        PROVE  p \in ToSet(blocks'[b].pre) <=> (b \in Id /\ p \in Into(b)) \/ (b \in T /\ p = cur)
    <3>1. b \in 1..Len(bs)
      BY <1>8, <2>1 DEF Linked
    <3>2. p \in ToSet(blocks'[b].pre) <=> p \in ToSet(bs[b].pre) \/ (b \in T /\ p = cur)
      BY <1>8, <3>1 DEF Linked
    <3> QED BY <1>4, <3>1, <3>2 DEF Into, Id
  <2> QED BY <2>1, <2>2 DEF Grows, Into
<1>10. Waits(f) = {} /\ Loops(f) = {} /\ f.at = "expr"
  BY BarePlain
<1>11. DOMAIN g = {"at", "expr"} /\ g.at = "while" /\ g.expr = t
  OBVIOUS
<1> HIDE DEF f, g
<1>12. fs \in Seq({f, g}) /\ Len(fs) = 2 /\ fs[1] = f /\ fs[2] = g /\ todo' = fs \o Tail(todo)
  BY <1>1 DEF Then
<1> HIDE DEF fs
<1>13. \A i \in 1..Len(fs) : i = 1 \/ i = 2
  BY <1>12
<1>14. fs \in Seq(ToSet(fs))
  BY <1>12, SeqOver
<1>15. T \subseteq New /\ cur' \in New \cap T /\ cur' = Len(blocks')
  BY <1>1, <1>2, <1>9 DEF New, T
<1>16. Waits(g) = {} /\ Loops(g) = {t}
  BY <1>11 DEF Waits, Loops
<1>17. \A i \in 1..Len(fs) : /\ Waits(fs[i]) = {} /\ Bare(fs[i])
                             /\ Loops(fs[i]) = {} \/ Loops(fs[i]) = {t}
                             /\ Loops(fs[i]) # {} => i = Len(fs)
  BY <1>10, <1>11, <1>12, <1>13, <1>16 DEF Bare
<1>a. \A i \in 1..Len(fs) : Heads(fs, i, T)
  BY <1>1, <1>15, <1>17 DEF Heads
<1>18. Moves(fs, T)
  BY <1>1, <1>9, <1>12, <1>14, <1>15, <1>17, <1>a DEF Moves
<1>19. Bare(Top)
  BY <1>1 DEF Bare
<1> QED BY <1>17, <1>18, <1>19

\* All these together.
LEMMA PlainSteps ==
  ASSUME IInv,
         \/ EmptyStatement \/ ExpressionStmt \/ CompoundStmt \/ ReturnStmt \/ SelectionStmt
         \/ VoidReturn \/ EndReturn \/ Number \/ Var
         \/ Branch \/ LoopBranch \/ EndThen \/ EndElse \/ EndBody \/ IterationStmt
  PROVE  \E fs, T : Moves(fs, T) /\ Bare(Top) /\ \A i \in 1..Len(fs) : Bare(fs[i])
<1>1. CASE \/ EmptyStatement \/ ExpressionStmt \/ CompoundStmt \/ ReturnStmt \/ SelectionStmt
           \/ VoidReturn \/ EndReturn \/ Number \/ Var
  BY <1>1, QuietSteps
<1>2. CASE Branch \/ LoopBranch
  BY <1>2, ForkSteps
<1>3. CASE EndThen \/ EndElse \/ EndBody
  BY <1>3, JoinSteps
<1>4. CASE IterationStmt
  BY <1>4, LoopStep
<1> QED BY <1>1, <1>2, <1>3, <1>4

\* The steps at which a scope begins or ends, or a variable is found.
LEMMA ScopeMoves ==
  ASSUME IInv
  PROVE  /\ EnterCompound => Moves(<<[at |-> "decls", exits |-> ~pre_enter_scope]>>, {})
         /\ VarDeclaration => Moves(<<Top>>, {})
         /\ NextStatement => Moves(<<Frame("stmt"), [Top EXCEPT !.at = "list"]>>, {})
         /\ LeaveCompound \/ EndFunction => Moves(<<>>, {})
         /\ \A v : At("expr") /\ Then(<<Frame("expr"), [at |-> "index", var |-> v]>>)
                     /\ UNCHANGED <<blocks, cur>>
                   => Moves(<<Frame("expr"), [at |-> "index", var |-> v]>>, {})
<1>1. ASSUME EnterCompound PROVE Moves(<<[at |-> "decls", exits |-> ~pre_enter_scope]>>, {})
  <2> DEFINE f == [at |-> "decls", exits |-> ~pre_enter_scope]
  <2>1. todo # <<>> /\ Then(<<f>>) /\ UNCHANGED <<blocks, cur>>
    BY <1>1 DEF EnterCompound, At
  <2>2. "waiting" \notin DOMAIN f /\ f.at = "decls"
    OBVIOUS
  <2> HIDE DEF f
  <2>3. Waits(f) = {} /\ Loops(f) = {} /\ Quiet
    BY <2>1, <2>2, BareFrame, QuietSame
  <2>4. Moves(<<f>>, {})
    BY <2>1, <2>3, QuietOne DEF Then
  <2> QED BY <2>4 DEF f
<1>2. ASSUME VarDeclaration PROVE Moves(<<Top>>, {})
  <2> DEFINE ins == <<<<"alloca">>>>
             one == <<Top>>
  <2>1. /\ todo # <<>> /\ Top.at = "decls" /\ todo' = todo /\ cur' = cur
        /\ blocks' = Emit(blocks, cur, ins) /\ ins \in Seq({<<"alloca">>})
    BY <1>2 DEF VarDeclaration, At
  <2>2. todo \in Seq(ToSet(todo)) /\ FrameOK(Top, Len(blocks))
    BY <2>1, TopFacts DEF IInv, FramesInv
  <2>3. "waiting" \notin DOMAIN Top
    BY <2>1, <2>2 DEF FrameOK
  <2>4. todo = one \o Tail(todo)
    <3> DEFINE S == ToSet(todo)
    <3>1. todo \in Seq(S) /\ todo # <<>> /\ Top = todo[1]
      BY <2>1, <2>2 DEF Top
    <3> HIDE DEF S
    <3> QED BY <3>1
  <2> HIDE DEF ins
  <2>5. Quiet
    BY <2>1, QuietEmit
  <2>6. Waits(Top) = {} /\ Loops(Top) = {}
    BY <2>1, <2>3, BareFrame
  <2> DEFINE f == Top
  <2>7. todo' = <<f>> \o Tail(todo) /\ Waits(f) = {} /\ Loops(f) = {}
    BY <2>1, <2>4, <2>6
  <2> HIDE DEF f
  <2>8. Moves(<<f>>, {})
    BY <2>5, <2>7, QuietOne
  <2> QED BY <2>8 DEF f
<1>3. ASSUME NextStatement PROVE Moves(<<Frame("stmt"), [Top EXCEPT !.at = "list"]>>, {})
  <2> DEFINE f == Frame("stmt")
             g == [Top EXCEPT !.at = "list"]
  <2>1. todo # <<>> /\ Then(<<f, g>>) /\ UNCHANGED <<blocks, cur>> /\ Top.at \in {"decls", "list"}
    BY <1>3 DEF NextStatement, At
  <2>2. FrameOK(Top, Len(blocks))
    BY <2>1, TopFacts
  <2>3. "waiting" \notin DOMAIN Top /\ "at" \in DOMAIN Top
    BY <2>1, <2>2 DEF FrameOK
  <2>4. "waiting" \notin DOMAIN g /\ g.at = "list"
    BY <2>3
  <2>5. Waits(f) = {} /\ Loops(f) = {}
    BY BarePlain
  <2> HIDE DEF f, g
  <2>6. Waits(g) = {} /\ Loops(g) = {} /\ Quiet
    BY <2>1, <2>4, BareFrame, QuietSame
  <2>7. Moves(<<f, g>>, {})
    BY <2>1, <2>5, <2>6, QuietTwo
  <2> QED BY <2>7 DEF f, g
<1>4. ASSUME LeaveCompound \/ EndFunction PROVE Moves(<<>>, {})
  <2>1. CASE LeaveCompound
    <3>1. todo # <<>> /\ Then(<<>>) /\ UNCHANGED <<blocks, cur>>
      BY <2>1 DEF LeaveCompound, At
    <3> QED BY <3>1, QuietSame, QuietNone
  <2>2. CASE EndFunction
    <3> DEFINE ins == <<<<"ret">>>>
    <3>1. /\ todo # <<>> /\ Then(<<>>) /\ cur' = cur /\ ins \in Seq({<<"ret">>})
          /\ blocks' = blocks \/ blocks' = Emit(blocks, cur, ins)
      BY <2>2 DEF EndFunction, At, RetUnlessTerminated
    <3> HIDE DEF ins
    <3>2. Quiet
      BY <3>1, QuietSame, QuietEmit
    <3> QED BY <3>1, <3>2, QuietNone
  <2> QED BY <1>4, <2>1, <2>2
<1>5. ASSUME NEW v, At("expr"), Then(<<Frame("expr"), [at |-> "index", var |-> v]>>),
             UNCHANGED <<blocks, cur>>
      PROVE  Moves(<<Frame("expr"), [at |-> "index", var |-> v]>>, {})
  <2> DEFINE f == Frame("expr")
             g == [at |-> "index", var |-> v]
  <2>1. todo # <<>> /\ Then(<<f, g>>) /\ UNCHANGED <<blocks, cur>>
    BY <1>5 DEF At
  <2>2. "waiting" \notin DOMAIN g /\ g.at = "index"
    OBVIOUS
  <2>3. Waits(f) = {} /\ Loops(f) = {}
    BY BarePlain
  <2> HIDE DEF f, g
  <2>4. Waits(g) = {} /\ Loops(g) = {} /\ Quiet
    BY <2>1, <2>2, BareFrame, QuietSame
  <2>5. Moves(<<f, g>>, {})
    BY <2>1, <2>3, <2>4, QuietTwo
  <2> QED BY <2>5 DEF f, g
<1> QED BY <1>1, <1>2, <1>3, <1>4, <1>5

-----------------------------------------------------------------------------
(* Regions.  While a loop or a scope is visited, the blocks made since its   *)
(* head (the block of the condition; the block that holds the alloca) are    *)
(* led to only from there or from each other, and what waits further out was *)
(* made before.  So once the visit is over nothing ever enters them but      *)
(* through the head: it dominates them.                                      *)
Region(d, lo, hi) ==
  \A x \in (lo + 1)..hi : \A p \in Into(x) : p = d \/ p \in (lo + 1)..hi
Open(n, d, lo) ==      \* n visits further out
  /\ d \in 1..lo /\ lo \in Id /\ Region(d, lo, Len(blocks))
  /\ cur = d \/ cur > lo
  /\ \A i \in DOMAIN todo :
       /\ Len(todo) - i < n => \A x \in Waits(todo[i]) \cup Loops(todo[i]) : x <= lo
       /\ Len(todo) - i >= n => \A x \in Waits(todo[i]) : x > lo
Shut(d, lo, hi) ==
  /\ d \in 1..lo /\ lo \in Nat /\ hi \in Id /\ Region(d, lo, hi)
  /\ \A i \in DOMAIN todo : \A x \in Waits(todo[i]) \cup Loops(todo[i]) : x \notin (lo + 1)..hi
Under(d, b) == b = d \/ \E lo, hi : Shut(d, lo, hi) /\ b \in (lo + 1)..hi

\* Where the visits under way lead.
LEMMA MarksIn ==
  ASSUME IInv, NEW i \in DOMAIN todo
  PROVE  Waits(todo[i]) \cup Loops(todo[i]) \subseteq 2..Len(blocks)
<1>1. FrameOK(todo[i], Len(blocks))
  BY DEF IInv, FramesInv
<1> DEFINE f == todo[i]
<1>2. Waits(f) \subseteq 2..Len(blocks)
  <2>1. CASE "waiting" \in DOMAIN f
    <3> DEFINE w == f.waiting
    <3>1. w \in Seq(2..Len(blocks)) /\ Waits(f) = ToSet(w)
      BY <1>1, <2>1 DEF FrameOK, Waits
    <3> HIDE DEF w
    <3> QED BY <3>1 DEF ToSet
  <2>2. CASE "waiting" \notin DOMAIN f
    BY <2>2 DEF Waits
  <2> QED BY <2>1, <2>2
<1>3. Loops(f) \subseteq 2..Len(blocks)
  BY <1>1 DEF FrameOK, Loops
<1> QED BY <1>2, <1>3

\* The frames before and after a step.
LEMMA MoveFrames ==
  ASSUME IInv, NEW fs, NEW T, Moves(fs, T)
  PROVE  /\ Len(todo) \in Nat /\ Len(todo) > 0 /\ DOMAIN todo = 1..Len(todo) /\ Len(fs) \in Nat
         /\ DOMAIN todo' = 1..Len(todo') /\ Len(todo') = Len(fs) + Len(todo) - 1
         /\ \A i \in 1..Len(fs) : todo'[i] = fs[i]
         /\ \A i \in (Len(fs) + 1)..Len(todo') :
              i - Len(fs) + 1 \in 2..Len(todo) /\ todo'[i] = todo[i - Len(fs) + 1]
         /\ cur \in Id /\ Len(blocks) \in Nat /\ Len(blocks') \in Nat /\ Len(blocks) <= Len(blocks')
         /\ Top = todo[1] /\ 1 \in DOMAIN todo
<1>1. todo # <<>> /\ fs \in Seq(ToSet(fs)) /\ todo' = fs \o Tail(todo) /\ Grows(T)
  BY DEF Moves
<1>2. FramesInv
  BY DEF IInv
<1>3. /\ DOMAIN todo' = 1..Len(todo')
      /\ Len(todo) \in Nat /\ Len(todo) > 0 /\ Len(fs) \in Nat /\ DOMAIN todo = 1..Len(todo)
      /\ Len(todo') = Len(fs) + Len(todo) - 1
      /\ \A i \in 1..Len(fs) : todo'[i] = fs[i]
      /\ \A i \in (Len(fs) + 1)..Len(todo') :
           i - Len(fs) + 1 \in 2..Len(todo) /\ todo'[i] = todo[i - Len(fs) + 1]
  BY <1>1, <1>2, ThenFacts
<1>4. cur \in Id /\ Len(blocks) \in Nat
  BY <1>1, TopFacts
<1> QED BY <1>1, <1>3, <1>4 DEF Grows, Top

\* What a step adds to the frames is new or was in the innermost one.
LEMMA FrameStep ==
  ASSUME IInv, NEW fs, NEW T, Moves(fs, T), NEW i \in DOMAIN todo'
  PROVE  \/ /\ i \in 1..Len(fs) /\ todo'[i] = fs[i] /\ Len(todo') - i >= Len(todo) - 1
            /\ \A x \in Waits(todo'[i]) : x \in Waits(Top) \/ x > Len(blocks)
            /\ \A x \in Loops(todo'[i]) : x \in Loops(Top) \/ x > Len(blocks)
         \/ /\ i \notin 1..Len(fs) /\ i - Len(fs) + 1 \in DOMAIN todo /\ todo'[i] = todo[i - Len(fs) + 1]
            /\ Len(todo') - i = Len(todo) - (i - Len(fs) + 1)
<1>1. /\ Len(todo) \in Nat /\ Len(todo) > 0 /\ DOMAIN todo = 1..Len(todo) /\ Len(fs) \in Nat
      /\ DOMAIN todo' = 1..Len(todo') /\ Len(todo') = Len(fs) + Len(todo) - 1
      /\ \A k \in 1..Len(fs) : todo'[k] = fs[k]
      /\ \A k \in (Len(fs) + 1)..Len(todo') :
           k - Len(fs) + 1 \in 2..Len(todo) /\ todo'[k] = todo[k - Len(fs) + 1]
      /\ Len(blocks) \in Nat
  BY MoveFrames
<1>2. CASE i \in 1..Len(fs)
  <2>1. todo'[i] = fs[i] /\ Len(todo') - i >= Len(todo) - 1
    BY <1>1, <1>2
  <2>2. \A x \in New : x > Len(blocks)
    BY <1>1 DEF New, Moves, Grows
  <2>3. Waits(fs[i]) \subseteq Waits(Top) \cup New /\ Heads(fs, i, T)
    <3>1. Waits(fs[i]) \subseteq Waits(Top) \cup New
      BY <1>2 DEF Moves
    <3>2. Heads(fs, i, T)
      BY <1>2 DEF Moves
    <3> QED BY <3>1, <3>2
  <2>4. \A x \in Loops(fs[i]) : x \in Loops(Top) \/ x \in New
    BY <2>3 DEF Heads
  <2> QED BY <1>2, <2>1, <2>2, <2>3, <2>4
<1>3. CASE i \notin 1..Len(fs)
  <2>1. i \in (Len(fs) + 1)..Len(todo')
    BY <1>1, <1>3
  <2>2. i - Len(fs) + 1 \in DOMAIN todo /\ todo'[i] = todo[i - Len(fs) + 1]
    BY SMTT(30), <1>1, <2>1
  <2>3. Len(todo') - i = Len(todo) - (i - Len(fs) + 1)
    BY <1>1, <2>1
  <2> QED BY <1>3, <2>2, <2>3
<1> QED BY <1>2, <1>3

\* A region stays one, the innermost visit but one still being in it.
LEMMA OpenStays ==
  ASSUME IInv, NEW fs, NEW T, Moves(fs, T), NEW n \in Nat, n < Len(todo), NEW d, NEW lo, Open(n, d, lo)
  PROVE  Open(n, d, lo)'
<1>1. /\ Len(todo) \in Nat /\ Len(todo) > 0 /\ DOMAIN todo = 1..Len(todo) /\ 1 \in DOMAIN todo
      /\ Len(blocks) \in Nat /\ Len(blocks') \in Nat /\ Len(blocks) <= Len(blocks')
      /\ cur \in Id /\ Top = todo[1]
  BY MoveFrames
<1>2. /\ d \in 1..lo /\ lo \in 1..Len(blocks) /\ Region(d, lo, Len(blocks))
      /\ cur = d \/ cur > lo
  BY DEF Open, Id
<1>3. \A x \in Waits(Top) : x > lo
  <2>1. Len(todo) - 1 >= n
    BY <1>1
  <2> QED BY <1>1, <2>1 DEF Open
<1>4. \A x \in New : x > lo
  BY <1>1, <1>2 DEF New
<1>5. cur' = d \/ cur' > lo
  BY <1>2, <1>3, <1>4 DEF Moves
<1>6. Region(d, lo, Len(blocks))'
  <2>1. ASSUME NEW x \in (lo + 1)..Len(blocks'), NEW p \in Into(x)'
        PROVE  p = d \/ p \in (lo + 1)..Len(blocks')
    <3>1. x \in 1..Len(blocks')
      BY <1>1, <1>2
    <3>2. (x \in Id /\ p \in Into(x)) \/ p = cur
      BY <2>1, <3>1 DEF Moves, Grows
    <3>3. CASE x \in Id /\ p \in Into(x)
      <4>1. x \in (lo + 1)..Len(blocks)
        BY <1>1, <1>2, <3>3 DEF Id
      <4>2. p = d \/ p \in (lo + 1)..Len(blocks)
        BY <1>2, <3>3, <4>1 DEF Region
      <4> QED BY <1>1, <1>2, <4>2
    <3>4. CASE p = cur
      BY <1>1, <1>2, <3>4 DEF Id
    <3> QED BY <3>2, <3>3, <3>4
  <2> QED BY <2>1 DEF Region
<1>7. ASSUME NEW i \in DOMAIN todo'
      PROVE  /\ Len(todo') - i < n => \A x \in Waits(todo'[i]) \cup Loops(todo'[i]) : x <= lo
             /\ Len(todo') - i >= n => \A x \in Waits(todo'[i]) : x > lo
  <2> DEFINE j == i - Len(fs) + 1
  <2>1. CASE /\ Len(todo') - i >= Len(todo) - 1
             /\ \A x \in Waits(todo'[i]) : x \in Waits(Top) \/ x > Len(blocks)
    <3>1. ~(Len(todo') - i < n)
      BY <1>1, <2>1, MoveFrames
    <3>2. \A x \in Waits(todo'[i]) : x > lo
      <4> TAKE x \in Waits(todo'[i])
      <4>1. x \in Waits(Top) \/ x > Len(blocks)
        BY <2>1
      <4>2. CASE x > Len(blocks)
        <5>1. x \in Waits(Top) \cup New
          <6>1. i \in 1..Len(fs) /\ todo'[i] = fs[i]
            BY <1>1, <2>1, MoveFrames
          <6> QED BY <6>1 DEF Moves
        <5> QED BY <1>3, <1>4, <5>1
      <4> QED BY <1>3, <4>1, <4>2
    <3> QED BY <3>1, <3>2
  <2>2. CASE j \in DOMAIN todo /\ todo'[i] = todo[j] /\ Len(todo') - i = Len(todo) - j
    <3> HIDE DEF j
    <3>1. /\ Len(todo) - j < n => \A x \in Waits(todo[j]) \cup Loops(todo[j]) : x <= lo
          /\ Len(todo) - j >= n => \A x \in Waits(todo[j]) : x > lo
      BY <2>2 DEF Open
    <3> QED BY <2>2, <3>1
  <2>3. \/ /\ Len(todo') - i >= Len(todo) - 1
           /\ \A x \in Waits(todo'[i]) : x \in Waits(Top) \/ x > Len(blocks)
        \/ j \in DOMAIN todo /\ todo'[i] = todo[j] /\ Len(todo') - i = Len(todo) - j
    BY FrameStep
  <2> QED BY <2>1, <2>2, <2>3
<1>8. lo \in Id'
  BY <1>1, <1>2 DEF Id
<1> QED BY <1>2, <1>5, <1>6, <1>7, <1>8 DEF Open

\* A visit ends: what was its region is shut.
LEMMA OpenShuts ==
  ASSUME IInv', cur' # 0, NEW n, n = Len(todo'), NEW hi, hi = Len(blocks'), NEW d, NEW lo, Open(n, d, lo)'
  PROVE  Shut(d, lo, hi)'
<1>1. /\ Len(blocks') \in Nat /\ todo' \in Seq(ToSet(todo')) /\ cur' \in Id' \cup {0}
  BY DEF IInv, BlocksOK, FramesInv, CurInv
<1>2. /\ d \in 1..lo /\ lo \in Id' /\ Region(d, lo, Len(blocks))'
  BY DEF Open
<1>3. ASSUME NEW i \in DOMAIN todo' PROVE \A x \in Waits(todo'[i]) \cup Loops(todo'[i]) : x <= lo
  <2>1. Len(todo') - i < n
    BY <1>1
  <2> QED BY <2>1 DEF Open
<1>4. hi \in Id' /\ lo \in Nat
  BY <1>1, <1>2 DEF Id
<1>5. \A i \in DOMAIN todo' : \A x \in Waits(todo'[i]) \cup Loops(todo'[i]) : x \notin (lo + 1)..hi
  BY <1>3, <1>4
<1> QED BY <1>2, <1>4, <1>5 DEF Shut, Region

\* And nothing opens it.
LEMMA ShutStays ==
  ASSUME IInv, NEW fs, NEW T, Moves(fs, T), NEW d, NEW lo, NEW hi, Shut(d, lo, hi)
  PROVE  Shut(d, lo, hi)'
<1>1. /\ DOMAIN todo = 1..Len(todo) /\ 1 \in DOMAIN todo /\ Top = todo[1]
      /\ Len(blocks) \in Nat /\ Len(blocks') \in Nat /\ Len(blocks) <= Len(blocks')
  BY MoveFrames
<1>2. d \in 1..lo /\ lo \in Nat /\ hi \in 1..Len(blocks) /\ Region(d, lo, hi)
  BY DEF Shut, Id
<1>3. \A i \in DOMAIN todo : \A x \in Waits(todo[i]) \cup Loops(todo[i]) : x \notin (lo + 1)..hi
  BY DEF Shut
<1>4. \A x \in Waits(Top) \cup Loops(Top) : x \notin (lo + 1)..hi
  BY <1>1, <1>3
<1>5. \A x \in New : x \notin (lo + 1)..hi
  BY <1>1, <1>2 DEF New
<1>6. Region(d, lo, hi)'
  <2>1. ASSUME NEW x \in (lo + 1)..hi, NEW p \in Into(x)' PROVE p = d \/ p \in (lo + 1)..hi
    <3>1. x \in 1..Len(blocks')
      BY <1>1, <1>2
    <3>2. x \notin T
      BY <1>4, <1>5 DEF Moves
    <3>3. p \in Into(x)
      BY <2>1, <3>1, <3>2 DEF Moves, Grows
    <3> QED BY <1>2, <3>3 DEF Region
  <2> QED BY <2>1 DEF Region
<1>7. ASSUME NEW i \in DOMAIN todo', NEW x \in Waits(todo'[i]) \cup Loops(todo'[i])
      PROVE  x \notin (lo + 1)..hi
  <2> DEFINE j == i - Len(fs) + 1
  <2>1. CASE \/ x \in Waits(Top) \cup Loops(Top)
             \/ x > Len(blocks)
    <3>1. CASE x \in Waits(Top) \cup Loops(Top)
      BY <1>4, <3>1
    <3>2. CASE x > Len(blocks)
      BY <1>1, <1>2, <3>2
    <3> QED BY <2>1, <3>1, <3>2
  <2>2. CASE j \in DOMAIN todo /\ todo'[i] = todo[j]
    <3> HIDE DEF j
    <3> QED BY <1>3, <1>7, <2>2
  <2>3. \/ /\ \A y \in Waits(todo'[i]) : y \in Waits(Top) \/ y > Len(blocks)
           /\ \A y \in Loops(todo'[i]) : y \in Loops(Top) \/ y > Len(blocks)
        \/ j \in DOMAIN todo /\ todo'[i] = todo[j]
    BY FrameStep
  <2> QED BY <1>7, <2>1, <2>2, <2>3
<1>8. hi \in Id'
  BY <1>1, <1>2 DEF Id
<1> QED BY <1>2, <1>6, <1>7, <1>8 DEF Shut

\* So what is under a block stays under it.
LEMMA UnderStays ==
  ASSUME IInv, NEW fs, NEW T, Moves(fs, T), NEW d, NEW b, Under(d, b)
  PROVE  Under(d, b)'
<1>1. CASE b = d
  BY <1>1 DEF Under
<1>2. CASE b # d
  <2>1. PICK lo, hi : Shut(d, lo, hi) /\ b \in (lo + 1)..hi
    BY <1>2 DEF Under
  <2>2. Shut(d, lo, hi)'
    BY <2>1, ShutStays
  <2> QED BY <2>1, <2>2 DEF Under
<1> QED BY <1>1, <1>2

-----------------------------------------------------------------------------
(* The invariant of the graph.  A loop is open at its head, which something  *)
(* leads to; in every set of blocks one is led to, from the set, only by     *)
(* blocks under it; and all is reached from the entry and from the blocks    *)
(* nothing leads to.                                                         *)
LoopsInv ==
  \A i \in DOMAIN todo : \A e \in Loops(todo[i]) :
    Into(e) # {} /\ \A n \in Nat : n = Len(todo) - i => Open(n, e, e)
NoKnot ==
  \A S \in SUBSET Id : S # {} => \E b \in S : \A p \in S \cap Into(b) : Under(b, p)
Source(S) ==
  /\ 1 \in S
  /\ \A b \in Id : Into(b) = {} => b \in S
  /\ \A b \in Id : \A p \in S \cap Into(b) : b \in S
Grounded == cur # 0 => \A S \in SUBSET Id : Source(S) => S = Id
GraphInv == IInv /\ LoopsInv /\ NoKnot /\ Grounded

\* Before a step and after it, the visits lead to blocks of the function.
MarksOK == \A i \in DOMAIN todo : Waits(todo[i]) \cup Loops(todo[i]) \subseteq 2..Len(blocks)
LEMMA MarksNext == IInv' => MarksOK'
<1>1. IInv => MarksOK
  BY MarksIn DEF MarksOK
<1> QED BY <1>1, PTL

\* What no branch leaves: the blocks that wait and the new ones.
LEMMA NoneLeaves ==
  ASSUME IInv, NEW fs, NEW T, Moves(fs, T), NEW b \in Waits(Top) \cup New, NEW c \in Id'
  PROVE  b \notin Into(c)' /\ b # cur
<1>1. /\ DOMAIN todo = 1..Len(todo) /\ 1 \in DOMAIN todo /\ Top = todo[1]
      /\ Len(blocks) \in Nat /\ cur \in Id
  BY MoveFrames
<1>2. \A x \in Id : ToSet(blocks[x].pre) \subseteq Id /\ Edges(blocks, x)
  BY DEF IInv, BlocksOK, Edges, Id
<1>3. CASE b \in New
  <2>1. b \notin Id
    BY <1>1, <1>3 DEF New, Id
  <2>2. \A x \in Id : b \notin Into(x)
    BY <1>2, <2>1 DEF Into
  <2>3. b \notin Into(c)'
    BY <1>1, <2>1, <2>2 DEF Moves, Grows, Id
  <2> QED BY <1>1, <2>1, <2>3
<1>4. CASE b \in Waits(Top)
  <2>1. b \in Pending /\ b \in Id
    <3>1. Waits(Top) = Waiting(1)
      BY <1>1 DEF Waits, Waiting
    <3>2. Waits(Top) \subseteq 2..Len(blocks)
      BY <1>1, MarksIn
    <3> QED BY <1>1, <1>4, <3>1, <3>2 DEF Pending, Id
  <2>2. blocks[b].code = <<>> /\ b # cur
    BY <2>1 DEF IInv, NoBlockLost
  <2>3. blocks[b].succ = <<>>
    <3>1. ToSet(<<>>) = {}
      BY DEF ToSet
    <3> QED BY <1>2, <2>1, <2>2, <3>1 DEF Edges
  <2>4. \A x \in Id : b \notin Into(x)
    <3>1. \A x \in Id : x \in ToSet(blocks[b].succ) <=> b \in ToSet(blocks[x].pre)
      BY <1>2, <2>1 DEF Edges, Id
    <3>2. ToSet(blocks[b].succ) = {}
      BY <2>3 DEF ToSet
    <3> QED BY <3>1, <3>2 DEF Into
  <2>5. b \notin Into(c)'
    BY <2>2, <2>4 DEF Moves, Grows, Id
  <2> QED BY <2>2, <2>5
<1> QED BY <1>3, <1>4

\* What leads to a block still does.
LEMMA IntoStays ==
  ASSUME IInv, NEW fs, NEW T, Moves(fs, T)
  PROVE  /\ Id \subseteq Id' /\ New \subseteq Id' /\ Id' \subseteq Id \cup New
         /\ \A b \in Id' : \A p : p \in Into(b)' <=> (b \in Id /\ p \in Into(b)) \/ (b \in T /\ p = cur)
         /\ \A b \in Id : Into(b) \subseteq Into(b)'
<1>1. Len(blocks) \in Nat /\ Len(blocks') \in Nat /\ Len(blocks) <= Len(blocks')
  BY MoveFrames
<1>2. Id \subseteq Id' /\ New \subseteq Id' /\ Id' \subseteq Id \cup New
  BY <1>1 DEF Id, New
<1>3. \A b \in Id' : \A p : p \in Into(b)' <=> (b \in Id /\ p \in Into(b)) \/ (b \in T /\ p = cur)
  BY DEF Moves, Grows, Id
<1> QED BY <1>2, <1>3

\* Only blocks of the function lead to one.
LEMMA IntoIds ==
  ASSUME IInv, NEW b \in Id, NEW p \in Into(b) PROVE p \in Id
BY DEF IInv, BlocksOK, Edges, Into, Id

\* The insert block is one of them.
LEMMA CurMoves ==
  ASSUME IInv, NEW fs, NEW T, Moves(fs, T) PROVE cur' \in Id'
<1>1. /\ Len(blocks) \in Nat /\ Len(blocks') \in Nat /\ Len(blocks) <= Len(blocks') /\ cur \in Id
      /\ 1 \in DOMAIN todo /\ Top = todo[1]
  BY MoveFrames
<1>2. Waits(Top) \subseteq 2..Len(blocks)
  BY <1>1, MarksIn
<1>3. Id \subseteq Id' /\ New \subseteq Id'
  BY IntoStays
<1> QED BY <1>1, <1>2, <1>3 DEF Moves, Id

\* The loops under way stay open, and a new one is.
LEMMA LoopsStay ==
  ASSUME GraphInv, IInv', NEW fs, NEW T, Moves(fs, T)
  PROVE  LoopsInv'
<1>1. /\ Len(todo) \in Nat /\ Len(todo) > 0 /\ DOMAIN todo = 1..Len(todo) /\ Len(fs) \in Nat
      /\ DOMAIN todo' = 1..Len(todo') /\ Len(todo') = Len(fs) + Len(todo) - 1
      /\ 1 \in DOMAIN todo /\ Top = todo[1]
      /\ Len(blocks) \in Nat /\ Len(blocks') \in Nat /\ Len(blocks) <= Len(blocks')
  BY MoveFrames DEF GraphInv
<1>2. IInv /\ LoopsInv
  BY DEF GraphInv
<1>3. ASSUME NEW j \in DOMAIN todo, NEW e \in Loops(todo[j]), NEW n \in Nat, n = Len(todo) - j
      PROVE  Into(e)' # {} /\ Open(n, e, e)'
  <2>1. Into(e) # {} /\ Open(n, e, e) /\ n < Len(todo)
    BY <1>1, <1>2, <1>3 DEF LoopsInv
  <2>2. e \in Id
    BY <2>1 DEF Open
  <2>3. Into(e)' # {}
    BY <1>2, <2>1, <2>2, IntoStays
  <2>4. Open(n, e, e)'
    BY <1>2, <2>1, OpenStays
  <2> QED BY <2>3, <2>4
<1>4. ASSUME NEW i \in DOMAIN todo', NEW e \in Loops(todo'[i]), NEW n \in Nat, n = Len(todo') - i
      PROVE  Into(e)' # {} /\ Open(n, e, e)'
  <2> DEFINE j == i - Len(fs) + 1
  <2>1. CASE j \in DOMAIN todo /\ todo'[i] = todo[j] /\ Len(todo') - i = Len(todo) - j
    <3> HIDE DEF j
    <3> QED BY <1>3, <1>4, <2>1
  <2>2. CASE i \in 1..Len(fs) /\ todo'[i] = fs[i]
    <3>1. i = Len(fs) /\ Heads(fs, i, T)
      BY <1>4, <2>2 DEF Moves
    <3>2. n = Len(todo) - 1
      BY <1>1, <1>4, <3>1
    <3>3. CASE Loops(fs[i]) \subseteq Loops(Top)
      <4>1. e \in Loops(todo[1])
        BY <1>1, <1>4, <2>2, <3>3
      <4> QED BY <1>1, <1>3, <3>2, <4>1
    <3>4. CASE /\ Loops(fs[i]) = {cur'} /\ cur' = Len(blocks') /\ cur' \in New \cap T
               /\ \A k \in 1..Len(fs) : Waits(fs[k]) = {}
      <4>1. e = cur' /\ e = Len(blocks') /\ e \in Id' /\ e \in T
        BY <1>2, <1>4, <2>2, <3>4, IntoStays
      <4>2. cur \in Into(e)'
        BY <1>2, <4>1, IntoStays
      <4>3. Region(e, e, Len(blocks))'
        BY <1>1, <4>1 DEF Region
      <4>4. ASSUME NEW k \in DOMAIN todo'
            PROVE  /\ Len(todo') - k < n => \A x \in Waits(todo'[k]) \cup Loops(todo'[k]) : x <= e
                   /\ Len(todo') - k >= n => \A x \in Waits(todo'[k]) : x > e
        <5>1. Waits(todo'[k]) \cup Loops(todo'[k]) \subseteq 2..Len(blocks')
          BY MarksNext DEF MarksOK
        <5>2. Len(todo') - k >= n => k \in 1..Len(fs) /\ todo'[k] = fs[k]
          BY <1>1, <1>2, <3>2, MoveFrames
        <5>3. Len(todo') - k >= n => Waits(todo'[k]) = {}
          BY <3>4, <5>2
        <5>4. \A x \in Waits(todo'[k]) \cup Loops(todo'[k]) : x <= e
          BY <1>1, <4>1, <5>1
        <5> QED BY <5>3, <5>4
      <4>5. e \in 1..e /\ e \in Id'
        BY <1>1, <4>1 DEF Id
      <4>6. Open(n, e, e)'
        BY <4>1, <4>3, <4>4, <4>5 DEF Open
      <4> QED BY <4>2, <4>6
    <3> QED BY <3>1, <3>3, <3>4 DEF Heads
  <2>3. \/ i \in 1..Len(fs) /\ todo'[i] = fs[i]
        \/ j \in DOMAIN todo /\ todo'[i] = todo[j] /\ Len(todo') - i = Len(todo) - j
    BY <1>2, FrameStep
  <2> QED BY <2>1, <2>2, <2>3
<1> QED BY <1>4 DEF LoopsInv

\* The new edges close no knot: they lead to blocks no branch leaves, or back
\* to the head of the loop they come from.
LEMMA KnotsStay ==
  ASSUME GraphInv, IInv', NEW fs, NEW T, Moves(fs, T)
  PROVE  NoKnot'
<1>1. /\ Len(todo) \in Nat /\ Len(todo) > 0 /\ 1 \in DOMAIN todo /\ Top = todo[1]
      /\ Len(todo') = Len(fs) + Len(todo) - 1 /\ cur \in Id
      /\ Len(blocks) \in Nat /\ Len(blocks') \in Nat /\ Len(blocks) <= Len(blocks')
  BY MoveFrames DEF GraphInv
<1>2. IInv /\ LoopsInv /\ NoKnot
  BY DEF GraphInv
<1>3. /\ Id \subseteq Id' /\ Id' \subseteq Id \cup New
      /\ \A b \in Id' : \A p : p \in Into(b)' <=> (b \in Id /\ p \in Into(b)) \/ (b \in T /\ p = cur)
  BY <1>2, IntoStays
<1>4. ASSUME NEW e \in Loops(Top), e \in T, e \notin Waits(Top) \cup New, NEW c, c = cur
      PROVE  Under(e, c)'
  <2>1. fs = <<>>
    BY <1>4 DEF Moves
  <2>a. Len(todo) - 1 \in Nat
    BY <1>1
  <2> PICK n \in Nat : n = Len(todo) - 1
    BY <2>a
  <2> PICK hi : hi = Len(blocks')
    OBVIOUS
  <2>2. n < Len(todo) /\ n = Len(todo')
    <3>1. Len(fs) = 0
      BY <2>1
    <3> QED BY <1>1, <3>1
  <2>3. Open(n, e, e)
    BY <1>1, <1>2, <1>4, <2>2 DEF LoopsInv
  <2>4. Open(n, e, e)'
    BY <1>2, <2>2, <2>3, OpenStays
  <2>5. cur' # 0
    <3>1. cur' \in Id'
      BY <1>2, CurMoves
    <3> QED BY <3>1 DEF Id
  <2>7. Shut(e, e, hi)'
    BY <2>2, <2>4, <2>5, OpenShuts
  <2>8. c = e \/ c > e
    BY <1>4, <2>3 DEF Open
  <2>9. CASE c = e
    BY <2>9 DEF Under
  <2>10. CASE c > e
    <3>1. c \in (e + 1)..hi
      <4>1. c \in 1..Len(blocks) /\ e \in Nat
        BY <1>1, <1>4, <2>3 DEF Id, Open
      <4> QED BY <1>1, <2>10, <4>1
    <3> QED BY <2>7, <3>1 DEF Under
  <2> QED BY <2>8, <2>9, <2>10
<1>5. ASSUME NEW S \in SUBSET (Id'), S # {}
      PROVE  \E b \in S : \A p \in S \cap Into(b)' : Under(b, p)'
  <2> DEFINE R == {b \in S : b \notin Waits(Top) \cup New}
  <2>1. \A b \in S : \A p \in S \cap Into(b)' : p \in R
    BY <1>2, <1>5, NoneLeaves
  <2>2. CASE R = {}
    <3> HIDE DEF R
    <3> QED BY <1>5, <2>1, <2>2
  <2>3. CASE R # {}
    <3>1. R \in SUBSET Id
      BY <1>3
    <3>2. PICK b \in R : \A p \in R \cap Into(b) : Under(b, p)
      <4> HIDE DEF R
      <4> QED BY <1>2, <2>3, <3>1 DEF NoKnot
    <3>3. ASSUME NEW p \in S \cap Into(b)' PROVE Under(b, p)'
      <4>1. p \in R
        BY <2>1, <3>2
      <4>2. b \in Id'
        BY <1>5, <3>2
      <4>3. p \in Into(b) \/ (b \in T /\ p = cur)
        BY <1>3, <3>3, <4>2
      <4>4. CASE p \in Into(b)
        <5>1. Under(b, p)
          BY <3>2, <4>1, <4>4
        <5> QED BY <1>2, <5>1, UnderStays
      <4>5. CASE b \in T /\ p = cur
        <5>1. b \notin Waits(Top) \cup New
          BY <3>2
        <5>2. b \in Loops(Top)
          BY <4>5, <5>1 DEF Moves
        <5> QED BY <1>4, <4>5, <5>1, <5>2
      <4> QED BY <4>3, <4>4, <4>5
    <3>4. b \in S
      BY <3>2
    <3> HIDE DEF R
    <3> QED BY <3>3, <3>4
  <2> QED BY <2>2, <2>3
<1> QED BY <1>5 DEF NoKnot

\* And the new blocks hang on the insert block, or nothing leads to them.
LEMMA GroundStays ==
  ASSUME GraphInv, IInv', NEW fs, NEW T, Moves(fs, T)
  PROVE  Grounded'
<1>1. /\ 1 \in DOMAIN todo /\ Top = todo[1] /\ cur \in Id
      /\ Len(blocks) \in Nat /\ Len(blocks') \in Nat /\ Len(blocks) <= Len(blocks')
  BY MoveFrames DEF GraphInv
<1>2. IInv /\ LoopsInv /\ Grounded
  BY DEF GraphInv
<1>3. /\ Id \subseteq Id' /\ New \subseteq Id' /\ Id' \subseteq Id \cup New
      /\ \A b \in Id' : \A p : p \in Into(b)' <=> (b \in Id /\ p \in Into(b)) \/ (b \in T /\ p = cur)
      /\ \A b \in Id : Into(b) \subseteq Into(b)'
  BY <1>2, IntoStays
<1>4. ASSUME NEW e \in Loops(Top) PROVE Into(e) # {}
  BY <1>1, <1>2, <1>4 DEF LoopsInv
<1>5. \A b \in Waits(Top) \cup New : b # cur /\ \A c \in Id' : b \notin Into(c)'
  <2>1. cur \in Id'
    BY <1>1, <1>3
  <2> QED BY <1>2, <2>1, NoneLeaves
<1>6. \A t \in T : t \in Waits(Top) \cup New \/ t \in Loops(Top)
  BY DEF Moves
<1>7. ASSUME NEW S \in SUBSET (Id'), Source(S)' PROVE S = Id'
  <2>1. /\ 1 \in S
        /\ \A b \in Id' : Into(b)' = {} => b \in S
        /\ \A b \in Id' : \A p \in S \cap Into(b)' : b \in S
    BY <1>7 DEF Source
  <2> DEFINE R == {b \in Id : b \in S \/ b \in Waits(Top)}
  <2>2. 1 \in R
    BY <1>1, <2>1 DEF Id
  <2>3. ASSUME NEW b \in Id, Into(b) = {} PROVE b \in R
    <3>1. CASE b \in T
      <4>1. b \notin New
        BY <1>1 DEF New, Id
      <4> QED BY <1>4, <1>6, <2>3, <3>1, <4>1
    <3>2. CASE b \notin T
      <4>1. Into(b)' = {}
        BY <1>3, <2>3, <3>2
      <4> QED BY <1>3, <2>1, <4>1
    <3> QED BY <3>1, <3>2
  <2>4. ASSUME NEW b \in Id, NEW p \in R \cap Into(b) PROVE b \in R
    <3>1. p \in Into(b)' /\ b \in Id'
      BY <1>3
    <3>2. p \in S
      BY <1>5, <2>4, <3>1
    <3> QED BY <2>1, <3>1, <3>2
  <2>5. Source(R) /\ R \in SUBSET Id
    <3>1. R \in SUBSET Id
      OBVIOUS
    <3> HIDE DEF R
    <3> QED BY <2>2, <2>3, <2>4, <3>1 DEF Source
  <2>6. R = Id
    <3>1. cur # 0
      BY <1>1 DEF Id
    <3> HIDE DEF R
    <3> QED BY <1>2, <2>5, <3>1 DEF Grounded
  <2>7. cur \in S
    BY <1>1, <1>5, <2>6
  <2>8. ASSUME NEW b \in Id' PROVE b \in S
    <3>1. CASE b \in T
      <4>1. cur \in Into(b)'
        BY <1>3, <3>1
      <4> QED BY <2>1, <2>7, <4>1
    <3>2. CASE b \notin T
      <4>1. CASE b \in Id
        <5>1. b \in S \/ b \in Waits(Top)
          BY <2>6, <4>1
        <5>2. CASE Into(b) = {}
          BY <1>3, <2>1, <3>2, <5>2
        <5>3. CASE Into(b) # {}
          <6>1. PICK p : p \in Into(b)
            BY <5>3
          <6>2. p \in Into(b)'
            BY <1>3, <4>1, <6>1
          <6>3. p \in Id
            BY <1>2, <4>1, <6>1, IntoIds
          <6>4. p \in S
            BY <1>5, <2>6, <6>2, <6>3
          <6> QED BY <2>1, <6>2, <6>4
        <5> QED BY <5>2, <5>3
      <4>2. CASE b \notin Id
        <5>1. Into(b)' = {}
          BY <1>3, <3>2, <4>2
        <5> QED BY <2>1, <5>1
      <4> QED BY <4>1, <4>2
    <3> QED BY <3>1, <3>2
  <2> QED BY <2>8
<1> QED BY <1>7 DEF Grounded

\* Every visit moves.
LEMMA VisitMoves ==
  ASSUME IInv, Next, ~FunDeclaration, ~Finished
  PROVE  \E fs, T : Moves(fs, T)
<1>1. CASE \/ EmptyStatement \/ ExpressionStmt \/ CompoundStmt \/ ReturnStmt \/ SelectionStmt
           \/ VoidReturn \/ EndReturn \/ Number \/ Var
           \/ Branch \/ LoopBranch \/ EndThen \/ EndElse \/ EndBody \/ IterationStmt
  BY <1>1, PlainSteps
<1>2. CASE EnterCompound \/ VarDeclaration \/ NextStatement \/ LeaveCompound \/ EndFunction
  BY <1>2, ScopeMoves
<1>3. CASE IndexedVar
  <2> PICK n \in Names : Then(<<Frame("expr"), [at |-> "index", var |-> Find(n)]>>)
    BY <1>3 DEF IndexedVar
  <2> DEFINE v == Find(n)
             fs == <<Frame("expr"), [at |-> "index", var |-> v]>>
  <2>1. At("expr") /\ Then(fs) /\ UNCHANGED <<blocks, cur>>
    BY <1>3 DEF IndexedVar
  <2>2. Moves(fs, {})
    <3> HIDE DEF v
    <3> QED BY <2>1, ScopeMoves
  <2> HIDE DEF fs
  <2> QED BY <2>2
<1>4. CASE CheckIndex
  BY <1>4, CheckIndexMoves
<1> QED BY <1>1, <1>2, <1>3, <1>4 DEF Next

\* The declaration makes the entry, which nothing leads to.
LEMMA GraphBegins ==
  ASSUME IInv, IInv', FunDeclaration PROVE GraphInv'
<1>1. PICK params \in BoundedSeq(Names, MaxParams) :
        blocks' = Emit(Create(blocks, 1), 1,
            [k \in 1..(2 * Len(params)) |->
               IF k % 2 = 1 THEN <<"alloca">> ELSE <<"use", <<1, k - 1>>>>])
  BY DEF FunDeclaration
<1>2. BlocksOK(blocks) /\ Len(blocks) = 0 /\ todo' = <<Frame("compound"), Frame("fun")>>
  BY DEF FunDeclaration, IInv, CurInv
<1> DEFINE k == 1
           bs == Create(blocks, k)
           ins == [j \in 1..(2 * Len(params)) |->
                     IF j % 2 = 1 THEN <<"alloca">> ELSE <<"use", <<1, j - 1>>>>]
<1>3. k \in Nat
  OBVIOUS
<1>4. blocks' = Emit(bs, 1, ins)
  BY <1>1
<1> HIDE DEF k, ins
<1>5. BlocksOK(bs) /\ Len(bs) = Len(blocks) + k
  BY <1>2, <1>3, CreateOK
<1>6. DOMAIN bs = 1..Len(bs) /\ Len(bs) = 1
  BY <1>2, <1>5 DEF BlocksOK, k
<1> HIDE DEF bs
<1>7. DOMAIN blocks' = DOMAIN bs
  BY <1>4 DEF Emit
<1>8. DOMAIN blocks' = 1..Len(blocks') /\ Len(blocks') \in Nat
  BY DEF IInv, BlocksOK
<1>9. Len(blocks') = 1
  BY <1>6, <1>7, <1>8
<1>10. Id' = {1}
  BY <1>9 DEF Id
<1>11. Into(1)' = {}
  <2>1. Edges(blocks', 1)
    BY <1>9 DEF IInv, BlocksOK
  <2>2. ToSet(blocks'[1].succ) = {}
    BY <1>9, <2>1 DEF Edges
  <2>3. 1 \notin ToSet(blocks'[1].pre)
    BY <1>9, <2>1, <2>2 DEF Edges
  <2>4. ToSet(blocks'[1].pre) \subseteq {1}
    BY <1>9, <2>1 DEF Edges
  <2> QED BY <2>3, <2>4 DEF Into
<1>12. LoopsInv'
  <2>1. \A i \in DOMAIN todo' : Loops(todo'[i]) = {}
    <3> DEFINE f == Frame("compound")
               g == Frame("fun")
    <3>1. Loops(f) = {} /\ Loops(g) = {}
      BY BarePlain
    <3> HIDE DEF f, g
    <3>2. todo' = <<f, g>>
      BY <1>2 DEF f, g
    <3> QED BY <3>1, <3>2
  <2> QED BY <2>1 DEF LoopsInv
<1>13. NoKnot'
  BY <1>10, <1>11 DEF NoKnot
<1>14. Grounded'
  BY <1>10 DEF Grounded, Source
<1> QED BY <1>12, <1>13, <1>14 DEF GraphInv

\* The invariant holds in every reachable state.
THEOREM GraphInvariant == Spec => []GraphInv
<1>1. Init => GraphInv
  <2> SUFFICES ASSUME Init PROVE GraphInv
    OBVIOUS
  <2>1. IInv /\ Id = {} /\ DOMAIN todo = {} /\ cur = 0
    BY InitInv DEF Init, Id
  <2> QED BY <2>1 DEF GraphInv, LoopsInv, NoKnot, Grounded
<1>2. GraphInv /\ [Next]_vars => GraphInv'
  <2> SUFFICES ASSUME GraphInv, [Next]_vars PROVE GraphInv'
    OBVIOUS
  <2>1. IInv /\ IInv'
    BY StepInv DEF GraphInv
  <2>2. CASE UNCHANGED vars \/ Finished
    <3>1. blocks' = blocks /\ todo' = todo /\ cur' = cur
      BY <2>2 DEF vars, Finished
    <3>2. Id' = Id /\ \A b : Into(b)' = Into(b)
      BY <3>1 DEF Id, Into
    <3>3. \A d, lo, hi : Region(d, lo, hi)' <=> Region(d, lo, hi)
      BY <3>2 DEF Region
    <3>4. \A n, d, lo : Open(n, d, lo)' <=> Open(n, d, lo)
      BY <3>1, <3>2, <3>3 DEF Open
    <3>5. \A d, lo, hi : Shut(d, lo, hi)' <=> Shut(d, lo, hi)
      BY <3>1, <3>2, <3>3 DEF Shut
    <3>6. \A d, b : Under(d, b)' <=> Under(d, b)
      BY <3>5 DEF Under
    <3>7. LoopsInv'
      BY <3>1, <3>2, <3>4 DEF GraphInv, LoopsInv
    <3>8. NoKnot'
      BY <3>2, <3>6 DEF GraphInv, NoKnot
    <3>9. \A S : Source(S)' <=> Source(S)
      BY <3>2 DEF Source
    <3>10. Grounded'
      BY <3>1, <3>2, <3>9 DEF GraphInv, Grounded
    <3> QED BY <2>1, <3>7, <3>8, <3>10 DEF GraphInv
  <2>3. CASE FunDeclaration
    BY <2>1, <2>3, GraphBegins
  <2>4. CASE Next /\ ~FunDeclaration /\ ~Finished
    <3>1. PICK fs, T : Moves(fs, T)
      BY <2>1, <2>4, VisitMoves
    <3>2. LoopsInv' /\ NoKnot' /\ Grounded'
      BY <2>1, <3>1, LoopsStay, KnotsStay, GroundStays
    <3> QED BY <2>1, <3>2 DEF GraphInv
  <2> QED BY <2>2, <2>3, <2>4
<1> QED BY <1>1, <1>2, PTL DEF Spec

-----------------------------------------------------------------------------
(* What it says of the finished graph, in the terms of CFG. *)

\* CFG's recursive function computes the least closed set.
LEMMA GraphReached ==
  ASSUME NEW n, n = Len(blocks), n \in Nat \ {0}, Succ \in Flow!FlowGraphs(n), NEW d
  PROVE  Graph!ReachedAvoiding(Succ, d) = Flow!Avoiding(n, Succ, d)
<1> DEFINE s == Succ
           F(f) == f = [k \in 0..Len(blocks) |->
              IF k = 0 THEN {Graph!Entry} \ {d}
              ELSE f[k - 1] \cup ((UNION {Graph!ToSet(s[b]) : b \in f[k - 1]}) \ {d})]
           R == CHOOSE f : F(f)
<1>0. \A x : Graph!ToSet(x) = Flow!ToSet(x)
  BY DEF Graph!ToSet, Flow!ToSet
<1>1. \A f : F(f) <=> Flow!Rounds(n, s, d, f)
  BY <1>0 DEF Flow!Rounds, Flow!Round, Graph!Entry
<1>2. Graph!ReachedAvoiding(s, d) = R[n]
  BY DEF Graph!ReachedAvoiding
<1>s. s \in Flow!FlowGraphs(n)
  OBVIOUS
<1> HIDE DEF F, s
<1>3. \E f : F(f)
  BY <1>1, Flow!RoundsExist
<1>4. F(R)
  BY <1>3
<1>5. Flow!Rounds(n, s, d, R)
  BY <1>1, <1>4
<1> HIDE DEF R
<1>6. R[n] = Flow!Avoiding(n, s, d)
  BY <1>5, <1>s, Flow!RoundsReach
<1> QED BY <1>2, <1>6 DEF s

\* The successor lists, and who leads where.
LEMMA SuccFlow ==
  ASSUME IInv, cur # 0, NEW n, n = Len(blocks)
  PROVE  /\ n \in Nat \ {0} /\ Id = 1..n /\ Succ \in Flow!FlowGraphs(n)
         /\ \A b \in Id : Into(b) \subseteq Id
         /\ \A b \in Id : \A p \in Id : p \in Into(b) <=> b \in Flow!ToSet(Succ[p])
         /\ \A b \in Id : Flow!ToSet(Succ[b]) \subseteq 2..n
         /\ \A b \in Id : Into(b) = ToSet(Pre[b]) /\ (Into(b) = {} <=> Pre[b] = <<>>)
<1> DEFINE S == Emitted(blocks)
<1>1. blocks \in Seq(Blk(S)) /\ \A b \in 1..Len(blocks) : Edges(blocks, b)
  BY DEF IInv, BlocksOK
<1> HIDE DEF S
<1>2. n \in Nat \ {0} /\ Id = 1..n
  BY <1>1 DEF IInv, CurInv, Id
<1>3. ASSUME NEW b \in Id
      PROVE  /\ Succ[b] = blocks[b].succ /\ Pre[b] = blocks[b].pre
             /\ Succ[b] \in Seq(Nat) /\ Pre[b] \in Seq(Nat) /\ Edges(blocks, b)
  BY <1>1, BlkFacts DEF Id, Succ, Pre
<1>4. ASSUME NEW b \in Id PROVE ToSet(Succ[b]) \subseteq 2..n /\ Succ[b] \in Seq(2..n)
  <2> DEFINE A == 2..n
             s == Succ[b]
  <2>1. s \in Seq(Nat) /\ ToSet(s) \subseteq A
    BY <1>3 DEF Edges
  <2> HIDE DEF A, s
  <2>2. s \in Seq(A)
    BY <2>1, SeqOver
  <2> QED BY <2>1, <2>2 DEF A, s
<1>5. Succ \in Flow!FlowGraphs(n)
  <2>1. Succ = [b \in Id |-> Succ[b]]
    BY DEF Succ
  <2> QED BY <1>2, <1>4, <2>1 DEF Flow!FlowGraphs
<1>6. \A s : Flow!ToSet(s) = ToSet(s)
  BY DEF Flow!ToSet, ToSet
<1>7. \A b \in Id : \A p \in Id : p \in Into(b) <=> b \in ToSet(Succ[p])
  BY <1>3 DEF Edges, Into, Id
<1>8. \A b \in Id : Into(b) \subseteq Id /\ Into(b) = ToSet(Pre[b])
  BY <1>3 DEF Edges, Into, Id
<1>9. ASSUME NEW b \in Id PROVE Into(b) = {} <=> Pre[b] = <<>>
  <2> DEFINE s == Pre[b]
  <2>1. s \in Seq(Nat) /\ Into(b) = ToSet(s)
    BY <1>3, <1>8
  <2> HIDE DEF s
  <2>2. ToSet(s) = {} <=> s = <<>>
    <3>1. CASE s = <<>>
      BY <3>1 DEF ToSet
    <3>2. CASE s # <<>>
      <4>1. 1 \in DOMAIN s
        BY <2>1, <3>2
      <4> QED BY <3>2, <4>1 DEF ToSet
    <3> QED BY <3>1, <3>2
  <2> QED BY <2>1, <2>2 DEF s
<1> QED BY <1>2, <1>4, <1>5, <1>6, <1>7, <1>8, <1>9

\* What is reached, and what is reached around d.
LEMMA ReachedFlow ==
  ASSUME IInv, cur # 0, NEW n, n = Len(blocks)
  PROVE  /\ IdsReached = Flow!Avoiding(n, Succ, 0) /\ IdsReached \subseteq Id
         /\ \A d : Graph!Dominated(Succ, d) = Flow!Avoiding(n, Succ, 0) \ Flow!Avoiding(n, Succ, d)
<1>1. n \in Nat \ {0} /\ Id = 1..n /\ Succ \in Flow!FlowGraphs(n)
  BY SuccFlow
<1>2. \A d : Graph!ReachedAvoiding(Succ, d) = Flow!Avoiding(n, Succ, d)
  BY <1>1, GraphReached
<1>3. IdsReached = Flow!Avoiding(n, Succ, 0)
  BY <1>2 DEF IdsReached, Graph!Reached, Graph!NoBlock
<1>4. Flow!Avoiding(n, Succ, 0) \subseteq Id
  BY <1>1 DEF Flow!Avoiding
<1> QED BY <1>2, <1>3, <1>4 DEF Graph!Dominated, Graph!Reached, Graph!NoBlock

\* What is under a block is dominated by it, or not reached.
LEMMA UnderDominated ==
  ASSUME IInv, cur # 0, NEW d, NEW b \in IdsReached, Under(d, b)
  PROVE  b \in Graph!Dominated(Succ, d)
<1> PICK n : n = Len(blocks)
  OBVIOUS
<1> DEFINE s == Succ
<1>1. /\ n \in Nat \ {0} /\ Id = 1..n /\ s \in Flow!FlowGraphs(n)
      /\ \A c \in Id : \A p \in Id : p \in Into(c) <=> c \in Flow!ToSet(s[p])
      /\ \A c \in Id : Flow!ToSet(s[c]) \subseteq 2..n
  BY SuccFlow
<1>2. /\ b \in Flow!Avoiding(n, s, 0)
      /\ Graph!Dominated(s, d) = Flow!Avoiding(n, s, 0) \ Flow!Avoiding(n, s, d)
  BY ReachedFlow
<1> HIDE DEF s
<1>3. CASE b = d
  <2>1. b \notin Flow!Avoiding(n, s, d)
    BY <1>1, <1>3, Flow!AvoidingCloses
  <2> QED BY <1>2, <2>1 DEF s
<1>4. CASE b # d
  <2>1. PICK lo, hi : Shut(d, lo, hi) /\ b \in (lo + 1)..hi
    BY <1>4 DEF Under
  <2>2. /\ d \in 1..lo /\ lo \in Nat /\ hi \in 1..n
        /\ \A x \in (lo + 1)..hi : \A p \in Into(x) : p = d \/ p \in (lo + 1)..hi
    BY <1>1, <2>1 DEF Shut, Region
  <2> DEFINE S == {x \in 1..n : x \notin (lo + 1)..hi /\ x # d}
  <2>3. d # 1 => 1 \in S
    BY <1>1, <2>2
  <2>4. ASSUME NEW x \in S \cap (1..n), NEW c \in Flow!ToSet(s[x]), c # d PROVE c \in S
    <3>1. x \in Id /\ c \in 2..n /\ c \in Id
      BY <1>1
    <3>2. x \in Into(c)
      BY <1>1, <2>4, <3>1
    <3>3. c \notin (lo + 1)..hi
      BY <2>2, <2>4, <3>2
    <3> QED BY <1>1, <2>4, <3>1, <3>3
  <2>5. b \notin S
    BY <2>1
  <2> HIDE DEF S
  <2>6. Flow!Avoiding(n, s, d) \subseteq S
    BY <1>1, <2>3, <2>4, Flow!AvoidingLeast
  <2> QED BY <1>2, <2>5, <2>6 DEF s
<1> QED BY <1>3, <1>4

\* A block nothing leads to is the join of two arms that return, and only
\* what follows such a join is out of reach.
LEMMA InvOrphans == GraphInv => OrphansAreJoins
<1> SUFFICES ASSUME GraphInv, Done PROVE
      /\ \A b \in Id : Orphan(b) => \E c \in Id : Succ[c] = <<b + 1, b - 1>>
      /\ (\A b \in Id : ~Orphan(b)) => IdsReached = Id
  BY DEF OrphansAreJoins
<1> PICK n : n = Len(blocks)
  OBVIOUS
<1>1. IInv /\ cur # 0 /\ Grounded
  BY DEF GraphInv, Done
<1>2. /\ n \in Nat \ {0} /\ Id = 1..n /\ Succ \in Flow!FlowGraphs(n)
      /\ \A b \in Id : \A p \in Id : p \in Into(b) <=> b \in Flow!ToSet(Succ[p])
      /\ \A b \in Id : Flow!ToSet(Succ[b]) \subseteq 2..n
      /\ \A b \in Id : Into(b) = {} <=> Pre[b] = <<>>
  BY <1>1, SuccFlow
<1>3. ASSUME NEW b \in Id, Orphan(b) PROVE \E c \in Id : Succ[c] = <<b + 1, b - 1>>
  <2>1. b \in 2..Len(blocks) /\ blocks[b].pre = <<>>
    BY <1>2, <1>3 DEF Orphan, Graph!Entry, Pre
  <2>2. Joins(blocks, b)
    BY <1>1, <2>1 DEF IInv, OrphanInv
  <2>3. PICK c \in 1..Len(blocks) : blocks[c].succ = <<b + 1, b - 1>>
    BY <2>1, <2>2 DEF Joins
  <2> QED BY <2>3 DEF Id, Succ
<1>4. ASSUME \A b \in Id : ~Orphan(b) PROVE IdsReached = Id
  <2> DEFINE s == Succ
             R == IdsReached
  <2>1. R = Flow!Avoiding(n, s, 0) /\ R \subseteq Id
    BY <1>1, ReachedFlow
  <2>2. s \in Flow!FlowGraphs(n)
    BY <1>2
  <2> HIDE DEF s, R
  <2>3. 1 \in R /\ \A b \in R : \A c \in Flow!ToSet(s[b]) : c # 0 => c \in R
    BY <1>2, <2>1, <2>2, Flow!AvoidingCloses
  <2>4. \A b \in Id : Into(b) = {} => b \in R
    <3>1. \A b \in Id : Into(b) = {} => b = 1
      BY <1>2, <1>4 DEF Orphan, Graph!Entry
    <3> QED BY <2>3, <3>1
  <2>5. ASSUME NEW b \in Id, NEW p \in R \cap Into(b) PROVE b \in R
    <3>1. p \in Id /\ b \in Flow!ToSet(s[p]) /\ b # 0
      BY <1>2, <2>1 DEF s
    <3> QED BY <2>3, <3>1
  <2>6. Source(R) /\ R \in SUBSET Id
    BY <2>1, <2>3, <2>4, <2>5 DEF Source
  <2>7. R = Id
    BY <1>1, <2>6 DEF Grounded
  <2> QED BY <2>7 DEF R
<1> QED BY <1>3, <1>4

\* The blocks without predecessor of a finished function are joins of
\* `if ... else` whose arms both return; without one every block is reached.
\* It is exactly there that Dominators and Mem2Reg fail.
THEOREM OrphansOnlyJoin == Spec => []OrphansAreJoins
BY GraphInvariant, InvOrphans, PTL

\* Peeling, as Acyclic does it: the blocks something left leads to stay.
Peel(into, now) == {b \in now : into[b] \cap now # {}}
Peels(into, n, f) == f = [k \in 0..n |-> IF k = 0 THEN DOMAIN into ELSE Peel(into, f[k - 1])]

\* The recursive function of Acyclic exists.
LEMMA PeelsExist ==
  ASSUME NEW n, n = Len(blocks), n \in Nat \ {0}, NEW into
  PROVE  \E f : Peels(into, n, f)
<1> DEFINE P == {k \in 0..n : \E f : Peels(into, k, f)}
<1>1. 0 \in P
  <2> DEFINE f == [k \in 0..0 |-> DOMAIN into]
  <2>1. Peels(into, 0, f)
    BY DEF Peels
  <2> QED BY <2>1
<1>2. ASSUME NEW k \in 0..(n - 1), k \in P PROVE k + 1 \in P
  <2> PICK f : Peels(into, k, f)
    BY <1>2
  <2>1. k \in Nat /\ k + 1 \in 0..n
    OBVIOUS
  <2> DEFINE g == [j \in 0..(k + 1) |-> IF j <= k THEN f[j] ELSE Peel(into, f[k])]
  <2>2. ASSUME NEW j \in 0..(k + 1)
        PROVE  g[j] = IF j = 0 THEN DOMAIN into ELSE Peel(into, g[j - 1])
    <3>1. CASE j <= k
      <4>1. j \in 0..k /\ g[j] = f[j]
        BY <2>1, <3>1
      <4>2. f[j] = IF j = 0 THEN DOMAIN into ELSE Peel(into, f[j - 1])
        BY <4>1 DEF Peels
      <4>3. j # 0 => g[j - 1] = f[j - 1]
        BY <2>1, <3>1
      <4> HIDE DEF g
      <4> QED BY <4>1, <4>2, <4>3
    <3>2. CASE ~(j <= k)
      <4>1. j = k + 1 /\ j # 0 /\ j - 1 = k
        BY <2>1, <3>2
      <4>2. g[j] = Peel(into, f[k]) /\ g[k] = f[k]
        BY <2>1, <3>2
      <4> HIDE DEF g
      <4> QED BY <4>1, <4>2
    <3> QED BY <3>1, <3>2
  <2>3. g = [j \in 0..(k + 1) |-> IF j = 0 THEN DOMAIN into ELSE Peel(into, g[j - 1])]
    <3>1. DOMAIN g = 0..(k + 1) /\ g = [j \in 0..(k + 1) |-> g[j]]
      OBVIOUS
    <3> HIDE DEF g
    <3> QED BY <2>2, <3>1
  <2>4. Peels(into, k + 1, g)
    <3> HIDE DEF g
    <3> QED BY <2>3 DEF Peels
  <2> HIDE DEF g
  <2> QED BY <2>1, <2>4
<1>3. n \in 0..n
  OBVIOUS
<1>4. n \in P
  <2> HIDE DEF P
  <2> QED BY <1>1, <1>2, <1>3, Flow!UpTo
<1> QED BY <1>4

\* If from every set a block can be peeled, n rounds peel n blocks.
LEMMA PeelsAll ==
  ASSUME NEW n, n = Len(blocks), n \in Nat \ {0}, NEW into, DOMAIN into \subseteq 1..n, NEW f, Peels(into, n, f),
         \A X \in SUBSET (DOMAIN into) : X # {} => \E b \in X : into[b] \cap X = {}
  PROVE  f[n] = {}
<1>1. \A T \in SUBSET (1..n) : IsFiniteSet(T) /\ Cardinality(T) \in Nat /\ Cardinality(T) <= n
  <2>1. IsFiniteSet(1..n) /\ Cardinality(1..n) = n
    <3>1. n \in Nat /\ 1 \in Int /\ n \in Int /\ n - 1 + 1 = n /\ ~(1 > n)
      OBVIOUS
    <3> QED BY ONLY <3>1, FS_Interval
  <2>2. ASSUME NEW T \in SUBSET (1..n)
        PROVE  IsFiniteSet(T) /\ Cardinality(T) \in Nat /\ Cardinality(T) <= n
    BY ONLY <2>1, FS_Subset, FS_CardinalityType
  <2> QED BY <2>2
<1>2. f[0] = DOMAIN into /\ \A k \in 0..(n - 1) : f[k + 1] = Peel(into, f[k])
  <2>1. f[0] = DOMAIN into
    BY DEF Peels
  <2>2. ASSUME NEW k \in 0..(n - 1) PROVE f[k + 1] = Peel(into, f[k])
    <3>1. k + 1 \in 0..n /\ k + 1 # 0 /\ (k + 1) - 1 = k
      OBVIOUS
    <3> QED BY <3>1 DEF Peels
  <2> QED BY <2>1, <2>2
<1>3. ASSUME NEW k \in 0..n, f[k] \in SUBSET (DOMAIN into), Cardinality(f[k]) + k <= n \/ f[k] = {}
      PROVE  f[k] # {} => /\ Peel(into, f[k]) \in SUBSET (DOMAIN into)
                          /\ Cardinality(Peel(into, f[k])) + k + 1 <= n
  <2> DEFINE A == f[k]
             B == Peel(into, A)
  <2>1. B \subseteq A /\ A \in SUBSET (1..n) /\ B \in SUBSET (1..n)
    BY <1>3 DEF Peel
  <2>2. CASE A # {}
    <3>1. B # A
      BY <1>3, <2>2 DEF Peel
    <3>2. IsFiniteSet(A) /\ Cardinality(A) \in Nat /\ Cardinality(B) \in Nat
      BY <1>1, <2>1
    <3> HIDE DEF B
    <3>3. Cardinality(B) < Cardinality(A)
      <4>1. Cardinality(B) <= Cardinality(A) /\ (Cardinality(A) = Cardinality(B) => A = B)
        BY ONLY <2>1, <3>2, FS_Subset
      <4> QED BY ONLY <3>1, <3>2, <4>1
    <3>4. Cardinality(A) + k <= n
      BY <1>3, <2>2
    <3>5. Cardinality(B) + k + 1 <= n
      BY <3>2, <3>3, <3>4
    <3>6. B \in SUBSET (DOMAIN into)
      BY <1>3, <2>1
    <3> QED BY <3>5, <3>6 DEF B
  <2> QED BY <2>2
<1> DEFINE Q == {k \in 0..n : /\ f[k] \in SUBSET (DOMAIN into)
                              /\ f[k] = {} \/ Cardinality(f[k]) + k <= n}
<1>4. 0 \in Q
  <2>1. Cardinality(f[0]) + 0 <= n
    BY <1>1, <1>2
  <2> QED BY <1>2, <2>1
<1>5. ASSUME NEW k \in 0..(n - 1), k \in Q PROVE k + 1 \in Q
  <2>1. n \in Nat /\ k \in 0..n /\ k + 1 \in 0..n /\ k \in Nat /\ f[k + 1] = Peel(into, f[k])
    BY <1>2
  <2>2. CASE f[k] = {}
    <3>1. f[k + 1] = {}
      BY <2>1, <2>2 DEF Peel
    <3> QED BY <2>1, <3>1
  <2>3. CASE f[k] # {}
    <3> DEFINE B == f[k + 1]
    <3>1. B \in SUBSET (DOMAIN into) /\ Cardinality(B) + k + 1 <= n
      BY <1>3, <1>5, <2>1, <2>3
    <3>2. Cardinality(B) \in Nat
      BY <1>1, <3>1
    <3>3. Cardinality(B) + (k + 1) <= n
      BY <2>1, <3>1, <3>2
    <3> QED BY <2>1, <3>1, <3>3
  <2> QED BY <2>2, <2>3
<1>6. n \in Q
  <2> HIDE DEF Q
  <2>1. n \in 0..n
    OBVIOUS
  <2> QED BY <1>4, <1>5, <2>1, Flow!UpTo
<1>7. CASE Cardinality(f[n]) + n <= n
  <2>1. f[n] \in SUBSET (1..n)
    BY <1>6
  <2>2. IsFiniteSet(f[n]) /\ Cardinality(f[n]) \in Nat
    BY <1>1, <2>1
  <2>3. Cardinality(f[n]) = 0
    BY <1>7, <2>2
  <2> QED BY <2>2, <2>3, FS_EmptySet
<1> QED BY <1>6, <1>7

\* Nothing but the branches back to the head of a loop closes a cycle.
LEMMA InvReducible == GraphInv => Reducible
<1> DEFINE into == [b \in IdsReached |->
                      (ToSet(Pre[b]) \cap IdsReached) \ Graph!Dominated(Succ, b)]
<1> SUFFICES ASSUME GraphInv, Done PROVE EdgesMatch /\ Acyclic(into)
  BY DEF Reducible
<1> PICK n : n = Len(blocks)
  OBVIOUS
<1>1. IInv /\ cur # 0 /\ NoKnot
  BY DEF GraphInv, Done
<1>2. n \in Nat \ {0} /\ Id = 1..n /\ \A b \in Id : Into(b) = ToSet(Pre[b])
  BY <1>1, SuccFlow
<1>3. IdsReached \subseteq Id
  BY <1>1, ReachedFlow
<1>4. /\ DOMAIN into = IdsReached
      /\ \A b \in IdsReached :
           into[b] = (ToSet(Pre[b]) \cap IdsReached) \ Graph!Dominated(Succ, b)
  OBVIOUS
<1> HIDE DEF into
<1>5. ASSUME NEW X \in SUBSET (DOMAIN into), X # {} PROVE \E b \in X : into[b] \cap X = {}
  <2>1. X \in SUBSET Id
    BY <1>3, <1>4
  <2>2. PICK b \in X : \A p \in X \cap Into(b) : Under(b, p)
    BY <1>1, <1>5, <2>1 DEF NoKnot
  <2>3. ASSUME NEW p \in into[b] \cap X PROVE FALSE
    <3>1. b \in IdsReached /\ p \in IdsReached
      BY <1>4
    <3>2. p \in ToSet(Pre[b]) /\ p \notin Graph!Dominated(Succ, b)
      BY <1>4, <2>3, <3>1
    <3>3. Under(b, p)
      BY <1>2, <2>1, <2>2, <3>2
    <3>4. p \in Graph!Dominated(Succ, b)
      BY <1>1, <3>1, <3>3, UnderDominated
    <3> QED BY <3>2, <3>4
  <2> QED BY <2>3
<1>6. Acyclic(into)
  <2> DEFINE F(f) == f = [k \in 0..Len(blocks) |->
                            IF k = 0 THEN DOMAIN into
                            ELSE {b \in f[k - 1] : into[b] \cap f[k - 1] # {}}]
             R == CHOOSE f : F(f)
  <2>1. \A f : F(f) <=> Peels(into, n, f)
    BY DEF Peels, Peel
  <2>2. Acyclic(into) <=> R[n] = {}
    BY DEF Acyclic
  <2> HIDE DEF F
  <2>3. \E f : F(f)
    BY <1>2, <2>1, PeelsExist
  <2>4. F(R)
    BY <2>3
  <2>5. Peels(into, n, R)
    BY <2>1, <2>4
  <2> HIDE DEF R
  <2>6. DOMAIN into \subseteq 1..n
    BY <1>2, <1>3, <1>4
  <2>7. R[n] = {}
    BY <1>2, <1>5, <2>5, <2>6, PeelsAll
  <2> QED BY <2>2, <2>7
<1> QED BY <1>1, <1>6, InvEdges

\* Every loop is entered at its head: without the branches back to a block
\* that dominates them the finished graph has no cycle, so Dominators needs
\* one pass and one to see that nothing changes.
THEOREM LoopsEnterAtHead == Spec => []Reducible
BY GraphInvariant, InvReducible, PTL

-----------------------------------------------------------------------------
(* Variables.  Each scope but the outermost is left by one visit under way,  *)
(* own says by which: as many visits are further out.  A variable in it was  *)
(* allocated in a block that is open since then.                             *)
Pops(f) == f.at = "fun" \/ (f.at \in {"decls", "list"} /\ f.exits = TRUE)
Owned(own) ==
  /\ DOMAIN own = 2..Len(scope)
  /\ \A j, k \in 2..Len(scope) : j < k => own[j] < own[k]
  /\ \A k \in 2..Len(scope) : \E i \in DOMAIN todo : Pops(todo[i]) /\ own[k] = Len(todo) - i
  /\ \A i \in DOMAIN todo : Pops(todo[i]) => \E k \in 2..Len(scope) : own[k] = Len(todo) - i

Held(v, n) ==
  /\ v[1] \in Id /\ v[2] \in DOMAIN blocks[v[1]].code
  /\ \E lo : Open(n, v[1], lo)
BindInv(own) ==
  \A k \in 2..Len(scope) : \A n \in DOMAIN scope[k] : Held(scope[k][n], own[k])
IndexInv(own) ==   \* the variable that waits for its index is found in a scope further out
  \A i \in DOMAIN todo : todo[i].at = "index" =>
    \/ todo[i].var = Global
    \/ \E k \in DOMAIN own : own[k] < Len(todo) - i /\ Held(todo[i].var, own[k])

\* A use of v in block b, at i, comes after its alloca: in the same block, in a
\* block under it, or in one that will be when the scope is left.
Used(own, v, b, i) ==
  /\ v[1] \in Id
  /\ \/ v[1] = b /\ v[2] < i
     \/ v[1] # b /\ Under(v[1], b)
     \/ \E k \in DOMAIN own : \E lo : Open(own[k], v[1], lo) /\ b > lo
UseInv(own) ==
  \A b \in Id : \A i \in DOMAIN blocks[b].code :
    LET ins == blocks[b].code[i]
    IN  ins[1] = "use" /\ ins[2] # Global => Used(own, ins[2], b, i)

\* The statements of the function are in the scope of its parameters, any other
\* compound statement in a scope of its own.
ScopeInv ==
  /\ scope \in Seq(ToSet(scope)) /\ Len(scope) >= 1
  /\ \A n \in DOMAIN scope[1] : scope[1][n] \in {Global, Except}
BodyInv ==
  /\ pre_enter_scope \in BOOLEAN
  /\ pre_enter_scope => Len(todo) = 2 /\ Top.at = "compound"
  /\ \A i \in DOMAIN todo : todo[i].at \in {"decls", "list"} =>
       todo[i].exits \in BOOLEAN /\ (todo[i].exits = FALSE => i = Len(todo) - 1)
VarsInv(own) == Owned(own) /\ BindInv(own) /\ IndexInv(own) /\ UseInv(own)
UseIInv == IInv /\ ScopeInv /\ BodyInv /\ \E own : VarsInv(own)

\* What a step adds to the code: at the end of a block or in a new one, and the
\* uses are those of us, in the insert block.
Adds(us) ==
  /\ \A b \in Id : DOMAIN blocks[b].code \subseteq DOMAIN blocks'[b].code
  /\ \A b \in Id' : \A i \in DOMAIN blocks'[b].code :
       \/ b \in Id /\ i \in DOMAIN blocks[b].code /\ blocks'[b].code[i] = blocks[b].code[i]
       \/ blocks'[b].code[i][1] # "use"
       \/ /\ b = cur' /\ blocks'[b].code[i][2] \in us
          /\ ~(b \in Id /\ i \in DOMAIN blocks[b].code)

\* Scopes are left by visits under way.
LEMMA OwnedDepth ==
  ASSUME IInv, NEW own, Owned(own), NEW k \in DOMAIN own
  PROVE  own[k] \in Nat /\ own[k] < Len(todo)
<1>1. DOMAIN todo = 1..Len(todo) /\ Len(todo) \in Nat
  BY DEF IInv, FramesInv
<1>2. PICK i \in DOMAIN todo : own[k] = Len(todo) - i
  BY DEF Owned
<1> QED BY <1>1, <1>2

\* A variable in scope stays one until the scope is left.
LEMMA HeldStays ==
  ASSUME IInv, NEW fs, NEW T, Moves(fs, T), NEW us, Adds(us),
         NEW n \in Nat, n < Len(todo), NEW v, Held(v, n)
  PROVE  Held(v, n)'
<1>1. v[1] \in Id /\ v[2] \in DOMAIN blocks[v[1]].code
  BY DEF Held
<1>2. PICK lo : Open(n, v[1], lo)
  BY DEF Held
<1> DEFINE d == v[1]
<1>3. Open(n, d, lo)'
  <2>1. Open(n, d, lo)
    BY <1>2
  <2> HIDE DEF d
  <2> QED BY <2>1, OpenStays
<1>4. v[1] \in Id'
  BY <1>1, IntoStays
<1>5. v[2] \in DOMAIN blocks'[v[1]].code
  BY <1>1 DEF Adds
<1> QED BY <1>3, <1>4, <1>5 DEF Held

\* A use that comes after its alloca keeps doing so.
LEMMA UsedStays ==
  ASSUME IInv, NEW fs, NEW T, Moves(fs, T),
         NEW own, \A k \in DOMAIN own : own[k] \in Nat /\ own[k] < Len(todo),
         NEW v, NEW b, NEW i, Used(own, v, b, i)
  PROVE  Used(own, v, b, i)'
<1> DEFINE d == v[1]
<1>1. d \in Id'
  BY IntoStays DEF Used
<1>2. CASE v[1] = b /\ v[2] < i
  BY <1>1, <1>2 DEF Used
<1>3. CASE v[1] # b /\ Under(v[1], b)
  <2>1. Under(d, b)
    BY <1>3
  <2>2. Under(d, b)'
    <3> HIDE DEF d
    <3> QED BY <2>1, UnderStays
  <2> QED BY <1>1, <1>3, <2>2 DEF Used
<1>4. CASE \E k \in DOMAIN own : \E lo : Open(own[k], v[1], lo) /\ b > lo
  <2>1. PICK k, lo : k \in DOMAIN own /\ Open(own[k], d, lo) /\ b > lo
    BY <1>4
  <2> DEFINE n == own[k]
  <2>2. n \in Nat /\ n < Len(todo) /\ Open(n, d, lo)
    BY <2>1
  <2>3. Open(n, d, lo)'
    <3> HIDE DEF n, d
    <3> QED BY <2>2, OpenStays
  <2> QED BY <1>1, <2>1, <2>3 DEF Used
<1> QED BY <1>2, <1>3, <1>4 DEF Used

\* Code is a list.
LEMMA CodeDomain ==
  ASSUME NEW bs, BlocksOK(bs), NEW b \in 1..Len(bs)
  PROVE  \E m \in Nat : DOMAIN bs[b].code = 1..m
<1>1. bs[b].code \in Seq(Emitted(bs))
  BY BlkFacts DEF BlocksOK
<1> QED BY <1>1

\* So do those of the step.
LEMMA UsesStay ==
  ASSUME IInv, IInv', NEW fs, NEW T, Moves(fs, T), NEW us, Adds(us),
         NEW own, \A k \in DOMAIN own : own[k] \in Nat /\ own[k] < Len(todo),
         \A v \in us : v = Global \/ \E k \in DOMAIN own : Held(v, own[k]),
         UseInv(own)
  PROVE  UseInv(own)'
<1>1. ASSUME NEW b \in Id', NEW i \in DOMAIN blocks'[b].code, NEW ins, ins = blocks'[b].code[i],
             ins[1] = "use", ins[2] # Global
      PROVE  Used(own, ins[2], b, i)'
  <2> DEFINE v == ins[2]
  <2>1. CASE b \in Id /\ i \in DOMAIN blocks[b].code /\ ins = blocks[b].code[i]
    <3>1. Used(own, v, b, i)
      BY <1>1, <2>1 DEF UseInv
    <3> HIDE DEF v
    <3>2. Used(own, v, b, i)'
      BY <3>1, UsedStays
    <3> QED BY <3>2 DEF v
  <2>2. CASE b = cur' /\ v \in us /\ ~(b \in Id /\ i \in DOMAIN blocks[b].code)
    <3>1. PICK k \in DOMAIN own : Held(v, own[k])
      BY <1>1, <2>2
    <3> DEFINE d == v[1]
               n == own[k]
    <3>2. PICK lo : Open(n, d, lo)
      BY <3>1 DEF Held
    <3>3. d \in Id /\ v[2] \in DOMAIN blocks[d].code /\ n \in Nat /\ n < Len(todo)
      BY <3>1 DEF Held
    <3>4. Open(n, d, lo)'
      <4> HIDE DEF n, d
      <4> QED BY <3>2, <3>3, OpenStays
    <3>5. d \in Id'
      BY <3>3, IntoStays
    <3>6. b = d \/ b > lo
      BY <2>2, <3>4 DEF Open
    <3>7. CASE b = d
      <4>1. i \notin DOMAIN blocks[d].code /\ i \in DOMAIN blocks'[d].code
        BY <2>2, <3>3, <3>7
      <4>2. v[2] < i
        <5>1. \E m \in Nat : DOMAIN blocks[d].code = 1..m
          BY <3>3, CodeDomain DEF IInv, Id
        <5>2. \E m \in Nat : DOMAIN blocks'[d].code = 1..m
          BY <3>5, CodeDomain DEF IInv, Id
        <5> QED BY <3>3, <4>1, <5>1, <5>2
      <4> QED BY <3>5, <3>7, <4>2 DEF Used
    <3>8. CASE b > lo
      BY <3>4, <3>5, <3>8 DEF Used
    <3> QED BY <3>6, <3>7, <3>8
  <2> QED BY <1>1, <2>1, <2>2 DEF Adds
<1> QED BY <1>1 DEF UseInv

\* The innermost scope is left by one of the visits fs instead of the innermost
\* one, or by none of both.
Keeps(fs) ==
  /\ \A i \in 1..Len(fs) : Pops(fs[i]) <=> i = Len(fs) /\ Pops(Top)
  /\ Len(fs) = 0 => ~Pops(Top)

\* Then the scopes are left where they were.
LEMMA OwnedStays ==
  ASSUME IInv, NEW fs, NEW T, Moves(fs, T), Keeps(fs), Len(scope') = Len(scope),
         NEW own, Owned(own)
  PROVE  Owned(own)'
<1>1. /\ Len(todo) \in Nat /\ Len(todo) > 0 /\ DOMAIN todo = 1..Len(todo) /\ Len(fs) \in Nat
      /\ DOMAIN todo' = 1..Len(todo') /\ Len(todo') = Len(fs) + Len(todo) - 1
      /\ \A i \in 1..Len(fs) : todo'[i] = fs[i]
      /\ \A i \in (Len(fs) + 1)..Len(todo') :
           i - Len(fs) + 1 \in 2..Len(todo) /\ todo'[i] = todo[i - Len(fs) + 1]
      /\ Top = todo[1]
  BY MoveFrames
<1>2. ASSUME NEW k \in 2..Len(scope)
      PROVE  \E i \in DOMAIN todo' : Pops(todo'[i]) /\ own[k] = Len(todo') - i
  <2>1. PICK i \in DOMAIN todo : Pops(todo[i]) /\ own[k] = Len(todo) - i
    BY DEF Owned
  <2>2. CASE i = 1
    <3>1. Pops(Top) /\ Len(fs) # 0
      BY <1>1, <2>1, <2>2 DEF Keeps
    <3>2. Len(fs) \in 1..Len(fs) /\ Len(fs) \in DOMAIN todo'
      BY <1>1, <3>1
    <3>3. Pops(todo'[Len(fs)])
      BY <1>1, <3>1, <3>2 DEF Keeps
    <3>4. own[k] = Len(todo) - 1
      BY <2>1, <2>2
    <3>5. Len(todo) - 1 = Len(todo') - Len(fs)
      BY <1>1
    <3> QED BY <3>2, <3>3, <3>4, <3>5
  <2>3. CASE i # 1
    <3> DEFINE j == i + Len(fs) - 1
    <3>1. j \in (Len(fs) + 1)..Len(todo') /\ j - Len(fs) + 1 = i /\ j \in DOMAIN todo'
      BY <1>1, <2>3
    <3>2. Len(todo) - i = Len(todo') - j
      BY <1>1
    <3> HIDE DEF j
    <3>3. todo'[j] = todo[i]
      BY <1>1, <3>1
    <3> QED BY <2>1, <3>1, <3>2, <3>3
  <2> QED BY <2>2, <2>3
<1>3. ASSUME NEW i \in DOMAIN todo', Pops(todo'[i])
      PROVE  \E k \in 2..Len(scope) : own[k] = Len(todo') - i
  <2>1. CASE i \in 1..Len(fs)
    <3>1. i = Len(fs) /\ Pops(todo[1])
      BY <1>1, <1>3, <2>1 DEF Keeps
    <3>2. 1 \in DOMAIN todo
      BY <1>1
    <3>3. PICK k \in 2..Len(scope) : own[k] = Len(todo) - 1
      BY <3>1, <3>2 DEF Owned
    <3>4. Len(todo) - 1 = Len(todo') - i
      BY <1>1, <3>1
    <3> QED BY <3>3, <3>4
  <2>2. CASE i \notin 1..Len(fs)
    <3> DEFINE j == i - Len(fs) + 1
    <3>1. /\ i \notin 1..Len(fs) /\ j \in DOMAIN todo /\ todo'[i] = todo[j]
          /\ Len(todo') - i = Len(todo) - j
      BY <2>2, FrameStep
    <3> HIDE DEF j
    <3>2. j \in DOMAIN todo /\ todo'[i] = todo[j] /\ Len(todo') - i = Len(todo) - j
      BY <3>1
    <3> QED BY <1>3, <3>2 DEF Owned
  <2> QED BY <2>1, <2>2
<1> QED BY <1>2, <1>3 DEF Owned

\* An index begins with a variable from a scope further out.
IndexFound(fs, own) ==
  \A i \in 1..Len(fs) : fs[i].at = "index" =>
    /\ i = Len(fs)
    /\ \/ fs[i].var = Global
       \/ \E k \in DOMAIN own : own[k] < Len(todo) - 1 /\ Held(fs[i].var, own[k])

\* The variables that wait for their index stay.
LEMMA IndexStays ==
  ASSUME IInv, NEW fs, NEW T, Moves(fs, T), NEW us, Adds(us),
         NEW own, \A k \in DOMAIN own : own[k] \in Nat /\ own[k] < Len(todo),
         IndexFound(fs, own), IndexInv(own)
  PROVE  IndexInv(own)'
<1>1. /\ Len(todo) \in Nat /\ Len(todo) > 0 /\ DOMAIN todo = 1..Len(todo) /\ Len(fs) \in Nat
      /\ DOMAIN todo' = 1..Len(todo') /\ Len(todo') = Len(fs) + Len(todo) - 1
      /\ \A i \in 1..Len(fs) : todo'[i] = fs[i]
      /\ \A i \in (Len(fs) + 1)..Len(todo') :
           i - Len(fs) + 1 \in 2..Len(todo) /\ todo'[i] = todo[i - Len(fs) + 1]
  BY MoveFrames
<1>2. ASSUME NEW k \in DOMAIN own, NEW v, Held(v, own[k]) PROVE Held(v, own[k])'
  <2> DEFINE n == own[k]
  <2>1. n \in Nat /\ n < Len(todo) /\ Held(v, n)
    BY <1>2
  <2> HIDE DEF n
  <2>2. Held(v, n)'
    BY <2>1, HeldStays
  <2> QED BY <2>2 DEF n
<1>3. ASSUME NEW i \in DOMAIN todo', todo'[i].at = "index", NEW v, v = todo'[i].var, v # Global
      PROVE  \E k \in DOMAIN own : own[k] < Len(todo') - i /\ Held(v, own[k])'
  <2>1. CASE i \in 1..Len(fs)
    <3>1. PICK k \in DOMAIN own : own[k] < Len(todo) - 1 /\ Held(v, own[k])
      BY <1>1, <1>3, <2>1 DEF IndexFound
    <3>2. i = Len(fs)
      BY <1>1, <1>3, <2>1 DEF IndexFound
    <3>3. Len(todo') - i = Len(todo) - 1
      BY <1>1, <3>2
    <3>4. own[k] < Len(todo') - i
      BY <3>1, <3>3
    <3> QED BY <1>2, <3>1, <3>4
  <2>2. CASE i \notin 1..Len(fs)
    <3> DEFINE j == i - Len(fs) + 1
    <3>1. /\ i \notin 1..Len(fs) /\ j \in DOMAIN todo /\ todo'[i] = todo[j]
          /\ Len(todo') - i = Len(todo) - j
      BY <2>2, FrameStep
    <3> HIDE DEF j
    <3>2. j \in DOMAIN todo /\ todo'[i] = todo[j] /\ Len(todo') - i = Len(todo) - j
      BY <3>1
    <3>3. PICK k \in DOMAIN own : own[k] < Len(todo) - j /\ Held(v, own[k])
      BY <1>3, <3>2 DEF IndexInv
    <3> QED BY <1>2, <3>2, <3>3
  <2> QED BY <2>1, <2>2
<1> QED BY <1>3 DEF IndexInv

\* The scopes stay, but for variables that are declared.
Scoped(own) ==
  /\ Len(scope') = Len(scope)
  /\ \A k \in 2..Len(scope) : \A n \in DOMAIN scope'[k] : \A v : v = scope'[k][n] =>
       (n \in DOMAIN scope[k] /\ v = scope[k][n]) \/ Held(v, own[k])'

\* A step inside the scopes there are.
LEMMA VarsStay ==
  ASSUME IInv, IInv', NEW fs, NEW T, Moves(fs, T), NEW us, Adds(us), Keeps(fs),
         NEW own, VarsInv(own), Scoped(own), IndexFound(fs, own),
         \A v \in us : v = Global \/ \E k \in DOMAIN own : Held(v, own[k])
  PROVE  \E o : VarsInv(o)'
<1>1. Owned(own) /\ BindInv(own) /\ IndexInv(own) /\ UseInv(own) /\ Len(scope') = Len(scope)
  BY DEF VarsInv, Scoped
<1>2. DOMAIN own = 2..Len(scope) /\ \A k \in DOMAIN own : own[k] \in Nat /\ own[k] < Len(todo)
  BY <1>1, OwnedDepth DEF Owned
<1>3. Owned(own)'
  BY <1>1, OwnedStays
<1>4. ASSUME NEW k \in 2..Len(scope), NEW n \in DOMAIN scope'[k], NEW v, v = scope'[k][n]
      PROVE  Held(v, own[k])'
  <2> DEFINE m == own[k]
  <2>1. CASE n \in DOMAIN scope[k] /\ v = scope[k][n]
    <3>1. m \in Nat /\ m < Len(todo) /\ Held(v, m)
      BY <1>1, <1>2, <1>4, <2>1 DEF BindInv
    <3> HIDE DEF m
    <3>2. Held(v, m)'
      BY <3>1, HeldStays
    <3> QED BY <3>2 DEF m
  <2>2. CASE Held(v, own[k])'
    BY <2>2
  <2> QED BY <1>4, <2>1, <2>2 DEF Scoped
<1>5. BindInv(own)'
  BY <1>1, <1>4 DEF BindInv
<1>6. IndexInv(own)'
  BY <1>1, <1>2, IndexStays
<1>7. UseInv(own)'
  BY <1>1, <1>2, UsesStay
<1>8. VarsInv(own)'
  BY <1>3, <1>5, <1>6, <1>7 DEF VarsInv
<1> QED BY <1>8

\* The innermost visit that leaves a scope leaves the innermost scope.
LEMMA InnermostOwned ==
  ASSUME IInv, todo # <<>>, scope \in Seq(ToSet(scope)), NEW own, Owned(own), Pops(Top)
  PROVE  /\ Len(scope) \in 2..Len(scope) /\ own[Len(scope)] = Len(todo) - 1
         /\ \A k \in 2..(Len(scope) - 1) : own[k] < Len(todo) - 1
<1>1. /\ DOMAIN todo = 1..Len(todo) /\ Len(todo) \in Nat /\ 1 \in DOMAIN todo /\ Top = todo[1]
      /\ Len(scope) \in Nat
  <2>1. todo \in Seq(ToSet(todo))
    BY DEF IInv, FramesInv
  <2> QED BY <2>1 DEF Top
<1>2. PICK k \in 2..Len(scope) : own[k] = Len(todo) - 1
  BY <1>1 DEF Owned
<1>3. \A j \in 2..Len(scope) : own[j] \in Nat /\ own[j] < Len(todo)
  BY OwnedDepth DEF Owned
<1>4. \A j \in 2..Len(scope) : j <= k
  <2>1. SUFFICES ASSUME NEW j \in 2..Len(scope), k < j PROVE FALSE
    BY <1>1
  <2>2. own[k] < own[j]
    BY <2>1 DEF Owned
  <2> QED BY <1>1, <1>2, <1>3, <2>1, <2>2
<1>5. k = Len(scope)
  BY <1>1, <1>4
<1>6. ASSUME NEW j \in 2..(Len(scope) - 1) PROVE own[j] < Len(todo) - 1
  <2>1. j \in 2..Len(scope) /\ j < Len(scope) /\ Len(scope) \in 2..Len(scope)
    BY <1>1, <1>6
  <2>2. own[j] < own[Len(scope)]
    BY <2>1 DEF Owned
  <2> QED BY <1>2, <1>5, <2>2
<1> QED BY <1>2, <1>5, <1>6

\* The visit that leaves the innermost scope ends: what used its variables is
\* under their blocks.
LEMMA VarsPop ==
  ASSUME IInv, IInv', cur' # 0, NEW fs, fs = <<>>, NEW T, Moves(fs, T), NEW us, us = {}, Adds(us),
         Pops(Top), scope \in Seq(ToSet(scope)), scope' = Front(scope),
         NEW own, VarsInv(own)
  PROVE  \E o : VarsInv(o)'
<1>1. Owned(own) /\ BindInv(own) /\ IndexInv(own) /\ UseInv(own)
  BY DEF VarsInv
<1>2. /\ Len(todo) \in Nat /\ Len(todo) > 0 /\ DOMAIN todo = 1..Len(todo)
      /\ DOMAIN todo' = 1..Len(todo') /\ Len(todo') = Len(todo) - 1
      /\ \A i \in 1..Len(todo') : i + 1 \in 2..Len(todo) /\ todo'[i] = todo[i + 1]
      /\ todo # <<>> /\ Len(fs) = 0
  <2>1. Len(fs) = 0
    OBVIOUS
  <2>2. /\ Len(todo) \in Nat /\ Len(todo) > 0 /\ DOMAIN todo = 1..Len(todo)
        /\ DOMAIN todo' = 1..Len(todo') /\ Len(todo') = Len(todo) - 1 /\ todo # <<>>
        /\ \A i \in 1..Len(todo') : i + 1 \in 2..Len(todo)
    BY <2>1, MoveFrames DEF Moves
  <2>3. \A i \in (Len(fs) + 1)..Len(todo') : todo'[i] = todo[i - Len(fs) + 1]
    BY MoveFrames
  <2>4. \A i \in 1..Len(todo') : todo'[i] = todo[i - 0 + 1] /\ i - 0 + 1 = i + 1
    BY <2>1, <2>2, <2>3
  <2> QED BY <2>1, <2>2, <2>4
<1> PICK n : n = Len(scope)
  OBVIOUS
<1>3. /\ n \in Nat /\ n \in 2..n /\ own[n] = Len(todo) - 1 /\ Len(scope') = n - 1
      /\ \A k \in 2..(n - 1) : own[k] < Len(todo) - 1 /\ scope'[k] = scope[k] /\ k \in 2..n
      /\ DOMAIN own = 2..n
  <2>1. n \in 2..n /\ own[n] = Len(todo) - 1 /\ \A k \in 2..(n - 1) : own[k] < Len(todo) - 1
    BY <1>1, <1>2, InnermostOwned
  <2>2. DOMAIN own = 2..n /\ n \in Nat
    BY <1>1 DEF Owned
  <2>3. Len(scope') = n - 1 /\ \A k \in 2..(n - 1) : scope'[k] = scope[k] /\ k \in 2..n
    BY <2>1, <2>2 DEF Front
  <2> QED BY <2>1, <2>2, <2>3
<1>4. \A k \in 2..n : own[k] \in Nat /\ own[k] < Len(todo)
  BY <1>1, <1>3, OwnedDepth
<1> DEFINE o == [k \in 2..(n - 1) |-> own[k]]
<1>5. DOMAIN o = 2..(n - 1) /\ \A k \in 2..(n - 1) : o[k] = own[k]
  OBVIOUS
<1> HIDE DEF o
<1>6. Owned(o)'
  <2>1. \A j, k \in 2..(n - 1) : j < k => o[j] < o[k]
    BY <1>1, <1>3, <1>5 DEF Owned
  <2>2. ASSUME NEW k \in 2..(n - 1)
        PROVE  \E i \in DOMAIN todo' : Pops(todo'[i]) /\ o[k] = Len(todo') - i
    <3>1. PICK i \in DOMAIN todo : Pops(todo[i]) /\ own[k] = Len(todo) - i
      BY <1>1, <1>3 DEF Owned
    <3>2. own[k] < Len(todo) - 1
      BY <1>3
    <3> DEFINE j == i - 1
    <3>3. j \in DOMAIN todo' /\ j + 1 = i /\ Len(todo') - j = Len(todo) - i
      BY <1>2, <3>1, <3>2
    <3> HIDE DEF j
    <3>4. todo'[j] = todo[i]
      BY <1>2, <3>3
    <3> QED BY <1>5, <3>1, <3>3, <3>4
  <2>3. ASSUME NEW i \in DOMAIN todo', Pops(todo'[i])
        PROVE  \E k \in 2..(n - 1) : o[k] = Len(todo') - i
    <3> DEFINE j == i + 1
    <3>1. j \in DOMAIN todo /\ todo'[i] = todo[j] /\ Len(todo) - j = Len(todo') - i /\ j # 1
      BY <1>2
    <3> HIDE DEF j
    <3>2. PICK k \in 2..n : own[k] = Len(todo) - j
      BY <1>1, <1>3, <2>3, <3>1 DEF Owned
    <3>3. k # n
      BY <1>2, <1>3, <3>1, <3>2
    <3>4. k \in 2..(n - 1)
      BY <1>3, <3>3
    <3> QED BY <1>5, <3>1, <3>2, <3>4
  <2> QED BY <1>3, <1>5, <2>1, <2>2, <2>3 DEF Owned
<1>7. ASSUME NEW k \in 2..(n - 1), NEW v, Held(v, own[k]) PROVE Held(v, o[k])'
  <2> DEFINE m == own[k]
  <2>1. m \in Nat /\ m < Len(todo) /\ Held(v, m)
    BY <1>3, <1>4, <1>7
  <2> HIDE DEF m
  <2>2. Held(v, m)'
    BY <2>1, HeldStays
  <2> QED BY <1>5, <2>2 DEF m
<1>8. BindInv(o)'
  <2>1. ASSUME NEW k \in 2..(n - 1), NEW x \in DOMAIN scope'[k], NEW v, v = scope'[k][x]
        PROVE  Held(v, o[k])'
    <3>1. Held(v, own[k])
      BY <1>1, <1>3, <2>1 DEF BindInv
    <3> QED BY <1>7, <3>1
  <2> QED BY <1>3, <2>1 DEF BindInv
<1>9. IndexInv(o)'
  <2>1. ASSUME NEW i \in DOMAIN todo', todo'[i].at = "index", NEW v, v = todo'[i].var, v # Global
        PROVE  \E k \in DOMAIN o : o[k] < Len(todo') - i /\ Held(v, o[k])'
    <3> DEFINE j == i + 1
    <3>1. j \in DOMAIN todo /\ todo'[i] = todo[j] /\ Len(todo) - j = Len(todo') - i /\ j # 1
      BY <1>2
    <3> HIDE DEF j
    <3>2. PICK k \in DOMAIN own : own[k] < Len(todo) - j /\ Held(v, own[k])
      BY <1>1, <2>1, <3>1 DEF IndexInv
    <3>3. k # n
      BY <1>2, <1>3, <3>1, <3>2
    <3>4. k \in 2..(n - 1)
      BY <1>3, <3>3
    <3> QED BY <1>5, <1>7, <3>1, <3>2, <3>4
  <2> QED BY <2>1 DEF IndexInv
<1>10. UseInv(own)'
  <2>1. \A k \in DOMAIN own : own[k] \in Nat /\ own[k] < Len(todo)
    BY <1>3, <1>4
  <2> QED BY <1>1, <2>1, UsesStay
<1>11. ASSUME NEW v, NEW b \in Id', NEW i, Used(own, v, b, i)' PROVE Used(o, v, b, i)'
  <2> DEFINE d == v[1]
  <2>1. d \in Id'
    BY <1>11 DEF Used
  <2>2. CASE v[1] = b /\ v[2] < i
    BY <2>1, <2>2 DEF Used
  <2>3. CASE v[1] # b /\ Under(v[1], b)'
    BY <2>1, <2>3 DEF Used
  <2>4. CASE \E k \in DOMAIN own : \E lo : Open(own[k], v[1], lo)' /\ b > lo
    <3>1. PICK k, lo : k \in DOMAIN own /\ Open(own[k], d, lo)' /\ b > lo
      BY <2>4
    <3>2. CASE k # n
      <4>1. k \in DOMAIN o /\ o[k] = own[k]
        BY <1>3, <1>5, <3>1, <3>2
      <4> QED BY <2>1, <3>1, <4>1 DEF Used
    <3>3. CASE k = n
      <4> DEFINE m == own[k]
      <4>1. m = Len(todo')
        BY <1>2, <1>3, <3>3
      <4>2. PICK hi : hi = Len(blocks')
        OBVIOUS
      <4>3. Open(m, d, lo)'
        BY <3>1
      <4>4. Shut(d, lo, hi)'
        <5> HIDE DEF m, d
        <5> QED BY <4>1, <4>2, <4>3, OpenShuts
      <4>5. d \in 1..lo /\ b \in (lo + 1)..hi /\ lo \in Nat
        <5>1. d \in 1..lo /\ lo \in Nat
          BY <4>4 DEF Shut
        <5>2. b \in 1..hi /\ hi \in Nat
          BY <4>2 DEF Id, IInv, BlocksOK
        <5> QED BY <3>1, <5>1, <5>2
      <4>6. d # b
        BY <4>5
      <4>7. Under(d, b)'
        BY <4>4, <4>5 DEF Under
      <4> QED BY <2>1, <4>6, <4>7 DEF Used
    <3> QED BY <3>2, <3>3
  <2> QED BY <1>11, <2>2, <2>3, <2>4 DEF Used
<1>12. UseInv(o)'
  BY <1>10, <1>11 DEF UseInv
<1>13. VarsInv(o)'
  BY <1>6, <1>8, <1>9, <1>12 DEF VarsInv
<1> QED BY <1>13

-----------------------------------------------------------------------------
(* What the builder adds to the code.  *)

\* Code only grows; of what is new, the uses are those of us, in block at.
Grown(bs, new, us, at) ==
  /\ \A b \in 1..Len(bs) :
       /\ b \in 1..Len(new)
       /\ \A i \in DOMAIN bs[b].code : i \in DOMAIN new[b].code /\ new[b].code[i] = bs[b].code[i]
  /\ \A b \in 1..Len(new) : \A i \in DOMAIN new[b].code :
       \/ b \in 1..Len(bs) /\ i \in DOMAIN bs[b].code
       \/ new[b].code[i][1] # "use"
       \/ b = at /\ new[b].code[i][2] \in us

\* One step after another.
LEMMA GrownTwice ==
  ASSUME NEW bs, NEW mid, NEW new, NEW us, NEW at, NEW none, none = {},
         Grown(bs, mid, none, at), Grown(mid, new, us, at)
  PROVE  Grown(bs, new, us, at)
<1>1. ASSUME NEW b \in 1..Len(bs)
      PROVE  /\ b \in 1..Len(new)
             /\ \A i \in DOMAIN bs[b].code : i \in DOMAIN new[b].code /\ new[b].code[i] = bs[b].code[i]
  BY DEF Grown
<1>2. ASSUME NEW b \in 1..Len(new), NEW i \in DOMAIN new[b].code
      PROVE  \/ b \in 1..Len(bs) /\ i \in DOMAIN bs[b].code
             \/ new[b].code[i][1] # "use"
             \/ b = at /\ new[b].code[i][2] \in us
  <2>1. CASE b \in 1..Len(mid) /\ i \in DOMAIN mid[b].code
    <3>1. new[b].code[i] = mid[b].code[i]
      BY <2>1 DEF Grown
    <3>2. (b \in 1..Len(bs) /\ i \in DOMAIN bs[b].code) \/ mid[b].code[i][1] # "use"
      BY <2>1 DEF Grown
    <3> QED BY <3>1, <3>2
  <2>2. CASE ~(b \in 1..Len(mid) /\ i \in DOMAIN mid[b].code)
    BY <1>2, <2>2 DEF Grown
  <2> QED BY <2>1, <2>2
<1> QED BY <1>1, <1>2 DEF Grown

\* The step that made blocks' of blocks.
LEMMA AddsOf ==
  ASSUME NEW us, NEW at, at = cur', Grown(blocks, blocks', us, at) PROVE Adds(us)
<1>1. \A b \in Id : DOMAIN blocks[b].code \subseteq DOMAIN blocks'[b].code
  BY DEF Grown, Id
<1>2. ASSUME NEW b \in Id', NEW i \in DOMAIN blocks'[b].code
      PROVE  \/ b \in Id /\ i \in DOMAIN blocks[b].code /\ blocks'[b].code[i] = blocks[b].code[i]
             \/ blocks'[b].code[i][1] # "use"
             \/ /\ b = cur' /\ blocks'[b].code[i][2] \in us
                /\ ~(b \in Id /\ i \in DOMAIN blocks[b].code)
  BY <1>2 DEF Grown, Id
<1> QED BY <1>1, <1>2 DEF Adds

\* Nothing is written.
LEMMA AddsNothing ==
  ASSUME blocks' = blocks PROVE \A us : Adds(us)
BY DEF Adds, Id

\* Instructions of which the uses are those of us.
Uses(ins, us) == \A j \in 1..Len(ins) : ins[j][1] # "use" \/ ins[j][2] \in us

\* Instructions at the end of a block, ...
LEMMA EmitGrown ==
  ASSUME NEW S, NEW bs \in Seq(Blk(S)), NEW b \in 1..Len(bs), NEW ins \in Seq(S),
         NEW us, Uses(ins, us), NEW at, us = {} \/ b = at
  PROVE  LET new == Emit(bs, b, ins) IN new \in Seq(Blk(S)) /\ Len(new) = Len(bs) /\ Grown(bs, new, us, at)
<1> DEFINE new == Emit(bs, b, ins)
           u == bs[b].code \o ins
<1>1. /\ new \in Seq(Blk(S)) /\ Len(new) = Len(bs)
      /\ \A c \in 1..Len(bs) : new[c].code = IF c = b THEN u ELSE bs[c].code
  BY EmitFacts
<1> HIDE DEF new
<1> DEFINE s == bs[b].code
<1>2. s \in Seq(S)
  BY BlkFacts
<1>3. /\ Len(u) = Len(s) + Len(ins) /\ Len(s) \in Nat /\ Len(ins) \in Nat
      /\ DOMAIN s = 1..Len(s) /\ DOMAIN u = 1..Len(u)
      /\ \A i \in 1..Len(s) : u[i] = s[i]
      /\ \A i \in 1..Len(ins) : u[Len(s) + i] = ins[i]
  <2> HIDE DEF s
  <2>1. /\ s \o ins \in Seq(S) /\ Len(s \o ins) = Len(s) + Len(ins)
        /\ \A i \in 1..Len(s) : (s \o ins)[i] = s[i]
        /\ \A i \in 1..Len(ins) : (s \o ins)[Len(s) + i] = ins[i]
    BY <1>2, ConcatFacts
  <2>2. u = s \o ins
    BY DEF s
  <2> HIDE DEF u
  <2> QED BY <1>2, <2>1, <2>2
<1> HIDE DEF s, u
<1>4. ASSUME NEW c \in 1..Len(bs), NEW i \in DOMAIN bs[c].code
      PROVE  i \in DOMAIN new[c].code /\ new[c].code[i] = bs[c].code[i]
  <2>1. CASE c # b
    BY <1>1, <2>1
  <2>2. CASE c = b
    <3>1. new[c].code = u /\ bs[c].code = s
      BY <1>1, <2>2 DEF s
    <3>2. i \in 1..Len(s) /\ i \in 1..Len(u)
      BY <1>3, <1>4, <3>1
    <3> QED BY <1>3, <3>1, <3>2
  <2> QED BY <2>1, <2>2
<1>5. ASSUME NEW c \in 1..Len(new), NEW i \in DOMAIN new[c].code
      PROVE  \/ c \in 1..Len(bs) /\ i \in DOMAIN bs[c].code
             \/ new[c].code[i][1] # "use"
             \/ c = at /\ new[c].code[i][2] \in us
  <2>1. CASE c # b
    BY <1>1, <1>5, <2>1
  <2>2. CASE c = b
    <3>1. new[c].code = u /\ bs[c].code = s /\ i \in 1..Len(u)
      BY <1>1, <1>3, <1>5, <2>2 DEF s
    <3>2. CASE i <= Len(s)
      <4>1. i \in DOMAIN s
        BY <1>3, <3>1, <3>2
      <4> QED BY <1>1, <3>1, <4>1
    <3>3. CASE i > Len(s)
      <4>1. i - Len(s) \in 1..Len(ins) /\ i = Len(s) + (i - Len(s))
        BY <1>3, <3>1, <3>3
      <4>2. u[i] = ins[i - Len(s)]
        BY <1>3, <4>1
      <4>3. u[i][1] # "use" \/ u[i][2] \in us
        BY <4>1, <4>2 DEF Uses
      <4> QED BY <2>2, <3>1, <4>3
    <3> QED BY <1>3, <3>1, <3>2, <3>3
  <2> QED BY <2>1, <2>2
<1>6. Grown(bs, new, us, at)
  BY <1>1, <1>4, <1>5 DEF Grown
<1> QED BY <1>1, <1>6 DEF new

\* ... an edge, ...
LEMMA EdgeGrown ==
  ASSUME NEW S, NEW bs \in Seq(Blk(S)), NEW b \in 1..Len(bs), NEW t \in 1..Len(bs), NEW us, NEW at
  PROVE  LET new == Edge(bs, b, t) IN new \in Seq(Blk(S)) /\ Len(new) = Len(bs) /\ Grown(bs, new, us, at)
<1> DEFINE new == Edge(bs, b, t)
<1>1. /\ new \in Seq(Blk(S)) /\ Len(new) = Len(bs)
      /\ \A c \in 1..Len(bs) :
           /\ new[c].code = bs[c].code
           /\ new[c].succ = IF c = b THEN Append(bs[b].succ, t) ELSE bs[c].succ
           /\ new[c].pre = IF c = t THEN Append(bs[t].pre, b) ELSE bs[c].pre
  <2>1. EdgeEntered(S, bs, b, t, new)
    BY EdgeEnters
  <2> HIDE DEF new
  <2> QED BY ONLY <2>1 DEF EdgeEntered
<1> HIDE DEF new
<1>2. Grown(bs, new, us, at)
  BY <1>1 DEF Grown
<1> QED BY <1>1, <1>2 DEF new

\* ... new blocks.
LEMMA CreateGrown ==
  ASSUME NEW S, NEW bs \in Seq(Blk(S)), NEW k \in Nat, NEW us, NEW at
  PROVE  LET new == Create(bs, k) IN new \in Seq(Blk(S)) /\ Len(new) = Len(bs) + k /\ Grown(bs, new, us, at)
<1> DEFINE new == Create(bs, k)
<1>1. /\ new \in Seq(Blk(S)) /\ Len(new) = Len(bs) + k
      /\ \A b \in 1..Len(bs) : new[b] = bs[b]
      /\ \A b \in (Len(bs) + 1)..(Len(bs) + k) : new[b] = EmptyBlock
  BY CreateFacts
<1> HIDE DEF new
<1>2. DOMAIN EmptyBlock.code = {}
  BY DEF EmptyBlock
<1>3. Len(bs) \in Nat
  OBVIOUS
<1>4. ASSUME NEW b \in 1..Len(new), NEW i \in DOMAIN new[b].code
      PROVE  b \in 1..Len(bs) /\ i \in DOMAIN bs[b].code
  <2>1. CASE b \in 1..Len(bs)
    BY <1>1, <1>4, <2>1
  <2>2. CASE b \in (Len(bs) + 1)..(Len(bs) + k)
    BY <1>1, <1>2, <1>4, <2>2
  <2>3. b \in 1..Len(bs) \/ b \in (Len(bs) + 1)..(Len(bs) + k)
    BY <1>1, <1>3
  <2> QED BY <2>1, <2>2, <2>3
<1>5. \A b \in 1..Len(bs) : b \in 1..Len(new)
  BY <1>1, <1>3
<1>6. Grown(bs, new, us, at)
  BY <1>1, <1>4, <1>5 DEF Grown
<1> QED BY <1>1, <1>6 DEF new

\* A branch into two of k new blocks or the old ones.
LEMMA BranchGrown ==
  ASSUME NEW S, NEW bs \in Seq(Blk(S)), <<"cmp">> \in S, <<"br">> \in S, NEW k \in Nat,
         NEW b \in 1..(Len(bs) + k), NEW t \in 1..(Len(bs) + k), NEW f \in 1..(Len(bs) + k),
         NEW us, us = {}, NEW at
  PROVE  LET new == CreateCondBr(Create(bs, k), b, t, f)
         IN  new \in Seq(Blk(S)) /\ Len(new) = Len(bs) + k /\ Grown(bs, new, us, at)
<1> DEFINE ins == <<<<"cmp">>, <<"br">>>>
           one == Create(bs, k)
           two == Emit(one, b, ins)
           three == Edge(two, b, f)
           new == Edge(three, b, t)
<1>1. ins \in Seq(S) /\ Uses(ins, us)
  <2>1. Len(ins) = 2 /\ ins[1] = <<"cmp">> /\ ins[2] = <<"br">>
    OBVIOUS
  <2>2. ins \in Seq(S)
    OBVIOUS
  <2> QED BY <2>1, <2>2 DEF Uses
<1>2. one \in Seq(Blk(S)) /\ Len(one) = Len(bs) + k /\ Grown(bs, one, us, at)
  BY CreateGrown
<1>3. two \in Seq(Blk(S)) /\ Len(two) = Len(one) /\ Grown(one, two, us, at)
  <2> HIDE DEF one, ins
  <2> QED BY ZenonT(40), <1>1, <1>2, EmitGrown
<1>4. three \in Seq(Blk(S)) /\ Len(three) = Len(two) /\ Grown(two, three, us, at)
  <2> HIDE DEF two
  <2> QED BY ZenonT(40), <1>2, <1>3, EdgeGrown
<1>5. new \in Seq(Blk(S)) /\ Len(new) = Len(three) /\ Grown(three, new, us, at)
  <2> HIDE DEF three
  <2> QED BY <1>2, <1>3, <1>4, EdgeGrown
<1>6. new = CreateCondBr(Create(bs, k), b, t, f)
  BY DEF CreateCondBr
<1> HIDE DEF one, two, three, new
<1>7. Grown(bs, two, us, at)
  BY <1>2, <1>3, GrownTwice
<1>8. Grown(bs, three, us, at)
  BY <1>4, <1>7, GrownTwice
<1>9. Grown(bs, new, us, at)
  BY <1>5, <1>8, GrownTwice
<1> QED BY <1>2, <1>3, <1>4, <1>5, <1>6, <1>9

\* A branch where there is none yet.
LEMMA JoinGrown ==
  ASSUME NEW S, NEW bs \in Seq(Blk(S)), <<"br">> \in S,
         NEW b \in 1..Len(bs), NEW t \in 1..Len(bs), NEW us, us = {}, NEW at
  PROVE  Grown(bs, BrUnlessTerminated(bs, b, t), us, at)
<1> DEFINE ins == <<<<"br">>>>
           mid == Emit(bs, b, ins)
           new == Edge(mid, b, t)
<1>1. ins \in Seq(S) /\ Uses(ins, us)
  <2>1. Len(ins) = 1 /\ ins[1] = <<"br">>
    OBVIOUS
  <2>2. ins \in Seq(S)
    OBVIOUS
  <2> QED BY <2>1, <2>2 DEF Uses
<1>2. mid \in Seq(Blk(S)) /\ Len(mid) = Len(bs) /\ Grown(bs, mid, us, at)
  <2> HIDE DEF ins
  <2> QED BY <1>1, EmitGrown
<1>3. Grown(mid, new, us, at)
  <2> HIDE DEF mid
  <2> QED BY <1>2, EdgeGrown
<1>4. Grown(bs, new, us, at)
  <2> HIDE DEF mid, new
  <2> QED BY <1>2, <1>3, GrownTwice
<1>5. Grown(bs, bs, us, at)
  BY DEF Grown
<1> QED BY <1>4, <1>5 DEF BrUnlessTerminated, CreateBr

\* The blocks, over whatever is emitted next.
LEMMA BlocksWith ==
  ASSUME IInv, NEW X
  PROVE  \E S : X \subseteq S /\ blocks \in Seq(Blk(S))
<1>1. blocks \in Seq(Blk(Emitted(blocks) \cup X))
  BY BlocksUp DEF IInv
<1>2. X \subseteq Emitted(blocks) \cup X
  OBVIOUS
<1> QED BY <1>1, <1>2

\* A step that emits into the insert block.
LEMMA EmitAdds ==
  ASSUME IInv, todo # <<>>, NEW us, NEW ins, Uses(ins, us), ins \in Seq(ToSet(ins)),
         blocks' = Emit(blocks, cur, ins), cur' = cur
  PROVE  Adds(us)
<1>1. cur \in 1..Len(blocks)
  BY TopFacts DEF Id
<1> DEFINE X == ToSet(ins)
<1>2. PICK S : X \subseteq S /\ blocks \in Seq(Blk(S))
  BY BlocksWith
<1>3. ins \in Seq(S)
  BY <1>2, SeqOver
<1> DEFINE at == cur
           new == Emit(blocks, at, ins)
<1>4. Grown(blocks, new, us, at)
  <2> HIDE DEF at
  <2>1. at \in 1..Len(blocks)
    BY <1>1 DEF at
  <2> QED BY <1>2, <1>3, <2>1, EmitGrown
<1>5. new = blocks' /\ at = cur'
  OBVIOUS
<1> HIDE DEF new, at
<1> QED BY <1>4, <1>5, AddsOf

\* What the steps between two others add: no use ...
LEMMA PlainAdds ==
  ASSUME IInv, NEW us, us = {},
         \/ EmptyStatement \/ ExpressionStmt \/ CompoundStmt \/ ReturnStmt \/ SelectionStmt
         \/ VoidReturn \/ EndReturn \/ Number
         \/ Branch \/ LoopBranch \/ EndThen \/ EndElse \/ EndBody \/ IterationStmt
  PROVE  Adds(us) /\ scope' = scope /\ pre_enter_scope' = pre_enter_scope
<1>1. CASE \/ EmptyStatement \/ ExpressionStmt \/ CompoundStmt \/ ReturnStmt \/ SelectionStmt \/ Number
  <2>1. blocks' = blocks /\ scope' = scope /\ pre_enter_scope' = pre_enter_scope
    BY <1>1 DEF EmptyStatement, ExpressionStmt, CompoundStmt, ReturnStmt, SelectionStmt, Number
  <2> QED BY <2>1, AddsNothing
<1>2. CASE VoidReturn \/ EndReturn
  <2> DEFINE ins == <<<<"ret">>>>
  <2>1. /\ todo # <<>> /\ cur' = cur /\ blocks' = Emit(blocks, cur, ins)
        /\ scope' = scope /\ pre_enter_scope' = pre_enter_scope
    BY <1>2 DEF VoidReturn, EndReturn, At
  <2>2. Uses(ins, us) /\ ins \in Seq(ToSet(ins))
    <3>1. Len(ins) = 1 /\ ins[1] = <<"ret">> /\ ins \in Seq({<<"ret">>})
      OBVIOUS
    <3> HIDE DEF ins
    <3>2. ins \in Seq(ToSet(ins))
      BY <3>1, SeqOver
    <3> QED BY <3>1, <3>2 DEF Uses
  <2> HIDE DEF ins
  <2> QED BY <2>1, <2>2, EmitAdds
<1> DEFINE X == {<<"cmp">>, <<"br">>}
<1>3. PICK S : X \subseteq S /\ blocks \in Seq(Blk(S))
  BY BlocksWith
<1>4. blocks \in Seq(Blk(S)) /\ <<"cmp">> \in S /\ <<"br">> \in S /\ Len(blocks) \in Nat
  BY <1>3
<1>5. CASE Branch \/ LoopBranch
  <2> DEFINE L == Len(blocks)
  <2>1. \E k \in Nat : \E t, f \in 1..(L + k) :
          /\ blocks' = CreateCondBr(Create(blocks, k), cur, t, f)
          /\ scope' = scope /\ pre_enter_scope' = pre_enter_scope
    <3>1. CASE Branch
      <4> DEFINE k == Top.arms + 1
                 f == IF Top.arms = 2 THEN L + 3 ELSE L + 2
      <4>1. /\ blocks' = CreateCondBr(Create(blocks, k), cur, L + 1, f)
            /\ scope' = scope /\ pre_enter_scope' = pre_enter_scope
        BY <3>1 DEF Branch
      <4>2. Top.arms \in {1, 2}
        BY <3>1, TopFacts DEF Branch, At, FrameOK
      <4>3. k \in Nat /\ L + 1 \in 1..(L + k) /\ f \in 1..(L + k)
        BY <1>4, <4>2
      <4> QED BY <4>1, <4>3
    <3>2. CASE LoopBranch
      <4>1. /\ blocks' = CreateCondBr(Create(blocks, 2), cur, L + 1, L + 2)
            /\ scope' = scope /\ pre_enter_scope' = pre_enter_scope
        BY <3>2 DEF LoopBranch
      <4>2. 2 \in Nat /\ L + 1 \in 1..(L + 2) /\ L + 2 \in 1..(L + 2)
        BY <1>4
      <4> QED BY <4>1, <4>2
    <3> QED BY <1>5, <3>1, <3>2
  <2> PICK k \in Nat : \E t, f \in 1..(L + k) : blocks' = CreateCondBr(Create(blocks, k), cur, t, f)
    BY <2>1
  <2>2. PICK t \in 1..(L + k), f \in 1..(L + k) : blocks' = CreateCondBr(Create(blocks, k), cur, t, f)
    OBVIOUS
  <2>3. cur \in 1..(L + k)
    <3>1. todo # <<>>
      BY <1>5 DEF Branch, LoopBranch, At
    <3>2. cur \in 1..L
      BY <3>1, TopFacts DEF Id
    <3> QED BY <1>4, <3>2
  <2> DEFINE b == cur
             at == cur'
             new == CreateCondBr(Create(blocks, k), b, t, f)
  <2>4. new = blocks' /\ at = cur' /\ b \in 1..(L + k)
    BY <2>2, <2>3
  <2>5. Grown(blocks, new, us, at)
    <3> HIDE DEF at, b, L
    <3>1. L = Len(blocks)
      BY DEF L
    <3> QED BY <1>4, <2>4, <3>1, BranchGrown
  <2>6. Adds(us)
    <3> HIDE DEF at, new
    <3> QED BY <2>4, <2>5, AddsOf
  <2> QED BY <2>1, <2>6
<1>6. CASE EndThen \/ EndElse \/ EndBody
  <2> DEFINE w == Top.waiting
             t == IF Top.at = "body" THEN Top.expr ELSE Last(w)
             at == cur'
  <2>1. /\ todo # <<>> /\ Top.at \in {"then", "else", "body"}
        /\ blocks' = BrUnlessTerminated(blocks, cur, t)
        /\ scope' = scope /\ pre_enter_scope' = pre_enter_scope
    BY <1>6 DEF EndThen, EndElse, EndBody, At
  <2>2. t \in 1..Len(blocks) /\ cur \in 1..Len(blocks)
    <3>1. Last(w) \in 2..Len(blocks) /\ (Top.at = "body" => Top.expr \in 2..Len(blocks))
      BY <2>1, WaitFacts
    <3>2. cur \in 1..Len(blocks)
      BY <2>1, TopFacts DEF Id
    <3> QED BY <1>4, <3>1, <3>2
  <2> HIDE DEF t
  <2>3. Grown(blocks, BrUnlessTerminated(blocks, cur, t), us, at)
    <3> DEFINE b == cur
    <3>1. b \in 1..Len(blocks)
      BY <2>2
    <3> HIDE DEF b, at
    <3>2. Grown(blocks, BrUnlessTerminated(blocks, b, t), us, at)
      BY <1>4, <2>2, <3>1, JoinGrown
    <3> QED BY <3>2 DEF b
  <2>4. Grown(blocks, blocks', us, at)
    BY <2>1, <2>3
  <2> QED BY <2>1, <2>4, AddsOf
<1>7. CASE IterationStmt
  <2> DEFINE k == 1
             bs == Create(blocks, k)
             t == Len(blocks) + 1
             at == cur'
             b == cur
             new == BrUnlessTerminated(bs, b, t)
  <2>1. /\ todo # <<>> /\ blocks' = new /\ at = cur'
        /\ scope' = scope /\ pre_enter_scope' = pre_enter_scope
    BY <1>7 DEF IterationStmt, At
  <2>2. k \in Nat
    OBVIOUS
  <2>3. bs \in Seq(Blk(S)) /\ Len(bs) = Len(blocks) + k /\ Grown(blocks, bs, us, at)
    <3> HIDE DEF k, at
    <3> QED BY <1>4, <2>2, CreateGrown
  <2>4. b \in 1..Len(bs) /\ t \in 1..Len(bs)
    <3>1. cur \in 1..Len(blocks)
      BY <2>1, TopFacts DEF Id
    <3>2. Len(bs) = Len(blocks) + 1
      BY <2>3
    <3> HIDE DEF bs
    <3> QED BY <1>4, <3>1, <3>2
  <2>5. Grown(bs, new, us, at)
    <3> HIDE DEF bs, b, t, at
    <3> QED BY <1>4, <2>3, <2>4, JoinGrown
  <2>6. Grown(blocks, new, us, at)
    <3> HIDE DEF bs, new, at
    <3> QED BY <2>3, <2>5, GrownTwice
  <2>7. Adds(us)
    <3> HIDE DEF new, at
    <3> QED BY <2>1, <2>6, AddsOf
  <2> QED BY <2>1, <2>7
<1> QED BY <1>1, <1>2, <1>5, <1>6, <1>7

\* ... but where a variable is read, ...
LEMMA VarAdds ==
  ASSUME IInv, Var
  PROVE  \E n \in Names : /\ IsVar(n) /\ \A us : us = {Find(n)} => Adds(us)
                          /\ scope' = scope /\ pre_enter_scope' = pre_enter_scope
<1>1. PICK n \in Names : IsVar(n) /\ blocks' = Emit(blocks, cur, <<<<"use", Find(n)>>>>)
  BY DEF Var
<1> DEFINE v == Find(n)
           ins == <<<<"use", v>>>>
<1>2. ASSUME NEW us, us = {v} PROVE Adds(us)
  <2> HIDE DEF v
  <2>1. Len(ins) = 1 /\ ins[1] = <<"use", v>> /\ ins \in Seq({<<"use", v>>})
    OBVIOUS
  <2>2. blocks' = Emit(blocks, cur, ins) /\ cur' = cur /\ todo # <<>>
    BY <1>1 DEF Var, At, v
  <2>3. ins[1][2] = v
    BY <2>1
  <2> HIDE DEF ins
  <2>4. Uses(ins, us)
    BY <1>2, <2>1, <2>3 DEF Uses
  <2>5. ins \in Seq(ToSet(ins))
    BY <2>1, SeqOver
  <2> QED BY <2>2, <2>4, <2>5, EmitAdds
<1>3. scope' = scope /\ pre_enter_scope' = pre_enter_scope
  BY DEF Var
<1> QED BY <1>1, <1>2, <1>3

\* ... there or after its index.
LEMMA CheckIndexAdds ==
  ASSUME IInv, CheckIndex, NEW us, us = {Top.var} PROVE Adds(us)
<1> DEFINE k == 2
           t == Len(blocks) + 1
           f == Len(blocks) + 2
           b == cur
           at == cur'
           v == Find("neg_idx_except")
           u == Top.var
           none == {}
           ins1 == <<<<"call", v>>, <<"ret">>>>
           ins2 == <<<<"use", u>>>>
           split == CreateCondBr(Create(blocks, k), b, t, f)
           mid == Emit(split, t, ins1)
           new == Emit(mid, f, ins2)
           X == {<<"cmp">>, <<"br">>} \cup (ToSet(ins1) \cup ToSet(ins2))
<1>1. todo # <<>> /\ at = f /\ blocks' = new
  BY DEF CheckIndex, At
<1>2. PICK S : X \subseteq S /\ blocks \in Seq(Blk(S))
  BY BlocksWith
<1>3. /\ <<"cmp">> \in S /\ <<"br">> \in S /\ ToSet(ins1) \subseteq S /\ ToSet(ins2) \subseteq S
      /\ blocks \in Seq(Blk(S)) /\ Len(blocks) \in Nat
  <2> HIDE DEF ins1, ins2
  <2> QED BY <1>2
<1>4. b \in 1..(Len(blocks) + k) /\ t \in 1..(Len(blocks) + k) /\ f \in 1..(Len(blocks) + k) /\ k \in Nat
  <2>1. cur \in 1..Len(blocks)
    BY <1>1, TopFacts DEF Id
  <2> QED BY <1>3, <2>1
<1>5. ins1 \in Seq(S) /\ Uses(ins1, none)
  <2> HIDE DEF v
  <2>1. Len(ins1) = 2 /\ ins1[1] = <<"call", v>> /\ ins1[2] = <<"ret">> /\ ins1 \in Seq({<<"call", v>>, <<"ret">>})
    OBVIOUS
  <2>2. ins1[1][1] = "call" /\ ins1[2][1] = "ret"
    BY <2>1
  <2> HIDE DEF ins1
  <2>3. ins1 \in Seq(S)
    BY <1>3, <2>1, SeqOver
  <2> QED BY <2>1, <2>2, <2>3 DEF Uses
<1>6. ins2 \in Seq(S) /\ Uses(ins2, us)
  <2>1. u \in us
    OBVIOUS
  <2> HIDE DEF u
  <2>2. Len(ins2) = 1 /\ ins2[1] = <<"use", u>> /\ ins2[1][2] = u /\ ins2 \in Seq({<<"use", u>>})
    OBVIOUS
  <2> HIDE DEF ins2
  <2>3. ins2 \in Seq(S)
    BY <1>3, <2>2, SeqOver
  <2> QED BY <2>1, <2>2, <2>3 DEF Uses
<1> HIDE DEF ins1, ins2
<1>7. split \in Seq(Blk(S)) /\ Len(split) = Len(blocks) + k /\ Grown(blocks, split, none, at)
  <2> HIDE DEF k, b, t, f, at
  <2>1. none = {}
    OBVIOUS
  <2> HIDE DEF none
  <2> QED BY <1>3, <1>4, <2>1, BranchGrown
<1>8. mid \in Seq(Blk(S)) /\ Len(mid) = Len(split) /\ Grown(split, mid, none, at)
  <2>1. t \in 1..Len(split) /\ none = {}
    BY <1>4, <1>7
  <2> HIDE DEF split, t, at, none
  <2> QED BY <1>5, <1>7, <2>1, EmitGrown
<1>9. Grown(mid, new, us, at)
  <2>1. f \in 1..Len(mid) /\ at = f
    BY <1>1, <1>4, <1>7, <1>8
  <2> HIDE DEF mid, f, at
  <2> QED BY <1>6, <1>8, <2>1, EmitGrown
<1>10. at = cur' /\ none = {}
  OBVIOUS
<1> HIDE DEF split, mid, new, at, none
<1>11. Grown(blocks, mid, none, at)
  BY <1>7, <1>8, <1>10, GrownTwice
<1>12. Grown(blocks, new, us, at)
  BY <1>9, <1>10, <1>11, GrownTwice
<1> QED BY <1>1, <1>10, <1>12, AddsOf

-----------------------------------------------------------------------------
(* Scopes that begin, and what is declared in them. *)

\* A visit that will leave a scope begins with it.
LEMMA VarsPush ==
  ASSUME IInv, IInv', NEW f, Pops(f), f.at # "index", NEW fs, fs = <<f>>, NEW T, Moves(fs, T),
         NEW us, us = {}, Adds(us), ~Pops(Top),
         scope \in Seq(ToSet(scope)), scope' = Append(scope, <<>>), NEW own, VarsInv(own)
  PROVE  \E o : VarsInv(o)'
<1>1. Owned(own) /\ BindInv(own) /\ IndexInv(own) /\ UseInv(own)
  BY DEF VarsInv
<1>2. Len(fs) = 1 /\ fs[1] = f
  OBVIOUS
<1>3. /\ Len(todo) \in Nat /\ Len(todo) > 0 /\ DOMAIN todo = 1..Len(todo)
      /\ DOMAIN todo' = 1..Len(todo') /\ Len(todo') = Len(todo) /\ todo'[1] = f
      /\ Top = todo[1]
  <2>1. /\ Len(todo) \in Nat /\ Len(todo) > 0 /\ DOMAIN todo = 1..Len(todo)
        /\ DOMAIN todo' = 1..Len(todo') /\ Len(todo') = Len(fs) + Len(todo) - 1
        /\ \A i \in 1..Len(fs) : todo'[i] = fs[i]
        /\ Top = todo[1]
    BY MoveFrames
  <2>2. 1 \in 1..Len(fs) /\ Len(fs) + Len(todo) - 1 = Len(todo)
    BY <1>2, <2>1
  <2> QED BY <1>2, <2>1, <2>2
<1>4. \A i \in 2..Len(todo) : todo'[i] = todo[i]
  <2>1. \A i \in (Len(fs) + 1)..Len(todo') : todo'[i] = todo[i - Len(fs) + 1]
    BY MoveFrames
  <2> TAKE i \in 2..Len(todo)
  <2>2. i \in (Len(fs) + 1)..Len(todo') /\ i - Len(fs) + 1 = i
    BY <1>2, <1>3
  <2>3. todo'[i] = todo[i - Len(fs) + 1]
    BY <2>1, <2>2
  <2> QED BY <2>2, <2>3
<1> PICK n : n = Len(scope)
  OBVIOUS
<1>5. /\ n \in Nat /\ DOMAIN own = 2..n /\ Len(scope') = n + 1 /\ scope'[n + 1] = <<>>
      /\ \A k \in 1..n : scope'[k] = scope[k]
  BY <1>1 DEF Owned
<1>6. n >= 1
  <2>1. PICK i \in DOMAIN todo : Pops(todo[i])
    <3>1. todo[Len(todo)].at = "fun" /\ Len(todo) \in DOMAIN todo
      BY <1>3 DEF IInv, FramesInv
    <3> QED BY <3>1 DEF Pops
  <2>2. PICK k \in 2..n : TRUE
    BY <1>1, <2>1 DEF Owned
  <2> QED BY <1>5, <2>2
<1>7. ASSUME NEW k \in 2..n PROVE own[k] \in Nat /\ own[k] < Len(todo) - 1
  <2>1. PICK i \in DOMAIN todo : Pops(todo[i]) /\ own[k] = Len(todo) - i
    BY <1>1, <1>7 DEF Owned
  <2>2. i # 1
    BY <1>3, <2>1
  <2> QED BY <1>3, <2>1, <2>2
<1> PICK m : m = Len(todo) - 1
  OBVIOUS
<1> DEFINE o == [k \in 2..(n + 1) |-> IF k = n + 1 THEN m ELSE own[k]]
<1>8. /\ DOMAIN o = 2..(n + 1) /\ o[n + 1] = m /\ n + 1 \in 2..(n + 1)
      /\ \A k \in 2..n : o[k] = own[k] /\ k \in 2..(n + 1)
      /\ \A k \in 2..(n + 1) : k = n + 1 \/ k \in 2..n
  BY <1>5, <1>6
<1> HIDE DEF o
<1>9. Owned(o)'
  <2>1. ASSUME NEW j \in 2..(n + 1), NEW k \in 2..(n + 1), j < k PROVE o[j] < o[k]
    <3>1. j \in 2..n
      BY <1>5, <2>1
    <3>2. CASE k = n + 1
      BY <1>7, <1>8, <3>1, <3>2
    <3>3. CASE k \in 2..n
      <4>1. own[j] < own[k]
        BY <1>1, <2>1, <3>1, <3>3 DEF Owned
      <4> QED BY <1>8, <3>1, <3>3, <4>1
    <3> QED BY <1>8, <3>2, <3>3
  <2>2. ASSUME NEW k \in 2..(n + 1)
        PROVE  \E i \in DOMAIN todo' : Pops(todo'[i]) /\ o[k] = Len(todo') - i
    <3>1. CASE k = n + 1
      <4>1. 1 \in DOMAIN todo' /\ o[k] = Len(todo') - 1
        BY <1>3, <1>8, <3>1
      <4> QED BY <1>3, <4>1
    <3>2. CASE k \in 2..n
      <4>1. PICK i \in DOMAIN todo : Pops(todo[i]) /\ own[k] = Len(todo) - i
        BY <1>1, <3>2 DEF Owned
      <4>2. i \in 2..Len(todo)
        BY <1>3, <4>1
      <4>3. i \in DOMAIN todo' /\ todo'[i] = todo[i]
        BY <1>3, <1>4, <4>2
      <4> QED BY <1>3, <1>8, <3>2, <4>1, <4>3
    <3> QED BY <1>8, <3>1, <3>2
  <2>3. ASSUME NEW i \in DOMAIN todo', Pops(todo'[i])
        PROVE  \E k \in 2..(n + 1) : o[k] = Len(todo') - i
    <3>1. CASE i = 1
      BY <1>3, <1>8, <3>1
    <3>2. CASE i # 1
      <4>1. i \in 2..Len(todo) /\ i \in DOMAIN todo
        BY <1>3, <3>2
      <4>2. Pops(todo[i])
        BY <1>4, <2>3, <4>1
      <4>3. PICK k \in 2..n : own[k] = Len(todo) - i
        BY <1>1, <4>1, <4>2 DEF Owned
      <4> QED BY <1>3, <1>8, <4>3
    <3> QED BY <3>1, <3>2
  <2> QED BY <1>5, <1>8, <2>1, <2>2, <2>3 DEF Owned
<1>10. ASSUME NEW k \in 2..n, NEW v, Held(v, own[k]) PROVE Held(v, o[k])'
  <2> DEFINE d == own[k]
  <2>1. d \in Nat /\ d < Len(todo) /\ Held(v, d)
    BY <1>3, <1>7, <1>10
  <2> HIDE DEF d
  <2>2. Held(v, d)'
    BY <2>1, HeldStays
  <2> QED BY <1>8, <2>2 DEF d
<1>11. BindInv(o)'
  <2>1. ASSUME NEW k \in 2..(n + 1), NEW x \in DOMAIN scope'[k], NEW v, v = scope'[k][x]
        PROVE  Held(v, o[k])'
    <3>1. k # n + 1
      <4>1. DOMAIN <<>> = {}
        OBVIOUS
      <4> QED BY <1>5, <2>1, <4>1
    <3>2. k \in 2..n
      BY <1>8, <3>1
    <3>3. scope'[k] = scope[k]
      BY <1>5, <3>2
    <3>4. Held(v, own[k])
      BY <1>1, <1>5, <2>1, <3>2, <3>3 DEF BindInv
    <3> QED BY <1>10, <3>2, <3>4
  <2> QED BY <1>5, <2>1 DEF BindInv
<1>12. IndexInv(o)'
  <2>1. ASSUME NEW i \in DOMAIN todo', todo'[i].at = "index", NEW v, v = todo'[i].var, v # Global
        PROVE  \E k \in DOMAIN o : o[k] < Len(todo') - i /\ Held(v, o[k])'
    <3>1. i \in 2..Len(todo) /\ i \in DOMAIN todo /\ todo'[i] = todo[i]
      <4>1. i # 1
        BY <1>3, <2>1
      <4>2. i \in 2..Len(todo) /\ i \in DOMAIN todo
        BY <1>3, <4>1
      <4> QED BY <1>4, <4>2
    <3>2. PICK k \in DOMAIN own : own[k] < Len(todo) - i /\ Held(v, own[k])
      BY <1>1, <2>1, <3>1 DEF IndexInv
    <3> QED BY <1>3, <1>5, <1>8, <1>10, <3>2
  <2> QED BY <2>1 DEF IndexInv
<1>13. UseInv(own)'
  <2>1. \A k \in DOMAIN own : own[k] \in Nat /\ own[k] < Len(todo)
    BY <1>3, <1>5, <1>7
  <2> QED BY <1>1, <2>1, UsesStay
<1>14. ASSUME NEW v, NEW b, NEW i, Used(own, v, b, i)' PROVE Used(o, v, b, i)'
  <2>1. CASE \E k \in DOMAIN own : \E lo : Open(own[k], v[1], lo)' /\ b > lo
    <3>1. PICK k, lo : k \in DOMAIN own /\ Open(own[k], v[1], lo)' /\ b > lo
      BY <2>1
    <3>2. k \in DOMAIN o /\ o[k] = own[k]
      BY <1>5, <1>8, <3>1
    <3>3. \E h \in DOMAIN o : \E x : Open(o[h], v[1], x)' /\ b > x
      BY <3>1, <3>2
    <3> QED BY <1>14, <3>3 DEF Used
  <2>2. CASE ~\E k \in DOMAIN own : \E lo : Open(own[k], v[1], lo)' /\ b > lo
    BY <1>14, <2>2 DEF Used
  <2> QED BY <2>1, <2>2
<1>15. UseInv(o)'
  BY <1>13, <1>14 DEF UseInv
<1>16. VarsInv(o)'
  BY <1>9, <1>11, <1>12, <1>15 DEF VarsInv
<1> QED BY <1>16

\* new is s with one more name, which means v.
Binds(s, new, v) ==
  /\ new \in Seq(ToSet(new)) /\ Len(new) = Len(s) /\ Len(s) \in Nat
  /\ \A k \in 1..Len(s) : k # Len(s) => new[k] = s[k]
  /\ \A x \in DOMAIN new[Len(s)] :
       (x \in DOMAIN s[Len(s)] /\ new[Len(s)][x] = s[Len(s)][x]) \/ new[Len(s)][x] = v

\* Scope::push makes such a scope.
LEMMA BindFacts ==
  ASSUME NEW s, s \in Seq(ToSet(s)), Len(s) >= 1, NEW n, NEW v
  PROVE  Binds(s, Bind(s, n, v), v)
<1> DEFINE l == Len(s)
           r == [m \in DOMAIN s[l] \cup {n} |-> IF m \in DOMAIN s[l] THEN s[l][m] ELSE v]
           new == Bind(s, n, v)
<1>1. l \in Nat /\ l \in 1..l /\ DOMAIN s = 1..l
  OBVIOUS
<1>2. new = [s EXCEPT ![l] = r]
  BY DEF Bind
<1>3. \A x \in DOMAIN r : (x \in DOMAIN s[l] /\ r[x] = s[l][x]) \/ r[x] = v
  OBVIOUS
<1> HIDE DEF r, new
<1>4. DOMAIN new = 1..l /\ new[l] = r /\ \A k \in 1..l : k # l => new[k] = s[k]
  BY <1>1, <1>2
<1> DEFINE S == ToSet(s) \cup {r}
<1>5. new \in Seq(S) /\ Len(new) = l
  <2>1. s \in Seq(S) /\ r \in S
    BY SeqOver
  <2> HIDE DEF S
  <2> QED BY <1>1, <1>2, <2>1
<1>6. new \in Seq(ToSet(new))
  <2> HIDE DEF S
  <2> QED BY <1>5, SeqOver
<1>7. Binds(s, new, v)
  BY <1>1, <1>3, <1>4, <1>5, <1>6 DEF Binds
<1> QED BY <1>7 DEF new

\* What is looked up is a variable of the module or of a scope.
LEMMA FindFacts ==
  ASSUME ScopeInv, NEW own, Owned(own), BindInv(own), NEW n, IsVar(n)
  PROVE  Find(n) = Global \/ \E k \in DOMAIN own : Held(Find(n), own[k])
<1> DEFINE B == Bound(n)
           N == Len(scope)
<1>1. B \subseteq 1..N /\ B # {} /\ N \in Nat /\ \A i \in B : n \in DOMAIN scope[i]
  BY DEF ScopeInv, Bound, IsVar
<1> HIDE DEF B, N
<1>2. \E i \in B : \A j \in B : j <= i
  <2> SUFFICES ASSUME \A i \in B : \E j \in B : i < j PROVE FALSE
    BY <1>1
  <2> DEFINE P == {m \in 0..N : \E j \in B : m <= j}
  <2>1. 0 \in P
    <3>1. PICK j \in B : TRUE
      BY <1>1
    <3>2. 0 \in 0..N /\ 0 <= j
      BY <1>1
    <3> QED BY <3>2
  <2>2. ASSUME NEW m \in 0..(N - 1), m \in P PROVE m + 1 \in P
    <3>1. PICK j \in B : m <= j
      BY <2>2
    <3>2. PICK h \in B : j < h
      OBVIOUS
    <3>3. m + 1 <= h /\ m + 1 \in 0..N
      BY <1>1, <3>1, <3>2
    <3> QED BY <3>3
  <2>3. N \in P
    <3>1. N \in 0..N /\ N \in Nat /\ 1 \in Nat \ {0}
      BY <1>1
    <3> HIDE DEF P
    <3>2. \A m \in 0..(N - 1) : m \in P => m + 1 \in P
      BY <2>2
    <3>3. \A m \in 0..N : m \in P
      BY <2>1, <3>1, <3>2, Numbers!UpTo
    <3> QED BY <3>1, <3>3
  <2>4. PICK j \in B : N <= j
    BY <2>3
  <2>5. PICK h \in B : j < h
    OBVIOUS
  <2> QED BY <1>1, <2>4, <2>5
<1> DEFINE i == CHOOSE x \in B : \A j \in B : j <= x
<1>3. i \in B
  BY <1>2
<1>4. Find(n) = scope[i][n]
  BY DEF Find, B
<1> HIDE DEF i
<1>5. CASE i = 1
  <2>1. scope[1][n] \in {Global, Except} /\ Find(n) # Except
    BY <1>1, <1>3, <1>5 DEF ScopeInv, IsVar
  <2> QED BY <1>4, <1>5, <2>1
<1>6. CASE i # 1
  <2>1. i \in 2..Len(scope) /\ i \in DOMAIN own
    BY <1>1, <1>3, <1>6 DEF Owned, N
  <2>2. Held(scope[i][n], own[i])
    BY <1>1, <1>3, <2>1 DEF BindInv
  <2> QED BY <1>4, <2>1, <2>2
<1> QED BY <1>5, <1>6

\* Who declares is the innermost visit of its scope.
LEMMA DeclaredHere ==
  ASSUME IInv, BodyInv, scope \in Seq(ToSet(scope)), At("decls"), NEW own, Owned(own)
  PROVE  /\ Len(scope) \in 2..Len(scope)
         /\ \A i \in DOMAIN todo : Len(todo) - i >= own[Len(scope)] => Waits(todo[i]) = {}
<1>1. /\ todo # <<>> /\ Top = todo[1] /\ Top.at = "decls" /\ Waits(Top) = {}
      /\ Len(todo) \in Nat /\ Len(todo) > 0 /\ DOMAIN todo = 1..Len(todo) /\ 1 \in DOMAIN todo
  <2>1. todo # <<>> /\ Top.at = "decls" /\ todo \in Seq(ToSet(todo))
    BY DEF At, IInv, FramesInv
  <2> QED BY <2>1, TopFacts DEF Top
<1>2. Top.exits \in BOOLEAN /\ (Top.exits = FALSE => 1 = Len(todo) - 1)
  BY <1>1 DEF BodyInv
<1>3. CASE Top.exits = TRUE
  <2>1. Pops(Top)
    BY <1>1, <1>3 DEF Pops
  <2>2. Len(scope) \in 2..Len(scope) /\ own[Len(scope)] = Len(todo) - 1
    BY <1>1, <2>1, InnermostOwned
  <2>3. ASSUME NEW i \in DOMAIN todo, Len(todo) - i >= own[Len(scope)] PROVE Waits(todo[i]) = {}
    <3>1. i = 1
      BY <1>1, <2>2, <2>3
    <3> QED BY <1>1, <3>1
  <2> QED BY <2>2, <2>3
<1>4. CASE Top.exits = FALSE
  <2>1. Len(todo) = 2 /\ 2 \in DOMAIN todo /\ todo[2].at = "fun"
    <3>1. Len(todo) = 2 /\ 2 \in DOMAIN todo
      BY <1>1, <1>2, <1>4
    <3> QED BY <1>1, <3>1 DEF IInv, FramesInv
  <2>2. PICK k \in 2..Len(scope) : own[k] = Len(todo) - 2
    BY <2>1 DEF Owned, Pops
  <2>3. Waits(todo[2]) = {}
    <3>1. FrameOK(todo[2], Len(blocks))
      BY <2>1 DEF IInv, FramesInv
    <3> QED BY <2>1, <3>1 DEF FrameOK, Waits
  <2>4. \A i \in DOMAIN todo : i = 1 \/ i = 2
    BY <1>1, <2>1
  <2>5. Len(scope) \in 2..Len(scope)
    BY <2>2
  <2> QED BY <1>1, <2>3, <2>4, <2>5
<1> QED BY <1>2, <1>3, <1>4

\* What was declared just now is held: the region it opens is empty.
LEMMA NewHeld ==
  ASSUME IInv, IInv', BodyInv, scope \in Seq(ToSet(scope)), VarDeclaration,
         NEW own, Owned(own), NEW m, m = own[Len(scope)],
         NEW v, v = <<cur, Len(blocks[cur].code) + 1>>
  PROVE  Held(v, m)'
<1>1. At("decls") /\ todo # <<>> /\ cur' = cur /\ todo' = todo
  BY DEF VarDeclaration, At
<1> PICK c : c = cur
  OBVIOUS
<1> DEFINE ins == <<<<"alloca">>>>
           s == blocks[c].code
<1>2. blocks' = Emit(blocks, c, ins)
  BY DEF VarDeclaration
<1>3. c \in 1..Len(blocks) /\ Len(blocks) \in Nat
  BY <1>1, TopFacts DEF Id
<1> DEFINE X == ToSet(ins)
<1>4. PICK S : X \subseteq S /\ blocks \in Seq(Blk(S))
  BY BlocksWith
<1>5. ins \in Seq(S) /\ Len(ins) = 1
  <2>1. ins \in Seq({<<"alloca">>}) /\ Len(ins) = 1
    OBVIOUS
  <2> HIDE DEF ins
  <2> QED BY <1>4, <2>1, SeqOver
<1> HIDE DEF X, ins
<1>6. Len(blocks') = Len(blocks) /\ blocks'[c].code = s \o ins
  <2>1. /\ Emit(blocks, c, ins) \in Seq(Blk(S)) /\ Len(Emit(blocks, c, ins)) = Len(blocks)
        /\ \A d \in 1..Len(blocks) :
             /\ Emit(blocks, c, ins)[d].succ = blocks[d].succ
             /\ Emit(blocks, c, ins)[d].pre = blocks[d].pre
             /\ Emit(blocks, c, ins)[d].code = IF d = c THEN blocks[c].code \o ins ELSE blocks[d].code
    BY <1>3, <1>4, <1>5, EmitFacts
  <2> QED BY <1>2, <1>3, <2>1
<1>7. s \in Seq(S)
  BY <1>3, <1>4, BlkFacts
<1> DEFINE j == Len(s) + 1
<1>8. j \in DOMAIN blocks'[c].code
  <2> HIDE DEF s
  <2>1. s \o ins \in Seq(S) /\ Len(s \o ins) = Len(s) + Len(ins)
    BY <1>5, <1>7, ConcatFacts
  <2>2. DOMAIN (s \o ins) = 1..Len(s \o ins) /\ Len(s) \in Nat
    BY <1>7, <2>1
  <2> QED BY <1>5, <1>6, <2>1, <2>2
<1>9. v[1] = c /\ v[2] = j
  OBVIOUS
<1> HIDE DEF s, j
<1> PICK lo : lo = Len(blocks)
  OBVIOUS
<1>10. Id' = 1..lo /\ c \in 1..lo /\ lo \in 1..lo /\ lo \in Nat
  BY <1>3, <1>6 DEF Id
<1>11. Open(m, c, lo)'
  <2>1. Region(c, lo, Len(blocks))'
    <3>1. (lo + 1)..Len(blocks') = {}
      BY <1>6, <1>10
    <3> QED BY <3>1 DEF Region
  <2>2. ASSUME NEW i \in DOMAIN todo'
        PROVE  /\ Len(todo') - i < m => \A x \in Waits(todo'[i]) \cup Loops(todo'[i]) : x <= lo
               /\ Len(todo') - i >= m => \A x \in Waits(todo'[i]) : x > lo
    <3>1. i \in DOMAIN todo /\ todo'[i] = todo[i] /\ Len(todo') = Len(todo)
      BY <1>1, <2>2
    <3>2. Waits(todo[i]) \cup Loops(todo[i]) \subseteq 2..lo
      BY <3>1, MarksIn
    <3>3. Len(todo) - i >= m => Waits(todo[i]) = {}
      BY <1>1, <3>1, DeclaredHere
    <3> QED BY <1>10, <3>1, <3>2, <3>3
  <2> QED BY <1>1, <1>10, <2>1, <2>2 DEF Open
<1> QED BY <1>8, <1>9, <1>10, <1>11 DEF Held

\* The visits of lists of statements.
LEMMA BodyStays ==
  ASSUME IInv, BodyInv, NEW fs, NEW T, Moves(fs, T), pre_enter_scope' = FALSE,
         \A i \in 1..Len(fs) : fs[i].at \in {"decls", "list"} =>
           fs[i].exits \in BOOLEAN /\ (fs[i].exits = FALSE => i = Len(fs) /\ Len(todo) = 2)
  PROVE  BodyInv'
<1>1. /\ Len(todo) \in Nat /\ DOMAIN todo = 1..Len(todo) /\ Len(fs) \in Nat
      /\ Len(todo') = Len(fs) + Len(todo) - 1
  BY MoveFrames
<1>2. ASSUME NEW i \in DOMAIN todo', todo'[i].at \in {"decls", "list"}
      PROVE  todo'[i].exits \in BOOLEAN /\ (todo'[i].exits = FALSE => i = Len(todo') - 1)
  <2> DEFINE j == i - Len(fs) + 1
  <2>1. CASE i \in 1..Len(fs) /\ todo'[i] = fs[i]
    <3>1. /\ fs[i].exits \in BOOLEAN
          /\ fs[i].exits = FALSE => i = Len(fs) /\ Len(todo) = 2
      BY <1>2, <2>1
    <3>2. i = Len(fs) /\ Len(todo) = 2 => i = Len(todo') - 1
      BY <1>1
    <3> QED BY <2>1, <3>1, <3>2
  <2>2. CASE /\ j \in DOMAIN todo /\ todo'[i] = todo[j]
             /\ Len(todo') - i = Len(todo) - j
    <3>1. j = Len(todo) - 1 => i = Len(todo') - 1
      BY <1>1, <2>2
    <3> HIDE DEF j
    <3>2. todo[j].exits \in BOOLEAN /\ (todo[j].exits = FALSE => j = Len(todo) - 1)
      BY <1>2, <2>2 DEF BodyInv
    <3> QED BY <2>2, <3>1, <3>2
  <2>3. \/ i \in 1..Len(fs) /\ todo'[i] = fs[i]
        \/ /\ j \in DOMAIN todo /\ todo'[i] = todo[j]
           /\ Len(todo') - i = Len(todo) - j
    BY FrameStep
  <2> QED BY <2>1, <2>2, <2>3
<1> QED BY <1>2 DEF BodyInv

\* The steps between two others keep the scopes.
LEMMA PlainUses ==
  ASSUME UseIInv, IInv',
         \/ EmptyStatement \/ ExpressionStmt \/ CompoundStmt \/ ReturnStmt \/ SelectionStmt
         \/ VoidReturn \/ EndReturn \/ Number \/ Var
         \/ Branch \/ LoopBranch \/ EndThen \/ EndElse \/ EndBody \/ IterationStmt
  PROVE  UseIInv'
<1>1. IInv /\ ScopeInv /\ BodyInv
  BY DEF UseIInv
<1>2. PICK own : VarsInv(own)
  BY DEF UseIInv
<1>3. PICK fs, T : Moves(fs, T) /\ Bare(Top) /\ \A i \in 1..Len(fs) : Bare(fs[i])
  BY <1>1, PlainSteps
<1>4. Keeps(fs) /\ IndexFound(fs, own)
  <2>1. \A f : Bare(f) => ~Pops(f) /\ f.at # "index" /\ f.at \notin {"decls", "list"}
    BY DEF Bare, Pops
  <2> QED BY <1>3, <2>1 DEF Keeps, IndexFound
<1>5. /\ scope' = scope /\ pre_enter_scope' = pre_enter_scope
      /\ \E us : Adds(us) /\ \A v \in us : v = Global \/ \E k \in DOMAIN own : Held(v, own[k])
  <2>1. CASE Var
    <3>1. PICK n \in Names : /\ IsVar(n) /\ \A us : us = {Find(n)} => Adds(us)
                             /\ scope' = scope /\ pre_enter_scope' = pre_enter_scope
      BY <1>1, <2>1, VarAdds
    <3> DEFINE v == Find(n)
    <3>2. v = Global \/ \E k \in DOMAIN own : Held(v, own[k])
      BY <1>1, <1>2, <3>1, FindFacts DEF VarsInv
    <3> HIDE DEF v
    <3>3. v = Find(n)
      BY DEF v
    <3> DEFINE us == {v}
    <3>4. Adds(us)
      BY <3>1, <3>3
    <3>5. \A x \in us : x = v
      OBVIOUS
    <3> HIDE DEF us
    <3> QED BY <3>1, <3>2, <3>4, <3>5
  <2>2. CASE ~Var
    <3> DEFINE us == {}
    <3>1. us = {} /\ \A v : v \notin us
      OBVIOUS
    <3> HIDE DEF us
    <3>2. Adds(us) /\ scope' = scope /\ pre_enter_scope' = pre_enter_scope
      BY <1>1, <2>2, <3>1, PlainAdds
    <3> QED BY <3>1, <3>2
  <2> QED BY <2>1, <2>2
<1>6. PICK us : Adds(us) /\ \A v \in us : v = Global \/ \E k \in DOMAIN own : Held(v, own[k])
  BY <1>5
<1>7. Scoped(own)
  BY <1>5 DEF Scoped
<1>8. \E o : VarsInv(o)'
  BY <1>1, <1>2, <1>3, <1>4, <1>6, <1>7, VarsStay
<1>9. pre_enter_scope' = FALSE
  <2>1. todo # <<>> /\ Top.at # "compound"
    BY DEF EmptyStatement, ExpressionStmt, CompoundStmt, ReturnStmt, SelectionStmt, VoidReturn,
           EndReturn, Number, Var, Branch, LoopBranch, EndThen, EndElse, EndBody, IterationStmt, At
  <2> QED BY <1>1, <1>5, <2>1 DEF BodyInv
<1>10. BodyInv'
  <2>1. \A i \in 1..Len(fs) : fs[i].at \notin {"decls", "list"}
    BY <1>3 DEF Bare
  <2> QED BY <1>1, <1>3, <1>9, <2>1, BodyStays
<1>11. ScopeInv'
  BY <1>1, <1>5 DEF ScopeInv
<1> QED BY <1>8, <1>10, <1>11 DEF UseIInv

\* A compound statement begins.
LEMMA EnterUses ==
  ASSUME UseIInv, IInv', EnterCompound PROVE UseIInv'
<1>1. IInv /\ ScopeInv /\ BodyInv
  BY DEF UseIInv
<1>2. PICK own : VarsInv(own)
  BY DEF UseIInv
<1> PICK f : f = [at |-> "decls", exits |-> ~pre_enter_scope]
  OBVIOUS
<1> PICK fs : fs = <<f>>
  OBVIOUS
<1>3. PICK T : Moves(fs, T)
  BY <1>1, ScopeMoves
<1>4. /\ todo # <<>> /\ Top.at = "compound" /\ pre_enter_scope' = FALSE /\ pre_enter_scope \in BOOLEAN
      /\ blocks' = blocks /\ scope' = IF pre_enter_scope THEN scope ELSE Enter(scope)
  BY <1>1 DEF EnterCompound, At, BodyInv
<1>5. ~Pops(Top)
  BY <1>4 DEF Pops
<1>6. f.at = "decls" /\ f.exits = ~pre_enter_scope /\ Len(fs) = 1 /\ fs[1] = f
  OBVIOUS
<1>7. BodyInv'
  <2>1. pre_enter_scope = TRUE => Len(todo) = 2
    BY <1>1 DEF BodyInv
  <2>2. f.exits \in BOOLEAN /\ (f.exits = FALSE => Len(todo) = 2)
    BY <1>4, <1>6, <2>1
  <2>3. \A i \in 1..Len(fs) : i = Len(fs) /\ fs[i] = f
    BY <1>6
  <2> QED BY <1>1, <1>3, <1>4, <2>2, <2>3, BodyStays
<1> PICK us : us = {}
  OBVIOUS
<1>8. Adds(us)
  BY <1>4, AddsNothing
<1>9. CASE pre_enter_scope
  <2>1. scope' = scope
    BY <1>4, <1>9
  <2>2. ~Pops(f) /\ f.at # "index"
    BY <1>6, <1>9 DEF Pops
  <2>3. Keeps(fs) /\ IndexFound(fs, own)
    <3>1. \A i \in 1..Len(fs) : fs[i] = f
      BY <1>6
    <3> QED BY <1>5, <1>6, <2>2, <3>1 DEF Keeps, IndexFound
  <2>4. Scoped(own)
    BY <2>1 DEF Scoped
  <2>5. \A v \in us : v = Global \/ \E k \in DOMAIN own : Held(v, own[k])
    OBVIOUS
  <2>6. \E o : VarsInv(o)'
    BY <1>1, <1>2, <1>3, <1>8, <2>3, <2>4, <2>5, VarsStay
  <2>7. ScopeInv'
    BY <1>1, <2>1 DEF ScopeInv
  <2> QED BY <1>7, <2>6, <2>7 DEF UseIInv
<1>10. CASE ~pre_enter_scope
  <2>1. scope' = Append(scope, <<>>) /\ scope \in Seq(ToSet(scope)) /\ Len(scope) >= 1
    BY <1>1, <1>4, <1>10 DEF Enter, ScopeInv
  <2>2. Pops(f)
    BY <1>4, <1>6, <1>10 DEF Pops
  <2>3. \E o : VarsInv(o)'
    BY <1>1, <1>2, <1>3, <1>5, <1>6, <1>8, <2>1, <2>2, VarsPush
  <2>4. ScopeInv'
    <3> DEFINE S == ToSet(scope) \cup {<<>>}
    <3>1. scope \in Seq(S) /\ <<>> \in S
      BY <2>1, SeqOver
    <3> HIDE DEF S
    <3>2. scope' \in Seq(S) /\ Len(scope') >= 1 /\ scope'[1] = scope[1]
      BY <2>1, <3>1
    <3>3. scope' \in Seq(ToSet(scope'))
      BY <3>2, SeqOver
    <3> QED BY <1>1, <3>2, <3>3 DEF ScopeInv
  <2> QED BY <1>7, <2>3, <2>4 DEF UseIInv
<1> QED BY <1>9, <1>10

\* A declaration.
LEMMA DeclareUses ==
  ASSUME UseIInv, IInv', VarDeclaration PROVE UseIInv'
<1>1. IInv /\ ScopeInv /\ BodyInv
  BY DEF UseIInv
<1>2. PICK own : VarsInv(own)
  BY DEF UseIInv
<1>3. Owned(own) /\ scope \in Seq(ToSet(scope)) /\ Len(scope) >= 1
  BY <1>1, <1>2 DEF VarsInv, ScopeInv
<1>4. At("decls") /\ todo # <<>> /\ Top.at = "decls" /\ pre_enter_scope' = pre_enter_scope /\ cur' = cur
  BY DEF VarDeclaration, At
<1> PICK fs : fs = <<Top>>
  OBVIOUS
<1>5. Len(fs) = 1 /\ fs[1] = Top
  OBVIOUS
<1>6. PICK T : Moves(fs, T)
  BY <1>1, ScopeMoves
<1> PICK v : v = <<cur, Len(blocks[cur].code) + 1>>
  OBVIOUS
<1>7. PICK n : scope' = Bind(scope, n, v)
  BY DEF VarDeclaration
<1> PICK l : l = Len(scope)
  OBVIOUS
<1>8. /\ scope' \in Seq(ToSet(scope')) /\ Len(scope') = l /\ l \in Nat
      /\ \A k \in 1..l : k # l => scope'[k] = scope[k]
      /\ \A x \in DOMAIN scope'[l] :
           (x \in DOMAIN scope[l] /\ scope'[l][x] = scope[l][x]) \/ scope'[l][x] = v
  <2>1. Binds(scope, Bind(scope, n, v), v)
    BY <1>3, BindFacts
  <2>2. Binds(scope, scope', v)
    BY <1>7, <2>1
  <2> QED BY <2>2 DEF Binds
<1>9. l \in 2..l
  BY <1>1, <1>3, <1>4, DeclaredHere
<1> PICK m : m = own[l]
  OBVIOUS
<1>10. Held(v, m)'
  BY <1>1, <1>3, NewHeld
<1>11. Scoped(own)
  <2>1. ASSUME NEW k \in 2..l, NEW x \in DOMAIN scope'[k], NEW w, w = scope'[k][x]
        PROVE  (x \in DOMAIN scope[k] /\ w = scope[k][x]) \/ Held(w, own[k])'
    <3>1. CASE k # l
      <4>1. k \in 1..l
        BY <1>8, <2>1
      <4>2. scope'[k] = scope[k]
        BY <1>8, <3>1, <4>1
      <4> QED BY <2>1, <4>2
    <3>2. CASE k = l
      <4>1. (x \in DOMAIN scope[k] /\ w = scope[k][x]) \/ w = v
        BY <1>8, <2>1, <3>2
      <4>2. Held(v, own[k])'
        BY <1>10, <3>2
      <4> QED BY <4>1, <4>2
    <3> QED BY <3>1, <3>2
  <2> QED BY <1>8, <2>1 DEF Scoped
<1>12. Keeps(fs) /\ IndexFound(fs, own)
  <2>1. \A i \in 1..Len(fs) : i = Len(fs) /\ fs[i] = Top
    BY <1>5
  <2>2. Keeps(fs)
    BY <1>5, <2>1 DEF Keeps
  <2> QED BY <1>4, <2>1, <2>2 DEF IndexFound
<1> PICK us : us = {}
  OBVIOUS
<1>13. Adds(us)
  <2> DEFINE ins == <<<<"alloca">>>>
  <2>1. Len(ins) = 1 /\ ins[1] = <<"alloca">> /\ ins[1][1] = "alloca" /\ ins \in Seq({<<"alloca">>})
    OBVIOUS
  <2>2. blocks' = Emit(blocks, cur, ins)
    BY DEF VarDeclaration
  <2> HIDE DEF ins
  <2>3. Uses(ins, us) /\ ins \in Seq(ToSet(ins))
    BY <2>1, SeqOver DEF Uses
  <2> QED BY <1>1, <1>4, <2>2, <2>3, EmitAdds
<1>14. \A w \in us : w = Global \/ \E k \in DOMAIN own : Held(w, own[k])
  OBVIOUS
<1>15. \E o : VarsInv(o)'
  BY <1>1, <1>2, <1>6, <1>11, <1>12, <1>13, <1>14, VarsStay
<1>16. ScopeInv'
  <2>1. scope'[1] = scope[1] /\ l >= 1
    BY <1>8, <1>9
  <2> QED BY <1>1, <1>8, <2>1 DEF ScopeInv
<1>17. BodyInv'
  <2>1. pre_enter_scope' = FALSE
    BY <1>1, <1>4 DEF BodyInv
  <2>2. 1 \in DOMAIN todo /\ Top = todo[1] /\ Len(todo) \in Nat
    BY <1>1, <1>6, MoveFrames
  <2>3. Top.exits \in BOOLEAN /\ (Top.exits = FALSE => 1 = Len(todo) - 1)
    BY <1>1, <1>4, <2>2 DEF BodyInv
  <2>4. 1 = Len(todo) - 1 => Len(todo) = 2
    BY <2>2
  <2>5. \A i \in 1..Len(fs) : i = Len(fs) /\ fs[i] = Top
    BY <1>5
  <2> QED BY <1>1, <1>6, <2>1, <2>3, <2>4, <2>5, BodyStays
<1> QED BY <1>15, <1>16, <1>17 DEF UseIInv

\* On to the next statement of a list.
LEMMA NextUses ==
  ASSUME UseIInv, IInv', NextStatement PROVE UseIInv'
<1>1. IInv /\ ScopeInv /\ BodyInv
  BY DEF UseIInv
<1>2. PICK own : VarsInv(own)
  BY DEF UseIInv
<1>3. /\ todo # <<>> /\ Top.at \in {"decls", "list"}
      /\ pre_enter_scope' = pre_enter_scope /\ blocks' = blocks /\ scope' = scope
  BY DEF NextStatement, At
<1>4. pre_enter_scope' = FALSE
  BY <1>1, <1>3 DEF BodyInv
<1> PICK f : f = [Top EXCEPT !.at = "list"]
  OBVIOUS
<1> PICK g : g = Frame("stmt")
  OBVIOUS
<1> PICK fs : fs = <<g, f>>
  OBVIOUS
<1>5. PICK T : Moves(fs, T)
  BY <1>1, ScopeMoves
<1>6. 1 \in DOMAIN todo /\ Top = todo[1] /\ Len(todo) \in Nat
  BY <1>1, <1>5, MoveFrames
<1>7. "at" \in DOMAIN Top
  BY <1>1, <1>6 DEF IInv, FramesInv, FrameOK
<1>8. f.at = "list" /\ f.exits = Top.exits /\ g.at = "stmt"
  BY <1>7 DEF Frame
<1>9. Len(fs) = 2 /\ fs[1] = g /\ fs[2] = f /\ \A i \in 1..Len(fs) : i = 1 \/ i = 2
  OBVIOUS
<1>10. Pops(f) <=> Pops(Top)
  BY <1>3, <1>8 DEF Pops
<1>11. ~Pops(g)
  BY <1>8 DEF Pops
<1>12. Keeps(fs) /\ IndexFound(fs, own)
  <2>1. \A i \in 1..Len(fs) : (i = 1 /\ i # Len(fs) /\ fs[i] = g) \/ (i = Len(fs) /\ fs[i] = f)
    BY <1>9
  <2>2. Keeps(fs)
    BY <1>9, <1>10, <1>11, <2>1 DEF Keeps
  <2> QED BY <1>8, <2>1, <2>2 DEF IndexFound
<1> PICK us : us = {}
  OBVIOUS
<1>13. Adds(us) /\ \A v \in us : v = Global \/ \E k \in DOMAIN own : Held(v, own[k])
  BY <1>3, AddsNothing
<1>14. Scoped(own)
  BY <1>3 DEF Scoped
<1>15. \E o : VarsInv(o)'
  BY <1>1, <1>2, <1>5, <1>12, <1>13, <1>14, VarsStay
<1>16. ScopeInv'
  BY <1>1, <1>3 DEF ScopeInv
<1>17. BodyInv'
  <2>1. Top.exits \in BOOLEAN /\ (Top.exits = FALSE => 1 = Len(todo) - 1)
    BY <1>1, <1>3, <1>6 DEF BodyInv
  <2>2. 1 = Len(todo) - 1 => Len(todo) = 2
    BY <1>6
  <2>3. \A i \in 1..Len(fs) : fs[i].at \in {"decls", "list"} => i = Len(fs) /\ fs[i] = f
    BY <1>8, <1>9
  <2> QED BY ZenonT(40), <1>1, <1>4, <1>5, <1>8, <2>1, <2>2, <2>3, BodyStays
<1> QED BY <1>15, <1>16, <1>17 DEF UseIInv

\* A compound statement or the function ends.
LEMMA LeaveUses ==
  ASSUME UseIInv, IInv', LeaveCompound \/ EndFunction PROVE UseIInv'
<1>1. IInv /\ ScopeInv /\ BodyInv
  BY DEF UseIInv
<1>2. PICK own : VarsInv(own)
  BY DEF UseIInv
<1>3. /\ todo # <<>> /\ Top.at \in {"decls", "list", "fun"}
      /\ pre_enter_scope' = pre_enter_scope /\ cur' = cur
  BY DEF LeaveCompound, EndFunction, At
<1>4. pre_enter_scope' = FALSE
  BY <1>1, <1>3 DEF BodyInv
<1> PICK fs : fs = <<>>
  OBVIOUS
<1>5. PICK T : Moves(fs, T)
  BY <1>1, ScopeMoves
<1>6. 1 \in DOMAIN todo /\ Top = todo[1] /\ Len(fs) = 0
  BY <1>1, <1>5, MoveFrames
<1> PICK us : us = {}
  OBVIOUS
<1>7. Adds(us)
  <2>1. CASE blocks' = blocks
    BY <2>1, AddsNothing
  <2>2. CASE blocks' # blocks
    <3> DEFINE ins == <<<<"ret">>>>
    <3>1. Len(ins) = 1 /\ ins[1] = <<"ret">> /\ ins[1][1] = "ret" /\ ins \in Seq({<<"ret">>})
      OBVIOUS
    <3>2. blocks' = Emit(blocks, cur, ins)
      BY <2>2 DEF LeaveCompound, EndFunction, RetUnlessTerminated
    <3> HIDE DEF ins
    <3>3. Uses(ins, us) /\ ins \in Seq(ToSet(ins))
      BY <3>1, SeqOver DEF Uses
    <3> QED BY <1>1, <1>3, <3>2, <3>3, EmitAdds
  <2> QED BY <2>1, <2>2
<1>8. BodyInv'
  <2>1. \A i \in 1..Len(fs) : FALSE
    BY <1>6
  <2> QED BY <1>1, <1>4, <1>5, <2>1, BodyStays
<1>9. scope' = IF Pops(Top) THEN Front(scope) ELSE scope
  <2>1. CASE EndFunction
    BY <2>1 DEF EndFunction, At, Pops
  <2>2. CASE LeaveCompound
    <3>1. Top.at \in {"decls", "list"} /\ scope' = IF Top.exits THEN Front(scope) ELSE scope
      BY <2>2 DEF LeaveCompound, At
    <3>2. Top.exits \in BOOLEAN
      BY <1>1, <1>6, <3>1 DEF BodyInv
    <3>3. Pops(Top) <=> Top.exits
      BY <3>1, <3>2 DEF Pops
    <3> QED BY <3>1, <3>3
  <2> QED BY <2>1, <2>2
<1>10. CASE Pops(Top)
  <2>1. scope' = Front(scope) /\ scope \in Seq(ToSet(scope))
    BY <1>1, <1>9, <1>10 DEF ScopeInv
  <2>2. cur' # 0
    <3>1. cur \in Id /\ Len(blocks) \in Nat
      BY <1>1, <1>3, TopFacts
    <3> QED BY <1>3, <3>1 DEF Id
  <2>3. \E o : VarsInv(o)'
    BY <1>1, <1>2, <1>5, <1>7, <1>10, <2>1, <2>2, VarsPop
  <2>4. Len(scope) \in 2..Len(scope)
    BY <1>1, <1>2, <1>3, <1>10, <2>1, InnermostOwned DEF VarsInv
  <2>5. ScopeInv'
    <3> DEFINE S == ToSet(scope)
    <3>1. scope \in Seq(S) /\ Len(scope) >= 2
      BY <2>1, <2>4
    <3> HIDE DEF S
    <3>2. scope' \in Seq(S) /\ Len(scope') >= 1 /\ scope'[1] = scope[1]
      BY <2>1, <3>1 DEF Front
    <3>3. scope' \in Seq(ToSet(scope'))
      BY <3>2, SeqOver
    <3> QED BY <1>1, <3>2, <3>3 DEF ScopeInv
  <2> QED BY <1>8, <2>3, <2>5 DEF UseIInv
<1>11. CASE ~Pops(Top)
  <2>1. scope' = scope
    BY <1>9, <1>11
  <2>2. Keeps(fs) /\ IndexFound(fs, own) /\ Scoped(own)
    <3>1. \A i \in 1..Len(fs) : FALSE
      BY <1>6
    <3> QED BY <1>6, <1>11, <2>1, <3>1 DEF Keeps, IndexFound, Scoped
  <2>3. \A v \in us : v = Global \/ \E k \in DOMAIN own : Held(v, own[k])
    OBVIOUS
  <2>4. \E o : VarsInv(o)'
    BY <1>1, <1>2, <1>5, <1>7, <2>2, <2>3, VarsStay
  <2>5. ScopeInv'
    BY <1>1, <2>1 DEF ScopeInv
  <2> QED BY <1>8, <2>4, <2>5 DEF UseIInv
<1> QED BY <1>10, <1>11

\* A variable with an index is found, ...
LEMMA IndexedUses ==
  ASSUME UseIInv, IInv', IndexedVar PROVE UseIInv'
<1>1. IInv /\ ScopeInv /\ BodyInv
  BY DEF UseIInv
<1>2. PICK own : VarsInv(own)
  BY DEF UseIInv
<1>3. PICK n \in Names : IsVar(n) /\ Then(<<Frame("expr"), [at |-> "index", var |-> Find(n)]>>)
  BY DEF IndexedVar
<1>4. /\ At("expr") /\ todo # <<>> /\ Top.at = "expr" /\ UNCHANGED <<blocks, cur>>
      /\ pre_enter_scope' = pre_enter_scope /\ scope' = scope
  BY DEF IndexedVar, At
<1>5. pre_enter_scope' = FALSE
  BY <1>1, <1>4 DEF BodyInv
<1> PICK v : v = Find(n)
  OBVIOUS
<1>6. v = Global \/ \E k \in DOMAIN own : Held(v, own[k])
  BY <1>1, <1>2, <1>3, FindFacts DEF VarsInv
<1> PICK g : g = Frame("expr")
  OBVIOUS
<1> PICK f : f = [at |-> "index", var |-> v]
  OBVIOUS
<1> PICK fs : fs = <<g, f>>
  OBVIOUS
<1>7. PICK T : Moves(fs, T)
  BY <1>1, <1>3, <1>4, ScopeMoves
<1>8. g.at = "expr" /\ f.at = "index" /\ f.var = v
  BY DEF Frame
<1>9. Len(fs) = 2 /\ fs[1] = g /\ fs[2] = f /\ \A i \in 1..Len(fs) : i = 1 \/ i = 2
  OBVIOUS
<1>10. ~Pops(g) /\ ~Pops(f) /\ ~Pops(Top)
  BY <1>4, <1>8 DEF Pops
<1>11. Keeps(fs)
  <2>1. \A i \in 1..Len(fs) : fs[i] = g \/ fs[i] = f
    BY <1>9
  <2> QED BY <1>9, <1>10, <2>1 DEF Keeps
<1>12. \A k \in DOMAIN own : own[k] < Len(todo) - 1
  <2> TAKE k \in DOMAIN own
  <2>1. DOMAIN todo = 1..Len(todo) /\ Len(todo) \in Nat /\ Top = todo[1]
    BY <1>1, <1>7, MoveFrames
  <2>2. PICK i \in DOMAIN todo : Pops(todo[i]) /\ own[k] = Len(todo) - i
    BY <1>2 DEF VarsInv, Owned
  <2>3. i # 1
    BY <1>10, <2>1, <2>2
  <2> QED BY <2>1, <2>2, <2>3
<1>13. IndexFound(fs, own)
  <2>1. \A i \in 1..Len(fs) : fs[i].at = "index" => i = Len(fs) /\ fs[i] = f
    BY <1>8, <1>9
  <2>2. v = Global \/ \E k \in DOMAIN own : own[k] < Len(todo) - 1 /\ Held(v, own[k])
    BY <1>6, <1>12
  <2> QED BY <1>8, <2>1, <2>2 DEF IndexFound
<1> PICK us : us = {}
  OBVIOUS
<1>14. Adds(us) /\ \A w \in us : w = Global \/ \E k \in DOMAIN own : Held(w, own[k])
  BY <1>4, AddsNothing
<1>15. Scoped(own)
  BY <1>4 DEF Scoped
<1>16. \E o : VarsInv(o)'
  BY <1>1, <1>2, <1>7, <1>11, <1>13, <1>14, <1>15, VarsStay
<1>17. ScopeInv'
  BY <1>1, <1>4 DEF ScopeInv
<1>18. BodyInv'
  <2>1. \A i \in 1..Len(fs) : fs[i].at \notin {"decls", "list"}
    BY <1>8, <1>9
  <2> QED BY <1>1, <1>5, <1>7, <2>1, BodyStays
<1> QED BY <1>16, <1>17, <1>18 DEF UseIInv

\* ... and used.
LEMMA CheckUses ==
  ASSUME UseIInv, IInv', CheckIndex PROVE UseIInv'
<1>1. IInv /\ ScopeInv /\ BodyInv
  BY DEF UseIInv
<1>2. PICK own : VarsInv(own)
  BY DEF UseIInv
<1>3. /\ todo # <<>> /\ Top.at = "index"
      /\ pre_enter_scope' = pre_enter_scope /\ scope' = scope
  BY DEF CheckIndex, At
<1>4. pre_enter_scope' = FALSE
  BY <1>1, <1>3 DEF BodyInv
<1> PICK fs : fs = <<>>
  OBVIOUS
<1>5. PICK T : Moves(fs, T)
  BY <1>1, CheckIndexMoves
<1>6. 1 \in DOMAIN todo /\ Top = todo[1] /\ \A i \in 1..Len(fs) : FALSE
  BY <1>1, <1>5, MoveFrames
<1> PICK us : us = {Top.var}
  OBVIOUS
<1>7. Adds(us)
  BY <1>1, CheckIndexAdds
<1>8. \A v \in us : v = Global \/ \E k \in DOMAIN own : Held(v, own[k])
  <2>1. Top.var = Global \/ \E k \in DOMAIN own : Held(Top.var, own[k])
    BY <1>2, <1>3, <1>6 DEF VarsInv, IndexInv
  <2> QED BY <2>1
<1>9. Keeps(fs) /\ IndexFound(fs, own) /\ Scoped(own)
  <2>1. ~Pops(Top)
    BY <1>3 DEF Pops
  <2> QED BY <1>3, <1>6, <2>1 DEF Keeps, IndexFound, Scoped
<1>10. \E o : VarsInv(o)'
  BY <1>1, <1>2, <1>5, <1>7, <1>8, <1>9, VarsStay
<1>11. ScopeInv'
  BY <1>1, <1>3 DEF ScopeInv
<1>12. BodyInv'
  BY <1>1, <1>4, <1>5, <1>6, BodyStays
<1> QED BY <1>10, <1>11, <1>12 DEF UseIInv

\* The scopes as the parameters are pushed, one by one.
Pushes(params, n, f) ==
  f = [k \in 0..n |-> IF k = 0 THEN Enter(scope) ELSE Bind(f[k - 1], params[k], <<1, 2*k - 1>>)]

\* There are such scopes.
LEMMA PushesExist ==
  ASSUME NEW n \in Nat, NEW params PROVE \E f : Pushes(params, n, f)
<1> DEFINE P == {k \in 0..n : \E f : Pushes(params, k, f)}
<1>1. 0 \in P
  <2> DEFINE f == [k \in 0..0 |-> Enter(scope)]
  <2>1. f = [k \in 0..0 |-> IF k = 0 THEN Enter(scope)
                            ELSE Bind(f[k - 1], params[k], <<1, 2*k - 1>>)]
    OBVIOUS
  <2>2. Pushes(params, 0, f)
    <3> HIDE DEF f
    <3> QED BY <2>1 DEF Pushes
  <2> QED BY <2>2
<1>2. ASSUME NEW k \in 0..(n - 1), k \in P PROVE k + 1 \in P
  <2> PICK f : Pushes(params, k, f)
    BY <1>2
  <2>1. k \in Nat /\ k + 1 \in 0..n
    OBVIOUS
  <2> PICK last : last = Bind(f[k], params[k + 1], <<1, 2*(k + 1) - 1>>)
    OBVIOUS
  <2> DEFINE g == [j \in 0..(k + 1) |-> IF j <= k THEN f[j] ELSE last]
  <2>2. ASSUME NEW j \in 0..(k + 1)
        PROVE  g[j] = IF j = 0 THEN Enter(scope) ELSE Bind(g[j - 1], params[j], <<1, 2*j - 1>>)
    <3>1. CASE j <= k
      <4>1. j \in 0..k /\ g[j] = f[j]
        BY <2>1, <3>1
      <4>2. f[j] = IF j = 0 THEN Enter(scope) ELSE Bind(f[j - 1], params[j], <<1, 2*j - 1>>)
        BY <4>1 DEF Pushes
      <4>3. j # 0 => g[j - 1] = f[j - 1]
        BY <2>1, <3>1
      <4> HIDE DEF g
      <4> QED BY <4>1, <4>2, <4>3
    <3>2. CASE ~(j <= k)
      <4>1. j = k + 1 /\ j # 0 /\ j - 1 = k
        BY <2>1, <3>2
      <4>2. g[j] = last /\ g[k] = f[k]
        BY <2>1, <3>2
      <4> HIDE DEF g
      <4> QED BY <4>1, <4>2
    <3> QED BY <3>1, <3>2
  <2>3. g = [j \in 0..(k + 1) |-> IF j = 0 THEN Enter(scope)
                                  ELSE Bind(g[j - 1], params[j], <<1, 2*j - 1>>)]
    <3>1. DOMAIN g = 0..(k + 1) /\ g = [j \in 0..(k + 1) |-> g[j]]
      OBVIOUS
    <3> HIDE DEF g
    <3> QED BY <2>2, <3>1
  <2>4. Pushes(params, k + 1, g)
    <3> HIDE DEF g
    <3> QED BY <2>3 DEF Pushes
  <2> HIDE DEF g
  <2> QED BY <2>1, <2>4
<1>3. n \in 0..n /\ 1 \in Nat \ {0}
  OBVIOUS
<1>4. n \in P
  <2> HIDE DEF P
  <2>1. \A k \in 0..(n - 1) : k \in P => k + 1 \in P
    BY <1>2
  <2>2. \A k \in 0..n : k \in P
    BY <1>1, <1>3, <2>1, Numbers!UpTo
  <2> QED BY <1>3, <2>2
<1> QED BY <1>4

\* An element put behind a sequence.
LEMMA PushFacts ==
  ASSUME NEW S, NEW q \in Seq(S), NEW e \in S, 1 \in 1..Len(q)
  PROVE  LET r == Append(q, e)
         IN  r \in Seq(S) /\ Len(r) = Len(q) + 1 /\ r[1] = q[1] /\ r[Len(q) + 1] = e
OBVIOUS

\* The scope of the function holds its parameters, n of them.
Begun(s, n) ==
  /\ s \in Seq(ToSet(s)) /\ Len(s) = 2 /\ s[1] = scope[1]
  /\ \A x \in DOMAIN s[2] : \E j \in 1..n : s[2][x] = <<1, 2*j - 1>>
\* It does once all of them are pushed.
LEMMA PushesBegin ==
  ASSUME ScopeInv, Len(scope) = 1, NEW n \in Nat, NEW params, NEW f, Pushes(params, n, f)
  PROVE  Begun(f[n], n)
<1> DEFINE Q == {k \in 0..n : Begun(f[k], n)}
<1>1. 0 \in Q
  <2> DEFINE s == f[0]
             S == ToSet(scope) \cup {<<>>}
  <2>1. s = Append(scope, <<>>) /\ 0 \in 0..n
    BY DEF Pushes, Enter
  <2>2. scope \in Seq(S) /\ <<>> \in S
    BY SeqOver DEF ScopeInv
  <2> HIDE DEF S, s
  <2>3. s \in Seq(S) /\ Len(s) = 2 /\ s[1] = scope[1] /\ s[2] = <<>>
    <3> PICK e : e = <<>>
      OBVIOUS
    <3>1. scope \in Seq(S) /\ e \in S /\ s = Append(scope, e)
      BY <2>1, <2>2
    <3>2. s \in Seq(S) /\ Len(s) = Len(scope) + 1 /\ s[1] = scope[1] /\ s[Len(scope) + 1] = e
      <4>1. 1 \in 1..Len(scope)
        BY <2>2
      <4> QED BY ONLY <3>1, <4>1, PushFacts
    <3>3. Len(scope) + 1 = 2
      OBVIOUS
    <3> QED BY <3>2, <3>3
  <2>4. s \in Seq(ToSet(s))
    BY <2>3, SeqOver
  <2>5. DOMAIN s[2] = {}
    BY <2>3
  <2>6. Begun(s, n)
    BY <2>3, <2>4, <2>5 DEF Begun
  <2> QED BY <2>1, <2>6 DEF s
<1>2. ASSUME NEW k \in 0..(n - 1), k \in Q PROVE k + 1 \in Q
  <2>1. k + 1 \in 0..n /\ k + 1 # 0 /\ (k + 1) - 1 = k /\ k + 1 \in 1..n
    OBVIOUS
  <2> DEFINE j == k + 1
  <2>2. f[j] = Bind(f[k], params[j], <<1, 2*j - 1>>)
    BY <2>1 DEF Pushes
  <2> PICK v : v = <<1, 2*j - 1>>
    OBVIOUS
  <2> DEFINE s == f[k]
             p == params[j]
             new == Bind(s, p, v)
  <2>3. Begun(s, n) /\ new = f[j] /\ j \in 1..n
    BY <1>2, <2>1, <2>2
  <2>4. v = <<1, 2*j - 1>>
    OBVIOUS
  <2> HIDE DEF s, p, j
  <2>5. s \in Seq(ToSet(s)) /\ Len(s) >= 1 /\ Len(s) = 2
    BY <2>3 DEF Begun
  <2>6. Binds(s, new, v)
    BY <2>5, BindFacts
  <2> HIDE DEF new
  <2>7. /\ new \in Seq(ToSet(new)) /\ Len(new) = 2 /\ new[1] = s[1]
        /\ \A x \in DOMAIN new[2] : (x \in DOMAIN s[2] /\ new[2][x] = s[2][x]) \/ new[2][x] = v
    <3>1. 1 \in 1..Len(s) /\ 1 # Len(s)
      BY <2>5
    <3> QED BY <2>5, <2>6, <3>1 DEF Binds
  <2>8. \A x \in DOMAIN new[2] : \E h \in 1..n : new[2][x] = <<1, 2*h - 1>>
    <3> TAKE x \in DOMAIN new[2]
    <3>1. CASE x \in DOMAIN s[2] /\ new[2][x] = s[2][x]
      BY <2>3, <3>1 DEF Begun
    <3>2. CASE new[2][x] = v
      BY <2>3, <2>4, <3>2
    <3> QED BY <2>7, <3>1, <3>2
  <2>9. Begun(new, n)
    BY <2>3, <2>7, <2>8 DEF Begun
  <2> QED BY <2>1, <2>3, <2>9 DEF j
<1>3. n \in 0..n /\ 1 \in Nat \ {0}
  OBVIOUS
<1>4. n \in Q
  <2> HIDE DEF Q
  <2>1. \A k \in 0..(n - 1) : k \in Q => k + 1 \in Q
    BY <1>2
  <2>2. \A k \in 0..n : k \in Q
    BY <1>1, <1>3, <2>1, Numbers!UpTo
  <2> QED BY <1>3, <2>2
<1> QED BY <1>4

\* The function begins: its parameters are allocated in the entry.
LEMMA BeginUses ==
  ASSUME UseIInv, IInv', FunDeclaration PROVE UseIInv'
<1>1. IInv /\ ScopeInv /\ BodyInv
  BY DEF UseIInv
<1>2. blocks = <<>> /\ todo = <<>> /\ DOMAIN todo = {}
  BY <1>1 DEF FunDeclaration, IInv, CurInv
<1>3. /\ todo' = <<Frame("compound"), Frame("fun")>> /\ cur' = 1 /\ pre_enter_scope' = TRUE
  BY DEF FunDeclaration
<1>4. Len(scope) = 1
  <2> PICK own : Owned(own)
    BY DEF UseIInv, VarsInv
  <2>1. \A k \in 2..Len(scope) : FALSE
    BY <1>2 DEF Owned
  <2> PICK l : l = Len(scope)
    OBVIOUS
  <2>2. l \in Nat /\ l >= 1
    BY <1>1 DEF ScopeInv
  <2>3. \A k \in 2..l : FALSE
    BY <2>1
  <2>4. l = 1
    BY ONLY <2>2, <2>3
  <2> QED BY <2>4
<1>5. PICK params \in BoundedSeq(Names, MaxParams) :
        /\ blocks' = Emit(Create(blocks, 1), 1,
            [k \in 1..(2 * Len(params)) |->
               IF k % 2 = 1 THEN <<"alloca">> ELSE <<"use", <<1, k - 1>>>>])
        /\ LET pushed[k \in 0..Len(params)] ==
                 IF k = 0 THEN Enter(scope) ELSE Bind(pushed[k - 1], params[k], <<1, 2*k - 1>>)
           IN  scope' = pushed[Len(params)]
  BY DEF FunDeclaration
<1> PICK n : n = Len(params)
  OBVIOUS
<1>6. n \in Nat
  BY BoundsAssumption DEF BoundedSeq
<1>7. Begun(scope', n)
  <2> DEFINE F(f) == f = [k \in 0..Len(params) |->
                            IF k = 0 THEN Enter(scope) ELSE Bind(f[k - 1], params[k], <<1, 2*k - 1>>)]
             R == CHOOSE f : F(f)
  <2>1. \A f : F(f) <=> Pushes(params, n, f)
    BY DEF Pushes
  <2>2. scope' = R[n]
    BY <1>5
  <2> HIDE DEF F
  <2>3. \E f : F(f)
    BY <1>6, <2>1, PushesExist
  <2>4. F(R)
    BY <2>3
  <2>5. Pushes(params, n, R)
    BY <2>1, <2>4
  <2> HIDE DEF R
  <2>6. Begun(R[n], n)
    BY <1>1, <1>4, <1>6, <2>5, PushesBegin
  <2> QED BY <2>2, <2>6
<1> DEFINE ins == [k \in 1..(2 * n) |-> IF k % 2 = 1 THEN <<"alloca">> ELSE <<"use", <<1, k - 1>>>>]
<1>8. DOMAIN ins = 1..(2 * n) /\ 2 * n \in Nat
  BY <1>6
<1>9. ASSUME NEW i \in DOMAIN ins, NEW v, ins[i][1] = "use", v = ins[i][2]
      PROVE  v[1] = 1 /\ v[2] = i - 1 /\ i \in Nat
  <2>1. i \in Nat /\ i \in 1..(2 * n)
    BY <1>8, <1>9
  <2>2. i % 2 # 1
    <3>1. CASE i % 2 = 1
      <4>1. ins[i] = <<"alloca">>
        BY <1>9, <3>1
      <4>2. ins[i][1] = "alloca"
        BY <4>1
      <4> QED BY <1>9, <4>2
    <3> QED BY <3>1
  <2>3. ins[i] = <<"use", <<1, i - 1>>>>
    BY <2>1, <2>2
  <2>4. ins[i][2] = <<1, i - 1>>
    BY <2>3
  <2> QED BY <1>9, <2>1, <2>4
<1>10. Len(blocks') = 1 /\ blocks'[1].code = ins
  <2> DEFINE k == 1
             bs == Create(blocks, k)
             S == ToSet(ins)
             new == Emit(bs, k, ins)
  <2>1. ins \in Seq(S)
    <3> HIDE DEF ins
    <3>1. ins = [i \in 1..(2 * n) |-> ins[i]]
      BY DEF ins
    <3>2. \A i \in 1..(2 * n) : ins[i] \in ToSet(ins)
      BY <1>8 DEF ToSet
    <3>3. [i \in 1..(2 * n) |-> ins[i]] \in Seq(ToSet(ins))
      BY <1>8, <3>2
    <3> QED BY <3>1, <3>3
  <2>2. blocks' = new
    BY <1>5
  <2> HIDE DEF ins, S
  <2>3. Len(blocks) = 0
    BY <1>2
  <2>4. k \in Nat /\ k = 1
    OBVIOUS
  <2> HIDE DEF k
  <2>5. BlocksOK(blocks) /\ EmptyBlock \in Blk(S)
    BY <1>1 DEF IInv, EmptyBlock, Blk
  <2>6. Len(bs) = 1 /\ bs[k] = EmptyBlock /\ k \in 1..Len(bs) /\ bs \in Seq(Blk(S))
    <3>1. /\ BlocksOK(bs) /\ Len(bs) = Len(blocks) + k
          /\ \A b \in (Len(blocks) + 1)..(Len(blocks) + k) : bs[b] = EmptyBlock
      BY <2>4, <2>5, CreateOK
    <3>2. Len(bs) = 1 /\ bs[1] = EmptyBlock
      BY <2>3, <2>4, <3>1
    <3> HIDE DEF bs
    <3>3. bs \in Seq(Blk(Emitted(bs)))
      BY <3>1 DEF BlocksOK
    <3>4. bs = [i \in 1..1 |-> bs[i]]
      BY <3>2, <3>3
    <3>5. \A i \in 1..1 : bs[i] \in Blk(S)
      BY <2>5, <3>2
    <3> QED BY <2>4, <3>2, <3>4, <3>5
  <2> HIDE DEF bs
  <2>7. /\ new \in Seq(Blk(S)) /\ Len(new) = Len(bs)
        /\ \A c \in 1..Len(bs) : /\ new[c].succ = bs[c].succ /\ new[c].pre = bs[c].pre
                                 /\ new[c].code = IF c = k THEN bs[k].code \o ins ELSE bs[c].code
    <3>1. ins \in Seq(S) /\ bs \in Seq(Blk(S)) /\ k \in 1..Len(bs)
      BY <2>1, <2>6
    <3> QED BY ONLY <3>1, EmitFacts
  <2>8. new[k].code = <<>> \o ins
    BY <2>6, <2>7 DEF EmptyBlock
  <2>9. <<>> \o ins = ins
    BY <2>1
  <2> QED BY <2>2, <2>4, <2>6, <2>7, <2>8, <2>9
<1> HIDE DEF ins
<1>11. Id' = {1} /\ 1 \in Id'
  BY <1>10 DEF Id
<1>12. /\ Len(todo') = 2 /\ DOMAIN todo' = 1..2 /\ todo'[1].at = "compound" /\ todo'[2].at = "fun"
       /\ Waits(todo'[1]) = {} /\ Waits(todo'[2]) = {}
  <2> DEFINE f == Frame("compound")
             g == Frame("fun")
  <2>1. f.at = "compound" /\ g.at = "fun" /\ Waits(f) = {} /\ Waits(g) = {}
    BY BarePlain
  <2> HIDE DEF f, g
  <2>2. todo' = <<f, g>>
    BY <1>3 DEF f, g
  <2> QED BY <2>1, <2>2
<1> PICK z : z = 0
  OBVIOUS
<1> PICK d : d = 1
  OBVIOUS
<1>13. Open(z, d, d)'
  <2>1. d \in 1..d /\ d \in Id' /\ cur' = d
    BY <1>3, <1>11
  <2>2. Region(d, d, Len(blocks))'
    BY <1>10 DEF Region
  <2>3. ASSUME NEW i \in DOMAIN todo'
        PROVE  ~(Len(todo') - i < z) /\ Waits(todo'[i]) = {}
    <3>1. i = 1 \/ i = 2
      BY <1>12
    <3> QED BY <1>12, <3>1
  <2> QED BY <2>1, <2>2, <2>3 DEF Open
<1>14. ASSUME NEW j \in 1..n, NEW v, v = <<1, 2*j - 1>> PROVE Held(v, z)'
  <2>0. d = 1
    OBVIOUS
  <2>1. v[1] = d /\ v[2] = 2*j - 1
    BY ONLY <1>14, <2>0
  <2>2. v[2] \in DOMAIN blocks'[1].code
    BY <1>6, <1>8, <1>10, <2>1
  <2>3. v[1] \in Id' /\ v[2] \in DOMAIN blocks'[v[1]].code
    BY <1>11, <2>1, <2>2
  <2>4. \E lo : Open(z, v[1], lo)'
    BY <1>13, <2>1
  <2> QED BY <2>3, <2>4 DEF Held
<1> DEFINE o == [k \in 2..2 |-> z]
<1>15. DOMAIN o = 2..2 /\ o[2] = z /\ \A k \in 2..2 : k = 2
  OBVIOUS
<1> HIDE DEF o
<1>16. Owned(o)'
  <2>1. ~Pops(todo'[1]) /\ Pops(todo'[2])
    BY <1>12 DEF Pops
  <2>2. Len(scope') = 2
    BY <1>7 DEF Begun
  <2>3. \A j, k \in 2..2 : j < k => o[j] < o[k]
    BY <1>15
  <2>4. \A k \in 2..2 : \E i \in DOMAIN todo' : Pops(todo'[i]) /\ o[k] = Len(todo') - i
    <3>1. 2 \in DOMAIN todo' /\ Len(todo') - 2 = z
      BY <1>12
    <3> QED BY <1>15, <2>1, <3>1
  <2>5. \A i \in DOMAIN todo' : Pops(todo'[i]) => \E k \in 2..2 : o[k] = Len(todo') - i
    <3> TAKE i \in DOMAIN todo'
    <3>1. i = 1 \/ i = 2
      BY <1>12
    <3>2. i = 2 => o[2] = Len(todo') - i /\ 2 \in 2..2
      BY <1>12, <1>15
    <3> QED BY <2>1, <3>1, <3>2
  <2> QED BY <1>15, <2>2, <2>3, <2>4, <2>5 DEF Owned
<1>17. BindInv(o)'
  <2>1. ASSUME NEW k \in 2..Len(scope'), NEW x \in DOMAIN scope'[k], NEW v, v = scope'[k][x]
        PROVE  Held(v, o[k])'
    <3>1. k = 2 /\ o[k] = z
      <4>1. Len(scope') = 2
        BY <1>7 DEF Begun
      <4>2. k = 2
        BY <2>1, <4>1
      <4> QED BY <1>15, <4>2
    <3>2. PICK j \in 1..n : v = <<1, 2*j - 1>>
      BY <1>7, <2>1, <3>1 DEF Begun
    <3>3. Held(v, z)'
      BY <1>14, <3>2
    <3> QED BY <3>1, <3>3
  <2> QED BY <2>1 DEF BindInv
<1>18. IndexInv(o)'
  <2>1. \A i \in DOMAIN todo' : todo'[i].at # "index"
    <3> TAKE i \in DOMAIN todo'
    <3>1. i = 1 \/ i = 2
      BY <1>12
    <3> QED BY <1>12, <3>1
  <2> QED BY <2>1 DEF IndexInv
<1>19. UseInv(o)'
  <2>1. ASSUME NEW b \in Id', NEW i \in DOMAIN blocks'[b].code, NEW c, c = blocks'[b].code[i],
               c[1] = "use"
        PROVE  Used(o, c[2], b, i)'
    <3> DEFINE v == c[2]
    <3>1. b = 1 /\ c = ins[i] /\ i \in DOMAIN ins
      BY <1>10, <1>11, <2>1
    <3>2. v[1] = 1 /\ v[2] = i - 1 /\ i \in Nat
      BY <1>9, <2>1, <3>1
    <3>3. v[1] \in Id' /\ v[1] = b /\ v[2] < i
      BY <1>11, <3>1, <3>2
    <3> QED BY <3>3 DEF Used
  <2> QED BY <2>1 DEF UseInv
<1>20. VarsInv(o)'
  BY <1>16, <1>17, <1>18, <1>19 DEF VarsInv
<1>21. ScopeInv'
  BY <1>1, <1>7 DEF ScopeInv, Begun
<1>22. BodyInv'
  <2>1. \A i \in DOMAIN todo' : todo'[i].at \notin {"decls", "list"}
    <3> TAKE i \in DOMAIN todo'
    <3>1. i = 1 \/ i = 2
      BY <1>12
    <3> QED BY <1>12, <3>1
  <2>2. Top' = todo'[1]
    BY DEF Top
  <2> QED BY <1>3, <1>12, <2>1, <2>2 DEF BodyInv
<1> QED BY <1>20, <1>21, <1>22 DEF UseIInv

\* A step that changes nothing.
LEMMA NothingUsed ==
  ASSUME UseIInv, IInv', UNCHANGED vars PROVE UseIInv'
<1>1. /\ blocks' = blocks /\ todo' = todo /\ cur' = cur /\ scope' = scope
      /\ pre_enter_scope' = pre_enter_scope
  BY DEF vars
<1>2. Id' = Id /\ \A b : Into(b)' = Into(b)
  BY <1>1 DEF Id, Into
<1>3. \A d, lo, hi : Region(d, lo, hi)' <=> Region(d, lo, hi)
  BY <1>2 DEF Region
<1>4. \A n, d, lo : Open(n, d, lo)' <=> Open(n, d, lo)
  BY <1>1, <1>2, <1>3 DEF Open
<1>5. \A d, lo, hi : Shut(d, lo, hi)' <=> Shut(d, lo, hi)
  BY <1>1, <1>2, <1>3 DEF Shut
<1>6. \A d, b : Under(d, b)' <=> Under(d, b)
  BY <1>5 DEF Under
<1>7. \A v, n : Held(v, n)' <=> Held(v, n)
  BY <1>1, <1>2, <1>4 DEF Held
<1>8. \A own, v, b, i : Used(own, v, b, i)' <=> Used(own, v, b, i)
  BY <1>2, <1>4, <1>6 DEF Used
<1> PICK own : VarsInv(own)
  BY DEF UseIInv
<1>9. Owned(own)'
  BY <1>1 DEF VarsInv, Owned
<1>10. BindInv(own)'
  BY <1>1, <1>7 DEF VarsInv, BindInv
<1>11. IndexInv(own)'
  BY <1>1, <1>7 DEF VarsInv, IndexInv
<1>12. UseInv(own)'
  BY <1>1, <1>2, <1>8 DEF VarsInv, UseInv
<1>13. VarsInv(own)'
  BY <1>9, <1>10, <1>11, <1>12 DEF VarsInv
<1>14. ScopeInv' /\ BodyInv'
  BY <1>1 DEF UseIInv, ScopeInv, BodyInv, Top
<1> QED BY <1>13, <1>14 DEF UseIInv

\* Nothing has been declared yet.
LEMMA InitUses == Init => UseIInv
<1> SUFFICES ASSUME Init PROVE UseIInv
  OBVIOUS
<1>1. blocks = <<>> /\ todo = <<>> /\ pre_enter_scope = FALSE /\ Id = {} /\ DOMAIN todo = {}
  BY DEF Init, Id
<1>2. PICK g \in SUBSET Names :
        scope = <<[n \in g \cup {"neg_idx_except"} |->
                     IF n = "neg_idx_except" THEN Except ELSE Global]>>
  BY DEF Init
<1> PICK e : e = [n \in g \cup {"neg_idx_except"} |->
                     IF n = "neg_idx_except" THEN Except ELSE Global]
  OBVIOUS
<1>3. scope = <<e>> /\ \A n \in DOMAIN e : e[n] \in {Global, Except}
  BY <1>2
<1>4. ScopeInv /\ 2..Len(scope) = {}
  <2>1. Len(scope) = 1 /\ scope[1] = e /\ scope \in Seq({e})
    BY ONLY <1>3
  <2>2. scope \in Seq(ToSet(scope))
    BY <2>1, SeqOver
  <2> QED BY <1>3, <2>1, <2>2 DEF ScopeInv
<1>5. BodyInv
  BY <1>1 DEF BodyInv
<1> DEFINE own == [k \in 2..Len(scope) |-> 0]
<1>6. DOMAIN own = 2..Len(scope)
  OBVIOUS
<1> HIDE DEF own
<1>7. VarsInv(own)
  BY <1>1, <1>4, <1>6 DEF VarsInv, Owned, BindInv, IndexInv, UseInv
<1> QED BY <1>4, <1>5, <1>7, InitInv DEF UseIInv

\* Scopes and regions go together: a variable in scope was allocated in a block
\* whose region is open until the scope is left, so that what is built before
\* that lies in the region, and lies under the block from then on.
THEOREM ScopesFollowRegions == Spec => []UseIInv
<1>1. UseIInv /\ [Next]_vars => UseIInv'
  <2> SUFFICES ASSUME UseIInv, [Next]_vars PROVE UseIInv'
    OBVIOUS
  <2>1. IInv'
    BY StepInv DEF UseIInv
  <2>2. CASE UNCHANGED vars \/ Finished
    BY <2>1, <2>2, NothingUsed DEF Finished
  <2>3. CASE FunDeclaration
    BY <2>1, <2>3, BeginUses
  <2>4. CASE EnterCompound \/ VarDeclaration
    BY <2>1, <2>4, EnterUses, DeclareUses
  <2>5. CASE NextStatement \/ LeaveCompound \/ EndFunction
    BY <2>1, <2>5, NextUses, LeaveUses
  <2>6. CASE IndexedVar \/ CheckIndex
    BY <2>1, <2>6, IndexedUses, CheckUses
  <2>7. CASE \/ EmptyStatement \/ ExpressionStmt \/ CompoundStmt \/ ReturnStmt \/ SelectionStmt
             \/ VoidReturn \/ EndReturn \/ Number \/ Var
             \/ Branch \/ LoopBranch \/ EndThen \/ EndElse \/ EndBody \/ IterationStmt
    BY <2>1, <2>7, PlainUses
  <2> QED BY <2>2, <2>3, <2>4, <2>5, <2>6, <2>7 DEF Next
<1> QED BY <1>1, InitUses, PTL DEF Spec

\* When the function is done every scope but the outermost has been left.
LEMMA InvUses == UseIInv => DeclDominatesUse
<1> SUFFICES ASSUME UseIInv, Done, NEW b \in IdsReached, NEW i \in DOMAIN blocks[b].code,
                    NEW ins, ins = blocks[b].code[i], ins[1] = "use", ins[2] # Global
             PROVE  \/ ins[2][1] = b /\ ins[2][2] < i
                    \/ ins[2][1] # b /\ b \in Graph!Dominated(Succ, ins[2][1])
  BY DEF DeclDominatesUse
<1>1. IInv /\ cur # 0 /\ DOMAIN todo = {}
  BY DEF UseIInv, Done
<1>2. PICK own : VarsInv(own)
  BY DEF UseIInv
<1>3. DOMAIN own = {}
  BY <1>1, <1>2 DEF VarsInv, Owned
<1>4. b \in Id
  BY <1>1, ReachedFlow
<1> PICK v : v = ins[2]
  OBVIOUS
<1>5. Used(own, v, b, i)
  BY <1>2, <1>4 DEF VarsInv, UseInv
<1> PICK d : d = v[1]
  OBVIOUS
<1>6. d # b => b \in Graph!Dominated(Succ, d)
  <2>1. d # b => Under(d, b)
    BY <1>3, <1>5 DEF Used
  <2> QED BY <1>1, <2>1, UnderDominated
<1>7. \/ d = b /\ v[2] < i
      \/ d # b
  BY <1>3, <1>5 DEF Used
<1> QED BY <1>6, <1>7

\* A variable is used only where its alloca has been executed: scopes, which
\* follow the text, agree with dominance, which follows the branches.
THEOREM DeclarationsDominate == Spec => []DeclDominatesUse
BY ScopesFollowRegions, InvUses, PTL
=============================================================================
