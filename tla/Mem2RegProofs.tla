--------------------------- MODULE Mem2RegProofs ---------------------------
(***************************************************************************)
(* For every function and every order in which Mem2Reg walks its sets: the *)
(* stacks hold what was met on the way down the dominator tree, the asserts *)
(* fail for unstored variables only, nothing left refers to what was       *)
(* erased, and the result computes the values of the source.               *)
(***************************************************************************)
EXTENDS Mem2RegInvariant


\* The instruction re_name is at.
LEMMA HereFacts ==
  ASSUME NEW H, NEW B, PassOK(H, B), NEW op, AtInstr(op)
  PROVE  LET n == Top.ip
         IN  /\ pc = "rename" /\ n \in Nat /\ n # 0 /\ n \in DOMAIN source[bb] /\ n < Fin(source, bb)
             /\ here.id = <<bb, n>> /\ <<bb, n>> \in InstrId /\ here \in Instr
             /\ source[bb][n].op = op /\ source[bb][n].var = here.var /\ here.var \in Var
             /\ here.arg = Current(succ, source, calls, H, source[bb][n].arg)
             /\ calls[Len(calls)].bb = bb /\ calls[Len(calls)].ip = n
             /\ PlaceOf(source, calls[Len(calls)]) = <<bb, n>>
             /\ ~Passed(succ, source, calls, bb, n)
             /\ op \in {"load", "store"} => UsedIn(source, here.var)
<1> DEFINE n == Top.ip
<1>1. pc = "rename" /\ n \in 1..Len(code[bb]) /\ here.op = op
  BY DEF AtInstr
<1>2. /\ Top = calls[Len(calls)] /\ bb = calls[Len(calls)].bb /\ bb \in Block
      /\ Fin(source, bb) \in Nat /\ Len(code[bb]) + 1 = Fin(source, bb)
      /\ DOMAIN source[bb] = 1..(Fin(source, bb) - 1) /\ Len(calls) \in 1..Len(calls)
      /\ code[bb] \in Seq(Instr)
      /\ \A k \in DOMAIN source[bb] :
              /\ code[bb][k] \in Instr /\ code[bb][k].id = <<bb, k>>
              /\ code[bb][k].op = source[bb][k].op /\ code[bb][k].var = source[bb][k].var
              /\ code[bb][k].arg = Current(succ, source, calls, H, source[bb][k].arg)
  BY <1>1, TopFacts
<1>3. n \in Nat /\ n # 0 /\ n \in DOMAIN source[bb] /\ n < Fin(source, bb)
  <2>1. Len(code[bb]) \in Nat
    BY <1>2
  <2> HIDE DEF n
  <2> QED BY <1>1, <1>2, <2>1
<1>4. here = code[bb][n]
  BY DEF here
<1>5. /\ here.id = <<bb, n>> /\ here \in Instr /\ source[bb][n].op = op
      /\ source[bb][n].var = here.var
      /\ here.arg = Current(succ, source, calls, H, source[bb][n].arg)
  BY <1>1, <1>2, <1>3, <1>4
<1>6. here.var \in Var /\ <<bb, n>> \in InstrId
  BY <1>2, <1>3, <1>5 DEF Instr, InstrId
<1>7. calls[Len(calls)].bb = bb /\ calls[Len(calls)].ip = n
  BY <1>2
<1> HIDE DEF n
<1>8. PlaceOf(source, calls[Len(calls)]) = <<bb, n>>
  BY <1>2, <1>3, <1>7 DEF PlaceOf
<1>9. ~Passed(succ, source, calls, bb, n)
  <2>1. ~(n < n)
    BY <1>3
  <2>2. Legal(succ, source) /\ WalkOK(succ, source, calls)
    BY DEF PassOK, WalkParts
  <2> QED BY <1>2, <1>7, <2>1, <2>2, PassedIs
<1>10. op \in {"load", "store"} => UsedIn(source, here.var)
  BY <1>2, <1>3, <1>5 DEF UsedIn
<1> QED BY <1>1, <1>3, <1>5, <1>6, <1>7, <1>8, <1>9, <1>10 DEF n

\* A place that defines nothing pushes nothing.
LEMMA NoPush ==
  ASSUME NEW src, NEW ph, NEW cs, NEW H, NEW st \in [Var -> Seq(Value)],
         \A v \in Var : ~NewDef(src, ph, cs[Len(cs)].bb, cs[Len(cs)].ip, v)
  PROVE  Pushes(src, ph, cs, H, st, st)
<1>1. st = [v \in Var |-> st[v]]
  OBVIOUS
<1> QED BY <1>1 DEF Pushes

\* RenameLoad: the load stands for the newest definition, or there is none.
LEMMA LoadRenamed ==
  ASSUME NEW H, NEW B, PassOK(H, B), RenameLoad, UNCHANGED source
  PROVE  \E H2, B2 : PassOK(H2, B2)'
<1> DEFINE n == Top.ip
           w == here.var
           o == <<bb, n>>
<1>0. /\ Legal(succ, source) /\ StateOK /\ PhisOK(succ, source, phis)
      /\ KeysOK(source, var_val_stack, keys)
      /\ WalkParts(succ, source, phis, calls, H, var_val_stack, B, code, pairs)
  BY DEF PassOK
<1>w. /\ WalkOK(succ, source, calls) /\ ReachOK(succ, source, phis, calls, H)
      /\ StacksOK(source, phis, calls, H, var_val_stack, B)
      /\ CodeOK(succ, source, calls, code, H) /\ PairsOK(succ, source, phis, calls, H, pairs)
  BY <1>0 DEF WalkParts
<1>1. AtInstr("load") /\ UNCHANGED <<succ, phis, keys, var_val_stack>>
  BY DEF RenameLoad, place
<1>2. /\ pc = "rename" /\ n \in Nat /\ n # 0 /\ n \in DOMAIN source[bb] /\ n < Fin(source, bb)
      /\ here.id = o /\ o \in InstrId
      /\ source[bb][n].op = "load" /\ source[bb][n].var = w /\ w \in Var
      /\ calls[Len(calls)].bb = bb /\ calls[Len(calls)].ip = n
      /\ PlaceOf(source, calls[Len(calls)]) = o
      /\ ~Passed(succ, source, calls, bb, n) /\ UsedIn(source, w)
  <2> DEFINE op == "load"
  <2>1. AtInstr(op) /\ op \in {"load", "store"} /\ op = "load"
    BY <1>1
  <2> HIDE DEF op
  <2> QED BY <2>1, HereFacts
<1>3. /\ calls # <<>> /\ calls \in Seq(Frame) /\ Top = calls[Len(calls)] /\ Top \in Frame
      /\ Len(calls) \in 1..Len(calls)
  BY <1>2, TopFacts
<1>4. /\ var_val_stack[w] \in Seq(Value)
      /\ H[o][w] = IF var_val_stack[w] = <<>> THEN NoValue ELSE Last(var_val_stack[w])
  <2>1. calls[Len(calls)].ip > 0 /\ w \in Var /\ calls # <<>>
    BY <1>2, <1>3
  <2>2. Legal(succ, source) /\ WalkOK(succ, source, calls)
        /\ StacksOK(source, phis, calls, H, var_val_stack, B)
    BY <1>0, <1>w
  <2> HIDE DEF n, w, o
  <2>3. /\ var_val_stack[w] \in Seq(Value)
        /\ H[PlaceOf(source, calls[Len(calls)])][w] =
             IF var_val_stack[w] = <<>> THEN NoValue ELSE Last(var_val_stack[w])
    BY ONLY <2>1, <2>2, StackTop
  <2>4. PlaceOf(source, calls[Len(calls)]) = o
    BY <1>2
  <2> QED BY <2>3, <2>4
<1>5. IsLoad(source, o) /\ VarOf(source, o) = w
  BY <1>2 DEF IsLoad, IsDef, VarOf
<1>6. var_val_stack[w] # <<>> => Last(var_val_stack[w]) # NoValue
  <2>1. var_val_stack[w] # <<>> => Last(var_val_stack[w]) \in Value
    <3> DEFINE q == var_val_stack[w]
    <3>1. q \in Seq(Value)
      BY <1>4
    <3> HIDE DEF q
    <3>2. q # <<>> => q[Len(q)] \in Value
      BY <3>1
    <3> QED BY <3>2 DEF q, Last
  <2>2. NoValue \notin Value
    BY DEF NoValue, Value, InstrId
  <2> QED BY <2>1, <2>2
<1>7. Pushes(source, phis, calls, H, var_val_stack, var_val_stack')
  <2>1. \A v \in Var : ~NewDef(source, phis, bb, n, v)
    BY <1>2 DEF NewDef
  <2>2. var_val_stack \in [Var -> Seq(Value)] /\ var_val_stack' = var_val_stack
    BY <1>w, <1>1 DEF StacksOK
  <2>3. \A v \in Var : ~NewDef(source, phis, calls[Len(calls)].bb, calls[Len(calls)].ip, v)
    BY <1>2, <2>1
  <2> QED BY <2>2, <2>3, NoPush
<1>8. KeysOK(source, var_val_stack', keys')
  BY <1>0, <1>1
<1> HIDE DEF n, w, o
<1>9. CASE w \notin keys
  <2> DEFINE t == [Top EXCEPT !.ip = @ + 1]
  <2>1. /\ t \in Frame /\ t.bb = Top.bb /\ t.children = Top.children /\ t.ip = Top.ip + 1
        /\ t.wait_delete = Top.wait_delete
    BY <1>2, <1>3, FrameStep
  <2>2. /\ calls' = [calls EXCEPT ![Len(calls)] = t] /\ pc' = "rename"
        /\ code' = code /\ pairs' = pairs
    BY <1>2, <1>9 DEF RenameLoad, Advance, SetTop, w
  <2> HIDE DEF t
  <2>3. H[o][w] = NoValue
    BY <1>0, <1>2, <1>4, <1>9 DEF KeysOK
  <2>4. Renames(source, calls, H, code, calls', code')
    <3>1. calls'[Len(calls)].wait_delete = calls[Len(calls)].wait_delete
      BY <1>3, <2>1, <2>2
    <3>2. ~Gone(source, H, o[1], o[2])
      BY <1>2, <2>3 DEF Gone, o
    <3>3. <<calls[Len(calls)].bb, calls[Len(calls)].ip>> = o
      BY <1>2 DEF o
    <3> QED BY <1>5, <2>2, <2>3, <3>1, <3>2, <3>3 DEF Renames
  <2>5. Top.ip < Fin(source, bb) /\ t.bb = bb
    BY <1>2, <2>1 DEF bb, n
  <2> QED BY <1>1, <1>2, <1>7, <1>8, <2>1, <2>2, <2>4, <2>5, PassStep
<1>10. CASE w \in keys /\ var_val_stack[w] = <<>>
  <2>1. pc' = "undefined" /\ UNCHANGED <<code, pairs, calls>>
    BY <1>10 DEF RenameLoad, w
  <2>2. StateOK'
    BY <1>0, <1>1, <1>2, <1>3, <1>10, <2>1 DEF StateOK, WalkStates
  <2>3. PassOK(H, B)'
    BY <1>0, <1>1, <2>1, <2>2 DEF PassOK
  <2> QED BY <2>3
<1>11. CASE w \in keys /\ var_val_stack[w] # <<>>
  <2> DEFINE t == [Top EXCEPT !.ip = @ + 1, !.wait_delete = @ \cup {here.id}]
             new == Last(var_val_stack[w])
  <2>1. /\ t \in Frame /\ t.bb = Top.bb /\ t.children = Top.children /\ t.ip = Top.ip + 1
        /\ t.wait_delete = Top.wait_delete \cup {o}
    <3> DEFINE x == here.id
    <3>1. x \in InstrId /\ x = o /\ Top \in Frame
      BY <1>2, <1>3
    <3> HIDE DEF x
    <3>2. LET u == [Top EXCEPT !.ip = @ + 1, !.wait_delete = @ \cup {x}]
          IN  /\ u \in Frame /\ u.bb = Top.bb /\ u.children = Top.children /\ u.ip = Top.ip + 1
              /\ u.wait_delete = Top.wait_delete \cup {x}
      BY ONLY <3>1, FrameStep
    <3> QED BY <3>1, <3>2 DEF x
  <2>2. /\ calls' = [calls EXCEPT ![Len(calls)] = t] /\ pc' = "rename" /\ ReplaceUses(o, new)
    BY <1>2, <1>11 DEF RenameLoad, SetTop, w
  <2>3. H[o][w] = new /\ new # NoValue
    BY <1>4, <1>6, <1>11
  <2> HIDE DEF t, new
  <2>4. pairs' = pairs
    <3>1. n \in Nat /\ ~Passed(succ, source, calls, bb, n) /\ o = <<bb, n>>
      BY <1>2 DEF o
    <3>2. pairs' = [p \in Block \X Var |-> [k \in DOMAIN pairs[p] |->
                  IF pairs[p][k][1] = o THEN <<new, pairs[p][k][2]>> ELSE pairs[p][k]]]
      BY <2>2 DEF ReplaceUses
    <3>3. Legal(succ, source) /\ PhisOK(succ, source, phis) /\ WalkOK(succ, source, calls)
          /\ ReachOK(succ, source, phis, calls, H) /\ PairsOK(succ, source, phis, calls, H, pairs)
      BY <1>0, <1>w
    <3> DEFINE b == bb
    <3>4. n \in Nat /\ ~Passed(succ, source, calls, b, n) /\ o = <<b, n>>
      BY <3>1
    <3> DEFINE pr2 == pairs'
    <3>5. ReplacesPairs(pairs, pr2, o, new)
      BY <3>2 DEF ReplacesPairs
    <3> HIDE DEF b, pr2
    <3>6. pr2 = pairs
      BY ONLY <3>3, <3>4, <3>5, PairsKept
    <3> QED BY <3>6 DEF pr2
  <2>5. Renames(source, calls, H, code, calls', code')
    <3>1. calls'[Len(calls)].wait_delete = calls[Len(calls)].wait_delete \cup {o}
      BY <1>3, <2>1, <2>2
    <3>2. Gone(source, H, o[1], o[2]) /\ o[2] \in DOMAIN source[o[1]]
      <4>1. H[<<bb, n>>][w] # NoValue
        BY <2>3 DEF o
      <4> QED BY <1>2, <4>1 DEF Gone, o
    <3>3. <<calls[Len(calls)].bb, calls[Len(calls)].ip>> = o
      BY <1>2 DEF o
    <3>4. Replaces(code, code', o, H[o][VarOf(source, o)])
      BY <1>5, <2>2, <2>3 DEF ReplaceUses, Replaces
    <3> QED BY <1>5, <2>3, <3>1, <3>2, <3>3, <3>4 DEF Renames
  <2>6. Top.ip < Fin(source, bb) /\ t.bb = bb
    BY <1>2, <2>1 DEF bb, n
  <2> QED BY <1>1, <1>2, <1>7, <1>8, <2>1, <2>2, <2>4, <2>5, <2>6, PassStep
<1> QED BY <1>9, <1>10, <1>11

\* x is the operand of an instruction that is not below the place of activation j.
ReadAt(src, cs, j, b, n, x) ==
  /\ j \in 1..Len(cs) /\ b = cs[j].bb /\ n \in DOMAIN src[b] /\ n <= cs[j].ip
  /\ x = src[b][n].arg /\ x # NoValue

\* A load or call that was executed before the instruction was passed before it.
LEMMA ArgPassed ==
  ASSUME NEW s, NEW src, Legal(s, src), NEW cs, WalkOK(s, src, cs), NEW H,
         NEW j, NEW b, NEW n, NEW x, ReadAt(src, cs, j, b, n, x)
  PROVE  /\ IsDef(src, x) /\ x # NoValue /\ Current(s, src, cs, H, x) = Cur(src, H, x)
         /\ Cur(src, H, x) # NoValue
<1> SUFFICES ASSUME j \in 1..Len(cs), b = cs[j].bb, n \in DOMAIN src[b], n <= cs[j].ip,
                    x = src[b][n].arg, x # NoValue
             PROVE  /\ IsDef(src, x) /\ x # NoValue /\ Current(s, src, cs, H, x) = Cur(src, H, x)
                    /\ Cur(src, H, x) # NoValue
  BY DEF ReadAt
<1>0. b \in Reached(s) /\ b \in Block
  BY LegalFacts DEF WalkOK, Ordered
<1>1. /\ IsDef(src, x) /\ x = <<x[1], x[2]>> /\ x[1] \in Block
      /\ x[2] \in 1..(Fin(src, x[1]) - 1)
      /\ SDom(s, x[1], b) \/ (x[1] = b /\ x[2] < n)
  <2> DEFINE y == src[b][n].arg
  <2>1. y = x /\ y # NoValue /\ Legal(s, src) /\ b \in Reached(s) /\ n \in DOMAIN src[b]
    BY <1>0
  <2>2. /\ IsDef(src, y) /\ y = <<y[1], y[2]>> /\ y[1] \in Block
        /\ y[2] \in 1..(Fin(src, y[1]) - 1)
        /\ SDom(s, y[1], b) \/ (y[1] = b /\ y[2] < n)
    BY ONLY <2>1, ArgIs
  <2> HIDE DEF y
  <2> QED BY <2>1, <2>2
<1>2. Fin(src, x[1]) \in Nat /\ Fin(src, x[1]) >= 1
  BY <1>1, LegalFacts
<1>3. x[2] \in 0..Fin(src, x[1])
  <2> DEFINE k == x[2]
             l == Fin(src, x[1])
  <2>1. k \in 1..(l - 1) /\ l \in Nat
    BY <1>1, <1>2
  <2> HIDE DEF k, l
  <2>2. k \in 0..l
    BY <2>1
  <2> QED BY <2>2 DEF k, l
<1>4. Passed(s, src, cs, x[1], x[2])
  <2>1. CASE SDom(s, x[1], b)
    BY <1>3, <2>1, AbovePath
  <2>2. CASE x[1] = b /\ x[2] < n
    <3>1. DOMAIN src[b] = 1..(Fin(src, b) - 1)
      BY <1>0, LegalFacts
    <3>2. cs[j].ip \in Nat
      <4>1. cs \in Seq(Frame)
        BY DEF WalkOK
      <4>2. cs[j] \in Frame
        BY <4>1
      <4> QED BY <4>2 DEF Frame
    <3>3. x[2] < cs[j].ip
      <4> DEFINE k == x[2]
                 l == cs[j].ip
      <4>1. k \in Nat /\ l \in Nat /\ n \in Nat /\ k < n /\ n <= l
        <5> DEFINE h == Fin(src, b)
        <5>1. h \in Nat /\ n \in 1..(h - 1) /\ k \in 1..(h - 1)
          BY <1>0, <1>1, <1>2, <2>2, <3>1
        <5>2. k < n /\ n <= l /\ l \in Nat
          BY <2>2, <3>2
        <5> HIDE DEF h, k, l
        <5> QED BY <5>1, <5>2
      <4> HIDE DEF k, l
      <4>2. k < l
        BY <4>1
      <4> QED BY <4>2 DEF k, l
    <3> QED BY <1>3, <2>2, <3>3, PassedIs
  <2> QED BY <1>1, <2>1, <2>2
<1>5. Current(s, src, cs, H, x) = Cur(src, H, x)
  BY <1>4 DEF Current, Cur
<1> QED BY <1>1, <1>5 DEF Cur

\* RenameStore: what is stored is the newest definition.
LEMMA StoreRenamed ==
  ASSUME NEW H, NEW B, PassOK(H, B), RenameStore, UNCHANGED source
  PROVE  \E H2, B2 : PassOK(H2, B2)'
<1> DEFINE n == Top.ip
           w == here.var
           o == <<bb, n>>
           a == here.arg
<1>0. /\ Legal(succ, source) /\ StateOK /\ PhisOK(succ, source, phis)
      /\ KeysOK(source, var_val_stack, keys)
      /\ WalkOK(succ, source, calls) /\ StacksOK(source, phis, calls, H, var_val_stack, B)
  BY DEF PassOK, WalkParts
<1>1. AtInstr("store") /\ UNCHANGED <<succ, phis, code, pc, pairs>>
  BY DEF RenameStore, place
<1>2. /\ pc = "rename" /\ n \in Nat /\ n # 0 /\ n \in DOMAIN source[bb] /\ n < Fin(source, bb)
      /\ here.id = o /\ o \in InstrId /\ here \in Instr
      /\ source[bb][n].op = "store" /\ source[bb][n].var = w /\ w \in Var
      /\ calls[Len(calls)].bb = bb /\ calls[Len(calls)].ip = n
      /\ UsedIn(source, w) /\ a = Current(succ, source, calls, H, source[bb][n].arg)
  <2> DEFINE op == "store"
  <2>1. AtInstr(op) /\ op \in {"load", "store"} /\ op = "store"
    BY <1>1
  <2> HIDE DEF op
  <2> QED BY <2>1, HereFacts
<1>3. /\ calls # <<>> /\ calls \in Seq(Frame) /\ Top = calls[Len(calls)] /\ Top \in Frame
      /\ Len(calls) \in 1..Len(calls) /\ bb \in Block
  BY <1>2, TopFacts
<1>4. a = Cur(source, H, source[bb][n].arg) /\ a \in Value
  <2> DEFINE x == source[bb][n].arg
             j == Len(calls)
  <2>1. x # NoValue /\ a = Current(succ, source, calls, H, x)
    BY <1>0, <1>2, <1>3 DEF Legal
  <2>2. j \in 1..Len(calls) /\ bb = calls[j].bb /\ n <= calls[j].ip /\ n \in DOMAIN source[bb]
    BY <1>2, <1>3
  <2>3. x = source[bb][n].arg
    OBVIOUS
  <2>4. a \in Value \cup {NoValue}
    BY <1>2 DEF Instr
  <2> DEFINE b == bb
  <2>6. Legal(succ, source) /\ WalkOK(succ, source, calls) /\ ReadAt(source, calls, j, b, n, x)
    BY <1>0, <2>1, <2>2, <2>3 DEF ReadAt
  <2> HIDE DEF x, j, n, a, b
  <2>5. Current(succ, source, calls, H, x) = Cur(source, H, x) /\ Cur(source, H, x) # NoValue
    BY ONLY <2>6, ArgPassed
  <2> QED BY <2>1, <2>3, <2>4, <2>5
<1> DEFINE t == [Top EXCEPT !.ip = @ + 1, !.wait_delete = @ \cup {here.id}]
<1>5. /\ calls' = [calls EXCEPT ![Len(calls)] = t] /\ pc' = "rename"
      /\ keys' = keys \cup {w} /\ var_val_stack' = [var_val_stack EXCEPT ![w] = Append(@, a)]
  BY <1>1, <1>2 DEF RenameStore, SetTop, Push
<1>6. /\ t \in Frame /\ t.bb = Top.bb /\ t.children = Top.children /\ t.ip = Top.ip + 1
      /\ t.wait_delete = Top.wait_delete \cup {o}
  <2> DEFINE x == here.id
  <2>1. x \in InstrId /\ x = o /\ Top \in Frame
    BY <1>2, <1>3
  <2> HIDE DEF x
  <2>2. LET u == [Top EXCEPT !.ip = @ + 1, !.wait_delete = @ \cup {x}]
        IN  /\ u \in Frame /\ u.bb = Top.bb /\ u.children = Top.children /\ u.ip = Top.ip + 1
            /\ u.wait_delete = Top.wait_delete \cup {x}
    BY ONLY <2>1, FrameStep
  <2> QED BY <2>1, <2>2 DEF x
<1> HIDE DEF t, a
<1>7. Renames(source, calls, H, code, calls', code')
  <2>1. calls'[Len(calls)].wait_delete = calls[Len(calls)].wait_delete \cup {o}
    BY <1>3, <1>5, <1>6
  <2>2. Gone(source, H, o[1], o[2]) /\ o[2] \in DOMAIN source[o[1]]
    BY <1>2 DEF Gone
  <2>3. <<calls[Len(calls)].bb, calls[Len(calls)].ip>> = o
    BY <1>2
  <2>4. ~IsLoad(source, o)
    BY <1>2 DEF IsLoad
  <2> HIDE DEF o
  <2> QED BY <1>1, <2>1, <2>2, <2>3, <2>4 DEF Renames
<1>8. Pushes(source, phis, calls, H, var_val_stack, var_val_stack')
  <2>1. \A v \in Var : NewDef(source, phis, bb, n, v) <=> v = w
    BY <1>2 DEF NewDef
  <2>2. \A v \in Var : NewVal(source, H, bb, n, v) = a
    BY <1>2, <1>4 DEF NewVal
  <2>3. var_val_stack \in [Var -> Seq(Value)]
    BY <1>0 DEF StacksOK
  <2> HIDE DEF w, n
  <2>4. var_val_stack' = [v \in Var |-> IF v = w THEN Append(var_val_stack[v], a)
                                                 ELSE var_val_stack[v]]
    BY <1>5, <2>3
  <2>5. var_val_stack' = [v \in Var |-> IF NewDef(source, phis, bb, n, v)
            THEN Append(var_val_stack[v], NewVal(source, H, bb, n, v)) ELSE var_val_stack[v]]
    BY <2>1, <2>2, <2>4
  <2>6. calls[Len(calls)].bb = bb /\ calls[Len(calls)].ip = n
    BY <1>2
  <2> QED BY <1>4, <2>2, <2>5, <2>6 DEF Pushes
<1>9. KeysOK(source, var_val_stack', keys')
  <2>1. \A v \in Var : v # w => var_val_stack'[v] = var_val_stack[v]
    BY <1>0, <1>5 DEF StacksOK
  <2> QED BY <1>0, <1>2, <1>5, <2>1 DEF KeysOK
<1>10. Top.ip < Fin(source, bb) /\ t.bb = bb
  BY <1>2, <1>6 DEF bb
<1> QED BY <1>1, <1>2, <1>5, <1>6, <1>7, <1>8, <1>9, <1>10, PassStep

\* PassInstr changes nothing that is known.
LEMMA InstrPassed ==
  ASSUME NEW H, NEW B, PassOK(H, B), PassInstr, UNCHANGED source
  PROVE  \E H2, B2 : PassOK(H2, B2)'
<1> DEFINE n == Top.ip
           o == <<bb, n>>
<1>0. /\ Legal(succ, source) /\ KeysOK(source, var_val_stack, keys)
      /\ StacksOK(source, phis, calls, H, var_val_stack, B)
  BY DEF PassOK, WalkParts
<1>1. UNCHANGED <<succ, phis, code, pc, pairs, keys, var_val_stack>>
  BY DEF PassInstr, place
<1>2. /\ pc = "rename" /\ n \in DOMAIN source[bb] /\ n # 0 /\ n < Fin(source, bb)
      /\ source[bb][n].op \in {"call", "use"} /\ o \in InstrId
      /\ calls[Len(calls)].bb = bb /\ calls[Len(calls)].ip = n
  <2> SUFFICES ASSUME NEW op, op \in {"call", "use"}, AtInstr(op)
               PROVE  /\ pc = "rename" /\ n \in DOMAIN source[bb] /\ n # 0 /\ n < Fin(source, bb)
                      /\ source[bb][n].op \in {"call", "use"} /\ o \in InstrId
                      /\ calls[Len(calls)].bb = bb /\ calls[Len(calls)].ip = n
    BY DEF PassInstr
  <2> QED BY HereFacts
<1>3. /\ calls # <<>> /\ calls \in Seq(Frame) /\ Top = calls[Len(calls)] /\ Top \in Frame
      /\ Len(calls) \in 1..Len(calls) /\ bb \in Block
  BY <1>2, TopFacts
<1> DEFINE t == [Top EXCEPT !.ip = @ + 1]
<1>4. calls' = [calls EXCEPT ![Len(calls)] = t] /\ pc' = "rename"
  BY <1>1, <1>2 DEF PassInstr, SetTop, Advance
<1>5. /\ t \in Frame /\ t.bb = Top.bb /\ t.children = Top.children /\ t.ip = Top.ip + 1
      /\ t.wait_delete = Top.wait_delete
  BY <1>2, <1>3, FrameStep
<1> HIDE DEF t
<1>6. Renames(source, calls, H, code, calls', code')
  <2>1. calls'[Len(calls)].wait_delete = calls[Len(calls)].wait_delete
    BY <1>3, <1>4, <1>5
  <2>2. ~Gone(source, H, o[1], o[2]) /\ ~IsLoad(source, o)
    BY <1>2 DEF Gone, IsLoad
  <2>3. <<calls[Len(calls)].bb, calls[Len(calls)].ip>> = o
    BY <1>2
  <2> HIDE DEF o
  <2> QED BY <1>1, <2>1, <2>2, <2>3 DEF Renames
<1>7. Pushes(source, phis, calls, H, var_val_stack, var_val_stack')
  <2>1. \A v \in Var : ~NewDef(source, phis, bb, n, v)
    BY <1>2 DEF NewDef
  <2>2. var_val_stack \in [Var -> Seq(Value)] /\ var_val_stack' = var_val_stack
    BY <1>0, <1>1 DEF StacksOK
  <2>3. \A v \in Var : ~NewDef(source, phis, calls[Len(calls)].bb, calls[Len(calls)].ip, v)
    BY <1>2, <2>1
  <2> QED BY <2>2, <2>3, NoPush
<1>8. KeysOK(source, var_val_stack', keys')
  BY <1>0, <1>1
<1>9. Top.ip < Fin(source, bb) /\ t.bb = bb
  BY <1>2, <1>5 DEF bb
<1> QED BY <1>1, <1>2, <1>4, <1>5, <1>6, <1>7, <1>8, <1>9, PassStep

\* The top of a stack is what reaches the place re_name is at.
LEMMA StackHere ==
  ASSUME NEW H, NEW B, PassOK(H, B), pc = "rename", Top.ip # 0, Top.ip <= Fin(source, bb),
         NEW v \in Var
  PROVE  /\ var_val_stack[v] \in Seq(Value)
         /\ H[<<bb, Top.ip>>][v] =
              IF var_val_stack[v] = <<>> THEN NoValue ELSE Last(var_val_stack[v])
         /\ H[<<bb, Top.ip>>][v] = NoValue <=> var_val_stack[v] = <<>>
<1>0. Legal(succ, source) /\ WalkOK(succ, source, calls)
      /\ StacksOK(source, phis, calls, H, var_val_stack, B)
  BY DEF PassOK, WalkParts
<1>1. /\ calls # <<>> /\ Top = calls[Len(calls)] /\ bb = calls[Len(calls)].bb
      /\ Top.ip \in 0..(Fin(source, bb) + 1) /\ Fin(source, bb) \in Nat
  BY TopFacts
<1>2. calls[Len(calls)].ip > 0
  BY <1>1
<1>3. /\ var_val_stack[v] \in Seq(Value)
      /\ H[PlaceOf(source, calls[Len(calls)])][v] =
           IF var_val_stack[v] = <<>> THEN NoValue ELSE Last(var_val_stack[v])
  <2>1. v \in Var /\ calls # <<>>
    BY <1>1
  <2> QED BY ONLY <1>0, <1>2, <2>1, StackTop
<1>4. PlaceOf(source, calls[Len(calls)]) = <<bb, Top.ip>>
  BY <1>1 DEF PlaceOf
<1>5. var_val_stack[v] # <<>> => Last(var_val_stack[v]) # NoValue
  <2> DEFINE q == var_val_stack[v]
  <2>1. q \in Seq(Value)
    BY <1>3
  <2> HIDE DEF q
  <2>2. q # <<>> => q[Len(q)] \in Value
    BY <2>1
  <2>3. NoValue \notin Value
    BY DEF NoValue, Value, InstrId
  <2> QED BY <2>2, <2>3 DEF q, Last
<1> QED BY <1>3, <1>4, <1>5

\* FillSuccessors: each phi gets what reaches the end of the block.
LEMMA SuccessorsFilled ==
  ASSUME NEW H, NEW B, PassOK(H, B), FillSuccessors, UNCHANGED source
  PROVE  \E H2, B2 : PassOK(H2, B2)'
<1> DEFINE l == Fin(source, bb)
           o == <<bb, l>>
           F == filled
<1>0. /\ Legal(succ, source) /\ StateOK /\ PhisOK(succ, source, phis)
      /\ KeysOK(source, var_val_stack, keys)
      /\ WalkParts(succ, source, phis, calls, H, var_val_stack, B, code, pairs)
  BY DEF PassOK
<1>w. /\ WalkOK(succ, source, calls) /\ PairsOK(succ, source, phis, calls, H, pairs)
      /\ StacksOK(source, phis, calls, H, var_val_stack, B)
      /\ H \in [Block \X Nat -> [Var -> Value \cup {NoValue}]]
  BY <1>0 DEF WalkParts, ReachOK
<1>1. UNCHANGED <<succ, code, phis, keys, var_val_stack>> /\ pc = "rename"
  BY DEF FillSuccessors
<1>2. /\ calls # <<>> /\ calls \in Seq(Frame) /\ Top = calls[Len(calls)] /\ Top \in Frame
      /\ Len(calls) \in 1..Len(calls) /\ bb \in Block /\ bb = calls[Len(calls)].bb
      /\ l \in Nat /\ l >= 1 /\ DOMAIN source[bb] = 1..(l - 1) /\ Top.ip = l
  BY <1>1, TopFacts DEF FillSuccessors
<1>3. \A p \in F : p \in phis /\ p \in Block \X Var /\ UsedIn(source, p[2]) /\ p[2] \in keys
                   /\ p[1] \in ToSet(succ[bb])
  BY <1>0 DEF filled, PhisOK
<1>4. \A v \in Var : /\ H[o][v] = IF var_val_stack[v] = <<>> THEN NoValue
                                                             ELSE Last(var_val_stack[v])
                     /\ H[o][v] = NoValue <=> var_val_stack[v] = <<>>
  <2> SUFFICES ASSUME NEW v \in Var
               PROVE  /\ H[o][v] = IF var_val_stack[v] = <<>> THEN NoValue
                                                              ELSE Last(var_val_stack[v])
                      /\ H[o][v] = NoValue <=> var_val_stack[v] = <<>>
    OBVIOUS
  <2>1. Top.ip # 0 /\ Top.ip <= Fin(source, bb) /\ v \in Var /\ PassOK(H, B) /\ o = <<bb, Top.ip>>
    BY <1>2
  <2> HIDE DEF o
  <2>2. /\ H[<<bb, Top.ip>>][v] =
             IF var_val_stack[v] = <<>> THEN NoValue ELSE Last(var_val_stack[v])
        /\ H[<<bb, Top.ip>>][v] = NoValue <=> var_val_stack[v] = <<>>
    BY ONLY <1>1, <2>1, StackHere
  <2> QED BY <2>1, <2>2
<1>5. CASE \E p \in F : var_val_stack[p[2]] = <<>>
  <2>1. pc' = "assert_failed" /\ UNCHANGED <<pairs, calls>>
    BY <1>5 DEF FillSuccessors
  <2>2. \E v \in Var : UsedIn(source, v) /\ var_val_stack[v] = <<>>
    BY <1>3, <1>5
  <2>3. StateOK'
    BY <1>0, <1>1, <1>2, <2>1, <2>2 DEF StateOK, WalkStates
  <2>4. PassOK(H, B)'
    BY <1>0, <1>1, <2>1, <2>3 DEF PassOK
  <2> QED BY <2>4
<1>6. CASE ~\E p \in F : var_val_stack[p[2]] = <<>>
  <2> DEFINE t == [Top EXCEPT !.ip = @ + 1]
  <2>1. /\ calls' = [calls EXCEPT ![Len(calls)] = t] /\ pc' = "rename"
        /\ pairs' = [p \in Block \X Var |->
                         IF p \in F THEN Append(pairs[p], <<Last(var_val_stack[p[2]]), bb>>)
                                    ELSE pairs[p]]
    BY <1>1, <1>6 DEF FillSuccessors, SetTop, Advance
  <2>2. /\ t \in Frame /\ t.bb = Top.bb /\ t.children = Top.children /\ t.ip = Top.ip + 1
        /\ t.wait_delete = Top.wait_delete
    <3>1. <<Entry, 0>> \in InstrId
      BY NAssumption DEF InstrId, Block, Entry
    <3> QED BY <1>2, <3>1, FrameStep
  <2> HIDE DEF t, F
  <2>3. Advances(source, calls, calls') /\ calls' # <<>>
    <3>1. Top.ip <= Fin(source, bb) /\ t.bb = bb
      BY <1>2, <2>2
    <3> QED BY <1>1, <3>1, <1>2, <2>1, <2>2, TopMoves
  <2>4. Renames(source, calls, H, code, calls', code')
    <3>1. calls'[Len(calls)].wait_delete = calls[Len(calls)].wait_delete
      BY <1>2, <2>1, <2>2
    <3>2. o[2] \notin DOMAIN source[o[1]] /\ ~IsLoad(source, o)
      BY <1>2 DEF IsLoad, IsDef
    <3>3. <<calls[Len(calls)].bb, calls[Len(calls)].ip>> = o
      BY <1>2
    <3> HIDE DEF o
    <3> QED BY <1>1, <3>1, <3>2, <3>3 DEF Renames
  <2>5. Pushes(source, phis, calls, H, var_val_stack, var_val_stack')
    <3>1. l # 0 /\ l \notin DOMAIN source[bb]
      BY <1>2
    <3>2. \A v \in Var : ~NewDef(source, phis, bb, l, v)
      BY <3>1 DEF NewDef
    <3>3. var_val_stack \in [Var -> Seq(Value)] /\ var_val_stack' = var_val_stack
      BY <1>w, <1>1 DEF StacksOK
    <3>4. \A v \in Var : ~NewDef(source, phis, calls[Len(calls)].bb, calls[Len(calls)].ip, v)
      BY <1>2, <3>2
    <3> QED BY <3>3, <3>4, NoPush
  <2>6. PICK B2 :
          /\ WalkOK(succ, source, calls') /\ ReachOK(succ, source, phis, calls', H)
          /\ StacksOK(source, phis, calls', H, var_val_stack', B2)
          /\ CodeOK(succ, source, calls', code', H)
    <3> DEFINE x == o
    <3>1. x = <<calls[Len(calls)].bb, calls[Len(calls)].ip>> /\ x[2] = Fin(source, x[1])
      BY <1>2
    <3> HIDE DEF x
    <3>2. PICK H2, B2 :
            /\ WalkOK(succ, source, calls') /\ ReachOK(succ, source, phis, calls', H2)
            /\ StacksOK(source, phis, calls', H2, var_val_stack', B2)
            /\ CodeOK(succ, source, calls', code', H2)
            /\ IF x[2] = Fin(source, x[1]) THEN H2 = H
               ELSE PairsOK(succ, source, phis, calls', H2, pairs)
      BY <1>0, <2>3, <2>4, <2>5, <3>1, PartsAdvance
    <3> QED BY <3>1, <3>2
  <2>7. PairsOK(succ, source, phis, calls', H, pairs')
    <3>1. \A y \in Block : \A v \in Var : <<y, v>> \in F <=>
            <<y, v>> \in phis /\ y \in ToSet(succ[bb]) /\ H[o][v] # NoValue
      <4> SUFFICES ASSUME NEW y \in Block, NEW v \in Var
                   PROVE  <<y, v>> \in F <=>
                            <<y, v>> \in phis /\ y \in ToSet(succ[bb]) /\ H[o][v] # NoValue
        OBVIOUS
      <4>1. <<y, v>> \in F => H[o][v] # NoValue
        BY <1>4, <1>6
      <4>2. H[o][v] # NoValue => v \in keys
        BY <1>0, <1>4 DEF KeysOK
      <4>3. <<y, v>> \in F <=> <<y, v>> \in phis /\ y \in ToSet(succ[bb]) /\ v \in keys
        BY DEF filled, F
      <4> QED BY <4>1, <4>2, <4>3
    <3>2. \A p \in F : p \in Block \X Var /\ Last(var_val_stack[p[2]]) = H[o][p[2]]
      BY <1>3, <1>4, <1>6 DEF F
    <3>3. pairs' = [p \in Block \X Var |->
                         IF p \in F THEN Append(pairs[p], <<H[o][p[2]], bb>>) ELSE pairs[p]]
      BY <2>1, <3>2
    <3> DEFINE b == bb
               pr2 == pairs'
               cs2 == calls'
    <3>4. b = calls[Len(calls)].bb /\ calls[Len(calls)].ip = Fin(source, b)
          /\ Advances(source, calls, cs2)
      BY <1>2, <2>3
    <3>5. \A y \in Block : \A v \in Var : <<y, v>> \in F <=>
            <<y, v>> \in phis /\ y \in ToSet(succ[b]) /\ H[<<b, Fin(source, b)>>][v] # NoValue
      BY <3>1
    <3>6. pr2 = [p \in Block \X Var |->
            IF p \in F THEN Append(pairs[p], <<H[<<b, Fin(source, b)>>][p[2]], b>>) ELSE pairs[p]]
      BY <3>3
    <3>7. Fills(source, phis, succ, H, b, F, pairs, pr2)
      BY <3>5, <3>6 DEF Fills
    <3> HIDE DEF b, pr2, cs2
    <3>8. PairsOK(succ, source, phis, cs2, H, pr2)
      BY <1>0, <1>w, <3>4, <3>7, PairsFill
    <3> QED BY <3>8 DEF cs2, pr2
  <2>8. WalkParts(succ, source, phis, calls', H, var_val_stack', B2, code', pairs')
    BY <2>6, <2>7 DEF WalkParts
  <2>9. StateOK'
    BY <2>1, <2>3 DEF StateOK, WalkStates
  <2>10. PassOK(H, B2)'
    BY <1>0, <1>1, <2>8, <2>9 DEF PassOK
  <2> QED BY <2>10
<1> QED BY <1>5, <1>6

\* A call added on an activation that was changed.
LEMMA CallAdded ==
  ASSUME NEW cs \in Seq(Frame), cs # <<>>, NEW u \in Frame, NEW f \in Frame,
         NEW cs2, cs2 = Append([cs EXCEPT ![Len(cs)] = u], f)
  PROVE  /\ cs2 \in Seq(Frame) /\ Len(cs2) = Len(cs) + 1
         /\ \A j \in 1..(Len(cs) - 1) : cs2[j] = cs[j]
         /\ cs2[Len(cs)] = u /\ cs2[Len(cs) + 1] = f
<1> DEFINE m == Len(cs)
           g == [cs EXCEPT ![m] = u]
           F == Frame
<1>1. m \in Nat /\ m # 0 /\ m \in DOMAIN cs /\ DOMAIN cs = 1..m
  OBVIOUS
<1>2. DOMAIN g = 1..m /\ g[m] = u /\ \A j \in 1..m : j # m => g[j] = cs[j]
  BY <1>1
<1>3. \A j \in 1..m : g[j] \in F
  <2>1. \A j \in DOMAIN cs : cs[j] \in F
    OBVIOUS
  <2> QED BY <1>1, <1>2, <2>1
<1>4. g = [j \in 1..m |-> g[j]]
  BY <1>1
<1>5. m \in Nat /\ f \in F
  BY <1>1
<1>6. cs2 = Append(g, f)
  OBVIOUS
<1> HIDE DEF m, F, g
<1>7. g \in [1..m -> F]
  BY <1>3, <1>4
<1>8. g \in Seq(F) /\ Len(g) = m
  BY ONLY <1>5, <1>7
<1>9. cs2 \in Seq(F) /\ Len(cs2) = m + 1 /\ cs2[m + 1] = f /\ \A j \in 1..m : cs2[j] = g[j]
  <2>1. g \in Seq(F) /\ f \in F /\ m \in Nat /\ Len(g) = m
    BY <1>5, <1>8
  <2>2. Append(g, f) \in Seq(F)
    BY ONLY <2>1
  <2>3. Len(Append(g, f)) = m + 1 /\ Append(g, f)[m + 1] = f
    BY ONLY <2>1
  <2>4. \A j \in 1..m : Append(g, f)[j] = g[j]
    BY ONLY <2>1
  <2> QED BY <1>6, <2>2, <2>3, <2>4
<1>10. m \in 1..m /\ \A j \in 1..(m - 1) : j \in 1..m /\ j # m
  BY <1>1
<1> QED BY <1>2, <1>9, <1>10 DEF F, m

\* Descend takes a child that was not taken.
LEMMA ChildDescended ==
  ASSUME NEW H, NEW B, PassOK(H, B), Descend, UNCHANGED source
  PROVE  \E H2, B2 : PassOK(H2, B2)'
<1> DEFINE m == Len(calls)
<1>0. /\ Legal(succ, source) /\ StateOK /\ PhisOK(succ, source, phis)
      /\ KeysOK(source, var_val_stack, keys)
      /\ WalkOK(succ, source, calls) /\ ReachOK(succ, source, phis, calls, H)
      /\ StacksOK(source, phis, calls, H, var_val_stack, B)
      /\ CodeOK(succ, source, calls, code, H) /\ PairsOK(succ, source, phis, calls, H, pairs)
  BY DEF PassOK, WalkParts
<1>1. /\ UNCHANGED <<succ, code, pc, phis, pairs, keys, var_val_stack>> /\ pc = "rename"
      /\ Top.ip = Len(code[bb]) + 2
  BY DEF Descend, place
<1>2. /\ calls # <<>> /\ calls \in Seq(Frame) /\ Top = calls[m] /\ Top \in Frame /\ m \in 1..m
      /\ bb \in Block /\ bb = calls[m].bb /\ Fin(source, bb) \in Nat
      /\ Top.ip = Fin(source, bb) + 1
  <2>1. Len(code[bb]) \in Nat /\ Len(code[bb]) + 1 = Fin(source, bb)
    BY <1>1, TopFacts
  <2> QED BY <1>1, <2>1, TopFacts
<1>3. PICK c \in Top.children :
        calls' = Append([calls EXCEPT ![m].children = @ \ {c}], Enter(c))
  BY DEF Descend
<1> DEFINE u == [Top EXCEPT !.children = @ \ {c}]
           f == Enter(c)
           cs2 == calls'
<1>4. cs2 = Append([calls EXCEPT ![m] = u], f)
  BY <1>2, <1>3
<1>5. c \in Kids(succ, bb)
  BY <1>0, <1>2, <1>3 DEF WalkOK
<1>6. u \in Frame /\ u.bb = Top.bb /\ u.ip = Top.ip /\ u.wait_delete = Top.wait_delete
      /\ u.children = Top.children \ {c}
  BY <1>2 DEF Frame
<1>7. f \in Frame /\ f.bb = c /\ f.ip = 0 /\ f.children = Kids(succ, c) /\ f.wait_delete = {}
  <2>1. Children(c) = Kids(succ, c)
    BY DEF Children, Kids
  <2>2. Kids(succ, c) \subseteq Block /\ c \in Block
    <3>1. succ \in [Block -> Target] /\ Ordered(succ) /\ bb \in Reached(succ)
      BY <1>0, <1>1, LegalFacts, TopFacts
    <3>2. c \in Reached(succ) /\ \A b \in Reached(succ) : Kids(succ, b) \subseteq Reached(succ)
      BY <1>5, <3>1, KidsAre
    <3> QED BY <3>1, <3>2 DEF Ordered
  <2> QED BY <2>1, <2>2 DEF Frame, Enter
<1> HIDE DEF u, f, cs2
<1>8. /\ cs2 \in Seq(Frame) /\ Len(cs2) = m + 1 /\ \A j \in 1..(m - 1) : cs2[j] = calls[j]
      /\ cs2[m] = u /\ cs2[m + 1] = f
  BY <1>2, <1>4, <1>6, <1>7, CallAdded
<1>9. Descends(succ, calls, cs2, c)
  BY <1>2, <1>3, <1>6, <1>7, <1>8 DEF Descends
<1>10. calls[m].ip = Fin(source, calls[m].bb) + 1
  BY <1>2
<1>11. /\ WalkOK(succ, source, cs2)
       /\ \A b \in Block : \A n : Passed(succ, source, cs2, b, n) <=> Passed(succ, source, calls, b, n)
  BY <1>0, <1>9, <1>10, WalkDescends
<1>12. ReachOK(succ, source, phis, cs2, H) /\ PairsOK(succ, source, phis, cs2, H, pairs)
  BY <1>0, <1>11, SamePassed
<1>13. PICK B2 : StacksOK(source, phis, cs2, H, var_val_stack, B2)
  BY <1>0, <1>9, StacksDescends
<1>14. CodeOK(succ, source, cs2, code, H)
  BY <1>0, <1>9, <1>10, CodeDescends
<1>15. WalkParts(succ, source, phis, cs2, H, var_val_stack, B2, code, pairs)
  BY <1>11, <1>12, <1>13, <1>14 DEF WalkParts
<1>16. calls' # <<>>
  <2>1. Len(cs2) = m + 1 /\ m \in Nat
    BY <1>2, <1>8
  <2>2. cs2 # <<>>
    BY <2>1
  <2> QED BY <2>2 DEF cs2
<1>17. StateOK'
  BY <1>1, <1>16 DEF StateOK, WalkStates
<1>18. PassOK(H, B2)'
  BY <1>0, <1>1, <1>15, <1>17 DEF PassOK, cs2
<1> QED BY <1>18

\* What Leave pops is what the block pushed.
LEMMA PushedIs ==
  ASSUME NEW H, NEW B, PassOK(H, B), pc = "rename", Top.ip = Fin(source, bb) + 1, NEW v \in Var
  PROVE  Pushed(v) = Defs(source, phis, Top, v) /\ Pushed(v) \in Nat
<1> DEFINE l == Fin(source, bb)
           S == {n \in DOMAIN code[bb] : code[bb][n].op = "store" /\ code[bb][n].var = v}
<1>1. /\ l \in Nat /\ l >= 1 /\ DOMAIN source[bb] = 1..(l - 1) /\ DOMAIN code[bb] = 1..(l - 1)
      /\ bb \in Block /\ Top.ip - 1 = l /\ Top.ip > 0 /\ Top.bb = bb
      /\ \A n \in DOMAIN source[bb] : code[bb][n].op = source[bb][n].op
                                      /\ code[bb][n].var = source[bb][n].var
  BY TopFacts DEF bb
<1>2. S = StoresBefore(source, bb, Top.ip, v)
  <2>1. \A n \in DOMAIN source[bb] : n \in 1..l
    BY <1>1
  <2> QED BY <1>1, <2>1 DEF StoresBefore
<1>3. v \in PhiVars(bb) <=> <<bb, v>> \in phis
  BY DEF PhiVars
<1>4. Cardinality(S) \in Nat
  <2>1. IsFiniteSet(1..(l - 1)) /\ S \subseteq 1..(l - 1)
    BY <1>1, FS_Interval
  <2> QED BY <2>1, FS_Subset, FS_CardinalityType
<1> DEFINE k == Cardinality(S)
           e == IF <<bb, v>> \in phis THEN 1 ELSE 0
<1>5. Pushed(v) = k + e
  BY <1>3 DEF Pushed
<1>6. Defs(source, phis, Top, v) = e + k
  BY <1>1, <1>2 DEF Defs
<1>7. e \in Nat
  OBVIOUS
<1> HIDE DEF k, e
<1> QED BY <1>4, <1>5, <1>6, <1>7 DEF k

\* A sequence without its last element.
LEMMA FrontIs ==
  ASSUME NEW cs \in Seq(Frame), cs # <<>>, NEW cs2, cs2 = Front(cs)
  PROVE  /\ cs2 \in Seq(Frame) /\ Len(cs2) = Len(cs) - 1
         /\ \A j \in 1..(Len(cs) - 1) : cs2[j] = cs[j]
         /\ cs2 = <<>> <=> Len(cs) = 1
<1> DEFINE F == Frame
           m == Len(cs)
<1>1. m \in Nat /\ m >= 1 /\ cs \in Seq(F)
  OBVIOUS
<1>2. cs2 = SubSeq(cs, 1, m - 1)
  BY DEF Front
<1> HIDE DEF F
<1>3. cs2 \in Seq(F) /\ Len(cs2) = m - 1 /\ \A j \in 1..(m - 1) : cs2[j] = cs[j]
  <2> DEFINE k == m - 1
  <2>1. k \in Nat /\ k <= Len(cs) /\ cs2 = SubSeq(cs, 1, k)
    BY <1>1, <1>2
  <2> HIDE DEF k
  <2>2. \A j \in 1..k : cs[j] \in F
    BY <1>1, <2>1
  <2>3. Len(cs2) = k /\ \A j \in 1..k : cs2[j] = cs[j]
    BY ONLY <1>1, <2>1
  <2>4. cs2 = [j \in 1..k |-> cs[j]]
    BY ONLY <1>1, <2>1
  <2>5. cs2 \in Seq(F)
    BY ONLY <2>1, <2>2, <2>4
  <2> QED BY <2>3, <2>5 DEF k
<1>4. cs2 = <<>> <=> Len(cs2) = 0
  BY <1>3
<1> HIDE DEF m
<1> QED BY <1>1, <1>3, <1>4 DEF F, m

\* Leave returns to the caller, whose stacks are what they were.
LEMMA BlockLeft ==
  ASSUME NEW H, NEW B, PassOK(H, B), Leave, UNCHANGED source
  PROVE  \E H2, B2 : PassOK(H2, B2)'
<1> DEFINE m == Len(calls)
           b0 == bb
           cs2 == calls'
           cd2 == code'
           st2 == var_val_stack'
<1>0. /\ Legal(succ, source) /\ StateOK /\ PhisOK(succ, source, phis)
      /\ KeysOK(source, var_val_stack, keys)
      /\ WalkOK(succ, source, calls) /\ ReachOK(succ, source, phis, calls, H)
      /\ StacksOK(source, phis, calls, H, var_val_stack, B)
      /\ CodeOK(succ, source, calls, code, H) /\ PairsOK(succ, source, phis, calls, H, pairs)
  BY DEF PassOK, WalkParts
<1>1. /\ UNCHANGED <<succ, phis, pairs, keys>> /\ pc = "rename"
      /\ Top.ip = Len(code[bb]) + 2 /\ Top.children = {} /\ calls' = Front(calls)
      /\ code' = [code EXCEPT ![bb] = Restrict(@, {n \in DOMAIN @ : @[n].id \notin Top.wait_delete})]
      /\ pc' = IF Len(calls) = 1 THEN "remove" ELSE pc
      /\ var_val_stack' = [v \in Var |->
           SubSeq(var_val_stack[v], 1, Len(var_val_stack[v]) - Pushed(v))]
  BY DEF Leave, place
<1>2. /\ calls # <<>> /\ calls \in Seq(Frame) /\ Top = calls[m] /\ Top \in Frame /\ m \in 1..m
      /\ b0 \in Block /\ b0 = calls[m].bb /\ Fin(source, bb) \in Nat
      /\ Top.ip = Fin(source, bb) + 1
  <2>1. Len(code[bb]) \in Nat /\ Len(code[bb]) + 1 = Fin(source, bb)
    BY <1>1, TopFacts
  <2> QED BY <1>1, <2>1, TopFacts
<1>3. \A v \in Var : Pushed(v) = Defs(source, phis, calls[m], v) /\ Pushed(v) \in Nat
  BY <1>1, <1>2, PushedIs
<1>4. st2 = [v \in Var |->
        SubSeq(var_val_stack[v], 1, Len(var_val_stack[v]) - Defs(source, phis, calls[m], v))]
  BY <1>1, <1>3
<1>5. /\ cd2[b0] = Restrict(code[b0], {n \in DOMAIN code[b0] : code[b0][n].id \notin calls[m].wait_delete})
      /\ \A b \in Block : b # b0 => cd2[b] = code[b]
      /\ DOMAIN cd2 = Block
  <2>1. DOMAIN code = Block
    BY <1>0 DEF CodeOK
  <2> QED BY <1>1, <1>2, <2>1
<1>6. cs2 = Front(calls)
  BY <1>1
<1> HIDE DEF b0, cs2, cd2, st2
<1>7. /\ cs2 \in Seq(Frame) /\ Len(cs2) = Len(calls) - 1
      /\ \A j \in 1..(Len(calls) - 1) : cs2[j] = calls[j]
      /\ cs2 = <<>> <=> Len(calls) = 1
  BY <1>2, <1>6, FrontIs
<1>8. Leaves(calls, cs2)
  <2>1. calls[Len(calls)].children = {} /\ calls # <<>>
    BY <1>1, <1>2
  <2>2. /\ cs2 \in Seq(Frame) /\ Len(cs2) = Len(calls) - 1
        /\ \A j \in 1..(Len(calls) - 1) : cs2[j] = calls[j]
    BY <1>7
  <2> QED BY ONLY <2>1, <2>2 DEF Leaves
<1>9. calls[m].ip = Fin(source, calls[m].bb) + 1
  BY <1>2 DEF b0
<1>10. /\ WalkOK(succ, source, cs2)
       /\ \A b \in Block : \A n : Passed(succ, source, cs2, b, n) <=> Passed(succ, source, calls, b, n)
  BY <1>0, <1>8, <1>9, WalkLeaves
<1>11. ReachOK(succ, source, phis, cs2, H) /\ PairsOK(succ, source, phis, cs2, H, pairs)
  BY <1>0, <1>10, SamePassed
<1>12. StacksOK(source, phis, cs2, H, st2, B)
  BY <1>0, <1>4, <1>8, StacksLeaves
<1>13. CodeOK(succ, source, cs2, cd2, H)
  <2>1. Erases(calls, b0, code, cd2)
    BY <1>5 DEF Erases
  <2>2. b0 = calls[Len(calls)].bb
    BY <1>2
  <2> QED BY <1>0, <1>8, <1>9, <2>1, <2>2, CodeLeaves
<1>14. WalkParts(succ, source, phis, cs2, H, st2, B, cd2, pairs)
  BY <1>10, <1>11, <1>12, <1>13 DEF WalkParts
<1>15. KeysOK(source, st2, keys)
  <2>1. ASSUME NEW v \in Var, st2[v] # <<>> PROVE v \in keys
    <3>1. var_val_stack[v] # <<>>
      <4> DEFINE q == var_val_stack[v]
                 d == Pushed(v)
      <4>1. q \in Seq(Value) /\ d \in Nat
        BY <1>0, <1>3 DEF StacksOK
      <4>2. st2[v] = SubSeq(q, 1, Len(q) - d)
        BY <1>1 DEF st2
      <4> HIDE DEF q, d
      <4>3. q = <<>> => SubSeq(q, 1, Len(q) - d) = <<>>
        BY <4>1
      <4> QED BY <2>1, <4>2, <4>3 DEF q
    <3> QED BY <1>0, <3>1 DEF KeysOK
  <2> QED BY <1>0, <2>1 DEF KeysOK
<1>16. StateOK'
  <2>1. calls' = <<>> <=> Len(calls) = 1
    BY <1>7 DEF cs2
  <2> QED BY <1>1, <2>1 DEF StateOK, WalkStates
<1>17. PassOK(H, B)'
  BY <1>0, <1>1, <1>14, <1>15, <1>16 DEF PassOK, cs2, cd2, st2
<1> QED BY <1>17

-----------------------------------------------------------------------------
(* The placement of the phis: the variables it has come to are closed under *)
(* the dominance frontier, but for the blocks that wait on the work list.   *)

Storing(src, v) == {b \in Block : \E n \in DOMAIN src[b] : src[b][n].op = "store" /\ src[b][n].var = v}
Waiting(wl, k0, b) == \E k \in k0..Len(wl) : wl[k] = b
ListOK ==
  pc = "place" =>
    /\ work_list \in Seq(Block) /\ i \in Nat \ {0}
    /\ todo \subseteq Var /\ \A v \in todo : \A b \in Block : <<b, v>> \notin phis
    /\ \A v \in todo : Storing(source, v) # {}
    /\ work_list # <<>> => var \in Var \ todo /\ Storing(source, var) # {}
ClosedOK ==
  \A v \in Var : \A b \in Block :
    /\ pc = "place" => v \notin todo
    /\ b \in Storing(source, v) \/ <<b, v>> \in phis
    => \/ \A y \in Frontier(succ, b) : <<y, v>> \in phis
       \/ pc = "place" /\ v = var /\ Waiting(work_list, i, b)
PlaceOK == ListOK /\ ClosedOK

\* The community modules' sequence of a set has the elements of the set.
LEMMA SeqOfSet ==
  ASSUME NEW S, IsFiniteSet(S)
  PROVE  /\ SetToSeq(S) \in Seq(S) /\ DOMAIN SetToSeq(S) = 1..Len(SetToSeq(S))
         /\ \A x : x \in S <=> \E k \in 1..Len(SetToSeq(S)) : SetToSeq(S)[k] = x
<1> DEFINE n == Cardinality(S)
           q == SetToSeq(S)
           I == 1..n
<1>1. n \in Nat /\ ExistsBijection(1..n, S)
  BY FS_CardinalityType
<1>2. IsFiniteSet(I) /\ Cardinality(I) = n
  BY <1>1, FS_Interval
<1>3. q = CHOOSE f \in [I -> S] : IsInjective(f)
  BY DEF SetToSeq
<1>4. \E f \in [I -> S] : IsInjective(f)
  <2>1. PICK f : f \in Bijection(I, S)
    BY <1>1 DEF ExistsBijection
  <2>2. f \in [I -> S] /\ \A x, y \in I : f[x] = f[y] => x = y
    BY <2>1 DEF Bijection, Injection, IsInjective
  <2> HIDE DEF I
  <2> QED BY <2>2 DEF IsInjective
<1> HIDE DEF I, q
<1>5. q \in [I -> S] /\ IsInjective(q)
  BY <1>3, <1>4
<1>6. q \in Injection(I, S)
  BY <1>5 DEF Injection, IsInjective
<1>7. q \in Surjection(I, S)
  BY <1>2, <1>6, FS_Injection
<1>8. \A x \in S : \E k \in I : q[k] = x
  BY <1>7 DEF Surjection
<1> HIDE DEF n
<1>9. q \in Seq(S) /\ Len(q) = n /\ DOMAIN q = I
  BY <1>1, <1>5 DEF I
<1> QED BY <1>5, <1>8, <1>9 DEF I, q

\* Phis are placed in blocks that can be reached, not in the entry.
LEMMA FrontierReached ==
  ASSUME NEW s \in [Block -> Target], NEW b \in Block, NEW y \in Frontier(s, b)
  PROVE  y \in Reached(s) /\ y # Entry /\ y \in Block
<1>1. PICK p \in Block : y \in ToSet(s[p]) /\ Dom(s, b, p)
  BY FrontierIs, TargetGraphs
<1>2. p \in Reached(s)
  BY <1>1 DEF Dom, DominatorsOf
<1> QED BY <1>1, <1>2, EdgeDom, TargetGraphs, DomOrder DEF Ordered

\* The walk has not begun.
LEMMA PlaceStep ==
  ASSUME NEW H, NEW B, PassOK(H, B), pc = "place", pc' \in {"place", "rename"},
         PhisOK(succ, source, phis'),
         UNCHANGED <<succ, source, code, calls, keys, var_val_stack, pairs>>
  PROVE  \E H2, B2 : PassOK(H2, B2)'
<1>0. /\ Legal(succ, source) /\ StateOK /\ KeysOK(source, var_val_stack, keys)
      /\ calls = <<Enter(Entry)>> /\ code = source
      /\ var_val_stack = [v \in Var |-> <<>>] /\ pairs = [p \in Block \X Var |-> <<>>]
  BY DEF PassOK, StateOK
<1> DEFINE ph == phis'
<1>1. Legal(succ, source) /\ PhisOK(succ, source, ph)
  BY <1>0
<1> HIDE DEF ph
<1>2. \E H2, B2 : WalkParts(succ, source, ph, StartStack(succ), H2, [v \in Var |-> <<>>], B2, source,
                             [p \in Block \X Var |-> <<>>])
  BY <1>1, Starts
<1>3. PICK H2, B2 : WalkParts(succ, source, ph, StartStack(succ), H2, [v \in Var |-> <<>>], B2, source,
                             [p \in Block \X Var |-> <<>>])
  BY <1>2
<1>4. calls = StartStack(succ) /\ calls # <<>>
  <2>1. Children(Entry) = Kids(succ, Entry)
    BY DEF Children, Kids
  <2>2. Enter(Entry) = [bb |-> Entry, ip |-> 0, children |-> Kids(succ, Entry), wait_delete |-> {}]
    BY <2>1 DEF Enter
  <2> QED BY <1>0, <2>2 DEF StartStack
<1>5. WalkParts(succ, source, ph, calls, H2, var_val_stack, B2, code, pairs)
  BY <1>0, <1>3, <1>4
<1>6. Enter(Entry)' = Enter(Entry)
  BY DEF Enter, Children
<1>7. StateOK'
  <2>1. calls' # <<>>
    BY <1>4
  <2>2. keys = {}
    BY <1>0 DEF StateOK
  <2> QED BY <1>0, <1>6, <2>1, <2>2 DEF StateOK, WalkStates
<1>8. PassOK(H2, B2)'
  BY <1>0, <1>1, <1>5, <1>7 DEF PassOK, ph
<1> QED BY <1>8

\* NextVariable: every block that stores the variable waits.
LEMMA VariableTaken ==
  ASSUME NEW H, NEW B, PassOK(H, B), PlaceOK, NextVariable, UNCHANGED source
  PROVE  PlaceOK' /\ \E H2, B2 : PassOK(H2, B2)'
<1>0. /\ pc = "place" /\ i > Len(work_list) /\ var' \in todo /\ todo' = todo \ {var'}
      /\ work_list' = SetToSeq(StoreBlocks(var')) /\ i' = 1
      /\ UNCHANGED <<succ, code, pc, phis, pairs, calls, keys, var_val_stack>>
  BY DEF NextVariable, names
<1>1. PhisOK(succ, source, phis) /\ code = source /\ ListOK /\ ClosedOK
  BY <1>0 DEF PassOK, StateOK, PlaceOK
<1>2. \E H2, B2 : PassOK(H2, B2)'
  BY <1>0, <1>1, PlaceStep
<1> DEFINE wl == work_list'
           w == var'
<1>3. /\ wl \in Seq(Block) /\ \A b \in Storing(source, w) : Waiting(wl, 1, b)
  <2> DEFINE S == Storing(source, w)
  <2>1. StoreBlocks(w) = S
    BY <1>1 DEF StoreBlocks, Storing
  <2>2. IsFiniteSet(S) /\ S \subseteq Block
    <3>1. IsFiniteSet(Block)
      BY NAssumption, FS_Interval DEF Block
    <3> QED BY <3>1, FS_Subset DEF Storing
  <2>3. wl = SetToSeq(S)
    BY <1>0, <2>1
  <2> HIDE DEF S, wl
  <2>4. wl \in Seq(S) /\ \A x \in S : \E k \in 1..Len(wl) : wl[k] = x
    BY <2>2, <2>3, SeqOfSet
  <2>5. wl \in Seq(Block)
    BY <2>2, <2>4
  <2> QED BY <2>4, <2>5 DEF Waiting, S
<1>4. w \in Var /\ Storing(source, w) # {} /\ \A b \in Block : <<b, w>> \notin phis
  BY <1>0, <1>1 DEF ListOK
<1>5. ListOK'
  BY <1>0, <1>1, <1>3, <1>4 DEF ListOK
<1>6. ClosedOK'
  <2> SUFFICES ASSUME NEW v \in Var, NEW b \in Block, v \notin todo',
                      b \in Storing(source, v) \/ <<b, v>> \in phis
               PROVE  \/ \A y \in Frontier(succ, b) : <<y, v>> \in phis
                      \/ v = w /\ Waiting(wl, 1, b)
    BY <1>0 DEF ClosedOK
  <2>1. CASE v = w
    BY <1>3, <1>4, <2>1
  <2>2. CASE v # w
    <3>1. v \notin todo
      BY <1>0, <2>2
    <3>2. ~Waiting(work_list, i, b)
      <4>1. work_list \in Seq(Block) /\ i \in Nat
        BY <1>0, <1>1 DEF ListOK
      <4> QED BY <1>0, <4>1 DEF Waiting
    <3> QED BY <1>0, <1>1, <3>1, <3>2 DEF ClosedOK
  <2> QED BY <2>1, <2>2
<1> QED BY <1>2, <1>5, <1>6 DEF PlaceOK

\* PlacePhis: the frontier of the block has its phis, and the new ones wait.
LEMMA PhisPlaced ==
  ASSUME NEW H, NEW B, PassOK(H, B), PlaceOK, PlacePhis, UNCHANGED source
  PROVE  PlaceOK' /\ \E H2, B2 : PassOK(H2, B2)'
<1> DEFINE b0 == work_list[i]
           fresh == {y \in Frontier(succ, b0) : <<y, var>> \notin phis}
           wl == work_list'
           fs == SetToSeq(fresh)
<1>0. /\ pc = "place" /\ i <= Len(work_list) /\ phis' = phis \cup {<<y, var>> : y \in fresh}
      /\ wl = work_list \o fs /\ i' = i + 1
      /\ UNCHANGED <<succ, code, pc, todo, var, pairs, calls, keys, var_val_stack>>
  BY DEF PlacePhis, names
<1>1. PhisOK(succ, source, phis) /\ Legal(succ, source) /\ ListOK /\ ClosedOK
  BY <1>0 DEF PassOK, PlaceOK
<1>2. /\ work_list \in Seq(Block) /\ i \in Nat /\ i # 0 /\ i \in 1..Len(work_list)
      /\ b0 \in Block /\ var \in Var \ todo /\ Storing(source, var) # {}
      /\ \A v \in todo : \A b \in Block : <<b, v>> \notin phis
      /\ \A v \in todo : Storing(source, v) # {}
      /\ todo \subseteq Var
  <2>1. work_list \in Seq(Block) /\ i \in Nat \ {0} /\ todo \subseteq Var
        /\ (\A v \in todo : \A b \in Block : <<b, v>> \notin phis)
        /\ \A v \in todo : Storing(source, v) # {}
    BY <1>0, <1>1 DEF ListOK
  <2>2. i \in 1..Len(work_list)
    BY <1>0, <2>1
  <2>3. b0 \in Block /\ work_list # <<>>
    BY <2>1, <2>2
  <2> QED BY <1>0, <1>1, <2>1, <2>2, <2>3 DEF ListOK
<1>3. \A y \in fresh : y \in Block /\ y \in Reached(succ) /\ y # Entry
  BY <1>1, <1>2, FrontierReached, LegalFacts
<1>4. PhisOK(succ, source, phis')
  <2>1. UsedIn(source, var)
    BY <1>2 DEF Storing, UsedIn
  <2> HIDE DEF fresh
  <2> QED BY <1>0, <1>1, <1>2, <1>3, <2>1 DEF PhisOK
<1>5. \E H2, B2 : PassOK(H2, B2)'
  BY <1>0, <1>4, PlaceStep
<1>6. /\ wl \in Seq(Block) /\ Len(wl) >= Len(work_list)
      /\ \A k \in 1..Len(work_list) : wl[k] = work_list[k]
      /\ \A y \in fresh : \E k \in (Len(work_list) + 1)..Len(wl) : wl[k] = y
  <2>1. IsFiniteSet(fresh)
    <3>1. IsFiniteSet(Block) /\ fresh \subseteq Block
      BY <1>3, NAssumption, FS_Interval DEF Block
    <3> QED BY <3>1, FS_Subset
  <2> HIDE DEF fresh
  <2>2. fs \in Seq(fresh) /\ \A y \in fresh : \E k \in 1..Len(fs) : fs[k] = y
    BY <2>1, SeqOfSet
  <2>3. fs \in Seq(Block)
    BY <1>3, <2>2
  <2> HIDE DEF fs, wl
  <2>4. /\ wl \in Seq(Block) /\ Len(wl) = Len(work_list) + Len(fs)
        /\ \A k \in 1..Len(work_list) : wl[k] = work_list[k]
        /\ \A k \in 1..Len(fs) : wl[Len(work_list) + k] = fs[k]
    BY <1>0, <1>2, <2>3
  <2>5. ASSUME NEW y \in fresh PROVE \E k \in (Len(work_list) + 1)..Len(wl) : wl[k] = y
    <3>1. PICK k \in 1..Len(fs) : fs[k] = y
      BY <2>2
    <3> DEFINE m == Len(work_list) + k
    <3>2. Len(work_list) \in Nat /\ Len(fs) \in Nat
      BY <1>2, <2>3
    <3>3. m \in (Len(work_list) + 1)..Len(wl)
      BY <2>4, <3>2
    <3>4. wl[m] = y
      BY <2>4, <3>1
    <3> HIDE DEF m
    <3> QED BY <3>3, <3>4
  <2>6. Len(wl) >= Len(work_list)
    BY <1>2, <2>3, <2>4
  <2> QED BY <2>4, <2>5, <2>6
<1> HIDE DEF fresh, wl, fs, b0
<1>7. ListOK'
  <2>1. \A v \in todo : \A b \in Block : <<b, v>> \notin phis'
    BY <1>0, <1>2
  <2>2. i + 1 \in Nat \ {0}
    BY <1>2
  <2>3. wl # <<>>
    BY <1>2, <1>6
  <2> QED BY <1>0, <1>2, <1>6, <2>1, <2>2 DEF ListOK, wl
<1>8. \A b \in Block : Waiting(work_list, i, b) /\ b # b0 => Waiting(wl, i + 1, b)
  <2> SUFFICES ASSUME NEW b \in Block, NEW k \in i..Len(work_list), work_list[k] = b, b # b0
               PROVE  Waiting(wl, i + 1, b)
    BY DEF Waiting
  <2>1. k # i
    BY DEF b0
  <2>2. k \in (i + 1)..Len(wl) /\ k \in 1..Len(work_list)
    BY <1>2, <1>6, <2>1
  <2> QED BY <1>6, <2>2 DEF Waiting
<1>9. \A y \in fresh : Waiting(wl, i + 1, y)
  <2> SUFFICES ASSUME NEW y \in fresh, NEW k \in (Len(work_list) + 1)..Len(wl), wl[k] = y
               PROVE  Waiting(wl, i + 1, y)
    BY <1>6
  <2>1. k \in (i + 1)..Len(wl)
    BY <1>2, <1>6
  <2> QED BY <2>1 DEF Waiting
<1>10. ClosedOK'
  <2> SUFFICES ASSUME NEW v \in Var, NEW b \in Block, v \notin todo,
                      b \in Storing(source, v) \/ <<b, v>> \in phis'
               PROVE  \/ \A y \in Frontier(succ, b) : <<y, v>> \in phis'
                      \/ v = var /\ Waiting(wl, i + 1, b)
    BY <1>0 DEF ClosedOK, wl
  <2>1. CASE v # var
    <3>1. b \in Storing(source, v) \/ <<b, v>> \in phis
      BY <1>0, <2>1
    <3> QED BY <1>0, <1>1, <2>1, <3>1 DEF ClosedOK
  <2>2. CASE v = var /\ b \in fresh
    BY <1>9, <2>2
  <2>3. CASE v = var /\ b = b0
    <3>1. \A y \in Frontier(succ, b0) : <<y, var>> \in phis \/ y \in fresh
      BY DEF fresh
    <3> QED BY <1>0, <2>3, <3>1
  <2>4. CASE v = var /\ b # b0 /\ b \notin fresh
    <3>1. b \in Storing(source, v) \/ <<b, v>> \in phis
      BY <1>0, <2>4
    <3>2. (\A y \in Frontier(succ, b) : <<y, v>> \in phis) \/ Waiting(work_list, i, b)
      BY <1>0, <1>1, <3>1 DEF ClosedOK
    <3> QED BY <1>0, <1>8, <2>4, <3>2
  <2> QED BY <2>1, <2>2, <2>3, <2>4
<1> QED BY <1>5, <1>7, <1>10 DEF PlaceOK

\* EndPlacement: nothing waits any more.
LEMMA PlacementEnds ==
  ASSUME NEW H, NEW B, PassOK(H, B), PlaceOK, EndPlacement, UNCHANGED source
  PROVE  PlaceOK' /\ \E H2, B2 : PassOK(H2, B2)'
<1>0. /\ pc = "place" /\ i > Len(work_list) /\ todo = {} /\ pc' = "rename"
      /\ UNCHANGED <<succ, code, phis, pairs, calls, keys, var_val_stack>>
  BY DEF EndPlacement, names
<1>1. PhisOK(succ, source, phis) /\ ListOK /\ ClosedOK
  BY DEF PassOK, PlaceOK
<1>2. \E H2, B2 : PassOK(H2, B2)'
  BY <1>0, <1>1, PlaceStep
<1>3. \A b : ~Waiting(work_list, i, b)
  <2>1. work_list \in Seq(Block) /\ i \in Nat
    BY <1>0, <1>1 DEF ListOK
  <2> QED BY <1>0, <2>1 DEF Waiting
<1>4. PlaceOK'
  BY <1>0, <1>1, <1>3 DEF PlaceOK, ListOK, ClosedOK
<1> QED BY <1>2, <1>4

-----------------------------------------------------------------------------
(* When the walk is over, what reaches a place is known for every block that *)
(* can be executed, and it is the same along every edge without a phi.       *)

\* Induction on the dominator tree, for a set instead of a predicate.
LEMMA DownTheTree ==
  ASSUME NEW s \in [Block -> Target], NEW S,
         \A b \in Reached(s) : (\A a : SDom(s, a, b) => a \in S) => b \in S
  PROVE  Reached(s) \subseteq S
<1> SUFFICES ASSUME NEW b \in Reached(s), b \notin S PROVE FALSE
  OBVIOUS
<1> DEFINE T == {e \in Block : Dom(s, e, b) /\ e \notin S}
<1>0. N \in Nat \ {0} /\ s \in FlowGraphs(N) /\ Ordered(s)
  BY TargetGraphs, DomOrder
<1>1. T # {} /\ T \in SUBSET (1..N)
  BY <1>0 DEF Ordered, Block
<1>2. b \in Avoiding(N, s, 0) /\ \A e \in T : b \notin Avoiding(N, s, e)
  BY DomIs, TargetGraphs
<1>3. PICK d \in T : \A e \in T : e \notin Avoiding(N, s, d)
  <2> HIDE DEF T
  <2> QED BY <1>0, <1>1, <1>2, HighestDominator
<1>4. \A e \in T : Dom(s, d, e)
  BY <1>0, <1>1, <1>3, DomIs, TargetGraphs DEF Ordered
<1>5. ASSUME NEW a, SDom(s, a, d) PROVE a \in S
  <2>1. Dom(s, a, b) /\ a \in Block /\ a # d /\ Dom(s, a, d)
    BY <1>0, <1>5 DEF Ordered, SDom
  <2>2. ~Dom(s, d, a)
    BY <1>0, <2>1 DEF Ordered
  <2> QED BY <1>4, <2>1, <2>2
<1>6. d \in Reached(s)
  BY <1>0 DEF Ordered
<1> QED BY <1>3, <1>5, <1>6

\* The function whose values H gives is renamed.
Settled(s, src, ph, H) ==
  /\ Legal(s, src) /\ PhisOK(s, src, ph)
  /\ H \in [Block \X Nat -> [Var -> Value \cup {NoValue}]]
  /\ \A b \in Reached(s) : \A v \in Var :
       /\ H[<<b, 1>>][v] = AtHead(s, src, ph, H, b, v)
       /\ \A n \in DOMAIN src[b] : H[<<b, n + 1>>][v] = After(src, H, b, n, v)
       /\ \A n \in 1..Fin(src, b) : H[<<b, n>>][v] # NoValue =>
            Avail(s, src, ph, b, n, H[<<b, n>>][v])
  /\ \A v \in Var : \A b \in Block : b \in Storing(src, v) \/ <<b, v>> \in ph =>
       \A y \in Frontier(s, b) : <<y, v>> \in ph

\* Everything is passed when re_name has returned.
LEMMA AllPassed ==
  ASSUME NEW s, NEW src, Legal(s, src), NEW b \in Reached(s), NEW n \in 0..Fin(src, b)
  PROVE  Returned(s, <<>>, b) /\ Passed(s, src, <<>>, b, n)
BY DEF Returned, Passed, On, Pending

\* The pass is over: every place of a block that can be reached was passed.
LEMMA PassSettles ==
  ASSUME NEW H, NEW B, PassOK(H, B), PlaceOK, pc \in {"remove", "done"}
  PROVE  Settled(succ, source, phis, H)
<1>0. /\ Legal(succ, source) /\ PhisOK(succ, source, phis) /\ calls = <<>>
      /\ ReachOK(succ, source, phis, calls, H)
  BY DEF PassOK, StateOK, WalkParts
<1>1. ASSUME NEW b \in Reached(succ), NEW v \in Var
      PROVE  /\ H[<<b, 1>>][v] = AtHead(succ, source, phis, H, b, v)
             /\ \A n \in DOMAIN source[b] : H[<<b, n + 1>>][v] = After(source, H, b, n, v)
             /\ \A n \in 1..Fin(source, b) : H[<<b, n>>][v] # NoValue =>
                  Avail(succ, source, phis, b, n, H[<<b, n>>][v])
  <2>1. b \in Block
    BY <1>0, LegalFacts DEF Ordered
  <2> DEFINE l == Fin(source, b)
  <2>2. l \in Nat /\ DOMAIN source[b] = 1..(l - 1) /\ l >= 1
    BY <1>0, <2>1, LegalFacts
  <2>3. \A n \in 0..l : Passed(succ, source, calls, b, n)
    BY <1>0, AllPassed
  <2> HIDE DEF l
  <2>4. /\ 0 \in 0..l /\ \A n \in DOMAIN source[b] : n \in 0..l
        /\ \A n \in 1..l : n - 1 \in 0..l
    BY <2>2
  <2> QED BY <1>0, <2>1, <2>3, <2>4 DEF ReachOK, l
<1>2. \A v \in Var : \A b \in Block : b \in Storing(source, v) \/ <<b, v>> \in phis =>
        \A y \in Frontier(succ, b) : <<y, v>> \in phis
  BY DEF PlaceOK, ClosedOK
<1> QED BY <1>0, <1>1, <1>2 DEF Settled, ReachOK

\* A block that does not store a variable keeps what reaches it.
LEMMA Through ==
  ASSUME NEW s, NEW src, NEW ph, NEW H, Settled(s, src, ph, H), NEW b \in Reached(s),
         NEW v \in Var, b \notin Storing(src, v)
  PROVE  H[<<b, Fin(src, b)>>][v] = H[<<b, 1>>][v]
<1> DEFINE l == Fin(src, b)
           S == {k \in 0..(l - 1) : H[<<b, k + 1>>][v] = H[<<b, 1>>][v]}
<1>0. b \in Block /\ l \in Nat /\ l >= 1 /\ DOMAIN src[b] = 1..(l - 1)
  BY LegalFacts DEF Settled, Ordered
<1>1. \A n \in DOMAIN src[b] : H[<<b, n + 1>>][v] = H[<<b, n>>][v]
  BY <1>0 DEF Settled, After, Storing
<1> HIDE DEF l
<1>2. 0 \in S
  BY <1>0
<1>3. \A k \in 0..(l - 1 - 1) : k \in S => k + 1 \in S
  BY <1>0, <1>1
<1>4. l - 1 \in Nat
  BY <1>0
<1>5. \A k \in 0..(l - 1) : k \in S
  <2> DEFINE m == l - 1
  <2>1. m \in Nat /\ \A k \in 0..(m - 1) : k \in S => k + 1 \in S
    BY <1>3, <1>4
  <2> HIDE DEF m, S
  <2>2. \A k \in 0..m : k \in S
    BY <1>2, <2>1, UpTo
  <2> QED BY <2>2 DEF m
<1>6. l - 1 \in S /\ l - 1 + 1 = l
  BY <1>0, <1>4, <1>5
<1> QED BY <1>6 DEF l

\* Along an edge into a block without a phi of v, v keeps the value it has at
\* the end of the immediate dominator of that block.
LEMMA EdgeValue ==
  ASSUME NEW s, NEW src, NEW ph, NEW H, Settled(s, src, ph, H), NEW p \in Reached(s),
         NEW b \in ToSet(s[p]), NEW v \in Var, <<b, v>> \notin ph
  PROVE  /\ b \in Reached(s) /\ b # Entry
         /\ H[<<b, 1>>][v] = H[<<p, Fin(src, p)>>][v]
<1> DEFINE d == ImmediateDominator(s, b)
           E(c) == H[<<c, Fin(src, c)>>][v]
           S == {c \in Block : Dom(s, d, c) /\ Dom(s, c, p) /\ E(c) = E(p)}
<1>0. /\ N \in Nat \ {0} /\ s \in [Block -> Target] /\ s \in FlowGraphs(N) /\ Ordered(s)
      /\ p \in Block /\ Legal(s, src)
  BY LegalFacts, TargetGraphs DEF Settled, Ordered
<1>1. b \in Reached(s) /\ b # Entry /\ \A a : SDom(s, a, b) => Dom(s, a, p)
  BY <1>0, EdgeDom, TargetGraphs
<1>2. SDom(s, d, b) /\ (\A a : SDom(s, a, b) => Dom(s, a, d)) /\ Dom(s, d, p)
  <2>1. SDom(s, d, b) /\ \A a : SDom(s, a, b) => Dom(s, a, d)
    BY <1>0, <1>1, IdomIs, TargetGraphs
  <2> QED BY <1>1, <2>1
<1> HIDE DEF d
<1>3. p \in S
  BY <1>0, <1>2 DEF Ordered
<1>4. PICK c \in S : \A e \in S : Dom(s, c, e)
  <2>1. S # {} /\ S \in SUBSET (1..N) /\ p \in Avoiding(N, s, 0)
        /\ \A e \in S : p \notin Avoiding(N, s, e)
    BY <1>0, <1>3, DomIs, TargetGraphs DEF Block
  <2>3. \A e \in S : Dom(s, e, p)
    OBVIOUS
  <2> HIDE DEF S
  <2>2. PICK c \in S : \A e \in S : e \notin Avoiding(N, s, c)
    BY <1>0, <2>1, HighestDominator
  <2>4. \A e \in S : e \in Avoiding(N, s, 0) /\ c \in 1..N
    BY <1>0, <2>1, <2>3, DomIs, TargetGraphs DEF Ordered
  <2>5. \A e \in S : Dom(s, c, e)
    BY <1>0, <2>2, <2>4, DomIs, TargetGraphs
  <2> QED BY <2>5
<1>5. c = d
  <2> SUFFICES ASSUME c # d PROVE FALSE
    OBVIOUS
  <2>1. Dom(s, d, c) /\ Dom(s, c, p) /\ E(c) = E(p) /\ c \in Block /\ c \in Reached(s)
    BY <1>0 DEF Ordered
  <2>2. c # Entry
    <3>1. Dom(s, Entry, d)
      BY <1>0, <2>1 DEF Ordered
    <3> QED BY <1>0, <2>1, <3>1 DEF Ordered
  <2> DEFINE e == ImmediateDominator(s, c)
  <2>3. SDom(s, e, c) /\ \A a : SDom(s, a, c) => Dom(s, a, e)
    BY <1>0, <2>1, <2>2, IdomIs, TargetGraphs
  <2>4. SDom(s, d, c) /\ Dom(s, d, e) /\ Dom(s, e, p) /\ e \in Block
    BY <1>0, <2>1, <2>3 DEF Ordered, SDom
  <2>5. ~SDom(s, c, b)
    BY <1>0, <1>2, <2>1 DEF Ordered
  <2>6. b \in Frontier(s, c)
    BY <1>0, <1>1, <2>1, <2>5, FrontierIs, TargetGraphs
  <2>7. c \notin Storing(src, v) /\ <<c, v>> \notin ph
    BY <2>1, <2>6 DEF Settled
  <2>8. E(c) = H[<<c, 1>>][v]
    BY <2>1, <2>7, Through
  <2>9. H[<<c, 1>>][v] = E(e)
    BY <2>1, <2>2, <2>7 DEF Settled, AtHead
  <2>10. e \in S
    BY <2>1, <2>4, <2>8, <2>9
  <2> HIDE DEF e
  <2>11. Dom(s, c, e)
    BY <1>4, <2>10
  <2> QED BY <1>0, <2>3, <2>11 DEF Ordered, SDom
<1>6. E(d) = E(p)
  BY <1>5
<1>7. H[<<b, 1>>][v] = E(d)
  BY <1>1 DEF Settled, AtHead, d
<1> QED BY <1>1, <1>6, <1>7

-----------------------------------------------------------------------------
(* The two programs side by side: the memory holds what the ids that reach   *)
(* the place hold, and a load that is current holds what reached it.        *)

Val(r, x) == IF x = NoValue THEN Unset ELSE r[x]
RunOK(s, src, ph, H, a, n, m, r) ==
  /\ a \in Reached(s) /\ n \in 1..Fin(src, a) /\ DOMAIN m = Var
  /\ \A v \in Var : m[v] = Val(r, H[<<a, n>>][v])
  /\ \A x : Avail(s, src, ph, a, n, x) =>
       x \in DOMAIN r /\ (IsLoad(src, x) => r[x] = Val(r, H[x][VarOf(src, x)]))

\* The block a value comes from dominates the place, and a value of an
\* instruction that was executed is available wherever the instruction is.
LEMMA AvailFacts ==
  ASSUME NEW s, NEW src, NEW ph, NEW H, Settled(s, src, ph, H),
         NEW a \in Reached(s), NEW n \in Nat, NEW x, Avail(s, src, ph, a, n, x)
  PROVE  /\ Dom(s, x[1], a) /\ x[1] \in Reached(s) /\ x # NoValue
         /\ x \in ph \/ IsDef(src, x)
         /\ x # <<a, n>>
         /\ IsLoad(src, x) => /\ VarOf(src, x) \in Var
                              /\ H[x][VarOf(src, x)] # NoValue =>
                                   /\ Avail(s, src, ph, a, n, H[x][VarOf(src, x)])
                                   /\ Dom(s, H[x][VarOf(src, x)][1], x[1])
         /\ Avail(s, src, ph, a, n, Cur(src, H, x))
<1>0. /\ Legal(s, src) /\ Ordered(s) /\ ph \subseteq Block \X Var
      /\ src \in [Block -> Seq(Instr)] /\ s \in [Block -> Target]
  BY LegalFacts DEF Settled, PhisOK
<1>1. ASSUME NEW e \in Reached(s), NEW k, NEW y, Avail(s, src, ph, e, k, y)
      PROVE  Dom(s, y[1], e) /\ y # NoValue /\ (y \in ph \/ IsDef(src, y))
  <2>1. Dom(s, y[1], e)
    BY <1>0, <1>1 DEF Avail, SDom, Ordered
  <2>2. y \in InstrId \/ y \in Block \X Var
    BY <1>0, <1>1 DEF Avail, IsDef
  <2>3. y # NoValue
    <3>1. y \in Value
      BY <2>2 DEF Value
    <3>2. NoValue \notin Value
      BY DEF NoValue, Value, InstrId
    <3> QED BY <3>1, <3>2
  <2> QED BY <1>1, <2>1, <2>3 DEF Avail
<1>2. x # <<a, n>>
  <2>1. CASE x \in ph
    <3>1. x \in Block \X Var
      BY <1>0, <2>1
    <3>2. n \notin Var
      BY VarAssumption
    <3> QED BY <3>1, <3>2
  <2>2. CASE x \notin ph
    <3>1. IsDef(src, x) /\ (SDom(s, x[1], a) \/ (x[1] = a /\ x[2] < n))
      BY <2>2 DEF Avail
    <3>2. ~(n < n)
      OBVIOUS
    <3> QED BY <3>1, <3>2 DEF SDom
  <2> QED BY <2>1, <2>2
<1>3. Dom(s, x[1], a) /\ x[1] \in Reached(s) /\ x # NoValue /\ (x \in ph \/ IsDef(src, x))
  BY <1>0, <1>1 DEF Ordered
<1>4. ASSUME IsLoad(src, x)
      PROVE  /\ VarOf(src, x) \in Var
             /\ H[x][VarOf(src, x)] # NoValue =>
                  /\ Avail(s, src, ph, a, n, H[x][VarOf(src, x)])
                  /\ Dom(s, H[x][VarOf(src, x)][1], x[1])
  <2> DEFINE e == x[1]
             k == x[2]
             w == VarOf(src, x)
             y == H[x][w]
  <2>1. x = <<e, k>> /\ e \in Block /\ k \in DOMAIN src[e] /\ IsDef(src, x)
    BY <1>4 DEF IsLoad, IsDef, InstrId
  <2>2. src[e] \in Seq(Instr) /\ Fin(src, e) \in Nat /\ DOMAIN src[e] = 1..(Fin(src, e) - 1)
    BY <1>0, <2>1, LegalFacts
  <2>3. src[e][k] \in Instr
    BY <2>1, <2>2
  <2>4. w \in Var
    BY <2>3 DEF VarOf, Instr
  <2>5. k \in 1..Fin(src, e) /\ k \in Nat
    BY <2>1, <2>2
  <2>6. x \notin ph
    <3>1. k \notin Var
      BY <2>5, VarAssumption
    <3> QED BY <1>0, <2>1, <3>1
  <2>7. SDom(s, e, a) \/ (e = a /\ k < n)
    BY <2>6 DEF Avail
  <2>8. ASSUME y # NoValue PROVE Avail(s, src, ph, a, n, y) /\ Dom(s, y[1], e)
    <3>1. H[<<e, k>>][w] # NoValue
      BY <2>1, <2>8
    <3> HIDE DEF e, k, w
    <3>2. Avail(s, src, ph, e, k, H[<<e, k>>][w])
      BY <1>3, <2>4, <2>5, <3>1 DEF Settled, e
    <3>3. Avail(s, src, ph, e, k, y)
      BY <2>1, <3>2
    <3> HIDE DEF y
    <3>4. Dom(s, y[1], e)
      BY <1>1, <1>3, <3>3 DEF e
    <3>5. SDom(s, e, a) \/ (e = a /\ k \in Nat /\ n \in Nat /\ k <= n)
      BY <2>5, <2>7
    <3>6. Avail(s, src, ph, a, n, y)
      BY <1>0, <3>3, <3>5, AvailDown
    <3> QED BY <3>4, <3>6
  <2> HIDE DEF e, k
  <2> QED BY <2>4, <2>8 DEF e
<1>5. Avail(s, src, ph, a, n, Cur(src, H, x))
  BY <1>4 DEF Cur
<1> QED BY <1>2, <1>3, <1>4, <1>5

\* What stands for an available value holds the same.
LEMMA CurHolds ==
  ASSUME NEW s, NEW src, NEW ph, NEW H, Settled(s, src, ph, H),
         NEW a, NEW n, NEW m, NEW r, RunOK(s, src, ph, H, a, n, m, r),
         NEW x, Avail(s, src, ph, a, n, x)
  PROVE  /\ Cur(src, H, x) # NoValue /\ Cur(src, H, x) \in DOMAIN r
         /\ r[Cur(src, H, x)] = r[x]
<1> DEFINE c == Cur(src, H, x)
<1>1. a \in Reached(s) /\ n \in Nat
  BY LegalFacts DEF RunOK, Settled, Ordered
<1>2. Avail(s, src, ph, a, n, c)
  BY <1>1, AvailFacts
<1>3. c # NoValue
  <2> HIDE DEF c
  <2> QED BY <1>1, <1>2, AvailFacts
<1>4. c \in DOMAIN r
  <2> HIDE DEF c
  <2> QED BY <1>2 DEF RunOK
<1>5. r[c] = r[x]
  BY DEF Cur, RunOK, Val
<1> QED BY <1>3, <1>4, <1>5

\* The ids and the memory after one instruction of the source.
Executes(src, H, a, n, m, r, m2, r2) ==
  LET t == src[a][n]
  IN  /\ n \in DOMAIN src[a]
      /\ \A d \in DOMAIN r : d # <<a, n>> => d \in DOMAIN r2 /\ r2[d] = r[d]
      /\ t.op \in {"load", "call"} => <<a, n>> \in DOMAIN r2
      /\ t.op = "load" => r2[<<a, n>>] = m[t.var]
      /\ m2 = IF t.op = "store" THEN [m EXCEPT ![t.var] = r[t.arg]] ELSE m

\* Memory and values agree after an instruction.
LEMMA RunExecutes ==
  ASSUME NEW s, NEW src, NEW ph, NEW H, Settled(s, src, ph, H),
         NEW a, NEW n, NEW m, NEW r, RunOK(s, src, ph, H, a, n, m, r),
         NEW m2, NEW r2, Executes(src, H, a, n, m, r, m2, r2)
  PROVE  RunOK(s, src, ph, H, a, n + 1, m2, r2)
<1> DEFINE o == <<a, n>>
           t == src[a][n]
           w == t.var
<1>0. /\ Legal(s, src) /\ Ordered(s) /\ a \in Reached(s) /\ a \in Block
      /\ n \in Nat /\ n \in DOMAIN src[a] /\ n \in 1..Fin(src, a)
      /\ n + 1 \in 1..Fin(src, a) /\ DOMAIN src[a] = 1..(Fin(src, a) - 1)
      /\ src[a] \in Seq(Instr)
  <2>1. Legal(s, src) /\ a \in Reached(s) /\ n \in DOMAIN src[a]
    BY DEF Settled, RunOK, Executes
  <2>2. a \in Block /\ Ordered(s)
    BY <2>1, LegalFacts DEF Ordered
  <2>3. Fin(src, a) \in Nat /\ DOMAIN src[a] = 1..(Fin(src, a) - 1) /\ src[a] \in Seq(Instr)
    BY <2>1, <2>2, LegalFacts
  <2> DEFINE l == Fin(src, a)
  <2>4. n \in 1..(l - 1) /\ l \in Nat
    BY <2>1, <2>3
  <2> HIDE DEF l
  <2>5. n \in Nat /\ n \in 1..l /\ n + 1 \in 1..l
    BY <2>4
  <2> QED BY <2>1, <2>2, <2>3, <2>5 DEF l
<1>1. t \in Instr /\ w \in Var
  <2> DEFINE q == src[a]
  <2>2. q \in Seq(Instr) /\ n \in DOMAIN q /\ t = q[n]
    BY <1>0
  <2> HIDE DEF q, t
  <2>1. t \in Instr
    BY <2>2
  <2> QED BY <2>1 DEF Instr
<1>2. ASSUME NEW x, Avail(s, src, ph, a, n, x)
      PROVE  x # o /\ x # NoValue /\ x \in DOMAIN r /\ x \in DOMAIN r2 /\ r2[x] = r[x]
  <2>1. x # o /\ x # NoValue
    BY <1>0, <1>2, AvailFacts
  <2>2. x \in DOMAIN r
    BY <1>2 DEF RunOK
  <2> QED BY <2>1, <2>2 DEF Executes
<1>3. ASSUME NEW x, Avail(s, src, ph, a, n + 1, x)
      PROVE  Avail(s, src, ph, a, n, x) \/ (x = o /\ IsDef(src, o))
  <2>1. CASE x \in ph \/ SDom(s, x[1], a)
    <3> DEFINE k == n + 1
    <3>1. k \in Nat /\ Avail(s, src, ph, a, k, x) /\ a \in Reached(s)
      BY <1>0, <1>3
    <3> HIDE DEF k
    <3>2. Dom(s, x[1], a) /\ (x \in ph \/ IsDef(src, x))
      BY <3>1, AvailFacts
    <3> QED BY <2>1, <3>2 DEF Avail
  <2>2. CASE x \notin ph /\ ~SDom(s, x[1], a)
    <3>1. IsDef(src, x) /\ x[1] = a /\ x[2] < n + 1
      BY <1>3, <2>2 DEF Avail
    <3>2. x = <<x[1], x[2]>> /\ x[2] \in Nat
      BY <3>1 DEF IsDef, InstrId
    <3> DEFINE k == x[2]
    <3>3. k \in Nat /\ k < n + 1 /\ n \in Nat
      BY <1>0, <3>1, <3>2
    <3> HIDE DEF k
    <3>4. k < n \/ k = n
      BY <3>3
    <3> QED BY <3>1, <3>2, <3>4 DEF Avail, k
  <2> QED BY <2>1, <2>2
<1>4. ASSUME NEW v \in Var PROVE Val(r2, H[o][v]) = Val(r, H[o][v])
  <2>1. H[o][v] # NoValue => Avail(s, src, ph, a, n, H[o][v])
    BY <1>0 DEF Settled
  <2> QED BY <1>2, <2>1 DEF Val
<1>5. ASSUME NEW v \in Var PROVE m2[v] = Val(r2, H[<<a, n + 1>>][v])
  <2>0. H[<<a, n + 1>>][v] = After(src, H, a, n, v)
    BY <1>0 DEF Settled
  <2>1. CASE t.op = "store" /\ w = v
    <3> DEFINE x == t.arg
    <3>1. x # NoValue
      BY <1>0, <2>1 DEF Legal
    <3>2. IsDef(src, x) /\ (SDom(s, x[1], a) \/ (x[1] = a /\ x[2] < n))
      BY <1>0, <3>1, ArgIs
    <3>3. Avail(s, src, ph, a, n, x)
      BY <3>2 DEF Avail
    <3> HIDE DEF x
    <3>4. Cur(src, H, x) # NoValue /\ r[Cur(src, H, x)] = r[x]
      BY <3>3, CurHolds
    <3>5. r2[Cur(src, H, x)] = r[Cur(src, H, x)]
      <4>1. Avail(s, src, ph, a, n, Cur(src, H, x))
        BY <1>0, <3>3, AvailFacts
      <4> QED BY <1>2, <4>1
    <3>6. m2[v] = r[x]
      BY <1>1, <2>1 DEF Executes, RunOK, x
    <3>7. H[<<a, n + 1>>][v] = Cur(src, H, x)
      BY <2>0, <2>1 DEF After, x
    <3> QED BY <3>4, <3>5, <3>6, <3>7 DEF Val
  <2>2. CASE ~(t.op = "store" /\ w = v)
    <3>1. m2[v] = m[v]
      BY <1>1, <2>2 DEF Executes, RunOK
    <3>2. H[<<a, n + 1>>][v] = H[o][v]
      BY <2>0, <2>2 DEF After
    <3>3. m[v] = Val(r, H[o][v])
      BY DEF RunOK
    <3> QED BY <1>4, <3>1, <3>2, <3>3
  <2> QED BY <2>1, <2>2
<1>6. ASSUME NEW x, Avail(s, src, ph, a, n + 1, x)
      PROVE  x \in DOMAIN r2 /\ (IsLoad(src, x) => r2[x] = Val(r2, H[x][VarOf(src, x)]))
  <2>1. CASE Avail(s, src, ph, a, n, x)
    <3>1. x \in DOMAIN r2 /\ r2[x] = r[x]
      BY <1>2, <2>1
    <3>2. ASSUME IsLoad(src, x) PROVE r2[x] = Val(r2, H[x][VarOf(src, x)])
      <4> DEFINE y == H[x][VarOf(src, x)]
      <4>1. r[x] = Val(r, y)
        BY <2>1, <3>2 DEF RunOK
      <4>2. y # NoValue => Avail(s, src, ph, a, n, y)
        BY <1>0, <2>1, <3>2, AvailFacts
      <4> HIDE DEF y
      <4>3. Val(r2, y) = Val(r, y)
        BY <1>2, <4>2 DEF Val
      <4> QED BY <3>1, <4>1, <4>3 DEF y
    <3> QED BY <3>1, <3>2
  <2>2. CASE x = o /\ IsDef(src, o)
    <3>1. t.op \in {"load", "call"}
      BY <2>2 DEF IsDef
    <3>2. o \in DOMAIN r2
      BY <3>1 DEF Executes
    <3>3. ASSUME IsLoad(src, o) PROVE r2[o] = Val(r2, H[o][VarOf(src, o)])
      <4>1. t.op = "load" /\ VarOf(src, o) = w
        BY <3>3 DEF IsLoad, VarOf
      <4>2. r2[o] = m[w] /\ m[w] = Val(r, H[o][w])
        BY <1>1, <4>1 DEF Executes, RunOK
      <4> QED BY <1>1, <1>4, <4>1, <4>2
    <3> QED BY <2>2, <3>2, <3>3
  <2> QED BY <1>3, <1>6, <2>1, <2>2
<1>7. DOMAIN m2 = Var
  BY DEF Executes, RunOK
<1> QED BY <1>0, <1>5, <1>6, <1>7 DEF RunOK

\* The ids after a branch to b, whose phis take what the memory holds.
Branches(s, ph, a, b, m, r, r2) ==
  /\ b \in ToSet(s[a])
  /\ \A v \in Var : <<b, v>> \in ph => <<b, v>> \in DOMAIN r2 /\ r2[<<b, v>>] = m[v]
  /\ \A d \in DOMAIN r : d \notin ph \/ d[1] # b => d \in DOMAIN r2 /\ r2[d] = r[d]

\* Memory and values agree after a branch.
LEMMA RunBranches ==
  ASSUME NEW s, NEW src, NEW ph, NEW H, Settled(s, src, ph, H),
         NEW a, NEW n, n = Fin(src, a), NEW m, NEW r, RunOK(s, src, ph, H, a, n, m, r),
         NEW b, NEW r2, Branches(s, ph, a, b, m, r, r2)
  PROVE  RunOK(s, src, ph, H, b, 1, m, r2)
<1>0. /\ Legal(s, src) /\ Ordered(s) /\ s \in [Block -> Target] /\ a \in Reached(s) /\ a \in Block
      /\ ph \subseteq Block \X Var /\ n \in Nat /\ n \in 1..Fin(src, a) /\ b \in ToSet(s[a])
      /\ DOMAIN m = Var
  <2>1. Legal(s, src) /\ a \in Reached(s) /\ ph \subseteq Block \X Var /\ b \in ToSet(s[a])
        /\ n \in 1..Fin(src, a) /\ DOMAIN m = Var
    BY DEF Settled, RunOK, PhisOK, Branches
  <2> QED BY <2>1, LegalFacts DEF Ordered
<1>1. /\ b \in Reached(s) /\ b # Entry /\ b \in Block /\ 1 \in 1..Fin(src, b)
      /\ \A e : SDom(s, e, b) => Dom(s, e, a)
  <2>1. b \in Reached(s) /\ b # Entry /\ \A e : SDom(s, e, b) => Dom(s, e, a)
    BY <1>0, EdgeDom, TargetGraphs
  <2>2. b \in Block /\ Fin(src, b) \in Nat /\ Fin(src, b) >= 1
    BY <1>0, <2>1, LegalFacts DEF Ordered
  <2> QED BY <2>1, <2>2
<1>2. ASSUME NEW x, Avail(s, src, ph, b, 1, x), x[1] # b
      PROVE  Avail(s, src, ph, a, n, x) /\ x \in DOMAIN r /\ x \in DOMAIN r2 /\ r2[x] = r[x]
  <2>1. Avail(s, src, ph, a, n, x)
    <3>1. CASE x \in ph
      BY <1>1, <1>2, <3>1 DEF Avail, SDom
    <3>2. CASE x \notin ph
      <4>1. IsDef(src, x) /\ SDom(s, x[1], b) /\ Dom(s, x[1], a)
        BY <1>1, <1>2, <3>2 DEF Avail
      <4>2. x[1] = a => x[2] < n
        BY <1>0, <4>1, LegalFacts DEF IsDef
      <4> QED BY <4>1, <4>2 DEF Avail, SDom
    <3> QED BY <3>1, <3>2
  <2>2. x \in DOMAIN r
    BY <2>1 DEF RunOK
  <2> QED BY <1>2, <2>1, <2>2 DEF Branches
<1>3. ASSUME NEW x, Avail(s, src, ph, b, 1, x), x[1] = b
      PROVE  x \in ph /\ x \in DOMAIN r2 /\ ~IsLoad(src, x)
  <2>1. ~(IsDef(src, x) /\ (SDom(s, x[1], b) \/ (x[1] = b /\ x[2] < 1)))
    <3>1. ~SDom(s, b, b)
      BY DEF SDom
    <3>2. IsDef(src, x) => ~(x[2] < 1)
      <4> SUFFICES ASSUME IsDef(src, x) PROVE ~(x[2] < 1)
        OBVIOUS
      <4> DEFINE k == x[2]
                 l == Fin(src, b)
      <4>1. k \in 1..(l - 1) /\ l \in Nat
        BY <1>0, <1>1, <1>3, LegalFacts DEF IsDef
      <4> HIDE DEF k, l
      <4>2. ~(k < 1)
        BY <4>1
      <4> QED BY <4>2 DEF k
    <3> QED BY <1>3, <3>1, <3>2
  <2>2. x \in ph
    BY <1>3, <2>1 DEF Avail
  <2>3. x \in DOMAIN r2
    <3>1. x \in Block \X Var
      BY <1>0, <2>2
    <3>2. x = <<b, x[2]>> /\ x[2] \in Var
      BY <1>3, <3>1
    <3> QED BY <2>2, <3>2 DEF Branches
  <2>4. ~IsLoad(src, x)
    <3>1. x[2] \in Var
      BY <1>0, <2>2
    <3>2. x[2] \notin Nat
      BY <3>1, VarAssumption
    <3> QED BY <3>2 DEF IsLoad, IsDef, InstrId
  <2> QED BY <2>2, <2>3, <2>4
<1>4. ASSUME NEW v \in Var PROVE m[v] = Val(r2, H[<<b, 1>>][v])
  <2>1. CASE <<b, v>> \in ph
    <3>1. H[<<b, 1>>][v] = <<b, v>>
      BY <1>1, <2>1 DEF Settled, AtHead
    <3>2. <<b, v>> # NoValue
      BY DEF NoValue
    <3> QED BY <2>1, <3>1, <3>2 DEF Branches, Val
  <2>2. CASE <<b, v>> \notin ph
    <3> DEFINE y == H[<<b, 1>>][v]
               d == ImmediateDominator(s, b)
    <3>1. y = H[<<a, n>>][v]
      BY <1>0, <2>2, EdgeValue
    <3>2. m[v] = Val(r, y)
      BY <3>1 DEF RunOK
    <3>3. ASSUME y # NoValue PROVE Avail(s, src, ph, b, 1, y) /\ y[1] # b
      <4>1. y = H[<<d, Fin(src, d)>>][v]
        BY <1>1, <2>2 DEF Settled, AtHead
      <4>2. SDom(s, d, b) /\ d \in Reached(s)
        BY <1>0, <1>1, IdomIs, TargetGraphs DEF SDom, Ordered
      <4>3. Fin(src, d) \in 1..Fin(src, d) /\ Fin(src, d) \in Nat
        BY <1>0, <4>2, LegalFacts DEF Ordered
      <4>4. Avail(s, src, ph, d, Fin(src, d), y)
        BY <3>3, <4>1, <4>2, <4>3 DEF Settled
      <4> HIDE DEF y, d
      <4>5. Dom(s, y[1], d)
        BY <4>2, <4>3, <4>4, AvailFacts
      <4>6. y[1] # b
        BY <1>0, <4>2, <4>5 DEF SDom, Ordered
      <4>7. Avail(s, src, ph, b, 1, y)
        BY <1>1, <3>3 DEF Settled, y
      <4> QED BY <4>6, <4>7
    <3> HIDE DEF y
    <3>4. Val(r2, y) = Val(r, y)
      BY <1>2, <3>3 DEF Val
    <3> QED BY <3>2, <3>4 DEF y
  <2> QED BY <2>1, <2>2
<1>5. ASSUME NEW x, Avail(s, src, ph, b, 1, x)
      PROVE  x \in DOMAIN r2 /\ (IsLoad(src, x) => r2[x] = Val(r2, H[x][VarOf(src, x)]))
  <2>1. CASE x[1] = b
    BY <1>3, <1>5, <2>1
  <2>2. CASE x[1] # b
    <3>1. Avail(s, src, ph, a, n, x) /\ x \in DOMAIN r2 /\ r2[x] = r[x]
      BY <1>2, <1>5, <2>2
    <3>2. ASSUME IsLoad(src, x) PROVE r2[x] = Val(r2, H[x][VarOf(src, x)])
      <4> DEFINE y == H[x][VarOf(src, x)]
                 one == 1
      <4>1. r[x] = Val(r, y)
        BY <3>1, <3>2 DEF RunOK
      <4>2. ASSUME y # NoValue PROVE Avail(s, src, ph, b, 1, y) /\ y[1] # b
        <5>1. one \in Nat /\ Avail(s, src, ph, b, one, x)
          BY <1>5
        <5> HIDE DEF one
        <5>2. Avail(s, src, ph, b, one, y) /\ Dom(s, y[1], x[1]) /\ Dom(s, x[1], b)
          BY <1>1, <3>2, <4>2, <5>1, AvailFacts
        <5>3. y[1] # b
          BY <1>0, <2>2, <5>2 DEF Ordered
        <5> QED BY <5>2, <5>3 DEF one
      <4> HIDE DEF y
      <4>3. Val(r2, y) = Val(r, y)
        BY <1>2, <4>2 DEF Val
      <4> QED BY <3>1, <4>1, <4>3 DEF y
    <3> QED BY <3>1, <3>2
  <2> QED BY <2>1, <2>2
<1> QED BY <1>0, <1>1, <1>4, <1>5 DEF RunOK

-----------------------------------------------------------------------------
(* The inductive invariant of the run. *)

MachineOK(H) ==
  IF pc = "done" THEN RunOK(succ, source, phis, H, at, ip, mem, reg)
  ELSE at = Entry /\ ip = 1 /\ mem = [v \in Var |-> Unset] /\ reg = <<>>

IInv == PlaceOK /\ \E H, B : PassOK(H, B) /\ MachineOK(H)

\* The state of the pass does not change.
LEMMA PassStays ==
  ASSUME NEW H, NEW B, PassOK(H, B), UNCHANGED <<vars, source>>
  PROVE  PassOK(H, B)'
<1>0. UNCHANGED <<succ, code, pc, phis, pairs, calls, keys, var_val_stack, source>>
  BY DEF vars
<1>1. Enter(Entry)' = Enter(Entry)
  BY <1>0 DEF Enter, Children
<1>2. StateOK'
  BY <1>0, <1>1 DEF PassOK, StateOK, WalkStates
<1> QED BY <1>0, <1>2 DEF PassOK

\* The placement of phis does not change.
LEMMA PlaceStays ==
  ASSUME PlaceOK, UNCHANGED <<vars, source>>
  PROVE  PlaceOK'
BY DEF PlaceOK, ListOK, ClosedOK, vars, place

\* The initial states satisfy the invariant.
LEMMA RunInitOK == RunInit => IInv
<1> SUFFICES ASSUME RunInit PROVE IInv
  OBVIOUS
<1>0. /\ pc = "place" /\ todo = {v \in Var : StoreBlocks(v) # {}} /\ work_list = <<>> /\ i = 1
      /\ phis = {} /\ pairs = [p \in Block \X Var |-> <<>>] /\ calls = <<Enter(Entry)>>
      /\ keys = {} /\ var_val_stack = [v \in Var |-> <<>>] /\ source = code
      /\ at = Entry /\ ip = 1 /\ mem = [v \in Var |-> Unset] /\ reg = <<>>
  BY DEF RunInit, Init
<1>1. Legal(succ, source)
  BY ProgramsAssumption DEF RunInit, Init
<1>2. PhisOK(succ, source, phis)
  BY <1>0 DEF PhisOK
<1>3. PICK H, B : WalkParts(succ, source, phis, StartStack(succ), H, [v \in Var |-> <<>>], B, source,
                            [p \in Block \X Var |-> <<>>])
  BY <1>1, <1>2, Starts
<1>4. calls = StartStack(succ) /\ calls # <<>>
  <2>1. Children(Entry) = Kids(succ, Entry)
    BY DEF Children, Kids
  <2>2. Enter(Entry) = [bb |-> Entry, ip |-> 0, children |-> Kids(succ, Entry), wait_delete |-> {}]
    BY <2>1 DEF Enter
  <2> QED BY <1>0, <2>2 DEF StartStack
<1>5. WalkParts(succ, source, phis, calls, H, var_val_stack, B, code, pairs)
  BY <1>0, <1>3, <1>4
<1>6. StateOK
  BY <1>0, <1>4 DEF StateOK, WalkStates
<1>7. KeysOK(source, var_val_stack, keys)
  BY <1>0 DEF KeysOK
<1>8. PassOK(H, B) /\ MachineOK(H)
  BY <1>0, <1>1, <1>2, <1>5, <1>6, <1>7 DEF PassOK, MachineOK
<1>9. ListOK
  <2>1. \A v \in todo : v \in Var /\ Storing(source, v) # {}
    BY <1>0 DEF StoreBlocks, Storing
  <2>2. work_list \in Seq(Block) /\ i \in Nat \ {0}
    BY <1>0
  <2> QED BY <1>0, <2>1, <2>2 DEF ListOK
<1>10. ClosedOK
  <2>1. \A v \in Var \ todo : \A b : b \notin Storing(source, v)
    BY <1>0 DEF StoreBlocks, Storing
  <2> QED BY <1>0, <2>1 DEF ClosedOK
<1> QED BY <1>8, <1>9, <1>10 DEF IInv, PlaceOK

\* A step of the walk leaves the phis.
LEMMA WalkPlaced ==
  ASSUME PlaceOK, pc = "rename", pc' # "place", UNCHANGED <<succ, source, phis>>
  PROVE  PlaceOK'
BY DEF PlaceOK, ListOK, ClosedOK

\* A step of re_name keeps the invariant.
LEMMA ReNames ==
  ASSUME IInv, ReName, UNCHANGED machine
  PROVE  IInv'
<1> PICK H, B : PassOK(H, B) /\ MachineOK(H)
  BY DEF IInv
<1>0. PlaceOK /\ UNCHANGED <<source, at, ip, mem, reg>>
  BY DEF IInv, machine
<1>1. pc = "rename" /\ pc' \notin {"place", "done"} /\ UNCHANGED <<succ, phis>>
  <2>1. CASE PushPhis
    BY <2>1 DEF PushPhis
  <2>2. CASE RenameLoad
    BY <2>2 DEF RenameLoad, AtInstr
  <2>3. CASE RenameStore
    BY <2>3 DEF RenameStore, AtInstr
  <2>4. CASE PassInstr
    BY <2>4 DEF PassInstr, AtInstr
  <2>5. CASE FillSuccessors
    BY <2>5 DEF FillSuccessors
  <2>6. CASE Descend
    BY <2>6 DEF Descend
  <2>7. CASE Leave
    BY <2>7 DEF Leave
  <2> QED BY <2>1, <2>2, <2>3, <2>4, <2>5, <2>6, <2>7 DEF ReName
<1>2. \E H2, B2 : PassOK(H2, B2)'
  <2>1. CASE PushPhis
    BY <1>0, <2>1, PushesPhis
  <2>2. CASE RenameLoad
    BY <1>0, <2>2, LoadRenamed
  <2>3. CASE RenameStore
    BY <1>0, <2>3, StoreRenamed
  <2>4. CASE PassInstr
    BY <1>0, <2>4, InstrPassed
  <2>5. CASE FillSuccessors
    BY <1>0, <2>5, SuccessorsFilled
  <2>6. CASE Descend
    BY <1>0, <2>6, ChildDescended
  <2>7. CASE Leave
    BY <1>0, <2>7, BlockLeft
  <2> QED BY <2>1, <2>2, <2>3, <2>4, <2>5, <2>6, <2>7 DEF ReName
<1>3. PlaceOK'
  BY <1>0, <1>1, WalkPlaced
<1>4. ASSUME NEW H2 PROVE MachineOK(H2)'
  BY <1>0, <1>1 DEF MachineOK
<1>5. PICK H2, B2 : PassOK(H2, B2)'
  BY <1>2
<1>6. MachineOK(H2)'
  BY <1>4
<1> QED BY <1>3, <1>5, <1>6 DEF IInv

\* A step of generate_phi keeps the invariant.
LEMMA GeneratesPhis ==
  ASSUME IInv, GeneratePhi, UNCHANGED machine
  PROVE  IInv'
<1> PICK H, B : PassOK(H, B) /\ MachineOK(H)
  BY DEF IInv
<1>0. PlaceOK /\ UNCHANGED <<source, at, ip, mem, reg>>
  BY DEF IInv, machine
<1>1. pc = "place" /\ pc' \in {"place", "rename"}
  BY DEF GeneratePhi, NextVariable, PlacePhis, EndPlacement
<1>2. PlaceOK' /\ \E H2, B2 : PassOK(H2, B2)'
  <2>1. CASE NextVariable
    BY <1>0, <2>1, VariableTaken
  <2>2. CASE PlacePhis
    BY <1>0, <2>2, PhisPlaced
  <2>3. CASE EndPlacement
    BY <1>0, <2>3, PlacementEnds
  <2> QED BY <2>1, <2>2, <2>3 DEF GeneratePhi
<1>4. ASSUME NEW H2 PROVE MachineOK(H2)'
  BY <1>0, <1>1 DEF MachineOK
<1>5. PICK H2, B2 : PassOK(H2, B2)'
  BY <1>2
<1>6. MachineOK(H2)'
  BY <1>4
<1> QED BY <1>2, <1>5, <1>6 DEF IInv

\* The run begins with an empty memory and no values.
LEMMA RunStarts ==
  ASSUME NEW s, NEW src, NEW ph, NEW H, Settled(s, src, ph, H)
  PROVE  RunOK(s, src, ph, H, Entry, 1, [v \in Var |-> Unset], <<>>)
<1> DEFINE m == [v \in Var |-> Unset]
           r == <<>>
<1>0. Legal(s, src) /\ Ordered(s) /\ Entry \in Reached(s) /\ Entry \in Block
      /\ Fin(src, Entry) \in Nat /\ Fin(src, Entry) >= 1 /\ DOMAIN src[Entry] = 1..(Fin(src, Entry) - 1)
  BY LegalFacts DEF Settled, Ordered
<1>1. \A v : <<Entry, v>> \notin ph
  <2>1. \A p \in ph : p[1] # Entry
    BY DEF Settled, PhisOK
  <2> QED BY <2>1
<1>2. \A v \in Var : H[<<Entry, 1>>][v] = NoValue
  BY <1>0, <1>1 DEF Settled, AtHead
<1>3. ASSUME NEW x, Avail(s, src, ph, Entry, 1, x) PROVE FALSE
  <2> DEFINE one == 1
  <2>1. one \in Nat /\ Avail(s, src, ph, Entry, one, x)
    BY <1>3
  <2> HIDE DEF one
  <2>2. Dom(s, x[1], Entry)
    BY <1>0, <2>1, AvailFacts
  <2>3. x[1] = Entry
    BY <1>0, <2>2 DEF Ordered
  <2>4. CASE x \in ph
    BY <2>3, <2>4 DEF Settled, PhisOK
  <2>5. CASE x \notin ph
    <3>1. IsDef(src, x) /\ x[2] < 1
      BY <1>3, <2>3, <2>5 DEF Avail, SDom
    <3> DEFINE k == x[2]
               l == Fin(src, Entry)
    <3>2. k \in 1..(l - 1) /\ l \in Nat /\ k < 1
      BY <1>0, <2>3, <3>1 DEF IsDef
    <3> HIDE DEF k, l
    <3> QED BY <3>2
  <2> QED BY <2>4, <2>5
<1>4. 1 \in 1..Fin(src, Entry) /\ DOMAIN m = Var /\ \A v \in Var : m[v] = Unset
  BY <1>0
<1> HIDE DEF m, r
<1>5. \A v \in Var : m[v] = Val(r, H[<<Entry, 1>>][v])
  BY <1>2, <1>4 DEF Val
<1>6. RunOK(s, src, ph, H, Entry, 1, m, r)
  BY <1>0, <1>3, <1>4, <1>5 DEF RunOK
<1> QED BY <1>6 DEF m, r

\* RemoveAlloca keeps the invariant, and the run of the two programs may begin.
LEMMA AllocaRemoved ==
  ASSUME IInv, RemoveAlloca, UNCHANGED machine
  PROVE  IInv'
<1> PICK H, B : PassOK(H, B) /\ MachineOK(H)
  BY DEF IInv
<1>0. PlaceOK /\ UNCHANGED <<source, at, ip, mem, reg>> /\ pc = "remove" /\ pc' = "done"
      /\ UNCHANGED <<succ, code, phis, pairs, calls, keys, var_val_stack>>
  BY DEF IInv, machine, RemoveAlloca, names
<1>1. StateOK'
  BY <1>0 DEF PassOK, StateOK, WalkStates
<1>2. PassOK(H, B)'
  BY <1>0, <1>1 DEF PassOK
<1>3. PlaceOK'
  BY <1>0 DEF PlaceOK, ListOK, ClosedOK
<1>4. Settled(succ, source, phis, H)
  BY <1>0, PassSettles
<1>5. RunOK(succ, source, phis, H, Entry, 1, [v \in Var |-> Unset], <<>>)
  BY <1>4, RunStarts
<1>6. at = Entry /\ ip = 1 /\ mem = [v \in Var |-> Unset] /\ reg = <<>>
  BY <1>0 DEF MachineOK
<1>7. RunOK(succ, source, phis, H, at, ip, mem, reg)
  BY <1>5, <1>6
<1>8. MachineOK(H)'
  BY <1>0, <1>7 DEF MachineOK
<1> QED BY <1>2, <1>3, <1>8 DEF IInv

\* The source executes one instruction.
LEMMA InstrExecuted ==
  ASSUME NEW H, Settled(succ, source, phis, H), RunOK(succ, source, phis, H, at, ip, mem, reg),
         ExecCall \/ ExecLoad \/ ExecStore \/ ExecUse
  PROVE  /\ UNCHANGED <<vars, source>> /\ pc = "done"
         /\ RunOK(succ, source, phis, H, at', ip', mem', reg')
<1>0. /\ at \in Reached(succ) /\ at \in Block /\ ip \in Nat /\ ip \in 1..Fin(source, at)
      /\ DOMAIN source[at] = 1..(Fin(source, at) - 1)
      /\ source[at] \in Seq(Instr) /\ \A n \in DOMAIN source[at] : source[at][n].id = <<at, n>>
      /\ Fin(source, at) \in Nat
  <2>1. Legal(succ, source) /\ at \in Reached(succ)
    BY DEF Settled, RunOK
  <2>2. at \in Block
    BY <2>1, LegalFacts DEF Ordered
  <2>3. ip \in 1..Fin(source, at) /\ Fin(source, at) \in Nat
    BY <2>1, <2>2, LegalFacts DEF RunOK
  <2> QED BY <2>1, <2>2, <2>3, LegalFacts DEF Legal
<1>1. /\ UNCHANGED <<vars, source>> /\ pc = "done" /\ at' = at /\ ip' = ip + 1
      /\ ip <= Len(source[at])
  BY DEF ExecCall, ExecLoad, ExecStore, ExecUse, At, Step
<1>2. ip \in DOMAIN source[at] /\ now.id = <<at, ip>>
  <2>1. ip \in DOMAIN source[at]
    BY <1>0, <1>1 DEF Fin
  <2> QED BY <1>0, <2>1 DEF now
<1> DEFINE o == <<at, ip>>
           op == source[at][ip].op
<1>3. /\ \A d \in DOMAIN reg : d # o => d \in DOMAIN reg' /\ reg'[d] = reg[d]
      /\ op \in {"load", "call"} => o \in DOMAIN reg'
      /\ op = "load" => reg'[o] = mem[now.var]
      /\ mem' = IF op = "store" THEN [mem EXCEPT ![now.var] = reg[now.arg]] ELSE mem
  <2>1. CASE ExecCall
    <3>1. op = "call" /\ mem' = mem /\ \E t \in Token : Define(o, t)
      BY <1>2, <2>1 DEF ExecCall, At
    <3> QED BY <3>1 DEF Define
  <2>2. CASE ExecLoad
    <3>1. op = "load" /\ mem' = mem /\ Define(o, mem[now.var])
      BY <1>2, <2>2 DEF ExecLoad, At
    <3> QED BY <3>1 DEF Define
  <2>3. CASE ExecStore
    BY <2>3 DEF ExecStore, At
  <2>4. CASE ExecUse
    BY <2>4 DEF ExecUse, At
  <2> QED BY <2>1, <2>2, <2>3, <2>4
<1> DEFINE m2 == mem'
           r2 == reg'
<1>4. Executes(source, H, at, ip, mem, reg, m2, r2)
  BY <1>2, <1>3 DEF Executes, now
<1> HIDE DEF m2, r2
<1>5. RunOK(succ, source, phis, H, at, ip + 1, m2, r2)
  BY <1>4, RunExecutes
<1> QED BY <1>1, <1>5 DEF m2, r2

\* The source branches.
LEMMA BranchExecuted ==
  ASSUME NEW H, NEW B, PassOK(H, B), Settled(succ, source, phis, H),
         RunOK(succ, source, phis, H, at, ip, mem, reg), ExecBranch
  PROVE  /\ UNCHANGED <<vars, source>> /\ pc = "done"
         /\ RunOK(succ, source, phis, H, at', ip', mem', reg')
<1>0. /\ at \in Reached(succ) /\ at \in Block /\ ip \in 1..Fin(source, at) /\ ip \in Nat
      /\ Fin(source, at) \in Nat /\ Fin(source, at) = Len(source[at]) + 1 /\ Legal(succ, source)
  <2>1. Legal(succ, source) /\ at \in Reached(succ)
    BY DEF Settled, RunOK
  <2>2. at \in Block
    BY <2>1, LegalFacts DEF Ordered
  <2>3. ip \in 1..Fin(source, at) /\ Fin(source, at) \in Nat
    BY <2>1, <2>2, LegalFacts DEF RunOK
  <2> QED BY <2>1, <2>2, <2>3 DEF Fin
<1>1. /\ UNCHANGED <<vars, source, mem>> /\ pc = "done" /\ ip' = 1 /\ ip > Len(source[at])
  BY DEF ExecBranch
<1>2. ip = Fin(source, at)
  <2> DEFINE l == Len(source[at])
  <2>1. l \in Nat /\ ip \in 1..(l + 1) /\ ip > l
    <3>1. source[at] \in Seq(Instr)
      BY <1>0, LegalFacts
    <3> QED BY <1>0, <1>1, <3>1
  <2> HIDE DEF l
  <2>2. ip = l + 1
    BY <2>1
  <2> QED BY <1>0, <2>2 DEF l
<1>3. PICK b \in ToSet(succ[at]) :
        /\ reg' = [d \in DOMAIN reg \cup {<<b, v>> : v \in PhiVars(b)} |->
                    IF d \in phis /\ d[1] = b
                    THEN LET from == PhiOperands(b, d[2], at) \cap DOMAIN reg
                         IN  IF from = {} THEN Unset ELSE reg[CHOOSE x \in from : TRUE]
                    ELSE reg[d]]
        /\ at' = b
  BY DEF ExecBranch
<1>4. b \in Block
  <2>1. succ \in [Block -> Target]
    BY <1>0, LegalFacts
  <2>2. b \in Reached(succ)
    BY <1>0, <2>1, EdgeDom, TargetGraphs
  <2> QED BY <1>0, <2>2, LegalFacts DEF Ordered
<1>5. ASSUME NEW v \in Var, <<b, v>> \in phis
      PROVE  <<b, v>> \in DOMAIN reg' /\ reg'[<<b, v>>] = mem[v]
  <2> DEFINE from == PhiOperands(b, v, at) \cap DOMAIN reg
             y == H[<<at, ip>>][v]
  <2>1. v \in PhiVars(b)
    BY <1>5 DEF PhiVars
  <2>2. <<b, v>> \in DOMAIN reg'
        /\ reg'[<<b, v>>] = IF from = {} THEN Unset ELSE reg[CHOOSE x \in from : TRUE]
    BY <1>3, <1>5, <2>1
  <2>3. PhiOperands(b, v, at) = IF y # NoValue THEN {y} ELSE {}
    <3>1. PairsOK(succ, source, phis, calls, H, pairs) /\ calls = <<>>
      BY <1>1 DEF PassOK, WalkParts, StateOK
    <3>2. Fin(source, at) \in 0..Fin(source, at)
      BY <1>0
    <3>3. Passed(succ, source, calls, at, Fin(source, at))
      BY <1>0, <3>1, <3>2, AllPassed
    <3>4. PhiOperands(b, v, at) = Operands(pairs, b, v, at)
      BY DEF PhiOperands, Operands
    <3>5. Operands(pairs, b, v, at) =
            IF H[<<at, Fin(source, at)>>][v] # NoValue THEN {H[<<at, Fin(source, at)>>][v]} ELSE {}
      BY <1>0, <1>3, <1>4, <1>5, <3>1, <3>3 DEF PairsOK
    <3> QED BY <1>2, <3>4, <3>5
  <2>4. mem[v] = Val(reg, y)
    BY DEF RunOK
  <2>5. y # NoValue => y \in DOMAIN reg
    <3>1. y # NoValue => Avail(succ, source, phis, at, ip, y)
      BY <1>0 DEF Settled
    <3> HIDE DEF y
    <3> QED BY <3>1 DEF RunOK
  <2> HIDE DEF y
  <2>6. CASE y = NoValue
    BY <2>2, <2>3, <2>4, <2>6 DEF Val
  <2>7. CASE y # NoValue
    <3>1. from = {y}
      BY <2>3, <2>5, <2>7
    <3> HIDE DEF from
    <3>2. (CHOOSE x \in from : TRUE) = y /\ from # {}
      BY <3>1
    <3> QED BY <2>2, <2>4, <2>7, <3>2 DEF Val
  <2> QED BY <2>2, <2>6, <2>7
<1>6. \A d \in DOMAIN reg : d \notin phis \/ d[1] # b => d \in DOMAIN reg' /\ reg'[d] = reg[d]
  BY <1>3
<1> DEFINE r2 == reg'
           one == 1
<1>7. Branches(succ, phis, at, b, mem, reg, r2)
  BY <1>5, <1>6 DEF Branches
<1> HIDE DEF r2
<1>8. RunOK(succ, source, phis, H, b, 1, mem, r2)
  BY <1>2, <1>7, RunBranches
<1> QED BY <1>1, <1>3, <1>8 DEF r2

\* A step of the run keeps the invariant.
LEMMA RunExecuted ==
  ASSUME IInv, Execute
  PROVE  IInv'
<1> PICK H, B : PassOK(H, B) /\ MachineOK(H)
  BY DEF IInv
<1>1. pc = "done"
  BY DEF Execute, ExecCall, ExecLoad, ExecStore, ExecUse, ExecBranch, At
<1>2. PlaceOK /\ Settled(succ, source, phis, H) /\ RunOK(succ, source, phis, H, at, ip, mem, reg)
  BY <1>1, PassSettles DEF IInv, MachineOK
<1>3. /\ UNCHANGED <<vars, source>>
      /\ RunOK(succ, source, phis, H, at', ip', mem', reg')
  BY <1>2, InstrExecuted, BranchExecuted DEF Execute
<1>4. PassOK(H, B)' /\ PlaceOK'
  BY <1>2, <1>3, PassStays, PlaceStays
<1>5. MachineOK(H)'
  <2>1. UNCHANGED <<succ, source, phis, pc>>
    BY <1>3 DEF vars
  <2> QED BY <1>1, <1>3, <2>1 DEF MachineOK
<1> QED BY <1>4, <1>5 DEF IInv

\* So does a step that changes nothing.
LEMMA RunStays ==
  ASSUME IInv, UNCHANGED runVars
  PROVE  IInv'
<1> PICK H, B : PassOK(H, B) /\ MachineOK(H)
  BY DEF IInv
<1>1. UNCHANGED <<vars, source, at, ip, mem, reg>> /\ PlaceOK
  BY DEF runVars, machine, IInv
<1>2. PassOK(H, B)' /\ PlaceOK'
  BY <1>1, PassStays, PlaceStays
<1>3. MachineOK(H)'
  <2>1. UNCHANGED <<succ, source, phis, pc>>
    BY <1>1 DEF vars
  <2> QED BY <1>1, <2>1 DEF MachineOK
<1> QED BY <1>2, <1>3 DEF IInv

\* The invariant of the pass and of the run after it: there are values that
\* reach the places passed, and stacks, code, pairs and memory agree with them.
THEOREM Invariant == RunSpec => []IInv
<1>1. RunInit => IInv
  BY RunInitOK
<1>2. IInv /\ [RunNext]_runVars => IInv'
  <2> SUFFICES ASSUME IInv, [RunNext]_runVars PROVE IInv'
    OBVIOUS
  <2>1. CASE Compile
    <3>1. UNCHANGED machine /\ (GeneratePhi \/ ReName \/ RemoveAlloca)
      BY <2>1 DEF Compile, Next
    <3> QED BY <3>1, GeneratesPhis, ReNames, AllocaRemoved
  <2>2. CASE Execute
    BY <2>2, RunExecuted
  <2>3. CASE UNCHANGED runVars
    BY <2>3, RunStays
  <2> QED BY <2>1, <2>2, <2>3 DEF RunNext
<1> QED BY <1>1, <1>2, PTL DEF RunSpec

-----------------------------------------------------------------------------
(* What the run promises. *)

\* An instruction reads what it read before: what stands for its operand
\* holds the value the operand had in the source.
LEMMA ValuesKept == IInv => SameValues
<1> SUFFICES ASSUME IInv, At("use"), now.arg # NoValue
             PROVE  \E t \in Left(now.id) : t.arg \in DOMAIN reg /\ reg[t.arg] = reg[now.arg]
  BY DEF SameValues
<1> PICK H, B : PassOK(H, B) /\ MachineOK(H)
  BY DEF IInv
<1>0. /\ pc = "done" /\ calls = <<>> /\ Legal(succ, source)
      /\ CodeOK(succ, source, calls, code, H)
      /\ Settled(succ, source, phis, H) /\ RunOK(succ, source, phis, H, at, ip, mem, reg)
  BY PassSettles DEF At, IInv, PassOK, StateOK, WalkParts, MachineOK
<1> DEFINE x == source[at][ip].arg
<1>1. /\ at \in Reached(succ) /\ at \in Block /\ ip \in DOMAIN source[at] /\ ip \in Nat
      /\ ip \in 1..Fin(source, at)
      /\ source[at][ip].op = "use" /\ source[at][ip].id = <<at, ip>> /\ x # NoValue
  <2>1. at \in Reached(succ) /\ at \in Block /\ ip \in 1..Fin(source, at)
    BY <1>0, LegalFacts DEF RunOK, Ordered
  <2>2. source[at] \in Seq(Instr) /\ ip <= Len(source[at])
    BY <1>0, <2>1, LegalFacts DEF At
  <2>3. ip \in DOMAIN source[at] /\ ip \in Nat
    BY <2>1, <2>2
  <2> QED BY <1>0, <2>1, <2>3 DEF At, now, Legal
<1>2. IsDef(source, x) /\ x[1] \in Block /\ x[2] \in 1..(Fin(source, x[1]) - 1)
      /\ (SDom(succ, x[1], at) \/ (x[1] = at /\ x[2] < ip))
  BY <1>0, <1>1, ArgIs
<1>3. Avail(succ, source, phis, at, ip, x)
  BY <1>2 DEF Avail
<1> HIDE DEF x
<1>4. Cur(source, H, x) \in DOMAIN reg /\ reg[Cur(source, H, x)] = reg[x]
  BY <1>0, <1>3, CurHolds
<1>5. x[1] \in Reached(succ)
  BY <1>0, <1>1, <1>3, AvailFacts
<1>6. Current(succ, source, calls, H, x) = Cur(source, H, x)
  <2>1. x[2] \in 0..Fin(source, x[1])
    <3> DEFINE l == Fin(source, x[1])
               k == x[2]
    <3>1. l \in Nat /\ k \in 1..(l - 1)
      BY <1>0, <1>2, LegalFacts
    <3> HIDE DEF l, k
    <3>2. k \in 0..l
      BY <3>1
    <3> QED BY <3>2 DEF l, k
  <2>2. Passed(succ, source, calls, x[1], x[2])
    BY <1>0, <1>5, <2>1, AllPassed
  <2> QED BY <2>2 DEF Current, Cur
<1>7. ip \in DOMAIN code[at] /\ code[at][ip].id = <<at, ip>>
      /\ code[at][ip].arg = Cur(source, H, x)
  <2>1. Returned(succ, calls, at)
    <3>1. 0 \in 0..Fin(source, at)
      BY <1>0, <1>1, LegalFacts
    <3> QED BY <1>0, <1>1, <3>1, AllPassed
  <2>2. ~Gone(source, H, at, ip)
    BY <1>1 DEF Gone
  <2>3. ip \in DOMAIN code[at]
    BY <1>0, <1>1, <2>1, <2>2 DEF CodeOK
  <2> QED BY <1>0, <1>1, <1>6, <2>3 DEF CodeOK, x
<1>8. code[at][ip] \in Left(now.id)
  <2>1. now.id = <<at, ip>> /\ now.id[1] = at
    BY <1>1 DEF now
  <2>2. code[at][ip] \in ToSet(code[at])
    BY <1>7 DEF ToSet
  <2> QED BY <1>7, <2>1, <2>2 DEF Left
<1> QED BY <1>4, <1>7, <1>8 DEF x, now

\* What is left of the function computes the values of the source.
THEOREM ValuesSame == RunSpec => []SameValues
BY Invariant, ValuesKept, PTL

\* The depth of a stack is what the activations met, added up.
LEMMA StacksDeep == IInv => StacksFollowPath
<1> SUFFICES ASSUME IInv, NEW v \in Var
             PROVE  LET depth[k \in 0..Len(calls)] ==
                          IF k = 0 THEN 0 ELSE depth[k - 1] + DefinedIn(calls[k], v)
                    IN  Len(var_val_stack[v]) = depth[Len(calls)]
  BY DEF StacksFollowPath
<1> PICK H, B : PassOK(H, B)
  BY DEF IInv
<1> DEFINE m == Len(calls)
           F(f) == f = [k \in 0..m |-> IF k = 0 THEN 0 ELSE f[k - 1] + DefinedIn(calls[k], v)]
           D == CHOOSE f : F(f)
           g == [k \in 0..m |-> B[v][k]]
<1>0. /\ Legal(succ, source) /\ WalkOK(succ, source, calls) /\ m \in Nat
      /\ BasesOK(source, phis, calls, B) /\ Len(var_val_stack[v]) = B[v][m]
  <2>1. Legal(succ, source) /\ WalkOK(succ, source, calls)
        /\ StacksOK(source, phis, calls, H, var_val_stack, B)
    BY DEF PassOK, WalkParts
  <2>2. m \in Nat
    BY <2>1 DEF WalkOK
  <2> QED BY <2>1, <2>2 DEF StacksOK
<1>1. \A j \in 1..m : DefinedIn(calls[j], v) = Defs(source, phis, calls[j], v)
  BY DEF DefinedIn, Defs, StoresBefore, PhiVars
<1>2. B[v][0] = 0 /\ \A j \in 1..m : B[v][j] = B[v][j - 1] + DefinedIn(calls[j], v)
  BY <1>0, <1>1 DEF BasesOK
<1> SUFFICES B[v][m] = D[m]
  BY <1>0
<1> HIDE DEF m
<1>3. F(g)
  <2>1. ASSUME NEW k \in 0..m
        PROVE  B[v][k] = IF k = 0 THEN 0 ELSE g[k - 1] + DefinedIn(calls[k], v)
    <3>1. CASE k = 0
      BY <1>2, <3>1
    <3>2. CASE k # 0
      <4>1. k \in 1..m /\ k - 1 \in 0..m
        BY <1>0, <3>2
      <4> QED BY <1>2, <3>2, <4>1
    <3> QED BY <3>1, <3>2
  <2> QED BY <2>1
<1> HIDE DEF F, g
<1>4. F(D)
  BY <1>3
<1> HIDE DEF D
<1> DEFINE P == {k \in 0..m : D[k] = B[v][k]}
<1>5. 0 \in P
  <2>1. 0 \in 0..m
    BY <1>0
  <2> QED BY <1>2, <1>4, <2>1 DEF F
<1>6. ASSUME NEW k \in 0..(m - 1), k \in P PROVE k + 1 \in P
  <2>1. k + 1 \in 0..m /\ k + 1 # 0 /\ (k + 1) - 1 = k /\ k + 1 \in 1..m
    BY <1>0
  <2>2. D[k + 1] = D[k] + DefinedIn(calls[k + 1], v)
    <3> DEFINE n == k + 1
    <3>1. D[n] = IF n = 0 THEN 0 ELSE D[n - 1] + DefinedIn(calls[n], v)
      <4> HIDE DEF n
      <4>1. n \in 0..m
        BY <2>1 DEF n
      <4> QED BY <1>4, <4>1 DEF F
    <3> QED BY <2>1, <3>1
  <2>3. B[v][k + 1] = B[v][(k + 1) - 1] + DefinedIn(calls[k + 1], v)
    BY <1>2, <2>1
  <2> QED BY <1>6, <2>1, <2>2, <2>3
<1>7. \A k \in 0..m : k \in P
  <2> HIDE DEF P
  <2> QED BY <1>0, <1>5, <1>6, UpTo
<1>8. m \in 0..m
  BY <1>0
<1> QED BY <1>7, <1>8

\* The stacks of re_name follow the path down the dominator tree.
THEOREM StacksDepth == RunSpec => []StacksFollowPath
BY Invariant, StacksDeep, PTL

\* Where the pass fails, a stack is empty: no activation on the way stored the
\* variable, and the blocks of the activations are the strict dominators.
LEMMA FailureUnstored == IInv => FailsOnlyUnstored
<1> SUFFICES ASSUME IInv, pc \in {"assert_failed", "undefined"}
             PROVE  \E v \in {w \in Var : Used(w)} :
                      \A d \in StrictDominators(succ, bb) : ~Stores(d, v)
  BY DEF FailsOnlyUnstored
<1> PICK H, B : PassOK(H, B)
  BY DEF IInv
<1> DEFINE m == Len(calls)
<1>0. /\ Legal(succ, source) /\ WalkOK(succ, source, calls) /\ m \in Nat /\ m # 0
      /\ calls \in Seq(Frame) /\ StateOK
      /\ BasesOK(source, phis, calls, B) /\ \A w \in Var : Len(var_val_stack[w]) = B[w][m]
  <2>1. calls # <<>> /\ calls \in Seq(Frame)
    BY DEF PassOK, StateOK, WalkParts, WalkOK
  <2>2. m \in Nat /\ m # 0
    BY <2>1
  <2> QED BY <2>1, <2>2 DEF PassOK, WalkParts, StacksOK
<1>1. PICK v \in Var : UsedIn(source, v) /\ var_val_stack[v] = <<>>
  BY <1>0 DEF StateOK
<1>2. Used(v) /\ B[v][m] = 0
  BY <1>0, <1>1 DEF Used, UsedIn
<1>3. ASSUME NEW d \in StrictDominators(succ, bb) PROVE ~Stores(d, v)
  <2>1. SDom(succ, d, calls[m].bb) /\ m \in 1..m
    BY <1>0 DEF StrictDominators, SDom, Dom, bb, Top
  <2>2. PICK h \in 1..(m - 1) : calls[h].bb = d
    BY <1>0, <2>1 DEF WalkOK
  <2>3. h \in 1..m /\ h # m /\ h \in 0..m /\ h - 1 \in 0..m /\ m \in 0..m /\ h <= m
    BY <1>0
  <2>4. calls[h] \in Frame /\ calls[h].bb \in Block
    <3>1. calls[h] \in Frame
      BY <1>0, <2>3
    <3> QED BY <3>1 DEF Frame
  <2> DEFINE c == calls[h]
             k == c.ip
             l == Fin(source, d)
             T == StoresBefore(source, d, k, v)
  <2>5. k \in Nat /\ l \in Nat /\ k > l /\ DOMAIN source[d] = 1..(l - 1)
    <3>1. k \in Nat /\ l \in Nat /\ DOMAIN source[d] = 1..(l - 1)
      BY <1>0, <2>2, <2>4, LegalFacts DEF Frame
    <3>2. ~(k <= l)
      BY <1>0, <2>2, <2>3 DEF WalkOK
    <3> HIDE DEF k, l
    <3> QED BY <3>1, <3>2
  <2>6. Defs(source, phis, c, v) \in Nat
    BY <1>0, <2>4, DefsAdvance
  <2>7. Defs(source, phis, c, v) = 0
    <3> DEFINE y == B[v][h]
               z == B[v][h - 1]
               e == Defs(source, phis, c, v)
    <3>1. y \in Nat /\ z \in Nat /\ y <= B[v][m]
      BY <1>0, <2>3, BasesGrow
    <3>2. y = z + e
      BY <1>0, <2>3 DEF BasesOK
    <3> HIDE DEF y, z, e
    <3>3. e = 0
      BY <1>2, <2>6, <3>1, <3>2 DEF e
    <3> QED BY <3>3 DEF e
  <2>8. T = {}
    <3>1. IsFiniteSet(T)
      <4>1. T \subseteq 1..(k - 1) /\ 1 \in Int /\ k - 1 \in Int
        BY <2>5 DEF StoresBefore
      <4> HIDE DEF T, k
      <4> QED BY <4>1, FS_Interval, FS_Subset
    <3>2. Cardinality(T) \in Nat
      BY <3>1, FS_CardinalityType
    <3>3. Defs(source, phis, c, v) = (IF c.ip > 0 /\ <<c.bb, v>> \in phis THEN 1 ELSE 0) + Cardinality(T)
      BY <2>2 DEF Defs
    <3> HIDE DEF T, c
    <3>4. Cardinality(T) = 0
      BY <2>7, <3>2, <3>3
    <3> QED BY <3>1, <3>4, FS_EmptySet
  <2>9. ASSUME NEW n \in DOMAIN source[d], source[d][n].op = "store", source[d][n].var = v
        PROVE  FALSE
    <3>1. n \in 1..(k - 1)
      <4> HIDE DEF k, l
      <4> QED BY <2>5
    <3>2. n \in T
      BY <2>9, <3>1 DEF StoresBefore
    <3> QED BY <2>8, <3>2
  <2> QED BY <2>9 DEF Stores
<1> QED BY <1>1, <1>2, <1>3

\* An assert of re_name fails, or an empty stack is read, for unstored variables only.
THEOREM FailureOnlyUnstored == RunSpec => []FailsOnlyUnstored
BY Invariant, FailureUnstored, PTL

-----------------------------------------------------------------------------
(* A function that initialises its variables: every load finds a value, and *)
(* the values that reach a place are phis and calls, which stay.            *)

StoredFirst(src) ==
  \A v \in Var : UsedIn(src, v) =>
    \E n \in DOMAIN src[Entry] :
      /\ src[Entry][n].op = "store" /\ src[Entry][n].var = v
      /\ \A m \in DOMAIN src[Entry] : m < n /\ src[Entry][m].op = "load" => src[Entry][m].var # v
Stays(s, src, ph, x) ==
  \/ x \in ph
  \/ x \in InstrId /\ x[1] \in Reached(s) /\ x[2] \in DOMAIN src[x[1]] /\ src[x[1]][x[2]].op = "call"
StoredBy(src, b, n, v) ==
  b # Entry \/ \E k \in DOMAIN src[b] : k < n /\ src[b][k].op = "store" /\ src[b][k].var = v
Clean(s, src, ph, H, b, n) ==
  \A v \in Var :
    /\ H[<<b, n>>][v] # NoValue => Stays(s, src, ph, H[<<b, n>>][v])
    /\ UsedIn(src, v) /\ StoredBy(src, b, n, v) => H[<<b, n>>][v] # NoValue

\* A load in a clean place has a value.
LEMMA LoadClean ==
  ASSUME NEW s, NEW src, NEW ph, NEW H, Settled(s, src, ph, H), StoredFirst(src),
         NEW b \in Block, NEW n \in DOMAIN src[b], src[b][n].op = "load",
         Clean(s, src, ph, H, b, n)
  PROVE  H[<<b, n>>][src[b][n].var] # NoValue /\ Stays(s, src, ph, H[<<b, n>>][src[b][n].var])
<1> DEFINE v == src[b][n].var
<1>0. /\ src[b] \in Seq(Instr) /\ src[b][n] \in Instr /\ n \in Nat
      /\ Fin(src, b) \in Nat /\ DOMAIN src[b] = 1..(Fin(src, b) - 1)
  BY LegalFacts DEF Settled
<1>1. v \in Var /\ UsedIn(src, v)
  BY <1>0 DEF Instr, UsedIn
<1>2. StoredBy(src, b, n, v)
  <2> SUFFICES ASSUME b = Entry PROVE StoredBy(src, b, n, v)
    BY DEF StoredBy
  <2>1. PICK k \in DOMAIN src[b] :
          /\ src[b][k].op = "store" /\ src[b][k].var = v
          /\ \A m \in DOMAIN src[b] : m < k /\ src[b][m].op = "load" => src[b][m].var # v
    BY <1>1 DEF StoredFirst
  <2>2. ~(n < k) /\ n # k
    BY <2>1
  <2>3. k \in Nat
    BY <1>0
  <2>4. k < n
    BY <1>0, <2>2, <2>3
  <2> QED BY <2>1, <2>4 DEF StoredBy
<1> HIDE DEF v
<1>3. H[<<b, n>>][v] # NoValue /\ Stays(s, src, ph, H[<<b, n>>][v])
  BY <1>1, <1>2 DEF Clean
<1> QED BY <1>3 DEF v

\* What an instruction reads stays, if the places before it are clean.
LEMMA ArgStays ==
  ASSUME NEW s, NEW src, NEW ph, NEW H, Settled(s, src, ph, H), StoredFirst(src),
         NEW b \in Reached(s), NEW n \in DOMAIN src[b], src[b][n].arg # NoValue,
         \A a \in Block : \A k \in 1..Fin(src, a) :
           SDom(s, a, b) \/ (a = b /\ k <= n) => Clean(s, src, ph, H, a, k)
  PROVE  Stays(s, src, ph, Cur(src, H, src[b][n].arg))
<1> DEFINE x == src[b][n].arg
           a == x[1]
           k == x[2]
<1>0. Legal(s, src) /\ Ordered(s) /\ b \in Block /\ n \in Nat
  <2>1. Legal(s, src) /\ Ordered(s) /\ b \in Block
    BY LegalFacts DEF Settled, Ordered
  <2>2. Fin(src, b) \in Nat /\ DOMAIN src[b] = 1..(Fin(src, b) - 1)
    BY <2>1, LegalFacts
  <2> QED BY <2>1, <2>2
<1>1. /\ IsDef(src, x) /\ x = <<a, k>> /\ a \in Block /\ k \in 1..(Fin(src, a) - 1)
      /\ SDom(s, a, b) \/ (a = b /\ k < n)
  BY <1>0, ArgIs
<1>2. a \in Reached(s) /\ k \in DOMAIN src[a] /\ Fin(src, a) \in Nat /\ DOMAIN src[a] = 1..(Fin(src, a) - 1)
  BY <1>0, <1>1, LegalFacts DEF IsDef, SDom, Ordered
<1>3. CASE src[a][k].op = "load"
  <2>1. k \in 1..Fin(src, a) /\ (SDom(s, a, b) \/ (a = b /\ k <= n))
    <3> HIDE DEF a, k
    <3> QED BY <1>0, <1>1, <1>2
  <2>2. Clean(s, src, ph, H, a, k)
    BY <1>1, <2>1
  <2>3. H[<<a, k>>][src[a][k].var] # NoValue /\ Stays(s, src, ph, H[<<a, k>>][src[a][k].var])
    <3> HIDE DEF a, k
    <3> QED BY <1>1, <1>2, <1>3, <2>2, LoadClean
  <2>4. IsLoad(src, x) /\ VarOf(src, x) = src[a][k].var
    BY <1>1, <1>3 DEF IsLoad, VarOf
  <2>5. Cur(src, H, x) = H[<<a, k>>][src[a][k].var]
    BY <1>1, <2>3, <2>4 DEF Cur
  <2> QED BY <2>3, <2>5
<1>4. CASE src[a][k].op # "load"
  <2>1. src[a][k].op = "call" /\ x \in InstrId
    BY <1>1, <1>4 DEF IsDef
  <2>2. Cur(src, H, x) = x
    BY <1>4 DEF Cur, IsLoad
  <2>3. Stays(s, src, ph, x)
    BY <1>2, <2>1 DEF Stays
  <2> QED BY <2>2, <2>3
<1> QED BY <1>3, <1>4

\* Every place that can be executed is clean.
LEMMA AllClean ==
  ASSUME NEW s, NEW src, NEW ph, NEW H, Settled(s, src, ph, H), StoredFirst(src)
  PROVE  \A b \in Reached(s) : \A n \in 1..Fin(src, b) : Clean(s, src, ph, H, b, n)
<1> DEFINE S == {b \in Block : \A n \in 1..Fin(src, b) : Clean(s, src, ph, H, b, n)}
<1>0. Legal(s, src) /\ Ordered(s) /\ s \in [Block -> Target] /\ Entry \in Block
  BY LegalFacts DEF Settled, Ordered
<1>1. ASSUME NEW b \in Reached(s), \A a : SDom(s, a, b) => a \in S
      PROVE  b \in S
  <2> DEFINE l == Fin(src, b)
             P == {m \in 0..l : \A n \in 1..m : Clean(s, src, ph, H, b, n)}
  <2>0. /\ b \in Block /\ l \in Nat /\ l >= 1 /\ DOMAIN src[b] = 1..(l - 1)
        /\ src[b] \in Seq(Instr)
    BY <1>0, LegalFacts DEF Ordered
  <2>1. Clean(s, src, ph, H, b, 1)
    <3> SUFFICES ASSUME NEW v \in Var
                 PROVE  /\ H[<<b, 1>>][v] # NoValue => Stays(s, src, ph, H[<<b, 1>>][v])
                        /\ UsedIn(src, v) /\ StoredBy(src, b, 1, v) => H[<<b, 1>>][v] # NoValue
      BY DEF Clean
    <3>1. H[<<b, 1>>][v] = AtHead(s, src, ph, H, b, v)
      BY DEF Settled
    <3>2. CASE <<b, v>> \in ph
      BY <3>1, <3>2 DEF AtHead, Stays, NoValue
    <3>3. CASE <<b, v>> \notin ph /\ b = Entry
      <4>1. H[<<b, 1>>][v] = NoValue
        BY <3>1, <3>3 DEF AtHead
      <4>2. ~StoredBy(src, b, 1, v)
        <5>1. \A k \in DOMAIN src[b] : ~(k < 1)
          <6> HIDE DEF l
          <6> QED BY <2>0
        <5> QED BY <3>3, <5>1 DEF StoredBy
      <4> QED BY <4>1, <4>2
    <3>4. CASE <<b, v>> \notin ph /\ b # Entry
      <4> DEFINE d == ImmediateDominator(s, b)
                 e == Fin(src, d)
      <4>1. SDom(s, d, b)
        BY <1>0, <3>4, IdomIs, TargetGraphs
      <4> HIDE DEF d
      <4>2. d \in S /\ d \in Block
        BY <1>1, <4>1
      <4>3. e \in Nat /\ e >= 1 /\ DOMAIN src[d] = 1..(e - 1)
        BY <1>0, <4>2, LegalFacts
      <4>4. Clean(s, src, ph, H, d, e)
        <5>1. e \in 1..e
          <6> HIDE DEF e
          <6> QED BY <4>3
        <5> QED BY <4>2, <5>1
      <4>5. UsedIn(src, v) => StoredBy(src, d, e, v)
        <5> SUFFICES ASSUME UsedIn(src, v), d = Entry PROVE StoredBy(src, d, e, v)
          BY DEF StoredBy
        <5>1. PICK k \in DOMAIN src[d] : src[d][k].op = "store" /\ src[d][k].var = v
          BY DEF StoredFirst
        <5>2. k < e
          <6> HIDE DEF e
          <6> QED BY <4>3
        <5> QED BY <5>1, <5>2 DEF StoredBy
      <4>6. H[<<b, 1>>][v] = H[<<d, e>>][v]
        BY <3>1, <3>4 DEF AtHead, d
      <4> QED BY <4>4, <4>5, <4>6 DEF Clean
    <3> QED BY <3>2, <3>3, <3>4
  <2>2. ASSUME NEW n \in DOMAIN src[b], \A k \in 1..n : Clean(s, src, ph, H, b, k)
        PROVE  Clean(s, src, ph, H, b, n + 1)
    <3>0. n \in Nat /\ n \in 1..n /\ n >= 1
      BY <2>0
    <3> SUFFICES ASSUME NEW v \in Var
                 PROVE  /\ H[<<b, n + 1>>][v] # NoValue => Stays(s, src, ph, H[<<b, n + 1>>][v])
                        /\ UsedIn(src, v) /\ StoredBy(src, b, n + 1, v) => H[<<b, n + 1>>][v] # NoValue
      BY DEF Clean
    <3>1. H[<<b, n + 1>>][v] = After(src, H, b, n, v)
      BY DEF Settled
    <3> DEFINE z == H[<<b, n + 1>>][v]
               new == src[b][n].op = "store" /\ src[b][n].var = v
    <3>2. CASE new
      <4>1. src[b][n].arg # NoValue
        BY <1>0, <2>0, <3>2 DEF Legal
      <4>2. \A a \in Block : \A k \in 1..Fin(src, a) :
              SDom(s, a, b) \/ (a = b /\ k <= n) => Clean(s, src, ph, H, a, k)
        <5>1. \A k \in 1..l : k <= n => k \in 1..n
          <6> HIDE DEF l
          <6> QED BY <3>0
        <5> QED BY <1>1, <2>2, <5>1
      <4>3. Stays(s, src, ph, Cur(src, H, src[b][n].arg))
        <5> HIDE DEF S
        <5> QED BY <4>1, <4>2, ArgStays
      <4>4. z = Cur(src, H, src[b][n].arg)
        BY <3>1, <3>2 DEF After
      <4>5. \A x : Stays(s, src, ph, x) => x # NoValue
        BY DEF Stays, NoValue, InstrId, Settled, PhisOK
      <4> QED BY <4>3, <4>4, <4>5
    <3>3. CASE ~new
      <4>1. z = H[<<b, n>>][v]
        BY <3>1, <3>3 DEF After
      <4>2. StoredBy(src, b, n + 1, v) => StoredBy(src, b, n, v)
        <5> SUFFICES ASSUME NEW k \in DOMAIN src[b], k < n + 1,
                            src[b][k].op = "store", src[b][k].var = v
                     PROVE  k < n
          BY DEF StoredBy
        <5>1. k # n
          BY <3>3
        <5>2. k \in Nat
          BY <2>0
        <5> QED BY <3>0, <5>1, <5>2
      <4>3. Clean(s, src, ph, H, b, n)
        BY <2>2, <3>0
      <4> QED BY <4>1, <4>2, <4>3 DEF Clean
    <3> QED BY <3>2, <3>3
  <2>3. 0 \in P
    BY <2>0
  <2>4. ASSUME NEW m \in 0..(l - 1), m \in P PROVE m + 1 \in P
    <3>1. m + 1 \in 0..l /\ m \in Nat
      BY <2>0
    <3>2. Clean(s, src, ph, H, b, m + 1)
      <4>1. CASE m = 0
        <5>1. m + 1 = 1
          BY <4>1
        <5> QED BY <2>1, <5>1
      <4>2. CASE m # 0
        <5>1. m \in DOMAIN src[b]
          BY <2>0, <4>2
        <5> QED BY <2>2, <2>4, <5>1
      <4> QED BY <4>1, <4>2
    <3>3. \A n \in 1..(m + 1) : n \in 1..m \/ n = m + 1
      BY <3>1
    <3> QED BY <2>4, <3>1, <3>2, <3>3
  <2>5. \A m \in 0..l : m \in P
    <3> HIDE DEF P, l
    <3> QED BY <2>0, <2>3, <2>4, UpTo
  <2>6. \A n \in 1..l : Clean(s, src, ph, H, b, n)
    <3>1. l \in 0..l
      BY <2>0
    <3> QED BY <2>5, <3>1
  <2> QED BY <2>0, <2>6
<1>2. Reached(s) \subseteq S
  <2> HIDE DEF S
  <2> QED BY <1>0, <1>1, DownTheTree
<1> QED BY <1>2

\* Loads and stores are gone, and what the rest reads stays.
LEMMA NothingDangles == IInv => NoDangling
<1> SUFFICES ASSUME IInv, pc = "done", Initialised
             PROVE  /\ \A b \in Reached(succ) : \A t \in ToSet(code[b]) :
                          /\ t.op \in {"load", "store"} => t.var \in allocas
                          /\ t.arg # NoValue => t.arg \in Defined
                    /\ \A p \in phis : \A q \in ToSet(pairs[p]) : q[1] \in Defined
  BY DEF NoDangling
<1> PICK H, B : PassOK(H, B) /\ MachineOK(H)
  BY DEF IInv
<1>0. /\ calls = <<>> /\ Legal(succ, source) /\ PhisOK(succ, source, phis)
      /\ CodeOK(succ, source, calls, code, H)
      /\ PairsOK(succ, source, phis, calls, H, pairs)
      /\ Settled(succ, source, phis, H)
  BY PassSettles DEF IInv, PassOK, StateOK, WalkParts
<1>1. StoredFirst(source)
  <2> SUFFICES ASSUME NEW v \in Var, UsedIn(source, v)
               PROVE  \E n \in DOMAIN source[Entry] :
                        /\ source[Entry][n].op = "store" /\ source[Entry][n].var = v
                        /\ \A m \in DOMAIN source[Entry] :
                             m < n /\ source[Entry][m].op = "load" => source[Entry][m].var # v
    BY DEF StoredFirst
  <2>1. Used(v)
    BY DEF Used, UsedIn
  <2>2. PICK n \in DOMAIN source[Entry] :
          /\ source[Entry][n].op = "store" /\ source[Entry][n].var = v
          /\ \A m \in 1..(n - 1) : source[Entry][m].op = "load" => source[Entry][m].var # v
    BY <2>1 DEF Initialised
  <2>3. \A m \in DOMAIN source[Entry] : m < n => m \in 1..(n - 1)
    <3> DEFINE l == Fin(source, Entry)
    <3>1. l \in Nat /\ DOMAIN source[Entry] = 1..(l - 1)
      BY <1>0, LegalFacts DEF Ordered
    <3> HIDE DEF l
    <3> QED BY <3>1
  <2> QED BY <2>2, <2>3
<1>2. \A b \in Reached(succ) : \A n \in 1..Fin(source, b) : Clean(succ, source, phis, H, b, n)
  BY <1>0, <1>1, AllClean
<1>3. ASSUME NEW b \in Reached(succ)
      PROVE  /\ b \in Block /\ source[b] \in Seq(Instr)
             /\ Fin(source, b) \in Nat /\ DOMAIN source[b] = 1..(Fin(source, b) - 1)
             /\ Fin(source, b) \in 1..Fin(source, b)
             /\ DOMAIN source[b] \subseteq 1..Fin(source, b)
             /\ Returned(succ, calls, b)
  <2> DEFINE l == Fin(source, b)
  <2>1. b \in Block
    BY <1>0, LegalFacts DEF Ordered
  <2>2. l \in Nat /\ l >= 1 /\ DOMAIN source[b] = 1..(l - 1) /\ source[b] \in Seq(Instr)
    BY <1>0, <2>1, LegalFacts
  <2>3. l \in 1..l /\ 0 \in 0..l /\ 1..(l - 1) \subseteq 1..l
    <3> HIDE DEF l
    <3> QED BY <2>2
  <2> QED BY <1>0, <2>1, <2>2, <2>3, AllPassed
<1>4. ASSUME NEW b \in Reached(succ), NEW n \in DOMAIN code[b]
      PROVE  /\ n \in DOMAIN source[b] /\ ~Gone(source, H, b, n)
             /\ code[b][n].op = source[b][n].op
             /\ code[b][n].id = <<b, n>>
             /\ code[b][n].arg = Current(succ, source, calls, H, source[b][n].arg)
  BY <1>0, <1>3 DEF CodeOK
<1>5. ASSUME NEW b \in Reached(succ), NEW n \in DOMAIN source[b], source[b][n].op = "call"
      PROVE  <<b, n>> \in Defined
  <2>1. n \in DOMAIN code[b]
    <3>1. ~Gone(source, H, b, n)
      BY <1>5 DEF Gone
    <3>2. DOMAIN code[b] = {m \in DOMAIN source[b] : ~Gone(source, H, b, m)}
      BY <1>0, <1>3 DEF CodeOK
    <3> QED BY <3>1, <3>2
  <2>2. code[b][n] \in ToSet(code[b]) /\ b \in Block
    BY <1>3, <2>1 DEF ToSet
  <2>3. code[b][n].op = "call" /\ code[b][n].id = <<b, n>>
    BY <1>4, <1>5, <2>1
  <2> DEFINE T == {t \in UNION {ToSet(code[a]) : a \in Block} : t.op \in {"load", "call"}}
  <2>4. code[b][n] \in T
    BY <2>2, <2>3
  <2>5. <<b, n>> \in {t.id : t \in T}
    <3> HIDE DEF T
    <3> QED BY <2>3, <2>4
  <2> QED BY <2>5 DEF Defined
<1>6. ASSUME NEW x, Stays(succ, source, phis, x) PROVE x \in Defined
  <2>1. CASE x \in phis
    BY <2>1 DEF Defined
  <2>2. CASE x \in InstrId /\ x[1] \in Reached(succ) /\ x[2] \in DOMAIN source[x[1]]
             /\ source[x[1]][x[2]].op = "call"
    <3>1. x = <<x[1], x[2]>>
      BY <2>2 DEF InstrId
    <3> DEFINE b == x[1]
               n == x[2]
    <3>2. <<b, n>> \in Defined
      <4>1. b \in Reached(succ) /\ n \in DOMAIN source[b] /\ source[b][n].op = "call"
        BY <2>2
      <4> HIDE DEF b, n
      <4> QED BY <1>5, <4>1
    <3> QED BY <3>1, <3>2
  <2> QED BY <1>6, <2>1, <2>2 DEF Stays
<1>7. ASSUME NEW b \in Reached(succ), NEW t \in ToSet(code[b])
      PROVE  /\ t.op \notin {"load", "store"}
             /\ t.arg # NoValue => t.arg \in Defined
  <2>1. PICK n \in DOMAIN code[b] : t = code[b][n]
    BY DEF ToSet
  <2>2. n \in DOMAIN source[b] /\ n \in 1..Fin(source, b) /\ b \in Block
    BY <1>3, <1>4
  <2>3. t.op \notin {"load", "store"}
    <3>1. source[b][n].op # "store"
      BY <1>4 DEF Gone
    <3>2. source[b][n].op # "load"
      <4> SUFFICES ASSUME source[b][n].op = "load" PROVE FALSE
        OBVIOUS
      <4>1. Clean(succ, source, phis, H, b, n)
        BY <1>2, <2>2
      <4>2. H[<<b, n>>][source[b][n].var] # NoValue
        BY <1>0, <1>1, <2>2, <4>1, LoadClean
      <4>3. ~Gone(source, H, b, n)
        BY <1>4
      <4> QED BY <4>2, <4>3 DEF Gone
    <3>3. t.op = source[b][n].op
      BY <1>4, <2>1
    <3> QED BY <3>1, <3>2, <3>3
  <2>4. ASSUME t.arg # NoValue PROVE t.arg \in Defined
    <3> DEFINE x == source[b][n].arg
    <3>1. t.arg = Current(succ, source, calls, H, x)
      BY <1>4, <2>1
    <3>2. x # NoValue
      <4> SUFFICES ASSUME x = NoValue PROVE FALSE
        OBVIOUS
      <4>1. ~IsLoad(source, x)
        BY DEF IsLoad, IsDef, InstrId, NoValue
      <4>2. t.arg = x
        BY <3>1, <4>1 DEF Current
      <4> QED BY <2>4, <4>2
    <3>3. IsDef(source, x) /\ x[1] \in Reached(succ) /\ x[2] \in 0..Fin(source, x[1])
      <4>1. /\ IsDef(source, x) /\ x[1] \in Block /\ x[2] \in 1..(Fin(source, x[1]) - 1)
            /\ SDom(succ, x[1], b) \/ (x[1] = b /\ x[2] < n)
        BY <1>0, <2>2, <3>2, ArgIs
      <4>2. Fin(source, x[1]) \in Nat
        BY <1>0, <4>1, LegalFacts
      <4>3. x[1] \in Reached(succ)
        BY <1>0, <4>1, LegalFacts DEF SDom, Ordered
      <4> DEFINE l == Fin(source, x[1])
                 k == x[2]
      <4>4. k \in 0..l
        <5> HIDE DEF l, k
        <5> QED BY <4>1, <4>2 DEF l, k
      <4> QED BY <4>1, <4>3, <4>4
    <3>4. t.arg = Cur(source, H, x)
      <4>1. Passed(succ, source, calls, x[1], x[2])
        BY <1>0, <3>3, AllPassed
      <4> QED BY <3>1, <4>1 DEF Current, Cur
    <3>5. \A a \in Block : \A k \in 1..Fin(source, a) :
            SDom(succ, a, b) \/ (a = b /\ k <= n) => Clean(succ, source, phis, H, a, k)
      BY <1>0, <1>2, LegalFacts DEF SDom, Ordered
    <3>6. Stays(succ, source, phis, Cur(source, H, x))
      BY <1>0, <1>1, <2>2, <3>2, <3>5, ArgStays
    <3> QED BY <1>6, <3>4, <3>6
  <2> QED BY <2>3, <2>4
<1>8. ASSUME NEW p \in phis, NEW q \in ToSet(pairs[p]) PROVE q[1] \in Defined
  <2>1. p \in Block \X Var /\ p = <<p[1], p[2]>> /\ p[1] \in Block /\ p[2] \in Var
    BY <1>0 DEF PhisOK
  <2> DEFINE y == p[1]
             v == p[2]
             a == q[2]
             l == Fin(source, a)
  <2>2. q \in Value \X Block
    <3>1. pairs[p] \in Seq(Value \X Block)
      BY <1>0, <2>1 DEF PairsOK
    <3> DEFINE r == pairs[p]
    <3>2. PICK k \in DOMAIN r : q = r[k]
      BY DEF ToSet
    <3> HIDE DEF r
    <3> QED BY <3>1, <3>2 DEF r
  <2>3. q[1] \in Operands(pairs, y, v, a)
    BY <2>1 DEF Operands
  <2>4. /\ Passed(succ, source, calls, a, l) /\ H[<<a, l>>][v] # NoValue
        /\ q[1] = H[<<a, l>>][v]
    <3>1. a \in Block
      BY <2>2
    <3>2. Operands(pairs, y, v, a) =
            IF /\ <<y, v>> \in phis /\ y \in ToSet(succ[a])
               /\ Passed(succ, source, calls, a, l) /\ H[<<a, l>>][v] # NoValue
            THEN {H[<<a, l>>][v]} ELSE {}
      BY <1>0, <2>1, <3>1 DEF PairsOK
    <3> HIDE DEF l, y, v, a
    <3> QED BY <2>3, <3>2
  <2>5. a \in Reached(succ)
    <3>1. Returned(succ, calls, a)
      BY <1>0, <2>4 DEF Passed
    <3> QED BY <3>1 DEF Returned
  <2>6. Clean(succ, source, phis, H, a, l)
    BY <1>2, <1>3, <2>5
  <2>7. Stays(succ, source, phis, H[<<a, l>>][v])
    BY <2>1, <2>4, <2>6 DEF Clean
  <2> QED BY <1>6, <2>4, <2>7
<1> QED BY <1>7, <1>8

\* In an initialised function nothing refers to what the pass erased.
THEOREM NothingDangling == RunSpec => []NoDangling
BY Invariant, NothingDangles, PTL

-----------------------------------------------------------------------------
(* The phis of a variable are its iterated dominance frontier. *)

\* One round of the iteration from the blocks of A, and n of them.
Spread(fr, A, X) == UNION {fr[b] : b \in A \cup X}
Spreads(n, fr, A, f) == f = [k \in 0..n |-> UNION {fr[b] : b \in A \cup IF k = 0 THEN {} ELSE f[k - 1]}]

\* The recursive function of the iterated frontier exists.
LEMMA SpreadsExist ==
  ASSUME NEW n \in Nat, NEW fr, NEW A
  PROVE  \E f : Spreads(n, fr, A, f)
<1> DEFINE P == {k \in 0..n : \E f : Spreads(k, fr, A, f)}
           next(X) == UNION {fr[b] : b \in A \cup X}
<1>1. 0 \in P
  <2> DEFINE f == [k \in 0..0 |-> next({})]
  <2>1. Spreads(0, fr, A, f)
    BY DEF Spreads
  <2> QED BY <2>1
<1>2. ASSUME NEW k \in 0..(n - 1), k \in P PROVE k + 1 \in P
  <2> PICK f : Spreads(k, fr, A, f)
    BY <1>2
  <2>1. k \in Nat /\ k + 1 \in 0..n
    OBVIOUS
  <2> DEFINE g == [j \in 0..(k + 1) |-> IF j <= k THEN f[j] ELSE next(f[k])]
  <2>2. ASSUME NEW j \in 0..(k + 1)
        PROVE  g[j] = next(IF j = 0 THEN {} ELSE g[j - 1])
    <3>1. CASE j <= k
      <4>1. j \in 0..k /\ g[j] = f[j]
        BY <2>1, <3>1
      <4>2. f[j] = next(IF j = 0 THEN {} ELSE f[j - 1])
        BY <4>1 DEF Spreads
      <4>3. j # 0 => g[j - 1] = f[j - 1]
        BY <2>1, <3>1
      <4> HIDE DEF g, next
      <4> QED BY <4>1, <4>2, <4>3
    <3>2. CASE ~(j <= k)
      <4>1. j = k + 1 /\ j # 0 /\ j - 1 = k
        BY <2>1, <3>2
      <4>2. g[j] = next(f[k]) /\ g[k] = f[k]
        BY <2>1, <3>2
      <4> HIDE DEF g, next
      <4> QED BY <4>1, <4>2
    <3> QED BY <3>1, <3>2
  <2>3. g = [j \in 0..(k + 1) |-> next(IF j = 0 THEN {} ELSE g[j - 1])]
    <3>1. DOMAIN g = 0..(k + 1) /\ g = [j \in 0..(k + 1) |-> g[j]]
      OBVIOUS
    <3> HIDE DEF g, next
    <3> QED BY <2>2, <3>1
  <2>4. Spreads(k + 1, fr, A, g)
    <3> HIDE DEF g
    <3> QED BY <2>3 DEF Spreads
  <2> HIDE DEF g
  <2> QED BY <2>1, <2>4
<1>3. n \in 0..n
  OBVIOUS
<1>4. n \in P
  <2> HIDE DEF P
  <2> QED BY <1>1, <1>2, <1>3, UpTo
<1> QED BY <1>4

\* The rounds, one by one; and after n of them nothing new comes.
LEMMA SpreadsClose ==
  ASSUME NEW n \in Nat, NEW fr \in [1..n -> SUBSET (1..n)], NEW A \in SUBSET (1..n),
         NEW f, Spreads(n, fr, A, f)
  PROVE  /\ f[n] \in SUBSET (1..n) /\ Spread(fr, A, f[n]) = f[n]
         /\ \A X : Spread(fr, A, X) \subseteq X => f[n] \subseteq X
<1>1. f[0] = Spread(fr, A, {})
  <2>1. 0 \in 0..n
    OBVIOUS
  <2> QED BY <2>1 DEF Spreads, Spread
<1>2. ASSUME NEW k \in 0..(n - 1) PROVE f[k + 1] = Spread(fr, A, f[k])
  <2> DEFINE j == k + 1
  <2>1. j \in 0..n /\ j # 0 /\ j - 1 = k
    OBVIOUS
  <2> HIDE DEF j
  <2>2. f[j] = Spread(fr, A, f[k])
    BY <2>1 DEF Spreads, Spread
  <2> QED BY <2>2 DEF j
<1>3. \A X \in SUBSET (1..n) : Spread(fr, A, X) \in SUBSET (1..n)
  BY DEF Spread
<1>4. \A X, Y : X \subseteq Y => Spread(fr, A, X) \subseteq Spread(fr, A, Y)
  BY DEF Spread
<1>c. \A T \in SUBSET (1..n) : IsFiniteSet(T) /\ Cardinality(T) \in Nat /\ Cardinality(T) <= n
                               /\ (Cardinality(T) >= n => T = 1..n)
  <2>1. 1 \in Int /\ n \in Int
    OBVIOUS
  <2>2. IsFiniteSet(1..n) /\ Cardinality(1..n) = n
    BY <2>1, FS_Interval
  <2>3. ASSUME NEW T \in SUBSET (1..n)
        PROVE  /\ IsFiniteSet(T) /\ Cardinality(T) \in Nat /\ Cardinality(T) <= n
               /\ Cardinality(T) >= n => T = 1..n
    <3> DEFINE I == 1..n
    <3>0. T \subseteq I /\ IsFiniteSet(I) /\ Cardinality(I) = n
      BY <2>2
    <3> HIDE DEF I
    <3>1. IsFiniteSet(T) /\ Cardinality(T) <= n /\ (Cardinality(T) = n => T = I)
      BY <3>0, FS_Subset
    <3>2. Cardinality(T) \in Nat
      BY <3>1, FS_CardinalityType
    <3> QED BY <3>1, <3>2 DEF I
  <2> QED BY <2>3
<1> DEFINE P == {k \in 0..n : /\ f[k] \in SUBSET (1..n) /\ f[k] \subseteq Spread(fr, A, f[k])
                              /\ Spread(fr, A, f[k]) = f[k] \/ Cardinality(f[k]) >= k}
<1>5. 0 \in P
  <2>1. f[0] \in SUBSET (1..n)
    BY <1>1, <1>3
  <2>2. f[0] \subseteq Spread(fr, A, f[0])
    BY <1>1, <1>4
  <2>3. Cardinality(f[0]) >= 0
    BY <1>c, <2>1
  <2> QED BY <2>1, <2>2, <2>3
<1>6. ASSUME NEW k \in 0..(n - 1), k \in P PROVE k + 1 \in P
  <2> DEFINE C == f[k]
             D == f[k + 1]
  <2>1. D = Spread(fr, A, C) /\ C \subseteq D /\ C \in SUBSET (1..n)
        /\ (Spread(fr, A, C) = C \/ Cardinality(C) >= k)
    BY <1>2, <1>6
  <2>2. k + 1 \in 0..n /\ k \in Nat
    OBVIOUS
  <2>3. D \in SUBSET (1..n) /\ D \subseteq Spread(fr, A, D)
    BY <1>3, <1>4, <2>1
  <2>4. Spread(fr, A, D) = D \/ Cardinality(D) >= k + 1
    <3> HIDE DEF C, D
    <3>1. CASE C = D
      BY <2>1, <3>1
    <3>2. CASE C # D
      <4>1. Spread(fr, A, C) # C
        BY <2>1, <3>2
      <4>2. IsFiniteSet(D) /\ Cardinality(C) \in Nat /\ Cardinality(D) \in Nat
        BY <1>c, <2>1, <2>3
      <4>3. Cardinality(C) <= Cardinality(D) /\ Cardinality(C) # Cardinality(D)
        <5>1. C \in SUBSET D /\ IsFiniteSet(D)
          BY <2>1, <4>2
        <5> QED BY <3>2, <5>1, FS_Subset
      <4> QED BY <2>1, <2>2, <4>1, <4>2, <4>3
    <3> QED BY <3>1, <3>2
  <2> QED BY <2>2, <2>3, <2>4
<1>7. n \in P
  <2>1. n \in 0..n
    OBVIOUS
  <2> HIDE DEF P
  <2> QED BY <1>5, <1>6, <2>1, UpTo
<1>8. f[n] \in SUBSET (1..n) /\ Spread(fr, A, f[n]) = f[n]
  <2>1. f[n] \in SUBSET (1..n) /\ f[n] \subseteq Spread(fr, A, f[n])
        /\ (Spread(fr, A, f[n]) = f[n] \/ Cardinality(f[n]) >= n)
    BY <1>7
  <2>2. Cardinality(f[n]) >= n => f[n] = 1..n
    BY <1>c, <2>1
  <2>3. Spread(fr, A, f[n]) \in SUBSET (1..n)
    BY <1>3, <2>1
  <2> QED BY <2>1, <2>2, <2>3
<1>9. ASSUME NEW X, Spread(fr, A, X) \subseteq X PROVE f[n] \subseteq X
  <2> DEFINE Q == {k \in 0..n : f[k] \subseteq X}
  <2>1. 0 \in Q
    BY <1>1, <1>4, <1>9
  <2>2. ASSUME NEW k \in 0..(n - 1), k \in Q PROVE k + 1 \in Q
    BY <1>2, <1>4, <1>9, <2>2
  <2>3. n \in 0..n
    OBVIOUS
  <2> HIDE DEF Q
  <2>4. n \in Q
    BY <2>1, <2>2, <2>3, UpTo
  <2> QED BY <2>4 DEF Q
<1> QED BY <1>8, <1>9

\* A block has a phi only because every closed set of blocks has it.
HoldsFrontiers(s, src, v, X) ==
  \A b \in Storing(src, v) \cup X : Frontier(s, b) \subseteq X
Needed(s, src, v, y) == \A X \in SUBSET Block : HoldsFrontiers(s, src, v, X) => y \in X
Least ==
  /\ \A p \in phis : Needed(succ, source, p[2], p[1])
  /\ pc = "place" => \A k \in 1..Len(work_list) :
       work_list[k] \in Storing(source, var) \/ <<work_list[k], var>> \in phis

\* The frontier of a block that stores the variable or needs a phi needs one.
LEMMA FrontierNeeded ==
  ASSUME NEW s, NEW src, NEW v, NEW b \in Block, NEW y \in Frontier(s, b),
         b \in Storing(src, v) \/ Needed(s, src, v, b)
  PROVE  Needed(s, src, v, y)
<1> SUFFICES ASSUME NEW X \in SUBSET Block, HoldsFrontiers(s, src, v, X) PROVE y \in X
  BY DEF Needed
<1>1. b \in Storing(src, v) \/ b \in X
  BY DEF Needed
<1> QED BY <1>1 DEF HoldsFrontiers

\* Only PlacePhis adds phis, and those are in the frontier of a block that needs them.
LEMMA StaysLeast ==
  ASSUME IInv, Least, [RunNext]_runVars
  PROVE  Least'
<1> PICK H, B : PassOK(H, B)
  BY DEF IInv
<1>0. PlaceOK /\ PhisOK(succ, source, phis) /\ (pc = "place" => code = source) /\ Legal(succ, source)
  BY DEF IInv, PassOK, StateOK
<1>1. CASE UNCHANGED runVars
  BY <1>1 DEF Least, runVars, vars, place, machine
<1>2. CASE Execute
  <2>1. UNCHANGED <<vars, source>>
    BY <1>2 DEF Execute, ExecCall, ExecLoad, ExecStore, ExecUse, ExecBranch, Step
  <2> QED BY <2>1 DEF Least, vars
<1>3. CASE UNCHANGED machine /\ RemoveAlloca
  BY <1>3 DEF RemoveAlloca, Least, machine
<1>4. CASE UNCHANGED machine /\ ReName
  <2>1. pc = "rename" /\ pc' # "place" /\ UNCHANGED <<succ, source, phis>>
    <3>0. UNCHANGED source
      BY <1>4 DEF machine
    <3>1. CASE PushPhis
      BY <3>0, <3>1 DEF PushPhis
    <3>2. CASE RenameLoad
      BY <3>0, <3>2 DEF RenameLoad, AtInstr
    <3>3. CASE RenameStore
      BY <3>0, <3>3 DEF RenameStore, AtInstr
    <3>4. CASE PassInstr
      BY <3>0, <3>4 DEF PassInstr, AtInstr
    <3>5. CASE FillSuccessors
      BY <3>0, <3>5 DEF FillSuccessors
    <3>6. CASE Descend
      BY <3>0, <3>6 DEF Descend
    <3>7. CASE Leave
      BY <3>0, <3>7 DEF Leave
    <3> QED BY <1>4, <3>1, <3>2, <3>3, <3>4, <3>5, <3>6, <3>7 DEF ReName
  <2> QED BY <2>1 DEF Least
<1>5. CASE UNCHANGED machine /\ EndPlacement
  BY <1>5 DEF EndPlacement, Least, machine
<1>6. CASE UNCHANGED machine /\ NextVariable
  <2> DEFINE wl == work_list'
             w == var'
  <2>0. /\ pc = "place" /\ w \in todo /\ wl = SetToSeq(StoreBlocks(w))
        /\ UNCHANGED <<succ, source, code, pc, phis>>
    BY <1>6 DEF NextVariable, machine
  <2> DEFINE S == Storing(source, w)
  <2>1. StoreBlocks(w) = S
    BY <1>0, <2>0 DEF StoreBlocks, Storing
  <2>2. IsFiniteSet(S)
    <3>1. IsFiniteSet(Block) /\ S \subseteq Block
      BY NAssumption, FS_Interval DEF Block, Storing
    <3> HIDE DEF S
    <3> QED BY <3>1, FS_Subset
  <2>3. wl = SetToSeq(S)
    BY <2>0, <2>1
  <2> HIDE DEF S, wl
  <2>4. \A k \in 1..Len(wl) : wl[k] \in S
    BY <2>2, <2>3, SeqOfSet
  <2> QED BY <2>0, <2>4 DEF Least, S, wl
<1>7. CASE UNCHANGED machine /\ PlacePhis
  <2> DEFINE b0 == work_list[i]
             fresh == {y \in Frontier(succ, b0) : <<y, var>> \notin phis}
             wl == work_list'
             fs == SetToSeq(fresh)
  <2>0. /\ pc = "place" /\ i <= Len(work_list) /\ phis' = phis \cup {<<y, var>> : y \in fresh}
        /\ wl = work_list \o fs
        /\ UNCHANGED <<succ, source, pc, var>>
    BY <1>7 DEF PlacePhis, machine
  <2>1. work_list \in Seq(Block) /\ i \in 1..Len(work_list) /\ b0 \in Block
    <3>1. work_list \in Seq(Block) /\ i \in Nat \ {0}
      BY <1>0, <2>0 DEF PlaceOK, ListOK
    <3>2. i \in 1..Len(work_list)
      BY <2>0, <3>1
    <3> QED BY <3>1, <3>2
  <2>2. b0 \in Storing(source, var) \/ Needed(succ, source, var, b0)
    <3>1. b0 \in Storing(source, var) \/ <<b0, var>> \in phis
      BY <2>0, <2>1 DEF Least
    <3> HIDE DEF b0
    <3>2. <<b0, var>> \in phis => Needed(succ, source, var, b0)
      <4> DEFINE p == <<b0, var>>
      <4>1. p[1] = b0 /\ p[2] = var
        OBVIOUS
      <4> HIDE DEF p
      <4> QED BY <4>1 DEF Least, p
    <3> QED BY <3>1, <3>2
  <2>3. \A y \in fresh : Needed(succ, source, var, y)
    <3> HIDE DEF b0
    <3> QED BY <2>1, <2>2, FrontierNeeded
  <2>4. IsFiniteSet(fresh) /\ fresh \subseteq Block
    <3>1. IsFiniteSet(Block)
      BY NAssumption, FS_Interval DEF Block
    <3>2. succ \in [Block -> Target]
      BY <1>0, LegalFacts
    <3> HIDE DEF b0
    <3>3. fresh \subseteq Block
      BY <2>1, <3>2, FrontierReached
    <3> HIDE DEF fresh
    <3> QED BY <3>1, <3>3, FS_Subset
  <2> HIDE DEF fresh
  <2>5. fs \in Seq(fresh) /\ \A k \in 1..Len(fs) : fs[k] \in fresh
    BY <2>4, SeqOfSet
  <2> HIDE DEF fs, wl, b0
  <2>6. ASSUME NEW k \in 1..Len(wl) PROVE (k \in 1..Len(work_list) /\ wl[k] = work_list[k]) \/ wl[k] \in fresh
    <3>1. fs \in Seq(Block)
      BY <2>4, <2>5
    <3> DEFINE a == Len(work_list)
               c == Len(fs)
    <3>2. /\ a \in Nat /\ c \in Nat /\ Len(wl) = a + c
          /\ \A j \in 1..(a + c) : wl[j] = IF j <= a THEN work_list[j] ELSE fs[j - a]
      BY <2>0, <2>1, <3>1
    <3>3. CASE k <= a
      BY <3>2, <3>3
    <3>4. CASE ~(k <= a)
      <4>1. k - a \in 1..c /\ wl[k] = fs[k - a]
        <5> HIDE DEF a, c
        <5> QED BY <3>2, <3>4
      <4> QED BY <2>5, <4>1
    <3> QED BY <3>3, <3>4
  <2>7. \A p \in phis' : Needed(succ, source, p[2], p[1])
    <3> SUFFICES ASSUME NEW y \in fresh PROVE Needed(succ, source, <<y, var>>[2], <<y, var>>[1])
      BY <2>0 DEF Least
    <3> QED BY <2>3
  <2>8. \A k \in 1..Len(wl) : wl[k] \in Storing(source, var) \/ <<wl[k], var>> \in phis'
    BY <2>0, <2>6 DEF Least
  <2> QED BY <2>0, <2>7, <2>8 DEF Least, wl
<1> QED BY <1>1, <1>2, <1>3, <1>4, <1>5, <1>6, <1>7 DEF RunNext, Compile, Next, GeneratePhi

\* No phi is placed that the frontiers do not ask for.
THEOREM PhisNeeded == RunSpec => []Least
<1>1. RunInit => Least
  BY DEF RunInit, Init, Least
<1>2. IInv /\ Least /\ [RunNext]_runVars => Least'
  BY StaysLeast
<1> QED BY <1>1, <1>2, Invariant, PTL DEF RunSpec

\* When the walk begins, the phis are closed under frontiers and no more.
LEMMA PhisAreIterated == IInv /\ Least => PhisMinimal
<1> SUFFICES ASSUME IInv, Least, pc = "rename", Top.ip = 0, Len(calls) = 1, NEW v \in Var
             PROVE  {b \in Block : <<b, v>> \in phis} = Iterated(v)
  BY DEF PhisMinimal
<1> PICK H, B : PassOK(H, B)
  BY DEF IInv
<1>0. /\ Legal(succ, source) /\ succ \in [Block -> Target] /\ PhisOK(succ, source, phis)
      /\ WalkOK(succ, source, calls) /\ CodeOK(succ, source, calls, code, H)
      /\ ClosedOK /\ Ordered(succ)
  BY LegalFacts DEF PassOK, WalkParts, IInv, PlaceOK
<1> DEFINE A == StoreBlocks(v)
           fr == [b \in Block |-> Frontier(succ, b)]
           D == CHOOSE f : Spreads(N, fr, A, f)
           Y == {b \in Block : <<b, v>> \in phis}
<1>1. A = Storing(source, v)
  <2>1. \A b \in Block : ~Returned(succ, calls, b)
    <3>1. /\ calls[1].bb = Entry /\ calls[1].ip = 0 /\ calls[1].children = Kids(succ, Entry)
          /\ 1 \in 1..Len(calls)
      <4>1. 1 \in 1..Len(calls) /\ calls # <<>> /\ calls[1].ip = 0
        <5>1. calls[Len(calls)].ip = 0 /\ Len(calls) = 1 /\ calls \in Seq(Frame)
          BY <1>0 DEF Top, WalkOK
        <5>2. calls[1].ip = 0
          BY ONLY <5>1
        <5>3. 1 \in 1..Len(calls) /\ calls # <<>>
          BY ONLY <5>1
        <5> QED BY <5>2, <5>3
      <4>2. calls[1].bb = Entry
        BY <1>0, <4>1 DEF WalkOK
      <4>3. Fin(source, Entry) \in Nat
        BY <1>0, LegalFacts DEF Ordered
      <4>4. calls[1].ip <= Fin(source, calls[1].bb)
        BY <4>1, <4>2, <4>3
      <4> QED BY <1>0, <4>1, <4>2, <4>4 DEF WalkOK
    <3>2. ASSUME NEW b \in Reached(succ), b # Entry PROVE Pending(succ, calls, b)
      <4>1. SDom(succ, Entry, b) /\ Entry \in Reached(succ)
        BY <1>0, <3>2 DEF Ordered, SDom
      <4>2. \E c \in Kids(succ, Entry) : Dom(succ, c, b)
        BY <1>0, <4>1, KidsAre
      <4> QED BY <3>1, <4>2 DEF Pending
    <3>3. On(calls, Entry)
      BY <3>1 DEF On
    <3> QED BY <3>2, <3>3 DEF Returned
  <2>2. ASSUME NEW b \in Block
        PROVE  /\ DOMAIN code[b] = DOMAIN source[b]
               /\ \A n \in DOMAIN code[b] : code[b][n].op = source[b][n].op
                                            /\ code[b][n].var = source[b][n].var
    <3>1. code[b] \in Seq(Instr) /\ Len(code[b]) = Len(source[b]) /\ source[b] \in Seq(Instr)
      BY <1>0, <2>1, LegalFacts DEF CodeOK
    <3>2. DOMAIN code[b] = DOMAIN source[b]
      BY <3>1
    <3> QED BY <1>0, <3>2 DEF CodeOK
  <2> QED BY <2>2 DEF StoreBlocks, Storing
<1>2. fr \in [1..N -> SUBSET (1..N)] /\ A \in SUBSET (1..N) /\ N \in Nat
  <2>1. \A b \in Block : Frontier(succ, b) \subseteq Block
    BY <1>0, FrontierReached
  <2> QED BY <2>1, NAssumption DEF Block, StoreBlocks
<1>3. Iterated(v) = D[N]
  BY DEF Iterated, Spreads
<1>4. Y \in SUBSET (1..N)
  BY DEF Block
<1>5. Spread(fr, A, Y) \subseteq Y
  <2>1. ASSUME NEW b \in A \cup Y, NEW y \in fr[b] PROVE y \in Y
    <3>1. b \in Block /\ (b \in Storing(source, v) \/ <<b, v>> \in phis)
      BY <1>1 DEF Storing
    <3>2. y \in Frontier(succ, b)
      BY <2>1, <3>1
    <3>3. <<y, v>> \in phis
      BY <1>0, <3>1, <3>2 DEF ClosedOK
    <3> QED BY <1>0, <3>1, <3>2, <3>3, FrontierReached
  <2> HIDE DEF fr, A, Y
  <2> QED BY <2>1 DEF Spread
<1>6. \A y \in Y : \A X \in SUBSET Block : HoldsFrontiers(succ, source, v, X) => y \in X
  <2> SUFFICES ASSUME NEW y \in Y PROVE Needed(succ, source, v, y)
    BY DEF Needed
  <2> DEFINE p == <<y, v>>
  <2>1. p \in phis /\ p[1] = y /\ p[2] = v
    OBVIOUS
  <2> HIDE DEF p
  <2> QED BY <2>1 DEF Least
<1>7. \A X \in SUBSET Block : Spread(fr, A, X) \subseteq X => HoldsFrontiers(succ, source, v, X)
  <2> SUFFICES ASSUME NEW X \in SUBSET Block, Spread(fr, A, X) \subseteq X,
                      NEW b \in Storing(source, v) \cup X
               PROVE  Frontier(succ, b) \subseteq X
    BY DEF HoldsFrontiers
  <2>1. b \in A \cup X /\ b \in Block /\ fr[b] = Frontier(succ, b)
    BY <1>1 DEF Storing
  <2>2. fr[b] \subseteq Spread(fr, A, X)
    <3> HIDE DEF fr, A
    <3> QED BY <2>1 DEF Spread
  <2> QED BY <2>1, <2>2
<1> HIDE DEF fr, A, Y
<1>8. \E f : Spreads(N, fr, A, f)
  BY <1>2, SpreadsExist
<1>9. Spreads(N, fr, A, D)
  BY <1>8
<1> HIDE DEF D
<1>10. D[N] \in SUBSET (1..N) /\ Spread(fr, A, D[N]) = D[N] /\ D[N] \subseteq Y
  <2>1. /\ D[N] \in SUBSET (1..N) /\ Spread(fr, A, D[N]) = D[N]
        /\ \A X : Spread(fr, A, X) \subseteq X => D[N] \subseteq X
    BY ONLY <1>2, <1>9, SpreadsClose
  <2> QED BY <1>5, <2>1
<1>11. Y \subseteq D[N]
  <2> DEFINE Z == D[N]
  <2>1. Z \in SUBSET Block /\ Spread(fr, A, Z) \subseteq Z
    BY <1>10 DEF Block
  <2> HIDE DEF Z
  <2> QED BY <1>6, <1>7, <2>1 DEF Z
<1> QED BY <1>3, <1>10, <1>11 DEF Y

\* The phis are the iterated dominance frontier of the stores.
THEOREM MinimalPhis == RunSpec => []PhisMinimal
BY Invariant, PhisNeeded, PhisAreIterated, PTL
=============================================================================
