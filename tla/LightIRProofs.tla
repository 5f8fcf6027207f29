--------------------------- MODULE LightIRProofs ----------------------------
(***************************************************************************)
(* For every function, however it is built and whatever the passes do to   *)
(* it: operands and use lists mirror each other, no two types of the       *)
(* module's table print the same, and the text the function is printed as  *)
(* reads back as the function.                                             *)
(***************************************************************************)
EXTENDS LightIR, FiniteSetTheorems, TLAPS

Numbers == INSTANCE Reachability WITH N <- 1   \* its induction

-----------------------------------------------------------------------------
(* The three ways operands and use lists change (UseLists), each from lists *)
(* that mirror the operands to lists that do.                               *)

UseTypeOK ==
  /\ operands \in [User -> Seq(Value)]
  /\ \A u \in User : Len(operands[u]) <= MaxOps
  /\ uses \in [Value -> [User \X ArgNo -> Nat]]

\* Operands set or added behind the old ones (set_operand, add_operand)
\* appear in the use lists at their numbers.
LEMMA ExtendMirrors ==
  ASSUME UseTypeOK, Mirror, MaxOps \in Nat, NEW u \in User, NEW s \in Seq(Value),
         Len(operands[u]) + Len(s) <= MaxOps, Extend(u, s)
  PROVE  UseTypeOK' /\ Mirror'
<1> DEFINE n == Len(operands[u])
<1>1. operands[u] \in Seq(Value) /\ n \in Nat /\ Len(s) \in Nat
  BY DEF UseTypeOK
<1>2. operands' = [operands EXCEPT ![u] = @ \o s]
  BY DEF Extend
<1>3. /\ operands'[u] \in Seq(Value) /\ Len(operands'[u]) = n + Len(s)
      /\ \A i \in 1 .. n : operands'[u][i] = operands[u][i]
      /\ \A i \in n + 1 .. n + Len(s) : operands'[u][i] = s[i - n]
  BY <1>1, <1>2 DEF UseTypeOK
<1>4. \A w \in User \ {u} : operands'[w] = operands[w]
  BY <1>2 DEF UseTypeOK
<1>5. \A v \in Value : \A w \in User : \A i \in ArgNo :
        uses'[v][<<w, i>>] =
          IF w = u /\ i \in n .. n + Len(s) - 1 /\ s[i - n + 1] = v
          THEN uses[v][<<w, i>>] + 1 ELSE uses[v][<<w, i>>]
  BY DEF Extend
<1>6. UseTypeOK'
  <2>1. operands' \in [User -> Seq(Value)]
    BY <1>2, <1>3, <1>4 DEF UseTypeOK
  <2>2. \A w \in User : Len(operands'[w]) <= MaxOps
    BY <1>3, <1>4 DEF UseTypeOK
  <2>3. uses' \in [Value -> [User \X ArgNo -> Nat]]
    <3>1. \A v \in Value : \A p \in User \X ArgNo : uses[v][p] \in Nat /\ uses[v][p] + 1 \in Nat
      BY DEF UseTypeOK
    <3> QED BY <3>1 DEF Extend
  <2> QED BY <2>1, <2>2, <2>3 DEF UseTypeOK
<1>7. Mirror'
  <2> SUFFICES ASSUME NEW v \in Value, NEW w \in User, NEW i \in ArgNo
               PROVE  uses'[v][<<w, i>>] =
                        IF i < Len(operands'[w]) /\ operands'[w][i + 1] = v THEN 1 ELSE 0
    BY DEF Mirror
  <2>0. i \in Nat
    BY DEF ArgNo
  <2>m. uses[v][<<w, i>>] =
          IF i < Len(operands[w]) /\ operands[w][i + 1] = v THEN 1 ELSE 0
    BY DEF Mirror
  <2>1. CASE w # u
    BY <2>1, <2>m, <1>4, <1>5
  <2>2. CASE w = u /\ i < n
    <3>1. i + 1 \in 1 .. n
      BY <2>0, <2>2, <1>1
    <3>2. i \notin n .. n + Len(s) - 1
      BY <2>0, <2>2, <1>1
    <3>3. i < Len(operands'[w]) /\ operands'[w][i + 1] = operands[w][i + 1]
      BY <3>1, <2>0, <2>2, <1>1, <1>3
    <3>4. uses'[v][<<w, i>>] = uses[v][<<w, i>>]
      BY <3>2, <1>5
    <3> QED BY <3>3, <3>4, <2>m, <2>2
  <2>3. CASE w = u /\ i \in n .. n + Len(s) - 1
    <3>1. i + 1 \in n + 1 .. n + Len(s) /\ i + 1 - n = i - n + 1
      BY <2>0, <2>3, <1>1
    <3>2. operands'[w][i + 1] = s[i - n + 1]
      <4> DEFINE j == i + 1
      <4>1. j \in n + 1 .. n + Len(s) /\ j - n = i - n + 1
        BY <2>0, <3>1, <1>1
      <4> HIDE DEF j
      <4>2. \A m \in n + 1 .. n + Len(s) : operands'[u][m] = s[m - n]
        BY <1>3
      <4>3. operands'[u][j] = s[j - n]
        BY <4>1, <4>2
      <4> QED BY <4>1, <4>3, <2>3 DEF j
    <3>3. i < n + Len(s) /\ ~(i < n)
      BY <2>0, <2>3, <1>1
    <3>4. i < Len(operands'[w])
      BY <3>3, <2>3, <1>3
    <3>5. uses[v][<<w, i>>] = 0
      BY <3>3, <2>3, <2>m
    <3>6. uses'[v][<<w, i>>] = IF s[i - n + 1] = v THEN uses[v][<<w, i>>] + 1
                                                  ELSE uses[v][<<w, i>>]
      BY <2>3, <1>5
    <3> QED BY <3>2, <3>4, <3>5, <3>6
  <2>4. CASE w = u /\ i >= n + Len(s)
    <3>1. ~(i < Len(operands[w])) /\ ~(i < Len(operands'[w])) /\ i \notin n .. n + Len(s) - 1
      BY <2>0, <2>4, <1>1, <1>3
    <3> QED BY <3>1, <2>m, <1>5
  <2> QED BY <2>0, <1>1, <2>1, <2>2, <2>3, <2>4
<1> QED BY <1>6, <1>7

\* Replacing a value in some of its users (replace_all_use_with and
\* replace_use_with_when) moves those entries to the new value's list.
LEMMA ReplaceUsesMirrors ==
  ASSUME UseTypeOK, Mirror, MaxOps \in Nat, NEW old \in Value, NEW new \in Value, old # new,
         NEW users \in SUBSET User, ReplaceUses(old, new, users)
  PROVE  /\ UseTypeOK' /\ Mirror'
         /\ \A u \in User : operands[u] = <<>> => operands'[u] = <<>>
<1>1. \A u \in User : operands[u] \in Seq(Value) /\ Len(operands[u]) \in Nat
  BY DEF UseTypeOK
<1>2. \A u \in User : operands'[u] = [i \in 1 .. Len(operands[u]) |->
         IF u \in users /\ uses[old][<<u, i - 1>>] > 0 THEN new ELSE operands[u][i]]
  BY DEF ReplaceUses
<1>3. \A u \in User : operands'[u] \in Seq(Value) /\ Len(operands'[u]) = Len(operands[u])
  <2> TAKE u \in User
  <2>1. \A i \in 1 .. Len(operands[u]) : operands[u][i] \in Value
    BY <1>1
  <2>2. operands'[u] \in [1 .. Len(operands[u]) -> Value]
    <3>1. operands'[u] = [i \in 1 .. Len(operands[u]) |->
            IF u \in users /\ uses[old][<<u, i - 1>>] > 0 THEN new ELSE operands[u][i]]
      BY <1>2
    <3> QED BY <2>1, <3>1
  <2> QED BY <2>2, <1>1
<1>4. UseTypeOK'
  <2>1. operands' \in [User -> Seq(Value)]
    BY <1>3 DEF ReplaceUses
  <2>2. \A v \in Value : \A p \in User \X ArgNo :
          uses[v][p] \in Nat /\ uses[old][p] \in Nat /\ uses[v][p] + uses[old][p] \in Nat
    BY DEF UseTypeOK
  <2>3. uses' \in [Value -> [User \X ArgNo -> Nat]]
    BY <2>2 DEF ReplaceUses
  <2> QED BY <2>1, <2>3, <1>3 DEF UseTypeOK
<1>5. Mirror'
  <2> SUFFICES ASSUME NEW v \in Value, NEW w \in User, NEW i \in ArgNo
               PROVE  uses'[v][<<w, i>>] =
                        IF i < Len(operands'[w]) /\ operands'[w][i + 1] = v THEN 1 ELSE 0
    BY DEF Mirror
  <2>0. i \in Nat /\ <<w, i>> \in User \X ArgNo
    BY DEF ArgNo
  <2>1. /\ uses[v][<<w, i>>] = IF i < Len(operands[w]) /\ operands[w][i + 1] = v THEN 1 ELSE 0
        /\ uses[old][<<w, i>>] = IF i < Len(operands[w]) /\ operands[w][i + 1] = old THEN 1 ELSE 0
        /\ uses[new][<<w, i>>] = IF i < Len(operands[w]) /\ operands[w][i + 1] = new THEN 1 ELSE 0
    BY DEF Mirror
  <2>2. uses'[v][<<w, i>>] = CASE w \in users /\ v = old -> 0
                               [] w \in users /\ v = new -> uses[v][<<w, i>>] + uses[old][<<w, i>>]
                               [] OTHER -> uses[v][<<w, i>>]
    BY <2>0 DEF ReplaceUses
  <2>3. CASE ~(i < Len(operands[w]))
    <3>1. ~(i < Len(operands'[w]))
      BY <2>3, <1>3
    <3>2. uses[v][<<w, i>>] = 0 /\ uses[old][<<w, i>>] = 0
      BY <2>3, <2>1
    <3> QED BY <3>1, <3>2, <2>2
  <2>4. CASE i < Len(operands[w])
    <3>1. i < Len(operands'[w])
      BY <2>4, <1>3
    <3>2. i + 1 \in 1 .. Len(operands[w]) /\ i + 1 - 1 = i
      BY <2>0, <2>4, <1>1
    <3>3. operands'[w][i + 1] = IF w \in users /\ uses[old][<<w, i>>] > 0
                                THEN new ELSE operands[w][i + 1]
      <4> DEFINE j == i + 1
      <4>1. j \in 1 .. Len(operands[w]) /\ j - 1 = i
        BY <3>2, <2>0
      <4> HIDE DEF j
      <4>0. \A m \in 1 .. Len(operands[w]) :
               operands'[w][m] = IF w \in users /\ uses[old][<<w, m - 1>>] > 0
                                 THEN new ELSE operands[w][m]
        <5>1. operands'[w] = [m \in 1 .. Len(operands[w]) |->
                IF w \in users /\ uses[old][<<w, m - 1>>] > 0 THEN new ELSE operands[w][m]]
          BY <1>2
        <5> QED BY <5>1
      <4>2. operands'[w][j] = IF w \in users /\ uses[old][<<w, j - 1>>] > 0
                              THEN new ELSE operands[w][j]
        BY <4>0, <4>1
      <4> QED BY <4>1, <4>2 DEF j
    <3>4. CASE w \notin users
      <4>1. uses'[v][<<w, i>>] = uses[v][<<w, i>>]
        BY <3>4, <2>2
      <4>2. operands'[w][i + 1] = operands[w][i + 1]
        BY <3>4, <3>3
      <4> QED BY <4>1, <4>2, <3>1, <2>1, <2>4
    <3>5. CASE w \in users /\ operands[w][i + 1] = old
      <4>1. uses[old][<<w, i>>] = 1 /\ uses[new][<<w, i>>] = 0 /\ operands'[w][i + 1] = new
        BY <3>5, <3>3, <2>4, <2>1
      <4>2. CASE v = old
        BY <4>1, <4>2, <3>5, <2>2
      <4>3. CASE v = new
        BY <4>1, <4>3, <3>5, <3>1, <2>2
      <4>4. CASE v # old /\ v # new
        BY <4>1, <4>4, <3>5, <2>1, <2>2
      <4> QED BY <4>2, <4>3, <4>4
    <3>6. CASE w \in users /\ operands[w][i + 1] # old
      <4>1. uses[old][<<w, i>>] = 0 /\ operands'[w][i + 1] = operands[w][i + 1]
        BY <3>6, <3>3, <2>1
      <4>2. CASE v = old
        BY <4>1, <4>2, <3>6, <2>2
      <4>3. CASE v # old
        <5>1. uses'[v][<<w, i>>] = uses[v][<<w, i>>]
          BY <4>1, <4>3, <2>1, <2>2
        <5> QED BY <5>1, <4>1, <3>1, <2>1, <2>4
      <4> QED BY <4>2, <4>3
    <3> QED BY <3>4, <3>5, <3>6
  <2> QED BY <2>3, <2>4
<1>6. \A u \in User : operands[u] = <<>> => operands'[u] = <<>>
  BY <1>1, <1>3
<1> QED BY <1>4, <1>5, <1>6

\* Before instructions are deleted (remove_use_of_ops) their entries leave
\* every use list.
LEMMA FreeMirrors ==
  ASSUME UseTypeOK, Mirror, MaxOps \in Nat, NEW users \in SUBSET User, Free(users)
  PROVE  /\ UseTypeOK' /\ Mirror'
         /\ \A u \in User : operands[u] = <<>> => operands'[u] = <<>>
<1>1. \A u \in User : operands[u] \in Seq(Value) /\ Len(operands[u]) \in Nat
  BY DEF UseTypeOK
<1>2. \A u \in User : operands'[u] = IF u \in users THEN <<>> ELSE operands[u]
  BY DEF Free
<1>3. UseTypeOK'
  <2>1. operands' \in [User -> Seq(Value)]
    BY <1>1 DEF Free
  <2>2. \A v \in Value : \A p \in User \X ArgNo : uses[v][p] \in Nat
    BY DEF UseTypeOK
  <2>3. uses' \in [Value -> [User \X ArgNo -> Nat]]
    BY <2>2 DEF Free
  <2>4. \A u \in User : Len(operands'[u]) <= MaxOps
    BY <1>2 DEF UseTypeOK
  <2> QED BY <2>1, <2>3, <2>4 DEF UseTypeOK
<1>4. Mirror'
  <2> SUFFICES ASSUME NEW v \in Value, NEW w \in User, NEW i \in ArgNo
               PROVE  uses'[v][<<w, i>>] =
                        IF i < Len(operands'[w]) /\ operands'[w][i + 1] = v THEN 1 ELSE 0
    BY DEF Mirror
  <2>0. i \in Nat /\ <<w, i>> \in User \X ArgNo
    BY DEF ArgNo
  <2>1. uses[v][<<w, i>>] = IF i < Len(operands[w]) /\ operands[w][i + 1] = v THEN 1 ELSE 0
    BY DEF Mirror
  <2>2. uses'[v][<<w, i>>] =
          IF w \in users /\ \E j \in 1 .. Len(operands[w]) : operands[w][j] = v
          THEN 0 ELSE uses[v][<<w, i>>]
    BY <2>0 DEF Free
  <2>3. CASE w \notin users
    BY <2>3, <2>1, <2>2, <1>2
  <2>4. CASE w \in users
    <3>1. ~(i < Len(operands'[w]))
      BY <2>4, <2>0, <1>2
    <3>2. uses'[v][<<w, i>>] = 0
      <4>1. CASE i < Len(operands[w]) /\ operands[w][i + 1] = v
        <5>1. i + 1 \in 1 .. Len(operands[w])
          BY <4>1, <2>0, <1>1
        <5> QED BY <5>1, <4>1, <2>2, <2>4
      <4>2. CASE ~(i < Len(operands[w]) /\ operands[w][i + 1] = v)
        BY <4>2, <2>1, <2>2
      <4> QED BY <4>1, <4>2
    <3> QED BY <3>1, <3>2
  <2> QED BY <2>3, <2>4
<1> QED BY <1>2, <1>3, <1>4

-----------------------------------------------------------------------------
(* The inductive invariant: an instruction yet to be created is nothing and *)
(* has no operand; by the mirror it is in no use list.                      *)

Fresh == /\ kind = [u \in Instr |-> kind[u]]
         /\ \A u \in Instr : u > made => operands[u] = <<>> /\ kind[u] = "none"

IInv == /\ UseTypeOK /\ Mirror /\ Fresh
        /\ made \in Nat /\ menu \in Menus

\* Nothing is built yet, so nothing is used.
LEMMA InitInv == Init => IInv
<1> SUFFICES ASSUME Init PROVE IInv
  OBVIOUS
<1> USE LightIRAssumption, UseListsAssumption
<1>1. operands = [u \in User |-> <<>>] /\ uses = [v \in Value |-> [p \in User \X ArgNo |-> 0]]
  BY DEF Init, UseInit, NoUses
<1>2. UseTypeOK
  <2>1. operands \in [User -> Seq(Value)] /\ \A u \in User : Len(operands[u]) <= MaxOps
    BY <1>1
  <2>2. uses \in [Value -> [User \X ArgNo -> Nat]]
    BY <1>1
  <2> QED BY <2>1, <2>2 DEF UseTypeOK
<1>3. Mirror
  <2> SUFFICES ASSUME NEW v \in Value, NEW u \in User, NEW i \in ArgNo
               PROVE  uses[v][<<u, i>>] = 0 /\ ~(i < Len(operands[u]))
    BY DEF Mirror
  <2>1. i \in Nat /\ operands[u] = <<>>
    BY <1>1 DEF ArgNo
  <2> QED BY <1>1, <2>1
<1>4. Fresh
  BY <1>1 DEF Fresh, Init
<1> QED BY <1>2, <1>3, <1>4 DEF Init, IInv

\* The elements of a list are of its type.
LEMMA RangeWithin ==
  ASSUME NEW T, NEW s, s \in Seq(T)
  PROVE  Range(s) \subseteq T
<1>1. \A i \in DOMAIN s : s[i] \in T
  OBVIOUS
<1> QED BY <1>1 DEF Range

\* What the operands are taken from are values.
LEMMA UsableValues ==
  ASSUME menu \in Menus
  PROVE  /\ Usable \subseteq Value /\ Built \subseteq Instr
         /\ Range(Args) \subseteq Value \ (Instr \cup Block \cup Other)
         /\ menu.values \subseteq Other \cup Range(Args)
<1>1. menu.values \subseteq Other \cup Range(Args) /\ Args \in Seq(Value \ (Instr \cup Block \cup Other))
  BY LightIRAssumption DEF Args
<1>2. Range(Args) \subseteq Value \ (Instr \cup Block \cup Other)
  BY <1>1, RangeWithin
<1> QED BY <1>1, <1>2, LightIRAssumption, UseListsAssumption DEF Usable, Built

\* The operands chosen for an instruction are few enough for ArgNo.
LEMMA BoundedSeqs ==
  ASSUME NEW s \in BoundedSeq(Value, MaxOps), MaxOps \in Nat
  PROVE  s \in Seq(Value) /\ Len(s) <= MaxOps
BY DEF BoundedSeq, SeqOf

\* Every instruction but a phi is created with its operands.
LEMMA NewInv ==
  ASSUME IInv, NEW k, NEW t, NEW s, NEW b, New(k, t, s, b)
  PROVE  IInv'
<1> USE LightIRAssumption, UseListsAssumption
<1>1. made + 1 \in User /\ made' = made + 1 /\ made' \in Nat
  BY DEF New, IInv, Instr
<1>2. s \in Seq(Value) /\ Len(s) <= MaxOps
  BY BoundedSeqs DEF New
<1>3. operands[made + 1] = <<>>
  BY <1>1 DEF IInv, Fresh
<1>4. UseTypeOK' /\ Mirror'
  BY <1>1, <1>2, <1>3, ExtendMirrors DEF New, IInv
<1>5. Fresh'
  <2>0. kind' = [kind EXCEPT ![made + 1] = k] /\ kind = [u \in Instr |-> kind[u]]
    BY DEF New, IInv, Fresh
  <2>k. kind' = [u \in Instr |-> kind'[u]]
    BY <2>0
  <2> SUFFICES ASSUME NEW u \in Instr, u > made'
               PROVE  operands'[u] = <<>> /\ kind'[u] = "none"
    BY <2>k DEF Fresh
  <2>1. u # made + 1 /\ u > made
    BY <1>1 DEF Instr, IInv
  <2>2. operands' = [operands EXCEPT ![made + 1] = @ \o s]
    BY DEF New, Extend
  <2>3. operands'[u] = operands[u] /\ kind'[u] = kind[u]
    BY <2>0, <2>1, <2>2 DEF IInv, UseTypeOK
  <2> QED BY <2>1, <2>3 DEF IInv, Fresh
<1> QED BY <1>1, <1>4, <1>5 DEF IInv, New

\* A step that creates nothing and touches no operand.
LEMMA QuietInv ==
  ASSUME IInv, UNCHANGED <<operands, uses, made, kind, menu>>
  PROVE  IInv'
<1>1. UseTypeOK'
  BY DEF IInv, UseTypeOK
<1>2. Mirror'
  BY DEF IInv, Mirror
<1>3. Fresh'
  BY DEF IInv, Fresh
<1> QED BY <1>1, <1>2, <1>3 DEF IInv

\* Every operation of the builder, the passes and the printer keeps the
\* lists as they must be.
LEMMA NextInv == IInv /\ [Next]_vars => IInv'
<1> SUFFICES ASSUME IInv, [Next]_vars PROVE IInv'
  OBVIOUS
<1> USE LightIRAssumption, UseListsAssumption
<1>0. menu \in Menus /\ made \in Nat /\ UseTypeOK /\ Mirror /\ Fresh /\ User = Instr
  BY DEF IInv
<1>1. CASE Create
  <2>1. CASE CreateBinary
    BY <2>1, NewInv DEF CreateBinary, Plain
  <2>2. CASE CreateCmp
    BY <2>2, NewInv DEF CreateCmp, Plain
  <2>3. CASE CreateCast
    BY <2>3, NewInv DEF CreateCast, Plain
  <2>4. CASE CreateCall
    BY <2>4, NewInv DEF CreateCall, Plain
  <2>5. CASE CreateRet
    BY <2>5, NewInv DEF CreateRet, Plain
  <2>6. CASE CreateStore
    BY <2>6, NewInv DEF CreateStore, Plain
  <2>7. CASE CreateLoad
    BY <2>7, NewInv DEF CreateLoad, Plain
  <2>8. CASE CreateAlloca
    BY <2>8, NewInv DEF CreateAlloca
  <2>9. CASE CreateGep
    BY <2>9, NewInv DEF CreateGep
  <2>10. CASE AddBlock
    BY <2>10, QuietInv DEF AddBlock, body, uselist
  <2>11. CASE CreateBr
    BY <2>11, NewInv DEF CreateBr
  <2>12. CASE CreateCondBr
    BY <2>12, NewInv DEF CreateCondBr
  <2> QED BY <1>1, <2>1, <2>2, <2>3, <2>4, <2>5, <2>6, <2>7, <2>8, <2>9, <2>10,
             <2>11, <2>12 DEF Create
<1>2. CASE StartPasses
  BY <1>2, QuietInv DEF StartPasses, body, uselist
<1>3. CASE AddPhi
  <2>1. made' = made + 1 /\ UNCHANGED <<menu, operands, uses>>
    BY <1>3 DEF AddPhi, uselist
  <2>2. UseTypeOK' /\ Mirror'
    <3>1. UseTypeOK'
      BY <2>1, <1>0 DEF UseTypeOK
    <3>2. uses' = uses /\ operands' = operands /\ Mirror
      BY <2>1, <1>0
    <3>3. Mirror'
      BY ONLY <3>2 DEF Mirror
    <3> QED BY <3>1, <3>3
  <2>3. Fresh'
    <3>1. kind' = [kind EXCEPT ![made + 1] = "phi"] /\ kind = [u \in Instr |-> kind[u]]
      BY <1>3, <1>0 DEF AddPhi, Fresh
    <3>2. kind' = [u \in Instr |-> kind'[u]]
      BY <3>1
    <3>3. ASSUME NEW u \in Instr, u > made' PROVE operands'[u] = <<>> /\ kind'[u] = "none"
      <4>1. u # made + 1 /\ u > made
        BY <3>3, <2>1, <1>0 DEF Instr
      <4> QED BY <4>1, <3>1, <2>1, <1>0 DEF Fresh
    <3> QED BY <3>2, <3>3 DEF Fresh
  <2> QED BY <2>1, <2>2, <2>3, <1>0 DEF IInv
<1>4. CASE AddPair
  <2>1. PICK u \in Built, x \in Usable, p \in Block :
          /\ kind[u] = "phi" /\ Len(operands[u]) + 2 <= MaxOps
          /\ Extend(u, <<x, p>>)
    BY <1>4 DEF AddPair
  <2>2. u \in User /\ <<x, p>> \in Seq(Value) /\ Len(<<x, p>>) = 2
    BY <1>0, UsableValues
  <2>3. UseTypeOK' /\ Mirror'
    BY <2>1, <2>2, <1>0, ExtendMirrors
  <2>4. \A w \in Instr : w > made => operands'[w] = operands[w]
    BY <2>1, <1>0 DEF Fresh, Extend, UseTypeOK
  <2> QED BY <2>3, <2>4, <1>0, <1>4 DEF AddPair, body, IInv, Fresh
<1>5. CASE ReplaceLoad
  <2>1. PICK u \in Built, x \in Usable : x # u /\ ReplaceUses(u, x, Instr)
    BY <1>5 DEF ReplaceLoad, OfType
  <2>2. u \in Value /\ x \in Value /\ Instr \in SUBSET User
    BY <1>0, UsableValues
  <2>3. UseTypeOK' /\ Mirror' /\ \A w \in User : operands[w] = <<>> => operands'[w] = <<>>
    BY <2>1, <2>2, <1>0, ReplaceUsesMirrors
  <2> QED BY <2>3, <1>0, <1>5 DEF ReplaceLoad, body, IInv, Fresh
<1>6. CASE ReplaceMember
  <2>1. PICK u \in Built, x \in Usable, b \in Range(added) :
          x # u /\ ReplaceUses(u, x, {w \in UsersOf(u) : IF kind[w] = "phi"
                                       THEN b \in Range(pre[Home(w)]) ELSE Home(w) = b})
    BY <1>6 DEF ReplaceMember, OfType
  <2> DEFINE S == {w \in UsersOf(u) : IF kind[w] = "phi"
                                       THEN b \in Range(pre[Home(w)]) ELSE Home(w) = b}
  <2>2. u \in Value /\ x \in Value /\ S \in SUBSET User
    BY <1>0, UsableValues DEF UsersOf
  <2>3. ReplaceUses(u, x, S)
    BY <2>1
  <2> HIDE DEF S
  <2>4. UseTypeOK' /\ Mirror' /\ \A w \in User : operands[w] = <<>> => operands'[w] = <<>>
    BY <2>1, <2>2, <2>3, <1>0, ReplaceUsesMirrors
  <2> QED BY <2>4, <1>0, <1>6 DEF ReplaceMember, body, IInv, Fresh
<1>7. CASE EraseInstr \/ Sweep
  <2>1. PICK S : Erase(S)
    BY <1>7 DEF EraseInstr, Sweep
  <2>2. S \in SUBSET User /\ Free(S)
    BY <2>1, <1>0, UsableValues DEF Erase
  <2>3. UseTypeOK' /\ Mirror' /\ \A w \in User : operands[w] = <<>> => operands'[w] = <<>>
    BY <2>2, <1>0, FreeMirrors
  <2> QED BY <2>1, <2>3, <1>0 DEF Erase, IInv, Fresh
<1>8. CASE PrintModule
  BY <1>8, QuietInv DEF PrintModule, body, uselist
<1>9. CASE UNCHANGED vars
  BY <1>9, QuietInv DEF vars, body, uselist
<1> QED BY <1>1, <1>2, <1>3, <1>4, <1>5, <1>6, <1>7, <1>8, <1>9 DEF Next, Passes

-----------------------------------------------------------------------------
\* Whatever is created, replaced and erased, in whatever order, the use list
\* of a value names exactly the operand positions that hold it, each once
\* (Value::add_use, remove_use and the two replace functions).
THEOREM MirrorHolds == Spec => []Mirror
<1>1. IInv => Mirror
  BY DEF IInv
<1> QED BY InitInv, NextInv, <1>1, PTL DEF Spec

-----------------------------------------------------------------------------
(* The table of types.                                                       *)

\* A table with more types, where one of type t is at address a.
Grown(table, new, a, t) ==
  /\ TableOK(new) /\ Len(table) \in Nat /\ Len(new) \in Nat /\ Len(new) >= Len(table)
  /\ \A i \in 1 .. Len(table) : new[i] = table[i]
  /\ a \in DOMAIN new /\ new[a] = t

\* A type that is not in the table yet is put behind the others, and its
\* address is where it is.
LEMMA WithGrows ==
  ASSUME NEW table, TableOK(table), NEW t \in TypeObject, RefersBack(t, Len(table) + 1)
  PROVE  Grown(table, With(table, t), Address(table, t), t)
<1> DEFINE n == Len(table)
           new == With(table, t)
           a == Address(table, t)
<1>1. table \in Seq(TypeObject) /\ n \in Nat /\ DOMAIN table = 1 .. n
  BY DEF TableOK
<1>2. \A u \in TypeObject : u.tid = t.tid /\ Key(u) = Key(t) => u = t
  <2> TAKE u \in TypeObject
  <2> HAVE u.tid = t.tid /\ Key(u) = Key(t)
  <2>1. u.of = t.of /\ u.num = t.num /\ u.args = t.args
    BY DEF Key
  <2> QED BY <2>1 DEF TypeObject
<1>3. \A tab \in Seq(TypeObject) : Known(tab, t) = {i \in DOMAIN tab : tab[i] = t}
  <2> TAKE tab \in Seq(TypeObject)
  <2>1. \A i \in DOMAIN tab : tab[i] \in TypeObject
    OBVIOUS
  <2> QED BY <1>2, <2>1 DEF Known
<1>4. CASE Known(table, t) # {}
  <2>1. new = table
    BY <1>4 DEF With
  <2>2. a \in Known(table, t)
    BY <1>4, <2>1 DEF Address
  <2>3. a \in DOMAIN table /\ table[a] = t
    BY <1>1, <1>3, <2>2
  <2> QED BY <1>1, <2>1, <2>3 DEF Grown
<1>5. CASE Known(table, t) = {}
  <2>1. new = Append(table, t)
    BY <1>5 DEF With
  <2>2. /\ new \in Seq(TypeObject) /\ Len(new) = n + 1 /\ DOMAIN new = 1 .. (n + 1)
        /\ \A i \in 1 .. n : new[i] = table[i]
        /\ new[n + 1] = t
    BY <1>1, <2>1
  <2> HIDE DEF new
  <2>3. \A i \in 1 .. n : table[i] # t
    BY <1>1, <1>3, <1>5
  <2>4. n + 1 \in Known(new, t)
    BY <1>1, <1>3, <2>2
  <2>5. a \in Known(new, t)
    BY <2>4 DEF Address, new
  <2>6. a \in DOMAIN new /\ new[a] = t
    BY <1>3, <2>2, <2>5
  <2>7. TableOK(new)
    <3>1. ASSUME NEW i \in DOMAIN new PROVE RefersBack(new[i], i)
      <4>1. i \in 1 .. n \/ i = n + 1
        BY <1>1, <2>2
      <4>2. CASE i \in 1 .. n
        BY <1>1, <2>2, <4>2 DEF TableOK
      <4>3. CASE i = n + 1
        BY <2>2, <4>3
      <4> QED BY <4>1, <4>2, <4>3
    <3>2. ASSUME NEW i \in DOMAIN new, NEW j \in DOMAIN new, new[i] = new[j] PROVE i = j
      <4>1. (i \in 1 .. n \/ i = n + 1) /\ (j \in 1 .. n \/ j = n + 1)
        BY <1>1, <2>2
      <4>2. CASE i \in 1 .. n /\ j \in 1 .. n
        BY <1>1, <2>2, <3>2, <4>2 DEF TableOK
      <4> QED BY <2>2, <2>3, <3>2, <4>1, <4>2
    <3> QED BY <2>2, <3>1, <3>2 DEF TableOK
  <2>8. Len(table) \in Nat /\ Len(new) \in Nat /\ Len(new) >= Len(table)
    BY <1>1, <2>2
  <2>9. \A i \in 1 .. Len(table) : new[i] = table[i]
    BY <2>2
  <2> HIDE DEF a, n
  <2>10. Grown(table, new, a, t)
    BY ONLY <2>6, <2>7, <2>8, <2>9 DEF Grown
  <2> QED BY <2>10 DEF new, a
<1> QED BY <1>4, <1>5

\* Type::print of one type, from what the types it refers to print as.
PrintOf(t, f) ==
  CASE t.tid = "pointer"  -> <<"*", f[t.of]>>
    [] t.tid = "array"    -> <<"x", t.num, f[t.of]>>
    [] t.tid = "function" -> <<"()", f[t.of], [n \in DOMAIN t.args |-> f[t.args[n]]]>>
    [] OTHER              -> <<t.tid>>
Prints(table, n, f) == f = [i \in 1 .. n |-> PrintOf(table[i], f)]

\* The kinds of types, one by one.
LEMMA Kinds ==
  ASSUME NEW t, NEW i, RefersBack(t, i)
  PROVE  \/ t.tid \in {"void", "label", "i1", "i32", "float"} /\ t = Type(t.tid, 0, 0, <<>>)
         \/ t.tid = "pointer" /\ t.of \in 1 .. (i - 1) /\ t = PointerType(t.of)
         \/ t.tid = "array" /\ t.of \in 1 .. (i - 1) /\ t = ArrayType(t.of, t.num)
         \/ /\ t.tid = "function" /\ t.of \in 1 .. (i - 1) /\ t = FunctionType(t.of, t.args)
            /\ \A n \in DOMAIN t.args : t.args[n] \in 1 .. (i - 1)
<1>1. CASE t \in {ModuleTypes[k] : k \in DOMAIN ModuleTypes}
  BY <1>1 DEF ModuleTypes, Type
<1>2. CASE t.of \in 1 .. (i - 1) /\ t = PointerType(t.of)
  BY <1>2 DEF PointerType, Type
<1>3. CASE t.of \in 1 .. (i - 1) /\ t = ArrayType(t.of, t.num)
  BY <1>3 DEF ArrayType, Type
<1>4. CASE /\ t.of \in 1 .. (i - 1) /\ t = FunctionType(t.of, t.args)
           /\ \A n \in DOMAIN t.args : t.args[n] \in 1 .. (i - 1)
  BY <1>4 DEF FunctionType, Type
<1> QED BY <1>1, <1>2, <1>3, <1>4 DEF RefersBack

\* What a type prints as depends on older types only.
LEMMA PrintsAlike ==
  ASSUME NEW t, NEW i \in Nat, RefersBack(t, i), NEW f, NEW g, \A j \in 1 .. (i - 1) : f[j] = g[j]
  PROVE  PrintOf(t, f) = PrintOf(t, g)
<1>1. CASE t.tid \in {"void", "label", "i1", "i32", "float"}
  BY <1>1 DEF PrintOf
<1>2. CASE t.tid = "pointer" /\ t.of \in 1 .. (i - 1)
  BY <1>2 DEF PrintOf
<1>3. CASE t.tid = "array" /\ t.of \in 1 .. (i - 1)
  BY <1>3 DEF PrintOf
<1>4. CASE t.tid = "function" /\ t.of \in 1 .. (i - 1) /\ \A n \in DOMAIN t.args : t.args[n] \in 1 .. (i - 1)
  <2>1. [n \in DOMAIN t.args |-> f[t.args[n]]] = [n \in DOMAIN t.args |-> g[t.args[n]]]
    BY <1>4
  <2>2. f[t.of] = g[t.of]
    BY <1>4
  <2>3. /\ PrintOf(t, f) = <<"()", f[t.of], [n \in DOMAIN t.args |-> f[t.args[n]]]>>
        /\ PrintOf(t, g) = <<"()", g[t.of], [n \in DOMAIN t.args |-> g[t.args[n]]]>>
    BY <1>4 DEF PrintOf
  <2> QED BY <2>1, <2>2, <2>3
<1> QED BY <1>1, <1>2, <1>3, <1>4, Kinds

\* So the recursive function of Printed exists.
LEMMA PrintsExist ==
  ASSUME NEW table, TableOK(table), NEW n, n = Len(table)
  PROVE  \E f : Prints(table, n, f)
<1> DEFINE P == {k \in 0 .. n : \E f : Prints(table, k, f)}
<1>0. n \in Nat /\ DOMAIN table = 1 .. n /\ \A i \in 1 .. n : RefersBack(table[i], i)
  BY DEF TableOK
<1>1. 0 \in P
  <2> DEFINE f == [i \in {} |-> 0]
  <2>1. f = [i \in 1 .. 0 |-> PrintOf(table[i], f)]
    OBVIOUS
  <2>2. Prints(table, 0, f)
    BY <2>1 DEF Prints
  <2> QED BY <1>0, <2>2
<1>2. ASSUME NEW k \in 0 .. (n - 1), k \in P PROVE k + 1 \in P
  <2> PICK f : Prints(table, k, f)
    BY <1>2
  <2>1. k \in Nat /\ k + 1 \in 0 .. n
    BY <1>0
  <2> PICK last : last = PrintOf(table[k + 1], f)
    OBVIOUS
  <2> DEFINE g == [i \in 1 .. (k + 1) |-> IF i <= k THEN f[i] ELSE last]
  <2>2. \A i \in 1 .. k : g[i] = f[i]
    BY <2>1
  <2>3. DOMAIN g = 1 .. (k + 1) /\ g = [i \in 1 .. (k + 1) |-> g[i]] /\ g[k + 1] = last
    BY <2>1
  <2> HIDE DEF g
  <2>4. ASSUME NEW i \in 1 .. (k + 1) PROVE g[i] = PrintOf(table[i], g)
    <3>1. i \in Nat /\ i \in 1 .. n /\ RefersBack(table[i], i)
      BY <1>0, <2>1
    <3>2. \A j \in 1 .. (i - 1) : f[j] = g[j]
      BY <2>1, <2>2
    <3> PICK t : t = table[i]
      OBVIOUS
    <3>3. PrintOf(t, f) = PrintOf(t, g)
      BY <3>1, <3>2, PrintsAlike
    <3>4. CASE i \in 1 .. k
      <4>1. f[i] = PrintOf(t, f)
        BY <3>4 DEF Prints
      <4> QED BY <2>2, <3>3, <3>4, <4>1
    <3>5. CASE i = k + 1
      BY <2>3, <3>3, <3>5
    <3> QED BY <2>1, <3>4, <3>5
  <2>5. g = [i \in 1 .. (k + 1) |-> PrintOf(table[i], g)]
    BY <2>3, <2>4
  <2>6. Prints(table, k + 1, g)
    BY <2>5 DEF Prints
  <2> QED BY <2>1, <2>6
<1>3. n \in 0 .. n /\ 1 \in Nat \ {0}
  BY <1>0
<1>4. n \in P
  <2> HIDE DEF P
  <2>1. \A k \in 0 .. (n - 1) : k \in P => k + 1 \in P
    BY <1>2
  <2>2. \A k \in 0 .. n : k \in P
    BY <1>0, <1>1, <1>3, <2>1, Numbers!UpTo
  <2> QED BY <1>3, <2>2
<1> QED BY <1>4

\* Two types that print the same have the same fields, if that is so of the
\* older ones.
LEMMA SamePrint ==
  ASSUME NEW t \in TypeObject, NEW u \in TypeObject, NEW i \in Nat, NEW j \in Nat, RefersBack(t, i), RefersBack(u, j), NEW f,
         \A x \in 1 .. (i - 1) : \A y \in 1 .. (j - 1) : f[x] = f[y] => x = y,
         PrintOf(t, f) = PrintOf(u, f)
  PROVE  t = u
<1> DEFINE S == {"void", "label", "i1", "i32", "float"}
<1>1. \A v : v.tid \in S => PrintOf(v, f) = <<v.tid>>
  BY DEF PrintOf
<1>2. \A v : v.tid = "pointer" => PrintOf(v, f) = <<"*", f[v.of]>>
  BY DEF PrintOf
<1>3. \A v : v.tid = "array" => PrintOf(v, f) = <<"x", v.num, f[v.of]>>
  BY DEF PrintOf
<1>4. \A v : v.tid = "function" =>
        PrintOf(v, f) = <<"()", f[v.of], [n \in DOMAIN v.args |-> f[v.args[n]]]>>
  BY DEF PrintOf
<1>5. /\ t.tid \in S \cup {"pointer", "array", "function"}
      /\ u.tid \in S \cup {"pointer", "array", "function"}
  BY Kinds
<1>6. CASE t.tid \in S
  <2>1. PrintOf(t, f)[1] \in S
    BY <1>1, <1>6
  <2>2. u.tid \in S
    BY <1>2, <1>3, <1>4, <1>5, <2>1
  <2>3. t.tid = u.tid
    BY <1>1, <1>6, <2>2
  <2> QED BY <1>6, <2>2, <2>3, Kinds
<1>7. CASE t.tid = "pointer"
  <2>1. PrintOf(t, f)[1] = "*"
    BY <1>2, <1>7
  <2>2. u.tid = "pointer"
    BY <1>1, <1>3, <1>4, <1>5, <2>1
  <2>3. f[t.of] = f[u.of]
    BY <1>2, <1>7, <2>2
  <2>4. /\ t.of \in 1 .. (i - 1) /\ t = PointerType(t.of)
        /\ u.of \in 1 .. (j - 1) /\ u = PointerType(u.of)
    BY <1>7, <2>2, Kinds
  <2> QED BY <2>3, <2>4
<1>8. CASE t.tid = "array"
  <2>1. PrintOf(t, f)[1] = "x"
    BY <1>3, <1>8
  <2>2. u.tid = "array"
    BY <1>1, <1>2, <1>4, <1>5, <2>1
  <2>3. f[t.of] = f[u.of] /\ t.num = u.num
    BY <1>3, <1>8, <2>2
  <2>4. /\ t.of \in 1 .. (i - 1) /\ t = ArrayType(t.of, t.num)
        /\ u.of \in 1 .. (j - 1) /\ u = ArrayType(u.of, u.num)
    BY <1>8, <2>2, Kinds
  <2> QED BY <2>3, <2>4
<1>9. CASE t.tid = "function"
  <2>1. PrintOf(t, f)[1] = "()"
    BY <1>4, <1>9
  <2>2. u.tid = "function"
    BY <1>1, <1>2, <1>3, <1>5, <2>1
  <2>3. /\ f[t.of] = f[u.of]
        /\ [n \in DOMAIN t.args |-> f[t.args[n]]] = [n \in DOMAIN u.args |-> f[u.args[n]]]
    BY <1>4, <1>9, <2>2
  <2>4. /\ t.of \in 1 .. (i - 1) /\ t = FunctionType(t.of, t.args)
        /\ u.of \in 1 .. (j - 1) /\ u = FunctionType(u.of, u.args)
        /\ \A n \in DOMAIN t.args : t.args[n] \in 1 .. (i - 1)
        /\ \A n \in DOMAIN u.args : u.args[n] \in 1 .. (j - 1)
    BY <1>9, <2>2, Kinds
  <2>5. DOMAIN t.args = DOMAIN u.args
    BY <2>3
  <2>6. \A n \in DOMAIN t.args : t.args[n] = u.args[n]
    <3> TAKE n \in DOMAIN t.args
    <3>1. f[t.args[n]] = f[u.args[n]]
      BY <2>3, <2>5
    <3> QED BY <2>4, <2>5, <3>1
  <2>7. t.args \in Seq(Nat) /\ u.args \in Seq(Nat)
    BY DEF TypeObject
  <2>8. t.args = u.args
    <3> PICK x, y : x = t.args /\ y = u.args
      OBVIOUS
    <3>1. x = [n \in DOMAIN x |-> x[n]] /\ y = [n \in DOMAIN y |-> y[n]]
      BY <2>7
    <3>2. x = y
      BY <2>5, <2>6, <3>1
    <3> QED BY <3>2
  <2>9. t.of = u.of
    BY <2>3, <2>4
  <2> QED BY <2>4, <2>8, <2>9
<1> QED BY <1>5, <1>6, <1>7, <1>8, <1>9

\* In a table no two types print the same.
LEMMA TablePrintsOnce ==
  ASSUME NEW table, TableOK(table), NEW i \in DOMAIN table, NEW j \in DOMAIN table,
         Printed(table)[i] = Printed(table)[j]
  PROVE  i = j
<1> PICK n : n = Len(table)
  OBVIOUS
<1> DEFINE F(f) == f = [h \in DOMAIN table |->
              LET t == table[h]
              IN  CASE t.tid = "pointer"  -> <<"*", f[t.of]>>
                    [] t.tid = "array"    -> <<"x", t.num, f[t.of]>>
                    [] t.tid = "function" -> <<"()", f[t.of], [m \in DOMAIN t.args |-> f[t.args[m]]]>>
                    [] OTHER              -> <<t.tid>>]
           R == CHOOSE f : F(f)
<1>1. n \in Nat /\ DOMAIN table = 1 .. n
  BY DEF TableOK
<1>2. \A f : F(f) <=> Prints(table, n, f)
  BY <1>1 DEF Prints, PrintOf
<1>3. Printed(table) = R
  BY DEF Printed
<1> HIDE DEF F
<1>4. \E f : F(f)
  BY <1>2, PrintsExist
<1>5. F(R)
  BY <1>4
<1>6. Prints(table, n, R)
  BY <1>2, <1>5
<1> HIDE DEF R
<1>7. \A x \in 1 .. n : R[x] = PrintOf(table[x], R) /\ RefersBack(table[x], x) /\ table[x] \in TypeObject
  BY <1>1, <1>6 DEF Prints, TableOK
<1> DEFINE P == {k \in 0 .. n : \A x, y \in 1 .. k : R[x] = R[y] => x = y}
<1>8. 0 \in P
  BY <1>1
<1>9. ASSUME NEW k \in 0 .. (n - 1), k \in P PROVE k + 1 \in P
  <2>1. k \in Nat /\ k + 1 \in 0 .. n
    BY <1>1
  <2>2. ASSUME NEW x \in 1 .. (k + 1), NEW y \in 1 .. (k + 1), R[x] = R[y] PROVE x = y
    <3>1. x \in 1 .. n /\ y \in 1 .. n /\ x \in Nat /\ y \in Nat
      BY <1>1, <2>1
    <3>2. \A v \in 1 .. (x - 1) : \A w \in 1 .. (y - 1) : R[v] = R[w] => v = w
      BY <1>9, <2>1
    <3> PICK t, u : t = table[x] /\ u = table[y]
      OBVIOUS
    <3>3. /\ RefersBack(t, x) /\ RefersBack(u, y) /\ t \in TypeObject /\ u \in TypeObject
          /\ PrintOf(t, R) = PrintOf(u, R)
      BY <1>7, <2>2, <3>1
    <3>4. t = u
      BY <3>1, <3>2, <3>3, SamePrint
    <3> QED BY <1>1, <3>1, <3>4 DEF TableOK
  <2> QED BY <2>1, <2>2
<1>10. n \in P
  <2> HIDE DEF P
  <2>1. \A k \in 0 .. (n - 1) : k \in P => k + 1 \in P
    BY <1>9
  <2>2. n \in 0 .. n /\ 1 \in Nat \ {0}
    BY <1>1
  <2>3. \A k \in 0 .. n : k \in P
    BY <1>1, <1>8, <2>1, <2>2, Numbers!UpTo
  <2> QED BY <2>2, <2>3
<1> QED BY <1>1, <1>3, <1>10

\* The types of values are in the table, which begins as the module gave it.
TypesInv ==
  /\ TableOK(types) /\ Len(types) >= Len(FirstTypes)
  /\ \A i \in DOMAIN FirstTypes : types[i] = FirstTypes[i]
  /\ ty \in [Instr -> DOMAIN types]

\* What a table with more types says of a value is the same.
LEMMA TypesGrow ==
  ASSUME TypesInv, NEW a, NEW t, Grown(types, types', a, t), NEW b, b \in DOMAIN types',
         NEW u \in Instr, ty' = [ty EXCEPT ![u] = b]
  PROVE  TypesInv'
<1>1. FirstTypes \in Seq(TypeObject)
  BY TypesAssumption DEF TableOK
<1>2. DOMAIN FirstTypes = 1 .. Len(FirstTypes) /\ Len(FirstTypes) \in Nat
  BY <1>1
<1>3. TableOK(types') /\ types \in Seq(TypeObject) /\ types' \in Seq(TypeObject)
  BY DEF Grown, TypesInv, TableOK
<1>4. DOMAIN types = 1 .. Len(types) /\ DOMAIN types' = 1 .. Len(types')
  BY <1>3
<1>5. DOMAIN types \subseteq DOMAIN types' /\ Len(types') >= Len(FirstTypes)
  BY <1>2, <1>4 DEF Grown, TypesInv
<1>6. \A i \in DOMAIN FirstTypes : types'[i] = FirstTypes[i]
  BY <1>2, <1>4 DEF Grown, TypesInv
<1>7. ty' \in [Instr -> DOMAIN types']
  BY <1>5 DEF TypesInv
<1> QED BY <1>3, <1>5, <1>6, <1>7 DEF TypesInv

\* What is made of a name, numbers and a list is a type.
LEMMA TypeObjects ==
  ASSUME NEW x, NEW k, NEW o, NEW n, NEW e, x = [tid |-> k, of |-> o, num |-> n, args |-> e],
         k \in TypeID, o \in Nat, n \in Nat, e \in Seq(Nat)
  PROVE  x \in TypeObject
BY DEF TypeObject

\* A list behind another.
LEMMA LengthOfBoth ==
  ASSUME NEW S, NEW m, NEW o, NEW f, m \in Seq(S), o \in Seq(S), f = m \o o
  PROVE  Len(f) = Len(m) + Len(o) /\ Len(o) \in Nat
OBVIOUS

\* The five types every module has come first.
LEMMA FirstTypesFacts ==
  /\ FirstTypes \in Seq(TypeObject) /\ 1 .. 5 \subseteq DOMAIN FirstTypes
  /\ DOMAIN FirstTypes = 1 .. Len(FirstTypes) /\ Len(FirstTypes) \in Nat /\ Len(FirstTypes) >= 5
<1>1. FirstTypes \in Seq(TypeObject)
  BY TypesAssumption DEF TableOK
<1>2. ModuleTypes \in Seq(TypeObject) /\ Len(ModuleTypes) = 5
  <2> PICK v, l, b, i, f : /\ v = Type("void", 0, 0, <<>>) /\ l = Type("label", 0, 0, <<>>)
                           /\ b = Type("i1", 0, 0, <<>>) /\ i = Type("i32", 0, 0, <<>>)
                           /\ f = Type("float", 0, 0, <<>>)
    OBVIOUS
  <2>1. ModuleTypes = <<v, l, b, i, f>>
    BY DEF ModuleTypes
  <2>2. v \in TypeObject /\ l \in TypeObject /\ b \in TypeObject /\ i \in TypeObject /\ f \in TypeObject
    <3> PICK e : e = <<>>
      OBVIOUS
    <3> PICK p, q, r, s, t : p = "void" /\ q = "label" /\ r = "i1" /\ s = "i32" /\ t = "float"
      OBVIOUS
    <3>1. p \in TypeID /\ q \in TypeID /\ r \in TypeID /\ s \in TypeID /\ t \in TypeID
      BY DEF TypeID
    <3>2. e \in Seq(Nat) /\ 0 \in Nat
      OBVIOUS
    <3>3. /\ v = [tid |-> p, of |-> 0, num |-> 0, args |-> e]
          /\ l = [tid |-> q, of |-> 0, num |-> 0, args |-> e]
          /\ b = [tid |-> r, of |-> 0, num |-> 0, args |-> e]
          /\ i = [tid |-> s, of |-> 0, num |-> 0, args |-> e]
          /\ f = [tid |-> t, of |-> 0, num |-> 0, args |-> e]
      BY DEF Type
    <3> QED BY ONLY <3>1, <3>2, <3>3, TypeObjects
  <2> QED BY ONLY <2>1, <2>2
<1>3. OtherTypes \in Seq(TypeObject)
  BY TypesAssumption
<1>4. Len(FirstTypes) = 5 + Len(OtherTypes) /\ Len(OtherTypes) \in Nat
  <2> PICK m : m = ModuleTypes
    OBVIOUS
  <2>1. m \in Seq(TypeObject) /\ Len(m) = 5 /\ FirstTypes = m \o OtherTypes
    BY <1>2 DEF FirstTypes
  <2> PICK o, f : o = OtherTypes /\ f = FirstTypes
    OBVIOUS
  <2>2. o \in Seq(TypeObject) /\ f = m \o o
    BY <1>3, <2>1
  <2>3. Len(f) = Len(m) + Len(o) /\ Len(o) \in Nat
    <3> PICK S : S = TypeObject
      OBVIOUS
    <3>1. m \in Seq(S) /\ o \in Seq(S) /\ f = m \o o
      BY <2>1, <2>2
    <3> QED BY ONLY <3>1, LengthOfBoth
  <2>4. Len(f) = 5 + Len(o)
    BY ONLY <2>1, <2>3
  <2> QED BY <2>3, <2>4
<1> QED BY <1>1, <1>4

\* The five types every module has.
LEMMA ModuleTypesThere ==
  ASSUME TypesInv
  PROVE  /\ {Void, Label, Int1, Int32, Float} \subseteq DOMAIN types
         /\ DOMAIN FirstTypes \subseteq DOMAIN types
         /\ types \in Seq(TypeObject) /\ DOMAIN types = 1 .. Len(types) /\ Len(types) \in Nat
<1>1. types \in Seq(TypeObject)
  BY DEF TypesInv, TableOK
<1> QED BY <1>1, FirstTypesFacts DEF TypesInv, Void, Label, Int1, Int32, Float

\* An instruction of a type the table has.
LEMMA NewTypes ==
  ASSUME IInv, TypesInv, NEW k, NEW t \in DOMAIN types, NEW s, NEW b, New(k, t, s, b), types' = types
  PROVE  TypesInv'
<1> USE LightIRAssumption
<1>1. made + 1 \in Instr /\ ty' = [ty EXCEPT ![made + 1] = t]
  BY DEF New, IInv, Instr
<1>2. ty' \in [Instr -> DOMAIN types']
  BY <1>1 DEF TypesInv
<1> QED BY <1>2 DEF TypesInv

\* The type of an operand is in the table.
LEMMA UsableTypes ==
  ASSUME IInv, TypesInv, NEW v \in Usable
  PROVE  TypeOf(v) \in DOMAIN types
<1>1. CASE v \in Instr
  BY <1>1 DEF TypeOf, TypesInv
<1>2. CASE v \notin Instr
  <2>1. v \in menu.values /\ menu \in Menus
    BY <1>2, LightIRAssumption DEF Usable, Built, IInv
  <2>2. v \notin Block
    BY <2>1, UsableValues, LightIRAssumption
  <2>3. OtherType[v] \in DOMAIN FirstTypes
    BY <2>1, TypesAssumption
  <2> QED BY <1>2, <2>2, <2>3, ModuleTypesThere DEF TypeOf
<1> QED BY <1>1, <1>2

\* What a pointer or an array refers to is in the table.
LEMMA ElementTypes ==
  ASSUME TypesInv, NEW i \in DOMAIN types, types[i].tid \in {"pointer", "array", "function"}
  PROVE  types[i].of \in DOMAIN types
<1>1. types \in Seq(TypeObject) /\ DOMAIN types = 1 .. Len(types) /\ Len(types) \in Nat
  BY ModuleTypesThere
<1> PICK t : t = types[i]
  OBVIOUS
<1>2. RefersBack(t, i)
  BY DEF TypesInv, TableOK
<1>3. t.of \in 1 .. (i - 1)
  BY <1>2, Kinds
<1> QED BY <1>1, <1>3

\* A pointer type, and an array type, that may be asked for.
LEMMA MadeTypes ==
  ASSUME NEW table, TableOK(table), NEW i \in DOMAIN table, NEW n \in Nat
  PROVE  /\ PointerType(i) \in TypeObject /\ RefersBack(PointerType(i), Len(table) + 1)
         /\ ArrayType(i, n) \in TypeObject /\ RefersBack(ArrayType(i, n), Len(table) + 1)
<1>1. table \in Seq(TypeObject)
  BY DEF TableOK
<1>2. i \in Nat /\ i \in 1 .. ((Len(table) + 1) - 1)
  BY <1>1
<1> PICK x, y, e, p, q : /\ x = PointerType(i) /\ y = ArrayType(i, n)
                         /\ e = <<>> /\ p = "pointer" /\ q = "array"
  OBVIOUS
<1>3. e \in Seq(Nat) /\ 0 \in Nat /\ p \in TypeID /\ q \in TypeID
  <2>1. e \in Seq(Nat) /\ 0 \in Nat
    OBVIOUS
  <2>2. p \in TypeID /\ q \in TypeID
    BY DEF TypeID
  <2> QED BY <2>1, <2>2
<1>4. PointerType(i) \in TypeObject /\ ArrayType(i, n) \in TypeObject
  <2>1. /\ x = [tid |-> p, of |-> i, num |-> 0, args |-> e]
        /\ y = [tid |-> q, of |-> i, num |-> n, args |-> e]
    BY DEF PointerType, ArrayType, Type
  <2>2. x \in TypeObject /\ y \in TypeObject
    BY ONLY <1>2, <1>3, <2>1, TypeObjects
  <2> QED BY <2>2
<1>5. PointerType(i).of = i /\ ArrayType(i, n).of = i /\ ArrayType(i, n).num = n
  BY DEF PointerType, ArrayType, Type
<1> QED BY <1>2, <1>4, <1>5 DEF RefersBack

\* A table that grew twice grew.
LEMMA GrownTwice ==
  ASSUME NEW x, NEW y, NEW z, NEW a, NEW b, NEW t, NEW u, Grown(x, y, a, t), Grown(y, z, b, u)
  PROVE  Grown(x, z, b, u)
<1>1. y \in Seq(TypeObject)
  BY DEF Grown, TableOK
<1> QED BY <1>1 DEF Grown

\* Every operation of the builder and the passes keeps the table as it must be.
LEMMA NextTypes == IInv /\ TypesInv /\ [Next]_vars => TypesInv'
<1> SUFFICES ASSUME IInv, TypesInv, [Next]_vars PROVE TypesInv'
  OBVIOUS
<1>0. {Void, Label, Int1, Int32, Float} \subseteq DOMAIN types /\ DOMAIN FirstTypes \subseteq DOMAIN types
  BY ModuleTypesThere
<1>m. menu \in Menus
  BY DEF IInv
<1>1. ASSUME NEW k, NEW t, NEW s, Plain(k, t, s), t \in DOMAIN types PROVE TypesInv'
  <2>1. types' = types /\ \E b : New(k, t, s, b)
    BY <1>1 DEF Plain
  <2> QED BY <1>1, <2>1, NewTypes
<1>2. CASE CreateBinary \/ CreateCmp \/ CreateCast \/ CreateRet \/ CreateStore
  <2>1. \E k, t, s : Plain(k, t, s) /\ t \in DOMAIN types
    BY <1>0, <1>2 DEF CreateBinary, CreateCmp, CreateCast, CreateRet, CreateStore
  <2> QED BY <1>1, <2>1
<1>3. CASE CreateCall
  <2> DEFINE f == types[OtherType[Callee]]
  <2>1. \E s : Plain("call", f.of, <<Callee>> \o s)
    BY <1>3 DEF CreateCall
  <2>2. OtherType[Callee] \in DOMAIN types /\ f.tid = "function"
    BY <1>0, TypesAssumption DEF TypesInv
  <2>3. f.of \in DOMAIN types
    BY <2>2, ElementTypes
  <2> QED BY <1>1, <2>1, <2>3
<1>4. CASE CreateLoad
  <2>1. PICK p \in Usable : /\ is_pointer_type(TypeOf(p))
                            /\ Plain("load", get_pointer_element_type(TypeOf(p)), <<p>>)
    BY <1>4 DEF CreateLoad
  <2> PICK i : i = TypeOf(p)
    OBVIOUS
  <2>2. i \in DOMAIN types /\ types[i].tid = "pointer"
    BY <2>1, UsableTypes DEF is_pointer_type
  <2>3. get_pointer_element_type(TypeOf(p)) \in DOMAIN types
    BY <2>2, ElementTypes DEF get_pointer_element_type
  <2> QED BY <1>1, <2>1, <2>3
<1>5. CASE CreateAlloca
  <2>1. PICK c \in menu.contained :
          LET inner == IF c.num = 0 THEN types ELSE With(types, ArrayType(c.of, c.num))
              t     == IF c.num = 0 THEN c.of ELSE Address(types, ArrayType(c.of, c.num))
          IN  /\ \E b \in Block : New("alloca", Address(inner, PointerType(t)), <<>>, b)
              /\ types' = With(inner, PointerType(t))
    BY <1>5 DEF CreateAlloca
  <2> DEFINE arr == ArrayType(c.of, c.num)
             inner == IF c.num = 0 THEN types ELSE With(types, arr)
             t == IF c.num = 0 THEN c.of ELSE Address(types, arr)
  <2>2. c.of \in DOMAIN types /\ c.num \in Nat
    BY <1>0, <1>m, TypesAssumption
  <2>3. TableOK(inner) /\ t \in DOMAIN inner /\ (inner = types \/ \E a, u : Grown(types, inner, a, u))
    <3>1. CASE c.num = 0
      BY <2>2, <3>1 DEF TypesInv
    <3>2. CASE c.num # 0
      <4>1. arr \in TypeObject /\ RefersBack(arr, Len(types) + 1)
        BY <2>2, MadeTypes DEF TypesInv
      <4>2. Grown(types, inner, t, arr)
        <5>1. Grown(types, With(types, arr), Address(types, arr), arr)
          <6> HIDE DEF arr
          <6> QED BY <4>1, WithGrows DEF TypesInv
        <5> QED BY <3>2, <5>1
      <4> HIDE DEF inner, t, arr
      <4> QED BY <4>2 DEF Grown
    <3> QED BY <3>1, <3>2
  <2> DEFINE ptr == PointerType(t)
             a == Address(inner, ptr)
  <2>4. types' = With(inner, ptr) /\ \E b \in Block : New("alloca", a, <<>>, b)
    BY <2>1
  <2> HIDE DEF inner, t
  <2>5. ptr \in TypeObject /\ RefersBack(ptr, Len(inner) + 1)
    BY <2>3, MadeTypes
  <2>6. Grown(inner, types', a, ptr)
    <3> HIDE DEF ptr
    <3>1. Grown(inner, With(inner, ptr), Address(inner, ptr), ptr)
      BY <2>3, <2>5, WithGrows
    <3> QED BY <2>4, <3>1
  <2> HIDE DEF a, ptr
  <2>7. Grown(types, types', a, ptr)
    BY <2>3, <2>6, GrownTwice
  <2>8. made + 1 \in Instr /\ ty' = [ty EXCEPT ![made + 1] = a]
    BY <2>4, LightIRAssumption DEF New, IInv, Instr
  <2>9. a \in DOMAIN types'
    BY <2>6 DEF Grown
  <2> QED BY <2>7, <2>8, <2>9, TypesGrow
<1>6. CASE CreateGep
  <2>1. PICK p, x, zero :
          /\ p \in Usable
          /\ is_pointer_type(TypeOf(p))
          /\ LET t   == get_pointer_element_type(TypeOf(p))
                 arr == types[t].tid = "array"
                 e   == IF arr THEN types[t].of ELSE t
             IN  /\ \E b \in Block : New("gep", Address(types, PointerType(e)),
                                         IF arr THEN <<p, zero, x>> ELSE <<p, x>>, b)
                 /\ types' = With(types, PointerType(e))
    BY <1>6 DEF CreateGep
  <2> DEFINE t == get_pointer_element_type(TypeOf(p))
             e == IF types[t].tid = "array" THEN types[t].of ELSE t
             ptr == PointerType(e)
             a == Address(types, ptr)
  <2>2. types' = With(types, ptr) /\ \E s, b : New("gep", a, s, b)
    BY <2>1
  <2> PICK i : i = TypeOf(p)
    OBVIOUS
  <2>3. i \in DOMAIN types /\ types[i].tid = "pointer"
    BY <2>1, UsableTypes DEF is_pointer_type
  <2>4. t \in DOMAIN types
    BY <2>3, ElementTypes DEF get_pointer_element_type
  <2> HIDE DEF t
  <2>5. e \in DOMAIN types
    BY <2>4, ElementTypes
  <2> HIDE DEF e
  <2>6. ptr \in TypeObject /\ RefersBack(ptr, Len(types) + 1)
    BY <2>5, MadeTypes DEF TypesInv
  <2>7. Grown(types, types', a, ptr)
    <3> HIDE DEF ptr
    <3>1. Grown(types, With(types, ptr), Address(types, ptr), ptr)
      BY <2>6, WithGrows DEF TypesInv
    <3> QED BY <2>2, <3>1
  <2> HIDE DEF a, ptr
  <2>8. made + 1 \in Instr /\ ty' = [ty EXCEPT ![made + 1] = a]
    BY <2>2, LightIRAssumption DEF New, IInv, Instr
  <2>9. a \in DOMAIN types'
    BY <2>7 DEF Grown
  <2> QED BY <2>7, <2>8, <2>9, TypesGrow
<1>7. CASE CreateBr \/ CreateCondBr
  <2>1. types' = types /\ \E k, s, b : New(k, Void, s, b)
    BY <1>7 DEF CreateBr, CreateCondBr
  <2> QED BY <1>0, <2>1, NewTypes
<1>8. CASE AddPhi
  <2>1. PICK t \in {Int32, Float} : /\ types' = types /\ ty' = [ty EXCEPT ![made + 1] = t]
                                    /\ made < menu.max
    BY <1>8 DEF AddPhi
  <2>2. ty' \in [Instr -> DOMAIN types']
    BY <1>0, <2>1 DEF TypesInv
  <2> QED BY <2>1, <2>2 DEF TypesInv
<1>9. CASE types' = types /\ ty' = ty
  BY <1>9 DEF TypesInv
<1>10. CASE AddBlock \/ StartPasses \/ AddPair \/ ReplaceLoad \/ ReplaceMember
            \/ EraseInstr \/ Sweep \/ PrintModule \/ UNCHANGED vars
  <2>1. types' = types /\ ty' = ty
    BY <1>10 DEF AddBlock, StartPasses, AddPair, ReplaceLoad, ReplaceMember, EraseInstr, Sweep, Erase,
       PrintModule, vars, body
  <2> QED BY <1>9, <2>1
<1> QED BY <1>2, <1>3, <1>4, <1>5, <1>6, <1>7, <1>8, <1>10 DEF Next, Create, Passes

\* The table starts with the types of the module.
LEMMA InitTypes == Init => TypesInv
<1> SUFFICES ASSUME Init PROVE TypesInv
  OBVIOUS
<1>1. types = FirstTypes /\ ty = [u \in Instr |-> Void] /\ TableOK(FirstTypes)
  BY TypesAssumption DEF Init
<1> QED BY <1>1, FirstTypesFacts DEF TypesInv, Void

\* Comparing the addresses of types compares types: whatever the builder and the
\* passes ask for, no two objects print the same (Module::get_pointer_type and
\* its like, Type::is_eq_type).
THEOREM TypesMadeOnce == Spec => []TypesOnce
<1>1. TypesInv => TypesOnce
  BY TablePrintsOnce DEF TypesInv, TypesOnce
<1> QED BY InitInv, NextInv, InitTypes, NextTypes, <1>1, PTL DEF Spec

-----------------------------------------------------------------------------
(* Lists put together and lists with elements left out.                     *)

\* No element twice.
Once(s) == \A i, j \in DOMAIN s : s[i] = s[j] => i = j

\* A list of length 0.
LEMMA EmptyList ==
  ASSUME NEW T, NEW s, s \in Seq(T), Len(s) = 0
  PROVE  s = <<>>
OBVIOUS

\* Two lists, one behind the other.
Joined(T, p, q, r) ==
  /\ r \in Seq(T) /\ Len(r) = Len(p) + Len(q) /\ Range(r) = Range(p) \cup Range(q)
  /\ \A i \in 1 .. Len(p) : r[i] = p[i]
  /\ \A i \in 1 .. Len(q) : r[Len(p) + i] = q[i]
  /\ Once(p) /\ Once(q) /\ Range(p) \cap Range(q) = {} => Once(r)

\* That is what \o makes.
LEMMA BothLists ==
  ASSUME NEW T, NEW p, NEW q, NEW r, p \in Seq(T), q \in Seq(T), r = p \o q
  PROVE  Joined(T, p, q, r)
<1>1. /\ r \in Seq(T) /\ Len(r) = Len(p) + Len(q) /\ Len(p) \in Nat /\ Len(q) \in Nat
      /\ \A i \in 1 .. Len(p) : r[i] = p[i]
      /\ \A i \in Len(p) + 1 .. Len(p) + Len(q) : r[i] = q[i - Len(p)]
  OBVIOUS
<1>2. DOMAIN r = 1 .. Len(r) /\ DOMAIN p = 1 .. Len(p) /\ DOMAIN q = 1 .. Len(q)
  BY <1>1
<1> PICK m, n : m = Len(p) /\ n = Len(q)
  OBVIOUS
<1>3. /\ m \in Nat /\ n \in Nat /\ DOMAIN r = 1 .. m + n /\ DOMAIN p = 1 .. m /\ DOMAIN q = 1 .. n
      /\ \A i \in 1 .. m : r[i] = p[i]
      /\ \A i \in 1 .. n : r[m + i] = q[i]
  <2>1. ASSUME NEW i \in 1 .. n PROVE r[m + i] = q[i]
    <3> DEFINE j == m + i
    <3>1. j \in m + 1 .. m + n /\ j - m = i
      BY <1>1
    <3> HIDE DEF j
    <3>2. r[j] = q[j - m]
      BY <1>1, <3>1
    <3> QED BY <3>1, <3>2 DEF j
  <2> QED BY <1>1, <1>2, <2>1
<1>4. \A i \in 1 .. m + n : i \in 1 .. m \/ \E k \in 1 .. n : i = m + k
  <2> TAKE i \in 1 .. m + n
  <2>1. CASE i <= m
    BY <1>3, <2>1
  <2>2. CASE i > m
    <3>1. i - m \in 1 .. n /\ i = m + (i - m)
      BY <1>3, <2>2
    <3> QED BY <3>1
  <2> QED BY <1>3, <2>1, <2>2
<1>5. \A i \in 1 .. m : i \in 1 .. m + n
  BY <1>3
<1>6. \A i \in 1 .. n : m + i \in 1 .. m + n
  BY <1>3
<1>7. Range(r) = Range(p) \cup Range(q)
  <2>1. ASSUME NEW x \in Range(r) PROVE x \in Range(p) \cup Range(q)
    <3> PICK i \in 1 .. m + n : r[i] = x
      BY <1>3, <2>1 DEF Range
    <3>1. CASE i \in 1 .. m
      BY <1>3, <3>1 DEF Range
    <3>2. ASSUME NEW k \in 1 .. n, i = m + k PROVE x \in Range(q)
      BY <1>3, <3>2 DEF Range
    <3> QED BY <1>4, <3>1, <3>2
  <2>2. ASSUME NEW x \in Range(p) PROVE x \in Range(r)
    <3> PICK i \in 1 .. m : p[i] = x
      BY <1>3, <2>2 DEF Range
    <3> QED BY <1>3, <1>5 DEF Range
  <2>3. ASSUME NEW x \in Range(q) PROVE x \in Range(r)
    <3> PICK i \in 1 .. n : q[i] = x
      BY <1>3, <2>3 DEF Range
    <3> QED BY <1>3, <1>6 DEF Range
  <2> QED BY <2>1, <2>2, <2>3
<1>8. ASSUME Once(p), Once(q), Range(p) \cap Range(q) = {} PROVE Once(r)
  <2>0. /\ \A i \in 1 .. m : p[i] \in Range(p)
        /\ \A i \in 1 .. n : q[i] \in Range(q)
    BY <1>3 DEF Range
  <2>1. ASSUME NEW i \in 1 .. m + n, NEW j \in 1 .. m + n, r[i] = r[j] PROVE i = j
    <3>1. CASE i \in 1 .. m /\ j \in 1 .. m
      <4>1. p[i] = p[j] /\ i \in DOMAIN p /\ j \in DOMAIN p
        BY <1>3, <2>1, <3>1
      <4> QED BY <1>8, <4>1 DEF Once
    <3>2. ASSUME NEW k \in 1 .. n, NEW l \in 1 .. n, i = m + k, j = m + l PROVE i = j
      <4>1. q[k] = q[l]
        BY <1>3, <2>1, <3>2
      <4>2. k = l
        BY <1>3, <1>8, <4>1 DEF Once
      <4> QED BY <3>2, <4>2
    <3>3. ASSUME NEW k \in 1 .. m, NEW l \in 1 .. n, r[k] = r[m + l] PROVE FALSE
      BY <1>3, <1>8, <2>0, <3>3
    <3>4. ASSUME j \in 1 .. m, NEW k \in 1 .. n, i = m + k PROVE FALSE
      <4>1. r[j] = r[m + k]
        BY <2>1, <3>4
      <4> QED BY <3>3, <3>4, <4>1
    <3>5. ASSUME i \in 1 .. m, NEW k \in 1 .. n, j = m + k PROVE FALSE
      <4>1. r[i] = r[m + k]
        BY <2>1, <3>5
      <4> QED BY <3>3, <3>5, <4>1
    <3>6. CASE i \in 1 .. m
      BY ONLY <1>4, <2>1, <3>1, <3>5, <3>6
    <3>7. CASE j \in 1 .. m
      BY ONLY <1>4, <2>1, <3>1, <3>4, <3>7
    <3>8. CASE i \notin 1 .. m /\ j \notin 1 .. m
      <4> PICK k \in 1 .. n, l \in 1 .. n : i = m + k /\ j = m + l
        BY <1>4, <3>8
      <4> QED BY <3>2
    <3> QED BY ONLY <3>6, <3>7, <3>8
  <2>2. DOMAIN r = 1 .. m + n
    BY <1>3
  <2> QED BY ONLY <2>1, <2>2 DEF Once
<1> QED BY <1>1, <1>3, <1>7, <1>8 DEF Joined

\* An element behind a list.
LEMMA AppendedTo ==
  ASSUME NEW T, NEW p, NEW x, NEW r, p \in Seq(T), x \in T, r = Append(p, x)
  PROVE  /\ r \in Seq(T) /\ Range(r) = Range(p) \cup {x} /\ r # <<>> /\ Last(r) = x
         /\ Once(p) /\ x \notin Range(p) => Once(r)
<1> PICK n : n = Len(p)
  OBVIOUS
<1>1. /\ r \in Seq(T) /\ n \in Nat /\ DOMAIN p = 1 .. n /\ Len(r) = n + 1 /\ DOMAIN r = 1 .. n + 1
      /\ \A i \in 1 .. n : r[i] = p[i]
      /\ r[n + 1] = x
  OBVIOUS
<1>2. r # <<>> /\ Last(r) = x
  BY <1>1 DEF Last
<1> PICK l : l = n + 1
  OBVIOUS
<1>3. 1 .. n + 1 = (1 .. n) \cup {l} /\ r[l] = x /\ DOMAIN r = (1 .. n) \cup {l}
  BY <1>1
<1>4. Range(r) = Range(p) \cup {x}
  <2>1. ASSUME NEW y \in Range(r) PROVE y \in Range(p) \cup {x}
    <3> PICK i \in DOMAIN r : r[i] = y
      BY <2>1 DEF Range
    <3> QED BY <1>1, <1>3 DEF Range
  <2>2. ASSUME NEW y \in Range(p) PROVE y \in Range(r)
    <3> PICK i \in 1 .. n : p[i] = y
      BY <1>1, <2>2 DEF Range
    <3> QED BY <1>1, <1>3 DEF Range
  <2>3. x \in Range(r)
    BY <1>3 DEF Range
  <2> QED BY <2>1, <2>2, <2>3
<1>5. ASSUME Once(p), x \notin Range(p) PROVE Once(r)
  <2>1. \A i \in 1 .. n : r[i] # x
    BY <1>1, <1>5 DEF Range
  <2> QED BY <1>1, <1>3, <1>5, <2>1 DEF Once
<1> QED BY <1>1, <1>2, <1>4, <1>5

\* The last element.
LEMMA LastOfList ==
  ASSUME NEW T, NEW s, s \in Seq(T), s # <<>>
  PROVE  Last(s) \in Range(s)
<1>1. Len(s) \in DOMAIN s
  <2>1. Len(s) # 0
    BY EmptyList
  <2> QED BY <2>1
<1> QED BY <1>1 DEF Last, Range

\* FlattenSeq, up to the n-th list.
Chain(s, n, f) == f = [i \in 1 .. n |-> IF i = 1 THEN s[i] ELSE f[i - 1] \o s[i]]
Flattened(T, s, n, q) ==
  /\ q \in Seq(T) /\ Range(q) = UNION {Range(s[i]) : i \in 1 .. n}
  /\ /\ \A i \in DOMAIN s : Once(s[i])
     /\ \A i, j \in DOMAIN s : i # j => Range(s[i]) \cap Range(s[j]) = {}
     => Once(q)

\* So its recursive function exists.
LEMMA ChainExists ==
  ASSUME NEW s, NEW n, n \in Nat
  PROVE  \E f : Chain(s, n, f)
<1> DEFINE P == {k \in 0 .. n : \E f : Chain(s, k, f)}
<1>1. 0 \in P
  <2> DEFINE f == [i \in {} |-> 0]
  <2>1. f = [i \in 1 .. 0 |-> IF i = 1 THEN s[i] ELSE f[i - 1] \o s[i]]
    OBVIOUS
  <2> HIDE DEF f
  <2>2. Chain(s, 0, f)
    BY <2>1 DEF Chain
  <2> QED BY <2>2
<1>2. ASSUME NEW k \in 0 .. (n - 1), k \in P PROVE k + 1 \in P
  <2> PICK f : Chain(s, k, f)
    BY <1>2
  <2>1. k \in Nat /\ k + 1 \in 0 .. n
    OBVIOUS
  <2> PICK last : last = IF k = 0 THEN s[1] ELSE f[k] \o s[k + 1]
    OBVIOUS
  <2> DEFINE g == [i \in 1 .. (k + 1) |-> IF i <= k THEN f[i] ELSE last]
  <2>2. \A i \in 1 .. k : g[i] = f[i]
    BY <2>1
  <2>3. DOMAIN g = 1 .. (k + 1) /\ g = [i \in 1 .. (k + 1) |-> g[i]] /\ g[k + 1] = last
    BY <2>1
  <2> HIDE DEF g
  <2>4. ASSUME NEW i \in 1 .. (k + 1) PROVE g[i] = IF i = 1 THEN s[i] ELSE g[i - 1] \o s[i]
    <3>1. CASE i \in 1 .. k
      <4>1. f[i] = IF i = 1 THEN s[i] ELSE f[i - 1] \o s[i]
        BY <3>1 DEF Chain
      <4>2. i = 1 \/ i - 1 \in 1 .. k
        BY <2>1, <3>1
      <4> QED BY <2>2, <3>1, <4>1, <4>2
    <3>2. CASE i = k + 1
      <4>1. CASE k = 0
        BY <2>3, <3>2, <4>1
      <4>2. CASE k # 0
        <5>1. k \in 1 .. k /\ i - 1 = k /\ i # 1
          BY <2>1, <3>2, <4>2
        <5>2. g[k] = f[k]
          BY <2>2, <5>1
        <5> QED BY <2>3, <3>2, <4>2, <5>1, <5>2
      <4> QED BY <4>1, <4>2
    <3> QED BY <2>1, <3>1, <3>2
  <2>5. Chain(s, k + 1, g)
    BY <2>3, <2>4 DEF Chain
  <2> QED BY <2>1, <2>5
<1>3. n \in 0 .. n /\ 1 \in Nat \ {0} /\ n \in Nat
  OBVIOUS
<1>4. n \in P
  <2> HIDE DEF P
  <2>1. \A k \in 0 .. (n - 1) : k \in P => k + 1 \in P
    BY <1>2
  <2>2. \A k \in 0 .. n : k \in P
    BY <1>1, <1>3, <2>1, Numbers!UpTo
  <2> QED BY <1>3, <2>2
<1> QED BY <1>4

\* All elements of all the lists, each list's in its order.
LEMMA FlattenFacts ==
  ASSUME NEW T, NEW s, s \in Seq(Seq(T)), NEW q, q = FlattenSeq(s)
  PROVE  Flattened(T, s, Len(s), q)
<1> PICK n : n = Len(s)
  OBVIOUS
<1>1. n \in Nat /\ DOMAIN s = 1 .. n /\ \A i \in 1 .. n : s[i] \in Seq(T)
  OBVIOUS
<1>2. CASE n = 0
  <2>1. q = <<>> /\ q \in Seq(T)
    <3>1. q = s
      BY <1>2 DEF FlattenSeq
    <3>2. s = <<>>
      BY <1>2, EmptyList
    <3> QED BY <3>1, <3>2
  <2>2. DOMAIN q = {} /\ 1 .. n = {}
    BY <1>2, <2>1
  <2>3. Range(q) = {} /\ Once(q)
    BY <2>2 DEF Range, Once
  <2>4. UNION {Range(s[i]) : i \in 1 .. n} = {}
    BY <2>2
  <2> QED BY <2>1, <2>3, <2>4 DEF Flattened
<1>3. CASE n # 0
  <2> DEFINE R == CHOOSE f : Chain(s, n, f)
  <2>1. Chain(s, n, R)
    BY <1>1, ChainExists
  <2>2. q = R[n]
    BY <1>3 DEF FlattenSeq, Chain
  <2> HIDE DEF R
  <2>3. \A i \in 1 .. n : R[i] = IF i = 1 THEN s[i] ELSE R[i - 1] \o s[i]
    BY <2>1 DEF Chain
  <2> DEFINE P == {k \in 0 .. n : k = 0 \/ Flattened(T, s, k, R[k])}
  <2>4. 0 \in P
    BY <1>1
  <2>5. ASSUME NEW k \in 0 .. (n - 1), k \in P PROVE k + 1 \in P
    <3> PICK l : l = k + 1
      OBVIOUS
    <3>1. k \in Nat /\ l \in 0 .. n /\ l \in 1 .. n /\ l - 1 = k
      BY <1>1
    <3>2. s[l] \in Seq(T)
      BY <1>1, <3>1
    <3>3. CASE k = 0
      <4>1. R[l] = s[l] /\ l = 1
        BY <2>3, <3>1, <3>3
      <4>2. 1 .. l = {l}
        BY <4>1
      <4>3. UNION {Range(s[i]) : i \in 1 .. l} = Range(s[l])
        BY <4>2
      <4>4. Flattened(T, s, l, R[l])
        BY <1>1, <3>1, <3>2, <4>1, <4>3 DEF Flattened
      <4> QED BY <3>1, <4>4
    <3>4. CASE k # 0
      <4> PICK a, b, c : a = R[k] /\ b = s[l] /\ c = R[l]
        OBVIOUS
      <4>1. Flattened(T, s, k, a) /\ c = a \o b
        <5>1. Flattened(T, s, k, R[k])
          BY <2>5, <3>4
        <5>2. R[l] = R[k] \o s[l]
          <6>1. l # 1
            BY <3>1, <3>4
          <6>2. R[l] = R[l - 1] \o s[l]
            BY <2>3, <3>1, <6>1
          <6> QED BY <3>1, <6>2
        <5> QED BY <5>1, <5>2
      <4>2. a \in Seq(T) /\ b \in Seq(T)
        BY <3>2, <4>1 DEF Flattened
      <4>3. /\ c \in Seq(T) /\ Range(c) = Range(a) \cup Range(b)
            /\ Once(a) /\ Once(b) /\ Range(a) \cap Range(b) = {} => Once(c)
        <5>1. Joined(T, a, b, c)
          BY <4>1, <4>2, BothLists
        <5> QED BY ONLY <5>1 DEF Joined
      <4>4. 1 .. l = (1 .. k) \cup {l} /\ l \notin 1 .. k /\ 1 .. k \subseteq 1 .. n
        BY <1>1, <3>1
      <4>5. Range(c) = UNION {Range(s[i]) : i \in 1 .. l}
        <5>1. Range(a) = UNION {Range(s[i]) : i \in 1 .. k}
          BY <4>1 DEF Flattened
        <5> QED BY <4>3, <4>4, <5>1
      <4>6. ASSUME \A i \in DOMAIN s : Once(s[i]),
                   \A i, j \in DOMAIN s : i # j => Range(s[i]) \cap Range(s[j]) = {}
            PROVE  Once(c)
        <5>1. Once(a) /\ Once(b)
          BY <1>1, <3>1, <4>1, <4>6 DEF Flattened
        <5>2. \A i \in 1 .. k : Range(s[i]) \cap Range(b) = {}
          BY <1>1, <3>1, <4>4, <4>6
        <5>3. Range(a) \cap Range(b) = {}
          BY <4>1, <5>2 DEF Flattened
        <5> QED BY <4>3, <5>1, <5>3
      <4>7. Flattened(T, s, l, c)
        BY <4>3, <4>5, <4>6 DEF Flattened
      <4> QED BY <3>1, <4>7
    <3> QED BY <3>3, <3>4
  <2>6. n \in 0 .. n /\ 1 \in Nat \ {0} /\ n \in Nat
    BY <1>1
  <2>7. n \in P
    <3> HIDE DEF P
    <3>1. \A k \in 0 .. (n - 1) : k \in P => k + 1 \in P
      BY <2>5
    <3>2. \A k \in 0 .. n : k \in P
      BY <2>4, <2>6, <3>1, Numbers!UpTo
    <3> QED BY <2>6, <3>2
  <2> QED BY <1>3, <2>2, <2>7
<1> QED BY <1>2, <1>3

\* What of a list is in a set, still in order.
LEMMA KeptFacts ==
  ASSUME NEW T, NEW s, s \in Seq(T), NEW S, NEW q, q = Kept(s, S)
  PROVE  q \in Seq(T) /\ Range(q) = Range(s) \cap S /\ (Once(s) => Once(q))
<1> DEFINE r == [n \in DOMAIN s |-> IF s[n] \in S THEN <<s[n]>> ELSE <<>>]
<1>1. DOMAIN s = 1 .. Len(s) /\ Len(s) \in Nat /\ \A n \in DOMAIN s : s[n] \in T
  OBVIOUS
<1>2. ASSUME NEW n \in DOMAIN s
      PROVE  r[n] \in Seq(T) /\ Once(r[n]) /\ Range(r[n]) = {s[n]} \cap S
  <2> PICK x : x = s[n] /\ x \in T
    BY <1>1
  <2>1. CASE x \in S
    <3>1. r[n] = <<x>> /\ <<x>> \in Seq(T) /\ DOMAIN <<x>> = {1} /\ <<x>>[1] = x
      BY <2>1
    <3> HIDE DEF r
    <3>2. Range(r[n]) = {x} /\ Once(r[n])
      BY <3>1 DEF Range, Once
    <3> QED BY <2>1, <3>1, <3>2
  <2>2. CASE x \notin S
    <3>1. r[n] = <<>> /\ <<>> \in Seq(T) /\ DOMAIN r[n] = {}
      BY <2>2
    <3> HIDE DEF r
    <3>2. Range(r[n]) = {} /\ Once(r[n])
      BY <3>1 DEF Range, Once
    <3> QED BY <2>2, <3>1, <3>2
  <2> QED BY <2>1, <2>2
<1>3. DOMAIN r = 1 .. Len(s) /\ DOMAIN r = DOMAIN s
  BY <1>1
<1>4. q = FlattenSeq(r)
  BY DEF Kept
<1> HIDE DEF r
<1>5. r \in Seq(Seq(T)) /\ Len(r) = Len(s)
  <2>1. r \in [1 .. Len(s) -> Seq(T)]
    <3>1. r = [n \in DOMAIN s |-> r[n]]
      BY DEF r
    <3> QED BY <1>1, <1>2, <3>1
  <2> QED BY <1>1, <2>1
<1>6. Flattened(T, r, Len(r), q)
  BY <1>4, <1>5, FlattenFacts
<1>7. Range(q) = Range(s) \cap S
  <2>1. Range(q) = UNION {Range(r[n]) : n \in DOMAIN s}
    BY <1>1, <1>5, <1>6 DEF Flattened
  <2>2. Range(q) = UNION {{s[n]} \cap S : n \in DOMAIN s}
    BY <1>2, <2>1
  <2> QED BY <2>2 DEF Range
<1>8. ASSUME Once(s) PROVE Once(q)
  <2>1. \A n \in DOMAIN r : Once(r[n])
    BY <1>2, <1>3
  <2>2. ASSUME NEW i \in DOMAIN r, NEW j \in DOMAIN r, i # j PROVE Range(r[i]) \cap Range(r[j]) = {}
    <3>1. s[i] # s[j]
      BY <1>3, <1>8, <2>2 DEF Once
    <3> QED BY <1>2, <1>3, <3>1
  <2> QED BY <1>6, <2>1, <2>2 DEF Flattened
<1> QED BY <1>6, <1>7, <1>8 DEF Flattened

-----------------------------------------------------------------------------
(* What the text relies on, invariant by invariant.                         *)

\* What has a number, or gets one when the text is made.
Nonvoid  == {u \in Built : ~is_void(u)}
Numbered == Range(Args) \cup Range(added) \cup Nonvoid

\* An instruction is in one block, a block of the function.
BlockInv ==
  /\ added \in Seq(Block) /\ instrs \in [Block -> Seq(Instr)]
  /\ \A b \in Block : \A u \in Range(instrs[b]) : u <= made /\ b \in Range(added)
  /\ \A b, c \in Block : \A u \in Range(instrs[b]) : u \in Range(instrs[c]) => b = c

\* A predecessor is entered once, with its branch.
PreInv ==
  /\ pre \in [Block -> Seq(Block)]
  /\ \A b \in Block : Range(pre[b]) \subseteq Range(added) /\ Once(pre[b])
  /\ phase = "build" => \A b \in Block : \A p \in Range(pre[b]) : HasTerminator(p)

\* The pairs of a phi: values with predecessors, each once.
PhiOK(ops, preds) ==
  /\ Len(ops) % 2 = 0
  /\ \A n \in 1 .. Len(ops) \div 2 : ops[2 * n] \in Range(preds) /\ ops[2 * n - 1] \notin Block
  /\ \A n, m \in 1 .. Len(ops) \div 2 : ops[2 * n] = ops[2 * m] => n = m

\* An operand has a name of its own or gets a number.
OperandInv ==
  /\ phase \in {"build", "passes"}
  /\ \A u \in Built : Range(operands[u]) \subseteq Other \cup Numbered
  /\ phase = "build" => \A u \in Built : kind[u] # "phi"
  /\ \A u \in Built : kind[u] = "phi" => PhiOK(operands[u], pre[Home(u)])

\* No number is given twice, to whatever value, at whatever call.
NamesInv ==
  /\ name \in [Value -> Int] /\ seq_cnt \in Nat
  /\ \A v \in Value : /\ name[v] \in Nat \cup {NoName, Given} /\ name[v] < seq_cnt
                      /\ name[v] = Given <=> v \in Other \cup {Entry}
  /\ \A v, w \in Value : name[v] = name[w] /\ name[v] \in Nat => v = w

\* The text is of the function as it is, all it refers to has a name.
OutInv == out # Nothing => /\ out = <<Listing(name)>>
                           /\ \A v \in Numbered : name[v] # NoName

TextInv == BlockInv /\ PreInv /\ OperandInv /\ NamesInv /\ OutInv

\* What is in a block is built.
LEMMA BuiltIn ==
  ASSUME BlockInv, NEW b \in Block, NEW u, u \in Range(instrs[b])
  PROVE  u \in Built
<1>1. instrs[b] \in Seq(Instr)
  BY DEF BlockInv
<1>2. u \in Instr
  BY <1>1, RangeWithin
<1> QED BY <1>2 DEF Built

\* The one block that has an instruction.
LEMMA HomeIs ==
  ASSUME BlockInv, NEW b \in Block, NEW u \in Range(instrs[b])
  PROVE  Home(u) = b
<1>1. \E c \in Block : u \in Range(instrs[c])
  OBVIOUS
<1>2. Home(u) \in Block /\ u \in Range(instrs[Home(u)])
  BY <1>1 DEF Home
<1> QED BY <1>2 DEF BlockInv

\* ... after a step.
LEMMA HomeIsNext ==
  ASSUME BlockInv', NEW b \in Block, NEW u, u \in Range(instrs'[b])
  PROVE  Home(u)' = b
<1>1. \E c \in Block : u \in Range(instrs'[c])
  OBVIOUS
<1>2. Home(u)' \in Block /\ u \in Range(instrs'[Home(u)'])
  BY <1>1 DEF Home
<1> QED BY <1>2 DEF BlockInv

\* A function without instructions.
LEMMA InitText == Init => TextInv
<1> SUFFICES ASSUME Init PROVE TextInv
  OBVIOUS
<1> USE LightIRAssumption, UseListsAssumption
<1>0. /\ instrs = [b \in Block |-> <<>>] /\ pre = [b \in Block |-> <<>>] /\ added = <<Entry>>
      /\ menu \in Menus
  BY DEF Init
<1> PICK e : e = <<>>
  OBVIOUS
<1>1. /\ e \in Seq(Instr) /\ e \in Seq(Block) /\ Range(e) = {} /\ Once(e)
      /\ \A b \in Block : instrs[b] = e /\ pre[b] = e
  <2>1. DOMAIN e = {} /\ e \in Seq(Instr) /\ e \in Seq(Block)
    OBVIOUS
  <2> QED BY <1>0, <2>1 DEF Range, Once
<1>2. Built = {}
  BY <1>1 DEF Built
<1>3. BlockInv
  <2>1. instrs \in [Block -> Seq(Instr)] /\ added \in Seq(Block)
    BY <1>0, <1>1
  <2> QED BY <1>1, <2>1 DEF BlockInv
<1>4. PreInv
  <2>1. pre \in [Block -> Seq(Block)]
    BY <1>0, <1>1
  <2> QED BY <1>1, <2>1 DEF PreInv
<1>5. OperandInv
  BY <1>2 DEF OperandInv, Init
<1>6. NamesInv
  <2>1. name = [v \in Value |-> IF v \in Other \cup {Entry} THEN Given ELSE NoName] /\ seq_cnt = 0
    BY DEF Init
  <2> QED BY <2>1 DEF NamesInv, NoName, Given
<1>7. OutInv
  BY DEF OutInv, Init
<1> QED BY <1>3, <1>4, <1>5, <1>6, <1>7 DEF TextInv

\* What may be taken as an operand can be named, and is no block.
LEMMA UsableNames ==
  ASSUME IInv
  PROVE  Usable \subseteq Other \cup Numbered /\ Usable \cap Block = {} /\ Built \subseteq Instr
<1>1. menu \in Menus
  BY DEF IInv
<1> QED BY <1>1, UsableValues, LightIRAssumption DEF Usable, Numbered, Nonvoid

\* An instruction is put into a block of the function.
LEMMA PutInto ==
  ASSUME BlockInv, made \in Nat, made + 1 \in Instr, made' = made + 1, added' = added,
         NEW b \in Block, b \in Range(added), NEW q \in Seq(Instr),
         Range(q) = Range(instrs[b]) \cup {made + 1}, instrs' = [instrs EXCEPT ![b] = q]
  PROVE  /\ BlockInv' /\ Built' = Built \cup {made + 1} /\ made + 1 \notin Built
         /\ \A w \in Built : Home(w)' = Home(w)
<1>0. Range(added') = Range(added)
  OBVIOUS
<1>1. instrs' \in [Block -> Seq(Instr)]
  BY DEF BlockInv
<1>2. \A c \in Block : instrs'[c] = IF c = b THEN q ELSE instrs[c]
  BY DEF BlockInv
<1>3. \A c \in Block : \A u \in Range(instrs'[c]) :
        u \in Range(instrs[c]) \/ (u = made + 1 /\ c = b)
  BY <1>2
<1>4. \A c \in Block : \A u \in Range(instrs[c]) : u \in Range(instrs'[c])
  BY <1>2
<1>5. \A c \in Block : made + 1 \notin Range(instrs[c])
  BY DEF BlockInv
<1>6. \A c \in Block : \A u \in Range(instrs'[c]) : u \in Instr
  <2> TAKE c \in Block
  <2>1. instrs'[c] \in Seq(Instr)
    BY <1>1
  <2> QED BY <2>1, RangeWithin
<1>7. BlockInv'
  <2>1. \A c \in Block : \A u \in Range(instrs'[c]) : u <= made' /\ c \in Range(added')
    <3> SUFFICES ASSUME NEW c \in Block, NEW u \in Range(instrs'[c])
                 PROVE  u <= made' /\ c \in Range(added')
      OBVIOUS
    <3>1. u \in Int /\ made' = made + 1 /\ made \in Nat
      BY <1>6 DEF Instr
    <3>2. (u <= made /\ c \in Range(added)) \/ (u = made + 1 /\ c = b)
      BY <1>3 DEF BlockInv
    <3>3. u <= made'
      BY <3>1, <3>2
    <3> QED BY <1>0, <3>2, <3>3
  <2>2. \A c, d \in Block : \A u \in Range(instrs'[c]) : u \in Range(instrs'[d]) => c = d
    BY <1>3, <1>5 DEF BlockInv
  <2>3. added' \in Seq(Block)
    BY DEF BlockInv
  <2> QED BY <1>1, <2>1, <2>2, <2>3 DEF BlockInv
<1>8. made + 1 \in Range(instrs'[b])
  BY <1>2
<1>9. Built' = Built \cup {made + 1} /\ made + 1 \notin Built
  BY <1>3, <1>4, <1>5, <1>8 DEF Built
<1>10. ASSUME NEW w \in Built PROVE Home(w)' = Home(w)
  <2> PICK c \in Block : w \in Range(instrs[c])
    BY DEF Built
  <2>1. w \in Range(instrs'[c])
    BY <1>4
  <2> QED BY <1>7, <2>1, HomeIs, HomeIsNext
<1> QED BY <1>7, <1>9, <1>10

\* What has a number keeps it.
LEMMA NumberedGrows ==
  ASSUME menu' = menu, Range(added) \subseteq Range(added'), Built \subseteq Built',
         \A w \in Built : kind'[w] = kind[w] /\ ty'[w] = ty[w]
  PROVE  Numbered \subseteq Numbered'
<1>1. Nonvoid \subseteq Nonvoid'
  BY DEF Nonvoid, is_void
<1>2. Range(Args)' = Range(Args)
  BY DEF Args
<1> QED BY <1>1, <1>2 DEF Numbered

-----------------------------------------------------------------------------
(* Creating.                                                                *)

\* What a constructor leaves, but for the predecessors.
LEMMA NewText ==
  ASSUME IInv, TypesInv, TextInv, NEW k, NEW t, NEW s, NEW b, New(k, t, s, b), added' = added,
         k # "phi", Range(s) \subseteq Other \cup Numbered
  PROVE  /\ BlockInv' /\ OperandInv' /\ NamesInv' /\ OutInv'
         /\ phase = "build" /\ phase' = "build" /\ b \in Block /\ b \in Range(added) /\ ~HasTerminator(b)
         /\ \A p \in Block : HasTerminator(p) => HasTerminator(p)'
         /\ k = "br" => HasTerminator(b)'
<1> USE LightIRAssumption
<1> PICK u : u = made + 1
  OBVIOUS
<1>0. /\ u \in Instr /\ made \in Nat /\ made' = u /\ menu' = menu
      /\ phase = "build" /\ phase' = "build" /\ b \in Range(added) /\ ~HasTerminator(b)
      /\ s \in BoundedSeq(Value, MaxOps)
  BY DEF New, IInv, Instr
<1>1. b \in Block /\ instrs[b] \in Seq(Instr)
  <2>1. added \in Seq(Block) /\ instrs \in [Block -> Seq(Instr)]
    BY DEF TextInv, BlockInv
  <2> QED BY <1>0, <2>1, RangeWithin
<1> PICK q : q = Append(instrs[b], u)
  OBVIOUS
<1>2. q \in Seq(Instr) /\ Range(q) = Range(instrs[b]) \cup {u} /\ q # <<>> /\ Last(q) = u
  <2> PICK l : l = instrs[b]
    OBVIOUS
  <2>1. l \in Seq(Instr) /\ u \in Instr /\ q = Append(l, u)
    BY <1>0, <1>1
  <2>2. q \in Seq(Instr) /\ Range(q) = Range(l) \cup {u} /\ q # <<>> /\ Last(q) = u
    BY ONLY <2>1, AppendedTo
  <2> QED BY <2>2
<1>3. instrs' = [instrs EXCEPT ![b] = q]
  BY DEF New
<1>4. /\ BlockInv' /\ Built' = Built \cup {u} /\ u \notin Built
      /\ \A w \in Built : Home(w)' = Home(w)
  BY <1>0, <1>1, <1>2, <1>3, PutInto DEF TextInv
<1>5. Built \subseteq Instr
  BY UsableNames
<1>6. kind'[u] = k /\ \A w \in Instr : w # u => kind'[w] = kind[w] /\ ty'[w] = ty[w]
  BY <1>0 DEF New, IInv, Fresh, TypesInv
<1>7. Numbered \subseteq Numbered'
  BY <1>0, <1>4, <1>5, <1>6, NumberedGrows
<1>8. operands'[u] = s /\ \A w \in Instr : w # u => operands'[w] = operands[w]
  <2>1. operands[u] = <<>> /\ operands \in [User -> Seq(Value)] /\ s \in Seq(Value)
    BY <1>0, BoundedSeqs, UseListsAssumption DEF IInv, Fresh, Instr, UseTypeOK
  <2>2. operands' = [operands EXCEPT ![u] = @ \o s]
    BY DEF New, Extend
  <2>3. operands'[u] = <<>> \o s
    BY <1>0, <2>1, <2>2
  <2> PICK z : z = s
    OBVIOUS
  <2>4. <<>> \o z = z
    BY <2>1
  <2> QED BY <2>1, <2>2, <2>3, <2>4
<1>9. OperandInv'
  <2>1. ASSUME NEW w \in Built' PROVE Range(operands'[w]) \subseteq Other \cup Numbered' /\ kind'[w] # "phi"
    <3>1. CASE w = u
      BY <1>6, <1>7, <1>8, <3>1
    <3>2. CASE w # u
      <4>1. w \in Built /\ operands'[w] = operands[w] /\ kind'[w] = kind[w]
        BY <1>4, <1>5, <1>6, <1>8, <3>2
      <4> QED BY <1>0, <1>7, <4>1 DEF TextInv, OperandInv
    <3> QED BY <3>1, <3>2
  <2> QED BY <1>0, <2>1 DEF OperandInv
<1>10. NamesInv'
  BY DEF New, names, TextInv, NamesInv
<1>11. OutInv'
  BY DEF New, OutInv
<1>12. \A p \in Block : instrs'[p] = IF p = b THEN q ELSE instrs[p]
  BY <1>3 DEF TextInv, BlockInv
<1>13. ASSUME NEW p \in Block, HasTerminator(p) PROVE HasTerminator(p)'
  <2>1. p # b /\ instrs'[p] = instrs[p] /\ instrs[p] # <<>>
    BY <1>0, <1>12, <1>13 DEF HasTerminator
  <2> PICK l : l = Last(instrs[p])
    OBVIOUS
  <2>2. l \in Range(instrs[p])
    <3>1. instrs[p] \in Seq(Instr)
      BY DEF TextInv, BlockInv
    <3> QED BY <2>1, <3>1, LastOfList
  <2>3. l \in Built
    BY <1>5, <2>2, BuiltIn DEF TextInv
  <2>4. kind'[l] = kind[l]
    BY <1>4, <1>5, <1>6, <2>3
  <2> QED BY <1>13, <2>1, <2>4 DEF HasTerminator
<1>14. k = "br" => HasTerminator(b)'
  BY <1>1, <1>2, <1>6, <1>12 DEF HasTerminator
<1> QED BY <1>0, <1>1, <1>4, <1>9, <1>10, <1>11, <1>13, <1>14

\* ... and, if the predecessors are as they were, all there is.
LEMMA NewTextPlain ==
  ASSUME IInv, TypesInv, TextInv, NEW k, NEW t, NEW s, NEW b, New(k, t, s, b), added' = added, pre' = pre,
         k # "phi", Range(s) \subseteq Other \cup Numbered
  PROVE  TextInv'
<1>1. /\ BlockInv' /\ OperandInv' /\ NamesInv' /\ OutInv' /\ phase = "build"
      /\ \A p \in Block : HasTerminator(p) => HasTerminator(p)'
  BY NewText
<1>2. pre \in [Block -> Seq(Block)]
  BY DEF TextInv, PreInv
<1>3. \A c \in Block : \A p \in Range(pre[c]) : p \in Block /\ HasTerminator(p)
  <2> SUFFICES ASSUME NEW c \in Block, NEW p \in Range(pre[c]) PROVE p \in Block /\ HasTerminator(p)
    OBVIOUS
  <2>1. pre[c] \in Seq(Block)
    BY <1>2
  <2> QED BY <1>1, <2>1, RangeWithin DEF TextInv, PreInv
<1>4. \A c \in Block : \A p \in Range(pre'[c]) : HasTerminator(p)'
  BY <1>1, <1>3
<1>5. \A c \in Block : Range(pre'[c]) \subseteq Range(added') /\ Once(pre'[c])
  BY DEF TextInv, PreInv
<1>6. PreInv'
  BY <1>2, <1>4, <1>5 DEF PreInv
<1> QED BY <1>1, <1>6 DEF TextInv

\* A branch from b enters b as a predecessor, once, where it goes.
LEMMA BranchText ==
  ASSUME IInv, TypesInv, TextInv, NEW t, NEW s, NEW b, New("br", t, s, b), added' = added,
         Range(s) \subseteq Other \cup Numbered, DOMAIN pre' = Block,
         \A c \in Block : pre'[c] = pre[c] \/ pre'[c] = Append(pre[c], b),
         pre' = [c \in Block |-> pre'[c]]
  PROVE  TextInv'
<1> PICK k : k = "br"
  OBVIOUS
<1>0. New(k, t, s, b) /\ k # "phi"
  OBVIOUS
<1>1. /\ BlockInv' /\ OperandInv' /\ NamesInv' /\ OutInv' /\ phase = "build"
      /\ b \in Block /\ b \in Range(added) /\ ~HasTerminator(b)
      /\ \A p \in Block : HasTerminator(p) => HasTerminator(p)'
      /\ k = "br" => HasTerminator(b)'
  BY <1>0, NewText
<1>2. ASSUME NEW c \in Block
      PROVE  /\ pre'[c] \in Seq(Block) /\ Range(pre'[c]) \subseteq Range(added') /\ Once(pre'[c])
             /\ \A p \in Range(pre'[c]) : HasTerminator(p)'
  <2> PICK l, m : l = pre[c] /\ m = pre'[c]
    OBVIOUS
  <2>1. l \in Seq(Block) /\ Range(l) \subseteq Range(added) /\ Once(l)
    BY DEF TextInv, PreInv
  <2>2. \A p \in Range(l) : p \in Block /\ HasTerminator(p)
    BY <1>1, <2>1, RangeWithin DEF TextInv, PreInv
  <2>3. \A p \in Range(l) : HasTerminator(p)'
    BY <1>1, <2>2
  <2>4. CASE m = l
    BY <2>1, <2>3, <2>4
  <2>5. CASE m = Append(l, b)
    <3>1. b \notin Range(l)
      BY <1>1, <2>2
    <3>2. m \in Seq(Block) /\ Range(m) = Range(l) \cup {b} /\ Once(m)
      <4>1. l \in Seq(Block) /\ b \in Block /\ m = Append(l, b)
        BY <1>1, <2>1, <2>5
      <4>2. /\ m \in Seq(Block) /\ Range(m) = Range(l) \cup {b}
            /\ Once(l) /\ b \notin Range(l) => Once(m)
        BY ONLY <4>1, AppendedTo
      <4> QED BY <2>1, <3>1, <4>2
    <3> QED BY <1>1, <2>1, <2>3, <3>2
  <2> QED BY <2>4, <2>5
<1>3. pre' \in [Block -> Seq(Block)]
  BY <1>2
<1>4. PreInv'
  BY <1>2, <1>3 DEF PreInv
<1> QED BY <1>1, <1>4 DEF TextInv

\* The elements of short lists.
LEMMA ShortLists ==
  ASSUME NEW S
  PROVE  /\ Range(<<>>) \subseteq S
         /\ \A x \in S : Range(<<x>>) \subseteq S
         /\ \A x, y \in S : Range(<<x, y>>) \subseteq S
         /\ \A x, y, z \in S : Range(<<x, y, z>>) \subseteq S
<1>0. DOMAIN <<>> = {}
  OBVIOUS
<1>1. Range(<<>>) \subseteq S
  BY <1>0 DEF Range
<1>2. ASSUME NEW x \in S PROVE Range(<<x>>) \subseteq S
  <2> PICK l : l = <<x>>
    OBVIOUS
  <2>1. DOMAIN l = {1} /\ l[1] = x
    OBVIOUS
  <2> QED BY <2>1 DEF Range
<1>3. ASSUME NEW x \in S, NEW y \in S PROVE Range(<<x, y>>) \subseteq S
  <2> PICK l : l = <<x, y>>
    OBVIOUS
  <2>1. DOMAIN l = {1, 2} /\ l[1] = x /\ l[2] = y
    OBVIOUS
  <2> QED BY <2>1 DEF Range
<1>4. ASSUME NEW x \in S, NEW y \in S, NEW z \in S PROVE Range(<<x, y, z>>) \subseteq S
  <2> PICK l : l = <<x, y, z>>
    OBVIOUS
  <2>1. DOMAIN l = {1, 2, 3} /\ l[1] = x /\ l[2] = y /\ l[3] = z
    OBVIOUS
  <2> QED BY <2>1 DEF Range
<1> QED BY <1>1, <1>2, <1>3, <1>4

\* The arguments of a call, behind the function.
LEMMA CallOperands ==
  ASSUME NEW f, f \in TypeObject, NEW s, NEW S, s \in [DOMAIN f.args -> S], NEW c, NEW r, r = <<c>> \o s
  PROVE  Range(r) \subseteq {c} \cup S
<1>1. f.args \in Seq(Nat)
  BY DEF TypeObject
<1>2. s \in Seq(S)
  <2> PICK n : n = Len(f.args)
    OBVIOUS
  <2>1. n \in Nat /\ DOMAIN f.args = 1 .. n
    BY <1>1
  <2>2. s \in [1 .. n -> S]
    BY <2>1
  <2> QED BY ONLY <2>1, <2>2
<1> PICK T, p : T = {c} \cup S /\ p = <<c>>
  OBVIOUS
<1>3. s \in Seq(T) /\ p \in Seq(T) /\ r = p \o s
  BY <1>2
<1>4. Joined(T, p, s, r)
  BY <1>3, BothLists
<1>5. r \in Seq(T)
  BY <1>4 DEF Joined
<1> QED BY <1>5, RangeWithin

\* Every operation of the builder.
LEMMA CreateText == IInv /\ TypesInv /\ TextInv /\ Create => TextInv'
<1> SUFFICES ASSUME IInv, TypesInv, TextInv, Create PROVE TextInv'
  OBVIOUS
<1> PICK S : S = Other \cup Numbered
  OBVIOUS
<1>0. /\ Usable \subseteq S /\ Other \subseteq S /\ Range(added) \subseteq S
      /\ \A t : OfType(t) \subseteq S
  BY UsableNames DEF Numbered, OfType
<1>r. /\ Range(<<>>) \subseteq S
      /\ \A x \in S : Range(<<x>>) \subseteq S
      /\ \A x, y \in S : Range(<<x, y>>) \subseteq S
      /\ \A x, y, z \in S : Range(<<x, y, z>>) \subseteq S
  BY ShortLists
<1>1. ASSUME NEW k, NEW t, NEW s, Plain(k, t, s), k # "phi", Range(s) \subseteq S PROVE TextInv'
  <2>1. added' = added /\ pre' = pre /\ \E b : New(k, t, s, b)
    BY <1>1 DEF Plain, graph
  <2> QED BY <1>1, <2>1, NewTextPlain
<1>2. CASE CreateBinary
  <2>1. PICK k, x, y, t : Plain(k, t, <<x, y>>) /\ k # "phi" /\ x \in S /\ y \in S
    BY <1>0, <1>2 DEF CreateBinary
  <2>2. Range(<<x, y>>) \subseteq S
    BY <1>r, <2>1
  <2> QED BY <1>1, <2>1, <2>2
<1>3. CASE CreateCmp
  <2>1. PICK k, x, y, t : Plain(k, t, <<x, y>>) /\ k # "phi" /\ x \in S /\ y \in S
    BY <1>0, <1>3 DEF CreateCmp
  <2>2. Range(<<x, y>>) \subseteq S
    BY <1>r, <2>1
  <2> QED BY <1>1, <2>1, <2>2
<1>4. CASE CreateCast
  <2>1. PICK k, x, t : Plain(k, t, <<x>>) /\ k # "phi" /\ x \in S
    BY <1>0, <1>4 DEF CreateCast
  <2>2. Range(<<x>>) \subseteq S
    BY <1>r, <2>1
  <2> QED BY <1>1, <2>1, <2>2
<1>5. CASE CreateCall
  <2> DEFINE f == types[OtherType[Callee]]
  <2>1. PICK s \in [DOMAIN f.args -> Usable] : Plain("call", f.of, <<Callee>> \o s)
    BY <1>5 DEF CreateCall
  <2>2. OtherType[Callee] \in DOMAIN types
    BY ModuleTypesThere, TypesAssumption
  <2>3. f \in TypeObject
    BY <2>2, ModuleTypesThere
  <2> PICK g, r, c, U : g = f /\ r = <<Callee>> \o s /\ c = Callee /\ U = Usable
    OBVIOUS
  <2>4. g \in TypeObject /\ s \in [DOMAIN g.args -> U] /\ r = <<c>> \o s
    BY <2>3
  <2>5. Range(r) \subseteq {c} \cup U
    BY ONLY <2>4, CallOperands
  <2>6. Range(r) \subseteq S
    BY <1>0, <2>5, LightIRAssumption
  <2> QED BY <1>1, <2>1, <2>6
<1>6. CASE CreateRet
  <2>1. \/ Plain("ret", Void, <<>>)
        \/ \E x \in S : Plain("ret", Void, <<x>>)
    BY <1>0, <1>6 DEF CreateRet
  <2>2. Range(<<>>) \subseteq S /\ \A x \in S : Range(<<x>>) \subseteq S
    BY <1>r
  <2> QED BY <1>1, <2>1, <2>2
<1>7. CASE CreateStore
  <2>1. PICK x, y : Plain("store", Void, <<x, y>>) /\ x \in S /\ y \in S
    BY <1>0, <1>7 DEF CreateStore
  <2>2. Range(<<x, y>>) \subseteq S
    BY <1>r, <2>1
  <2> QED BY <1>1, <2>1, <2>2
<1>8. CASE CreateLoad
  <2>1. PICK x, t : Plain("load", t, <<x>>) /\ x \in S
    BY <1>0, <1>8 DEF CreateLoad
  <2>2. Range(<<x>>) \subseteq S
    BY <1>r, <2>1
  <2> QED BY <1>1, <2>1, <2>2
<1>9. CASE CreateAlloca
  <2>1. added' = added /\ pre' = pre /\ \E b, t : New("alloca", t, <<>>, b)
    BY <1>9 DEF CreateAlloca, graph
  <2>2. Range(<<>>) \subseteq S
    BY <1>r
  <2> QED BY <2>1, <2>2, NewTextPlain
<1>10. CASE CreateGep
  <2>1. PICK p \in Usable, x \in S, zero \in S :
          \E b, t, q : New("gep", t, IF q THEN <<p, zero, x>> ELSE <<p, x>>, b)
    <3>1. PICK p \in Usable : \E x \in OfType(Int32) : \E zero \in OfType(Int32) \cap Other :
            \E b, t, q : New("gep", t, IF q THEN <<p, zero, x>> ELSE <<p, x>>, b)
      BY <1>10 DEF CreateGep
    <3> QED BY <1>0, <3>1
  <2>2. added' = added /\ pre' = pre
    BY <1>10 DEF CreateGep, graph
  <2>3. Range(<<p, zero, x>>) \subseteq S /\ Range(<<p, x>>) \subseteq S
    BY <1>0, <1>r
  <2>4. PICK b, t, s : New("gep", t, s, b) /\ Range(s) \subseteq S
    BY <2>1, <2>3
  <2> QED BY <2>2, <2>4, NewTextPlain
<1>11. CASE AddBlock
  <2> PICK n : n = CHOOSE b \in Block \ Range(added) : TRUE
    OBVIOUS
  <2>1. /\ n \in Block /\ added' = Append(added, n)
        /\ UNCHANGED <<menu, phase, body, pre, succ, names, types, uselist>> /\ out' = Nothing
    BY <1>11 DEF AddBlock
  <2>2. added \in Seq(Block)
    BY DEF TextInv, BlockInv
  <2>3. added' \in Seq(Block) /\ Range(added') = Range(added) \cup {n}
    <3> PICK l, m : l = added /\ m = added'
      OBVIOUS
    <3>1. l \in Seq(Block) /\ n \in Block /\ m = Append(l, n)
      BY <2>1, <2>2
    <3>2. m \in Seq(Block) /\ Range(m) = Range(l) \cup {n}
      BY ONLY <3>1, AppendedTo
    <3> QED BY <3>2
  <2>4. Built' = Built /\ \A w : Home(w)' = Home(w)
    BY <2>1 DEF body, Built, Home
  <2>5. Numbered \subseteq Numbered'
    BY <2>1, <2>3, <2>4, NumberedGrows DEF body
  <2>6. BlockInv'
    BY <2>1, <2>3 DEF body, TextInv, BlockInv
  <2>7. PreInv'
    BY <2>1, <2>3 DEF body, TextInv, PreInv, HasTerminator
  <2>8. OperandInv'
    BY <2>1, <2>4, <2>5 DEF body, uselist, TextInv, OperandInv
  <2>9. NamesInv' /\ OutInv'
    BY <2>1 DEF names, TextInv, NamesInv, OutInv
  <2> QED BY <2>6, <2>7, <2>8, <2>9 DEF TextInv
<1>12. CASE CreateBr
  <2>1. PICK t, b : /\ t \in Range(added) /\ New("br", Void, <<t>>, b) /\ added' = added
                    /\ pre' = [pre EXCEPT ![t] = Append(@, b)]
    BY <1>12 DEF CreateBr
  <2>2. Range(<<t>>) \subseteq S
    BY <1>0, <1>r, <2>1
  <2>3. pre = [c \in Block |-> pre[c]]
    BY DEF TextInv, PreInv
  <2>4. /\ DOMAIN pre' = Block /\ pre' = [c \in Block |-> pre'[c]]
        /\ \A c \in Block : pre'[c] = pre[c] \/ pre'[c] = Append(pre[c], b)
    BY <2>1, <2>3
  <2> QED BY <2>1, <2>2, <2>4, BranchText
<1>13. CASE CreateCondBr
  <2>0. PICK c \in OfType(Int1) : \E t, f \in Range(added), b \in Block :
          /\ t # f /\ Entry \notin {t, f} /\ Len(pre[t]) < MaxPreds /\ Len(pre[f]) < MaxPreds
          /\ New("br", Void, <<c, t, f>>, b)
          /\ pre' = [pre EXCEPT ![t] = Append(@, b), ![f] = Append(@, b)]
          /\ succ' = [succ EXCEPT ![b] = @ \o <<f, t>>]
          /\ UNCHANGED <<added, types>>
    BY <1>13 DEF CreateCondBr
  <2>1. PICK t, f, b : /\ t # f /\ c \in S /\ t \in S /\ f \in S
                       /\ New("br", Void, <<c, t, f>>, b) /\ added' = added
                       /\ pre' = [pre EXCEPT ![t] = Append(@, b), ![f] = Append(@, b)]
    BY <1>0, <2>0
  <2>2. Range(<<c, t, f>>) \subseteq S
    BY <1>r, <2>1
  <2>3. pre = [d \in Block |-> pre[d]]
    BY DEF TextInv, PreInv
  <2>4. /\ DOMAIN pre' = Block /\ pre' = [d \in Block |-> pre'[d]]
        /\ \A d \in Block : pre'[d] = pre[d] \/ pre'[d] = Append(pre[d], b)
    BY <2>1, <2>3
  <2> QED BY <2>1, <2>2, <2>4, BranchText
<1> QED BY <1>2, <1>3, <1>4, <1>5, <1>6, <1>7, <1>8, <1>9, <1>10, <1>11, <1>12, <1>13 DEF Create

-----------------------------------------------------------------------------
(* The passes.                                                              *)

\* A step that leaves the instructions alone.
LEMMA SameText ==
  ASSUME TextInv, UNCHANGED <<menu, body, graph, uselist>>, phase' \in {phase, "passes"}
  PROVE  BlockInv' /\ PreInv' /\ OperandInv' /\ Numbered' = Numbered
<1>1. /\ UNCHANGED <<menu, made, kind, ty, instrs, added, pre, operands>>
      /\ Built' = Built /\ \A w : Home(w)' = Home(w)
  BY DEF body, graph, uselist, Built, Home
<1>2. Numbered' = Numbered
  BY <1>1 DEF Numbered, Nonvoid, is_void, Args
<1>3. BlockInv'
  BY <1>1 DEF TextInv, BlockInv
<1>4. PreInv'
  BY <1>1 DEF TextInv, PreInv, HasTerminator
<1>5. OperandInv'
  BY <1>1, <1>2 DEF TextInv, OperandInv
<1> QED BY <1>2, <1>3, <1>4, <1>5

\* A new phi, without a pair yet, in front of a block.
LEMMA AddPhiText == IInv /\ TypesInv /\ TextInv /\ AddPhi => TextInv'
<1> SUFFICES ASSUME IInv, TypesInv, TextInv, AddPhi PROVE TextInv'
  OBVIOUS
<1> USE LightIRAssumption
<1> PICK u : u = made + 1
  OBVIOUS
<1>0. PICK b, t : /\ b \in Range(added) /\ phase = "passes" /\ made < menu.max /\ made' = u /\ out' = Nothing
                 /\ kind' = [kind EXCEPT ![u] = "phi"] /\ ty' = [ty EXCEPT ![u] = t]
                 /\ instrs' = [instrs EXCEPT ![b] = <<u>> \o @]
                 /\ UNCHANGED <<menu, phase, graph, names, types, uselist>>
  BY DEF AddPhi, InPasses
<1>1. u \in Instr /\ made \in Nat /\ made' = made + 1
  BY <1>0 DEF IInv, Instr
<1>2. b \in Block /\ instrs[b] \in Seq(Instr)
  <2>1. added \in Seq(Block) /\ instrs \in [Block -> Seq(Instr)]
    BY DEF TextInv, BlockInv
  <2> QED BY <1>0, <2>1, RangeWithin
<1> PICK l, o, q : l = instrs[b] /\ o = <<u>> /\ q = o \o l
  OBVIOUS
<1>3. q \in Seq(Instr) /\ Range(q) = Range(l) \cup {u}
  <2>1. l \in Seq(Instr) /\ o \in Seq(Instr) /\ q = o \o l
    BY <1>1, <1>2
  <2>2. q \in Seq(Instr) /\ Range(q) = Range(o) \cup Range(l)
    <3>1. Joined(Instr, o, l, q)
      BY <2>1, BothLists
    <3> QED BY ONLY <3>1 DEF Joined
  <2>3. DOMAIN o = {1} /\ o[1] = u
    OBVIOUS
  <2>4. Range(o) = {u}
    BY <2>3 DEF Range
  <2> QED BY <2>2, <2>4
<1>4. instrs' = [instrs EXCEPT ![b] = q] /\ added' = added
  BY <1>0 DEF graph
<1>5. /\ BlockInv' /\ Built' = Built \cup {u} /\ u \notin Built
      /\ \A w \in Built : Home(w)' = Home(w)
  BY <1>0, <1>1, <1>2, <1>3, <1>4, PutInto DEF TextInv
<1>6. Built \subseteq Instr
  BY UsableNames
<1>7. kind'[u] = "phi" /\ \A w \in Built : kind'[w] = kind[w] /\ ty'[w] = ty[w]
  BY <1>0, <1>1, <1>5, <1>6 DEF IInv, Fresh, TypesInv
<1>8. Numbered \subseteq Numbered'
  BY <1>0, <1>4, <1>5, <1>7, NumberedGrows
<1>9. operands' = operands /\ operands[u] = <<>>
  BY <1>0, <1>1 DEF uselist, IInv, Fresh, Instr
<1>10. OperandInv'
  <2>1. Range(operands'[u]) \subseteq Other \cup Numbered' /\ \A preds : PhiOK(operands'[u], preds)
    <3> PICK e : e = <<>>
      OBVIOUS
    <3>1. Len(e) = 0 /\ DOMAIN e = {} /\ 0 % 2 = 0 /\ 1 .. 0 \div 2 = {}
      OBVIOUS
    <3>2. Range(e) = {} /\ \A preds : PhiOK(e, preds)
      BY <3>1 DEF Range, PhiOK
    <3> QED BY <1>9, <3>2
  <2>2. ASSUME NEW w \in Built'
        PROVE  /\ Range(operands'[w]) \subseteq Other \cup Numbered'
               /\ kind'[w] = "phi" => PhiOK(operands'[w], pre'[Home(w)'])
    <3>1. CASE w = u
      BY <2>1, <3>1
    <3>2. CASE w # u
      <4>1. w \in Built /\ operands'[w] = operands[w] /\ kind'[w] = kind[w]
        BY <1>5, <1>7, <1>9, <3>2
      <4>2. pre'[Home(w)'] = pre[Home(w)]
        BY <1>0, <1>5, <4>1 DEF graph
      <4> QED BY <1>8, <4>1, <4>2 DEF TextInv, OperandInv
    <3> QED BY <3>1, <3>2
  <2> QED BY <1>0, <2>2 DEF OperandInv
<1>11. PreInv'
  BY <1>0 DEF graph, TextInv, PreInv
<1>12. NamesInv' /\ OutInv'
  BY <1>0 DEF names, TextInv, NamesInv, OutInv
<1> QED BY <1>5, <1>10, <1>11, <1>12 DEF TextInv

\* A pair more, for a predecessor without one.
NewPair(T, ops, preds, x, p, r) ==
  /\ ops \in Seq(T) /\ PhiOK(ops, preds) /\ x \in T /\ p \in T /\ r = ops \o <<x, p>>
  /\ x \notin Block /\ p \in Range(preds) /\ \A n \in 1 .. Len(ops) \div 2 : ops[2 * n] # p

\* The phi is still as it must be.
LEMMA PairAdded ==
  ASSUME NEW T, NEW ops, NEW preds, NEW x, NEW p, NEW r, NewPair(T, ops, preds, x, p, r)
  PROVE  PhiOK(r, preds) /\ Range(r) = Range(ops) \cup {x, p}
<1>0. /\ ops \in Seq(T) /\ PhiOK(ops, preds) /\ x \in T /\ p \in T
      /\ x \notin Block /\ p \in Range(preds) /\ \A n \in 1 .. Len(ops) \div 2 : ops[2 * n] # p
  BY DEF NewPair
<1> PICK d : d = <<x, p>> /\ r = ops \o d
  BY DEF NewPair
<1> PICK k, l : k = Len(ops) \div 2 /\ l = Len(ops)
  OBVIOUS
<1>1. l \in Nat /\ k \in Nat /\ l = 2 * k
  BY <1>0 DEF PhiOK
<1>2. ops \in Seq(T) /\ d \in Seq(T) /\ Len(d) = 2 /\ d[1] = x /\ d[2] = p /\ DOMAIN d = {1, 2} /\ r = ops \o d
  BY <1>0
<1>j. Joined(T, ops, d, r)
  BY <1>2, BothLists
<1>3. Len(r) = l + 2 /\ r[l + 1] = x /\ r[l + 2] = p /\ \A i \in 1 .. l : r[i] = ops[i]
  <2>1. 1 \in 1 .. Len(d) /\ 2 \in 1 .. Len(d)
    BY <1>2
  <2> QED BY <1>j, <1>2, <2>1 DEF Joined
<1>4. Range(r) = Range(ops) \cup {x, p}
  <2>1. Range(r) = Range(ops) \cup Range(d)
    BY <1>j DEF Joined
  <2>2. Range(d) = {x, p}
    BY <1>2 DEF Range
  <2> QED BY <2>1, <2>2
<1>5. Len(r) % 2 = 0 /\ Len(r) \div 2 = k + 1
  BY <1>1, <1>3
<1>6. ASSUME NEW n \in 1 .. k + 1
      PROVE  \/ n \in 1 .. k /\ r[2 * n] = ops[2 * n] /\ r[2 * n - 1] = ops[2 * n - 1]
             \/ n = k + 1 /\ r[2 * n] = p /\ r[2 * n - 1] = x
  <2>1. CASE n \in 1 .. k
    <3>1. 2 * n \in 1 .. l /\ 2 * n - 1 \in 1 .. l
      BY <1>1, <2>1
    <3> QED BY <1>3, <2>1, <3>1
  <2>2. CASE n = k + 1
    <3>1. 2 * n = l + 2 /\ 2 * n - 1 = l + 1
      BY <1>1, <2>2
    <3> QED BY <1>3, <2>2, <3>1
  <2>3. n \in 1 .. k \/ n = k + 1
    BY <1>1
  <2> QED BY ONLY <2>1, <2>2, <2>3
<1>7. \A n \in 1 .. k + 1 : r[2 * n] \in Range(preds) /\ r[2 * n - 1] \notin Block
  BY <1>0, <1>6 DEF PhiOK
<1>8. ASSUME NEW n \in 1 .. k + 1, NEW m \in 1 .. k + 1, r[2 * n] = r[2 * m] PROVE n = m
  BY <1>0, <1>6, <1>8 DEF PhiOK
<1> QED BY <1>4, <1>5, <1>7, <1>8 DEF PhiOK

\* A value replaced by another, neither a block.
LEMMA PairsReplaced ==
  ASSUME NEW ops, NEW preds, PhiOK(ops, preds), Range(preds) \subseteq Block, Len(ops) \in Nat,
         NEW r, Len(r) = Len(ops), NEW new, new \notin Block,
         \A i \in 1 .. Len(ops) : r[i] = ops[i] \/ (ops[i] \notin Block /\ r[i] = new)
  PROVE  PhiOK(r, preds)
<1> PICK k : k = Len(ops) \div 2
  OBVIOUS
<1>1. k \in Nat /\ Len(ops) = 2 * k /\ Len(r) \div 2 = k /\ Len(r) % 2 = 0
  BY DEF PhiOK
<1>2. ASSUME NEW n \in 1 .. k PROVE r[2 * n] = ops[2 * n] /\ r[2 * n - 1] \notin Block
  <2>1. 2 * n \in 1 .. Len(ops) /\ 2 * n - 1 \in 1 .. Len(ops)
    BY <1>1
  <2>2. ops[2 * n] \in Block /\ ops[2 * n - 1] \notin Block
    BY DEF PhiOK
  <2> QED BY <2>1, <2>2
<1> QED BY <1>1, <1>2 DEF PhiOK

\* A pair for a phi.
LEMMA AddPairText == IInv /\ TextInv /\ AddPair => TextInv'
<1> SUFFICES ASSUME IInv, TextInv, AddPair PROVE TextInv'
  OBVIOUS
<1> USE LightIRAssumption, UseListsAssumption
<1>0. PICK u, x, p : /\ u \in Built /\ x \in Usable /\ p \in Block /\ phase = "passes" /\ out' = Nothing
                     /\ kind[u] = "phi" /\ p \in Range(pre[Home(u)])
                     /\ \A n \in Pairs(u) : operands[u][2 * n] # p
                     /\ Extend(u, <<x, p>>)
                     /\ UNCHANGED <<menu, phase, body, graph, names, types>>
  BY DEF AddPair, InPasses
<1>1. /\ UNCHANGED <<menu, phase, made, kind, ty, instrs, added, pre, name, seq_cnt>>
      /\ Built' = Built /\ \A w : Home(w)' = Home(w)
  BY <1>0 DEF body, graph, names, Built, Home
<1>2. Numbered' = Numbered
  BY <1>1 DEF Numbered, Nonvoid, is_void, Args
<1>3. BlockInv' /\ PreInv' /\ NamesInv'
  <2>1. BlockInv'
    BY <1>1 DEF TextInv, BlockInv
  <2>2. PreInv'
    BY <1>1 DEF TextInv, PreInv, HasTerminator
  <2>3. NamesInv'
    BY <1>1 DEF TextInv, NamesInv
  <2> QED BY <2>1, <2>2, <2>3
<1>4. Built \subseteq Instr /\ Usable \subseteq Value /\ x \notin Block /\ x \in Other \cup Numbered
  <2>1. menu \in Menus
    BY DEF IInv
  <2> QED BY <1>0, <2>1, UsableNames, UsableValues
<1>5. operands[u] \in Seq(Value) /\ operands' = [operands EXCEPT ![u] = @ \o <<x, p>>]
  BY <1>0, <1>4 DEF IInv, UseTypeOK, Extend
<1> PICK ops, preds, r : ops = operands[u] /\ preds = pre[Home(u)] /\ r = operands'[u]
  OBVIOUS
<1>6. r = ops \o <<x, p>> /\ \A w \in Instr : w # u => operands'[w] = operands[w]
  BY <1>0, <1>4, <1>5 DEF IInv, UseTypeOK
<1>7. PhiOK(r, preds) /\ Range(r) = Range(ops) \cup {x, p}
  <2>1. /\ ops \in Seq(Value) /\ PhiOK(ops, preds) /\ x \in Value /\ p \in Value /\ x \notin Block
        /\ p \in Range(preds) /\ \A n \in 1 .. Len(ops) \div 2 : ops[2 * n] # p
    BY <1>0, <1>4, <1>5 DEF Pairs, TextInv, OperandInv
  <2>2. NewPair(Value, ops, preds, x, p, r)
    BY <1>6, <2>1 DEF NewPair
  <2>3. PhiOK(r, preds) /\ Range(r) = Range(ops) \cup {x, p}
    BY ONLY <2>2, PairAdded
  <2> QED BY <2>3
<1>8. p \in Numbered
  <2>1. u \in Built /\ \E b \in Block : u \in Range(instrs[b])
    BY <1>0 DEF Built
  <2>2. Home(u) \in Block
    BY <2>1, HomeIs DEF TextInv
  <2> QED BY <1>0, <2>2 DEF TextInv, PreInv, Numbered
<1>9. ASSUME NEW w \in Built'
      PROVE  /\ Range(operands'[w]) \subseteq Other \cup Numbered'
             /\ kind'[w] = "phi" => PhiOK(operands'[w], pre'[Home(w)'])
  <2>1. CASE w = u
    <3>1. Range(ops) \subseteq Other \cup Numbered
      BY <1>0 DEF TextInv, OperandInv
    <3> QED BY <1>1, <1>2, <1>4, <1>7, <1>8, <2>1, <3>1
  <2>2. CASE w # u
    <3>1. w \in Built /\ operands'[w] = operands[w] /\ kind'[w] = kind[w] /\ pre'[Home(w)'] = pre[Home(w)]
      BY <1>1, <1>4, <1>6, <2>2
    <3> QED BY <1>2, <3>1 DEF TextInv, OperandInv
  <2> QED BY <2>1, <2>2
<1>10. OperandInv'
  BY <1>0, <1>1, <1>9 DEF OperandInv
<1>11. OutInv'
  BY <1>0 DEF OutInv
<1> QED BY <1>3, <1>10, <1>11 DEF TextInv

\* An instruction replaced by something to be used, here or there.
LEMMA ReplaceText ==
  ASSUME IInv, TextInv, NEW old \in Instr, NEW new \in Usable, NEW users \in SUBSET User,
         ReplaceUses(old, new, users), out' = Nothing,
         UNCHANGED <<menu, phase, body, graph, names, types>>
  PROVE  TextInv'
<1> USE LightIRAssumption, UseListsAssumption
<1>1. /\ UNCHANGED <<menu, phase, made, kind, ty, instrs, added, pre, name, seq_cnt>>
      /\ Built' = Built /\ \A w : Home(w)' = Home(w)
  BY DEF body, graph, names, Built, Home
<1>2. Numbered' = Numbered
  BY <1>1 DEF Numbered, Nonvoid, is_void, Args
<1>3. BlockInv' /\ PreInv' /\ NamesInv'
  <2>1. BlockInv'
    BY <1>1 DEF TextInv, BlockInv
  <2>2. PreInv'
    BY <1>1 DEF TextInv, PreInv, HasTerminator
  <2>3. NamesInv'
    BY <1>1 DEF TextInv, NamesInv
  <2> QED BY <2>1, <2>2, <2>3
<1>4. Built \subseteq Instr /\ new \notin Block /\ new \in Other \cup Numbered /\ old \notin Block
  BY UsableNames
<1>5. ASSUME NEW w \in Built
      PROVE  /\ operands[w] \in Seq(Value) /\ operands'[w] \in Seq({operands'[w][i] : i \in DOMAIN operands'[w]})
             /\ Len(operands'[w]) = Len(operands[w])
             /\ \A i \in 1 .. Len(operands[w]) :
                  \/ operands'[w][i] = operands[w][i]
                  \/ operands[w][i] \notin Block /\ operands'[w][i] = new
  <2>1. operands[w] \in Seq(Value) /\ Len(operands[w]) \in Nat /\ Len(operands[w]) <= MaxOps /\ w \in User
    BY <1>4 DEF IInv, UseTypeOK
  <2>2. operands'[w] = [i \in 1 .. Len(operands[w]) |->
          IF w \in users /\ uses[old][<<w, i - 1>>] > 0 THEN new ELSE operands[w][i]]
    BY <2>1 DEF ReplaceUses
  <2>3. ASSUME NEW i \in 1 .. Len(operands[w]), uses[old][<<w, i - 1>>] > 0 PROVE operands[w][i] = old
    <3> PICK j : j = i - 1
      OBVIOUS
    <3>1. j \in ArgNo /\ j + 1 = i
      BY <2>1 DEF ArgNo
    <3>2. uses[old][<<w, j>>] = IF j < Len(operands[w]) /\ operands[w][j + 1] = old THEN 1 ELSE 0
      BY <2>1, <3>1 DEF IInv, Mirror
    <3>3. ~(0 > 0)
      OBVIOUS
    <3>4. operands[w][j + 1] = old
      BY <2>3, <3>2, <3>3
    <3> QED BY <3>1, <3>4
  <2> PICK n, r : n = Len(operands[w]) /\ r = operands'[w]
    OBVIOUS
  <2>4. DOMAIN r = 1 .. n /\ n \in Nat /\ r = [i \in 1 .. n |-> r[i]]
    BY <2>1, <2>2
  <2>5. Len(r) = n /\ r \in Seq({r[i] : i \in DOMAIN r})
    BY ONLY <2>4
  <2>6. \A i \in 1 .. n : r[i] = operands[w][i] \/ (operands[w][i] \notin Block /\ r[i] = new)
    BY <1>4, <2>2, <2>3
  <2> QED BY <2>1, <2>5, <2>6
<1>6. ASSUME NEW w \in Built'
      PROVE  /\ Range(operands'[w]) \subseteq Other \cup Numbered'
             /\ kind'[w] = "phi" => PhiOK(operands'[w], pre'[Home(w)'])
  <2> PICK ops, r, preds : ops = operands[w] /\ r = operands'[w] /\ preds = pre[Home(w)]
    OBVIOUS
  <2>1. /\ w \in Built /\ Len(r) = Len(ops) /\ DOMAIN r = 1 .. Len(ops) /\ DOMAIN ops = 1 .. Len(ops)
        /\ Len(ops) \in Nat
        /\ \A i \in 1 .. Len(ops) : r[i] = ops[i] \/ (ops[i] \notin Block /\ r[i] = new)
    <3> PICK R : R = {r[i] : i \in DOMAIN r}
      OBVIOUS
    <3>1. w \in Built
      BY <1>1
    <3>2. /\ ops \in Seq(Value) /\ r \in Seq(R) /\ Len(r) = Len(ops)
          /\ \A i \in 1 .. Len(ops) : r[i] = ops[i] \/ (ops[i] \notin Block /\ r[i] = new)
      <4>1. \A i \in 1 .. Len(ops) : r[i] = ops[i] \/ (ops[i] \notin Block /\ r[i] = new)
        BY <1>5, <3>1
      <4>2. ops \in Seq(Value) /\ Len(r) = Len(ops)
        BY <1>5, <3>1
      <4>3. r \in Seq({r[i] : i \in DOMAIN r})
        BY <1>5, <3>1
      <4> QED BY <4>1, <4>2, <4>3
    <3>3. DOMAIN r = 1 .. Len(r) /\ DOMAIN ops = 1 .. Len(ops) /\ Len(ops) \in Nat
      BY ONLY <3>2
    <3> QED BY <3>1, <3>2, <3>3
  <2>2. Range(ops) \subseteq Other \cup Numbered
    BY <2>1 DEF TextInv, OperandInv
  <2>3. Range(r) \subseteq Range(ops) \cup {new}
    BY <2>1 DEF Range
  <2>4. ASSUME kind[w] = "phi" PROVE PhiOK(r, preds)
    <3>1. \E b \in Block : w \in Range(instrs[b])
      BY <2>1 DEF Built
    <3>2. Home(w) \in Block
      BY <3>1, HomeIs DEF TextInv
    <3>3. preds \in Seq(Block)
      BY <3>2 DEF TextInv, PreInv
    <3>4. Range(preds) \subseteq Block /\ PhiOK(ops, preds)
      BY <2>1, <2>4, <3>3, RangeWithin DEF TextInv, OperandInv
    <3> QED BY <1>4, <2>1, <3>4, PairsReplaced
  <2> QED BY <1>1, <1>2, <1>4, <2>2, <2>3, <2>4
<1>7. OperandInv'
  BY <1>1, <1>6 DEF OperandInv, TextInv
<1>8. OutInv'
  BY DEF OutInv
<1> QED BY <1>3, <1>7, <1>8 DEF TextInv

\* Instructions nobody else uses leave their blocks.
LEMMA EraseText ==
  ASSUME IInv, TextInv, NEW S, Erase(S)
  PROVE  TextInv'
<1> USE LightIRAssumption, UseListsAssumption
<1>0. /\ S \subseteq Built /\ UNION {UsersOf(u) : u \in S} \subseteq S /\ Free(S) /\ phase = "passes"
      /\ instrs' = [b \in Block |-> Kept(instrs[b], Instr \ S)] /\ out' = Nothing
      /\ UNCHANGED <<menu, phase, made, kind, ty, added, pre, name, seq_cnt>>
  BY DEF Erase, InPasses, graph, names
<1>1. Built \subseteq Instr
  BY UsableNames
<1>2. ASSUME NEW b \in Block
      PROVE  instrs'[b] \in Seq(Instr) /\ Range(instrs'[b]) = Range(instrs[b]) \ S
  <2> PICK l, q, U : l = instrs[b] /\ q = instrs'[b] /\ U = Instr \ S
    OBVIOUS
  <2>1. l \in Seq(Instr) /\ q = Kept(l, U)
    BY <1>0 DEF TextInv, BlockInv
  <2>2. q \in Seq(Instr) /\ Range(q) = Range(l) \cap U
    BY <2>1, KeptFacts
  <2>3. Range(l) \subseteq Instr
    BY <2>1, RangeWithin
  <2> QED BY <2>2, <2>3
<1>3. BlockInv'
  <2>1. instrs' \in [Block -> Seq(Instr)]
    BY <1>0, <1>2
  <2>2. added' \in Seq(Block) /\ Range(added') = Range(added)
    BY <1>0 DEF TextInv, BlockInv
  <2>3. \A b \in Block : \A u \in Range(instrs'[b]) : u <= made' /\ b \in Range(added')
    <3> SUFFICES ASSUME NEW b \in Block, NEW u, u \in Range(instrs'[b])
                 PROVE  u <= made' /\ b \in Range(added')
      OBVIOUS
    <3>1. u \in Range(instrs[b])
      BY <1>2
    <3> QED BY <1>0, <2>2, <3>1 DEF TextInv, BlockInv
  <2>4. \A b, c \in Block : \A u \in Range(instrs'[b]) : u \in Range(instrs'[c]) => b = c
    <3> SUFFICES ASSUME NEW b \in Block, NEW c \in Block, NEW u, u \in Range(instrs'[b]), u \in Range(instrs'[c])
                 PROVE  b = c
      OBVIOUS
    <3>1. u \in Range(instrs[b]) /\ u \in Range(instrs[c])
      BY <1>2
    <3> QED BY <3>1 DEF TextInv, BlockInv
  <2> QED BY <2>1, <2>2, <2>3, <2>4 DEF BlockInv
<1>4. Built' = Built \ S
  BY <1>2 DEF Built
<1>5. \A w \in Built' : Home(w)' = Home(w)
  <2> SUFFICES ASSUME NEW w \in Built' PROVE Home(w)' = Home(w)
    OBVIOUS
  <2> PICK b \in Block : w \in Range(instrs'[b])
    BY DEF Built
  <2>1. w \in Range(instrs[b])
    BY <1>2
  <2> QED BY <1>3, <2>1, HomeIs, HomeIsNext DEF TextInv
<1>6. Numbered \ S \subseteq Numbered'
  BY <1>0, <1>4 DEF Numbered, Nonvoid, is_void, Args
<1>7. ASSUME NEW w \in Built', NEW v \in Range(operands[w]) PROVE v \notin S
  <2> SUFFICES ASSUME v \in S PROVE FALSE
    OBVIOUS
  <2>1. w \in Instr /\ w \in Built /\ w \notin S /\ v \in Value
    BY <1>0, <1>1, <1>4
  <2>2. operands[w] \in Seq(Value) /\ Len(operands[w]) \in Nat /\ Len(operands[w]) <= MaxOps
    BY <2>1 DEF IInv, UseTypeOK
  <2> PICK i \in 1 .. Len(operands[w]) : operands[w][i] = v
    BY <2>2 DEF Range
  <2> PICK j : j = i - 1
    OBVIOUS
  <2>3. j \in ArgNo /\ j + 1 = i /\ j < Len(operands[w])
    BY <2>2 DEF ArgNo
  <2>4. uses[v][<<w, j>>] = 1
    BY <2>1, <2>3 DEF IInv, Mirror
  <2>5. <<w, j>> \in User \X ArgNo /\ 1 > 0 /\ <<w, j>>[1] = w
    BY <2>1, <2>3
  <2>6. w \in UsersOf(v)
    BY <2>4, <2>5 DEF UsersOf
  <2> QED BY <1>0, <2>1, <2>6
<1>8. ASSUME NEW w \in Built'
      PROVE  /\ Range(operands'[w]) \subseteq Other \cup Numbered'
             /\ kind'[w] = "phi" => PhiOK(operands'[w], pre'[Home(w)'])
  <2>1. w \in Built /\ operands'[w] = operands[w] /\ kind'[w] = kind[w] /\ pre'[Home(w)'] = pre[Home(w)]
    BY <1>0, <1>1, <1>4, <1>5 DEF Free
  <2> QED BY <1>6, <1>7, <2>1 DEF TextInv, OperandInv
<1>9. OperandInv'
  BY <1>0, <1>8 DEF OperandInv
<1>10. PreInv'
  BY <1>0 DEF TextInv, PreInv
<1>11. NamesInv' /\ OutInv'
  BY <1>0 DEF TextInv, NamesInv, OutInv
<1> QED BY <1>3, <1>9, <1>10, <1>11 DEF TextInv

-----------------------------------------------------------------------------
(* Naming and printing.                                                     *)

\* What gets a number comes in the order of the text.
LEMMA OrderFacts ==
  ASSUME IInv, TextInv
  PROVE  NamedInOrder \in Seq(Value) /\ Numbered \subseteq Range(NamedInOrder)
<1> USE LightIRAssumption, UseListsAssumption
<1> PICK V : V = Value
  OBVIOUS
<1> DEFINE W == {u \in Instr : ~is_void(u)}
           r == [i \in DOMAIN added |-> <<added[i]>> \o Kept(instrs[added[i]], W)]
<1>0. added \in Seq(Block) /\ instrs \in [Block -> Seq(Instr)]
  BY DEF TextInv, BlockInv
<1>1. ASSUME NEW i \in DOMAIN added
      PROVE  r[i] \in Seq(V) /\ Range(r[i]) = {added[i]} \cup (Range(instrs[added[i]]) \cap W)
  <2> PICK b, o, l, q, w, x : /\ b = added[i] /\ o = <<added[i]>> /\ l = instrs[added[i]]
                              /\ q = Kept(instrs[added[i]], W) /\ w = W /\ x = r[i]
    OBVIOUS
  <2>1. b \in Block
    BY <1>0
  <2>2. l \in Seq(V)
    <3>1. l \in Seq(Instr) /\ Instr \subseteq V
      BY <1>0, <2>1
    <3> QED BY <3>1
  <2>3. q = Kept(l, w)
    OBVIOUS
  <2>4. q \in Seq(V) /\ Range(q) = Range(l) \cap w
    BY <2>2, <2>3, KeptFacts
  <2>5. o \in Seq(V) /\ Range(o) = {b}
    <3>1. o \in Seq(V) /\ DOMAIN o = {1} /\ o[1] = b
      BY <2>1
    <3> QED BY <3>1 DEF Range
  <2>6. x = o \o q
    OBVIOUS
  <2>7. Joined(V, o, q, x)
    BY <2>4, <2>5, <2>6, BothLists
  <2> QED BY <2>4, <2>5, <2>7 DEF Joined
<1>2. DOMAIN r = DOMAIN added
  OBVIOUS
<1>3. NamedInOrder = Args \o FlattenSeq(r)
  BY DEF NamedInOrder
<1> HIDE DEF r
<1>4. r \in Seq(Seq(V)) /\ Len(r) = Len(added)
  <2> PICK n : n = Len(added)
    OBVIOUS
  <2>1. n \in Nat /\ DOMAIN added = 1 .. n
    BY <1>0
  <2>2. r = [i \in 1 .. n |-> r[i]]
    BY <1>2, <2>1 DEF r
  <2>3. \A i \in 1 .. n : r[i] \in Seq(V)
    BY <1>1, <2>1
  <2>4. r \in Seq(Seq(V)) /\ Len(r) = n
    BY ONLY <2>1, <2>2, <2>3
  <2> QED BY <2>4
<1> PICK f, a, all : f = FlattenSeq(r) /\ a = Args /\ all = NamedInOrder
  OBVIOUS
<1>5. Flattened(V, r, Len(r), f)
  BY <1>4, FlattenFacts
<1>6. a \in Seq(V)
  <2>1. a \in Seq(Value \ (Instr \cup Block \cup Other))
    BY DEF IInv, Args
  <2> QED BY <2>1
<1>7. Joined(V, a, f, all)
  <2>1. f \in Seq(V) /\ all = a \o f
    BY <1>3, <1>5 DEF Flattened
  <2> QED BY <1>6, <2>1, BothLists
<1>8. \A i \in DOMAIN added : Range(r[i]) \subseteq Range(f)
  <2>1. DOMAIN added = 1 .. Len(r)
    BY <1>0, <1>4
  <2> QED BY <1>5, <2>1 DEF Flattened
<1>9. Range(added) \subseteq Range(f)
  BY <1>1, <1>8 DEF Range
<1>10. Nonvoid \subseteq Range(f)
  <2> SUFFICES ASSUME NEW u \in Nonvoid PROVE u \in Range(f)
    OBVIOUS
  <2>1. PICK b \in Block : u \in Range(instrs[b])
    BY DEF Nonvoid, Built
  <2>2. b \in Range(added) /\ u \in W
    BY <2>1 DEF Nonvoid, Built, TextInv, BlockInv
  <2> PICK i \in DOMAIN added : added[i] = b
    BY <2>2 DEF Range
  <2> QED BY <1>1, <1>8, <2>1, <2>2
<1> QED BY <1>7, <1>9, <1>10 DEF Joined, Numbered

\* Numbers given once stay so, and what is in the text has its number.
LEMMA NamesGiven ==
  ASSUME IInv, TextInv, set_instr_name
  PROVE  NamesInv' /\ \A v \in Numbered : name'[v] # NoName
<1> USE LightIRAssumption, UseListsAssumption
<1> PICK l, s, S : l = NamedInOrder /\ s = NewNames /\ S = {v \in Value : name[v] = NoName}
  OBVIOUS
<1>1. s \in Seq(Value) /\ Range(s) = Range(l) \cap S /\ Numbered \subseteq Range(l) /\ Range(l) \subseteq Value
  <2>1. l \in Seq(Value) /\ s = Kept(l, S) /\ Numbered \subseteq Range(l)
    BY OrderFacts DEF NewNames
  <2> PICK V : V = Value
    OBVIOUS
  <2>2. l \in Seq(V) /\ s = Kept(l, S)
    BY <2>1
  <2>3. s \in Seq(V) /\ Range(s) = Range(l) \cap S
    BY ONLY <2>2, KeptFacts
  <2>4. s \in Seq(Value) /\ Range(s) = Range(l) \cap S
    BY <2>3
  <2> QED BY <2>1, <2>4, RangeWithin
<1> PICK n : n = Len(s)
  OBVIOUS
<1>2. n \in Nat /\ DOMAIN s = 1 .. n
  BY <1>1
<1> DEFINE at(v) == CHOOSE k \in DOMAIN s : s[k] = v
<1>3. /\ name' = [v \in Value |-> IF \E k \in DOMAIN s : s[k] = v THEN seq_cnt + at(v) - 1 ELSE name[v]]
      /\ seq_cnt' = seq_cnt + n
  BY DEF set_instr_name
<1>4. ASSUME NEW v \in Value, \E k \in DOMAIN s : s[k] = v
      PROVE  at(v) \in 1 .. n /\ s[at(v)] = v /\ name[v] = NoName
  <2>1. at(v) \in DOMAIN s /\ s[at(v)] = v
    BY <1>4
  <2>2. v \in Range(s)
    BY <1>4 DEF Range
  <2> QED BY <1>1, <1>2, <2>1, <2>2
<1> HIDE DEF at
<1>5. /\ seq_cnt \in Nat /\ seq_cnt' \in Nat /\ seq_cnt <= seq_cnt'
      /\ \A v \in Value : /\ name[v] \in Nat \cup {NoName, Given} /\ name[v] < seq_cnt
                          /\ name[v] = Given <=> v \in Other \cup {Entry}
      /\ \A v, w \in Value : name[v] = name[w] /\ name[v] \in Nat => v = w
  BY <1>2, <1>3 DEF TextInv, NamesInv
<1>6. ASSUME NEW v \in Value
      PROVE  \/ /\ at(v) \in 1 .. n /\ s[at(v)] = v /\ name[v] = NoName
                /\ name'[v] = seq_cnt + at(v) - 1 /\ name'[v] \in Nat
                /\ name'[v] >= seq_cnt /\ name'[v] < seq_cnt'
             \/ name'[v] = name[v] /\ v \notin Range(s)
  <2>1. CASE \E k \in DOMAIN s : s[k] = v
    <3>1. at(v) \in 1 .. n /\ s[at(v)] = v /\ name[v] = NoName /\ name'[v] = seq_cnt + at(v) - 1
      BY <1>3, <1>4, <2>1
    <3> PICK k : k = at(v)
      OBVIOUS
    <3>2. k \in 1 .. n /\ name'[v] = seq_cnt + k - 1
      BY <3>1
    <3>3. name'[v] \in Nat /\ name'[v] >= seq_cnt /\ name'[v] < seq_cnt'
      BY <1>2, <1>3, <1>5, <3>2
    <3> QED BY <3>1, <3>3
  <2>2. CASE ~ \E k \in DOMAIN s : s[k] = v
    BY <1>3, <2>2 DEF Range
  <2> QED BY <2>1, <2>2
<1>7. name' \in [Value -> Int]
  <2>1. \A v \in Value : name'[v] \in Int
    BY <1>5, <1>6 DEF NoName, Given
  <2> QED BY <1>3, <2>1
<1>8. ASSUME NEW v \in Value
      PROVE  /\ name'[v] \in Nat \cup {NoName, Given} /\ name'[v] < seq_cnt'
             /\ name'[v] = Given <=> v \in Other \cup {Entry}
  <2>1. name[v] \in Nat \cup {NoName, Given} /\ name[v] < seq_cnt /\ (name[v] = Given <=> v \in Other \cup {Entry})
    BY <1>5
  <2>2. CASE name'[v] = name[v]
    BY <1>5, <2>1, <2>2 DEF NoName, Given
  <2>3. CASE name[v] = NoName /\ name'[v] \in Nat /\ name'[v] < seq_cnt'
    <3>1. name'[v] # Given /\ NoName # Given
      BY <2>3 DEF NoName, Given
    <3> QED BY <2>1, <2>3, <3>1
  <2> QED BY <1>6, <2>2, <2>3
<1>9. ASSUME NEW v \in Value, NEW w \in Value, name'[v] = name'[w], name'[v] \in Nat PROVE v = w
  <2>1. name[v] \in Int /\ name[w] \in Int /\ name[v] < seq_cnt /\ name[w] < seq_cnt
    BY <1>5 DEF NoName, Given
  <2>2. CASE v \notin Range(s) /\ w \notin Range(s) /\ name'[v] = name[v] /\ name'[w] = name[w]
    BY <1>5, <1>9, <2>2
  <2>3. ASSUME at(v) \in 1 .. n, s[at(v)] = v, name'[v] = seq_cnt + at(v) - 1,
               at(w) \in 1 .. n, s[at(w)] = w, name'[w] = seq_cnt + at(w) - 1
        PROVE  v = w
    <3> PICK j, k : j = at(v) /\ k = at(w)
      OBVIOUS
    <3>1. j \in 1 .. n /\ k \in 1 .. n
      BY <2>3
    <3>2. name'[v] = seq_cnt + j - 1 /\ name'[w] = seq_cnt + k - 1
      BY <2>3
    <3>3. seq_cnt + j - 1 = seq_cnt + k - 1
      BY ONLY <1>9, <3>2
    <3>4. j \in Int /\ k \in Int /\ seq_cnt \in Int
      BY ONLY <1>2, <1>5, <3>1
    <3>5. j = k
      BY ONLY <3>3, <3>4
    <3> QED BY <2>3, <3>5
  <2>4. ~(name'[v] >= seq_cnt /\ name'[w] = name[w]) /\ ~(name'[w] >= seq_cnt /\ name'[v] = name[v])
    BY <1>5, <1>9, <2>1
  <2> QED BY <1>6, <2>2, <2>3, <2>4
<1>10. NamesInv'
  BY <1>5, <1>7, <1>8, <1>9 DEF NamesInv
<1>11. ASSUME NEW v \in Numbered PROVE name'[v] # NoName
  <2>1. v \in Range(l) /\ v \in Value
    BY <1>1
  <2>2. v \in Range(s) \/ name[v] # NoName
    BY <1>1, <2>1
  <2> QED BY <1>6, <2>1, <2>2 DEF NoName
<1> QED BY <1>10, <1>11

\* The text of the function as it is.
LEMMA PrintText == IInv /\ TextInv /\ PrintModule => TextInv'
<1> SUFFICES ASSUME IInv, TextInv, PrintModule PROVE TextInv'
  OBVIOUS
<1>1. /\ UNCHANGED <<menu, phase, body, graph, types, uselist>> /\ phase = "passes"
      /\ set_instr_name /\ out' = <<Listing(name')>>
  BY DEF PrintModule
<1>2. BlockInv' /\ PreInv' /\ OperandInv' /\ Numbered' = Numbered
  BY <1>1, SameText
<1>3. NamesInv' /\ \A v \in Numbered' : name'[v] # NoName
  BY <1>1, <1>2, NamesGiven
<1>4. Listing(name)' = Listing(name')
  <2>1. menu' = menu /\ kind' = kind /\ ty' = ty /\ instrs' = instrs /\ added' = added /\ pre' = pre
        /\ operands' = operands
    BY <1>1 DEF body, graph, uselist
  <2> QED BY <2>1 DEF Listing, Line, PhiRefs, print_as_op, Text, is_void, Home, Args
<1>5. OutInv'
  BY <1>1, <1>3, <1>4 DEF OutInv
<1> QED BY <1>2, <1>3, <1>5 DEF TextInv

\* Every step keeps what the text relies on.
LEMMA NextText == IInv /\ TypesInv /\ TextInv /\ [Next]_vars => TextInv'
<1> SUFFICES ASSUME IInv, TypesInv, TextInv, [Next]_vars PROVE TextInv'
  OBVIOUS
<1> USE LightIRAssumption, UseListsAssumption
<1>0. Built \subseteq Instr /\ Instr = User
  BY UsableNames
<1>1. CASE Create
  BY <1>1, CreateText
<1>2. CASE StartPasses
  <2>1. /\ UNCHANGED <<menu, body, graph, uselist, names>> /\ phase' = "passes" /\ out' = Nothing
    BY <1>2 DEF StartPasses
  <2>2. BlockInv' /\ PreInv' /\ OperandInv'
    BY <2>1, SameText
  <2>3. NamesInv' /\ OutInv'
    BY <2>1 DEF names, TextInv, NamesInv, OutInv
  <2> QED BY <2>2, <2>3 DEF TextInv
<1>3. CASE AddPhi
  BY <1>3, AddPhiText
<1>4. CASE AddPair
  BY <1>4, AddPairText
<1>5. CASE ReplaceLoad
  <2>1. PICK u \in Built : \E x \in OfType(ty[u]) \ {u} :
          /\ InPasses /\ ReplaceUses(u, x, Instr)
          /\ UNCHANGED <<menu, phase, body, graph, names, types>>
    BY <1>5 DEF ReplaceLoad
  <2>2. PICK x \in OfType(ty[u]) \ {u} :
          /\ InPasses /\ ReplaceUses(u, x, Instr)
          /\ UNCHANGED <<menu, phase, body, graph, names, types>>
    BY <2>1
  <2> PICK users : users = Instr
    OBVIOUS
  <2>3. /\ u \in Instr /\ x \in Usable /\ users \in SUBSET User /\ out' = Nothing
        /\ ReplaceUses(u, x, users) /\ UNCHANGED <<menu, phase, body, graph, names, types>>
    BY <1>0, <2>2 DEF OfType, InPasses
  <2> QED BY <2>3, ReplaceText
<1>6. CASE ReplaceMember
  <2>1. PICK u \in Built : \E x \in OfType(ty[u]) \ {u} : \E b \in Range(added) :
          /\ InPasses
          /\ ReplaceUses(u, x, {w \in UsersOf(u) : IF kind[w] = "phi" THEN b \in Range(pre[Home(w)])
                                                                       ELSE Home(w) = b})
          /\ UNCHANGED <<menu, phase, body, graph, names, types>>
    BY <1>6 DEF ReplaceMember
  <2>2. PICK x \in OfType(ty[u]) \ {u} : \E b \in Range(added) :
          /\ InPasses
          /\ ReplaceUses(u, x, {w \in UsersOf(u) : IF kind[w] = "phi" THEN b \in Range(pre[Home(w)])
                                                                       ELSE Home(w) = b})
          /\ UNCHANGED <<menu, phase, body, graph, names, types>>
    BY <2>1
  <2>3. PICK b \in Range(added) :
          /\ InPasses
          /\ ReplaceUses(u, x, {w \in UsersOf(u) : IF kind[w] = "phi" THEN b \in Range(pre[Home(w)])
                                                                       ELSE Home(w) = b})
          /\ UNCHANGED <<menu, phase, body, graph, names, types>>
    BY <2>2
  <2> PICK users : users = {w \in UsersOf(u) : IF kind[w] = "phi" THEN b \in Range(pre[Home(w)])
                                                                  ELSE Home(w) = b}
    OBVIOUS
  <2>4. users \in SUBSET User
    BY DEF UsersOf
  <2>5. /\ u \in Instr /\ x \in Usable /\ out' = Nothing
        /\ ReplaceUses(u, x, users) /\ UNCHANGED <<menu, phase, body, graph, names, types>>
    BY <1>0, <2>3 DEF OfType, InPasses
  <2> QED BY <2>4, <2>5, ReplaceText
<1>7. CASE EraseInstr
  <2>1. PICK u \in Built : Erase({u})
    BY <1>7 DEF EraseInstr
  <2> PICK S : S = {u}
    OBVIOUS
  <2>2. Erase(S)
    BY <2>1
  <2> QED BY <2>2, EraseText
<1>8. CASE Sweep
  <2>1. PICK S : Erase(S)
    BY <1>8 DEF Sweep
  <2> QED BY <2>1, EraseText
<1>9. CASE PrintModule
  BY <1>9, PrintText
<1>10. CASE UNCHANGED vars
  <2>1. UNCHANGED <<menu, phase, body, graph, uselist, names, out>>
    BY <1>10 DEF vars
  <2>2. BlockInv' /\ PreInv' /\ OperandInv' /\ Numbered' = Numbered
    BY <2>1, SameText
  <2>3. NamesInv'
    BY <2>1 DEF names, TextInv, NamesInv
  <2>4. menu' = menu /\ kind' = kind /\ ty' = ty /\ instrs' = instrs /\ added' = added /\ pre' = pre
        /\ operands' = operands /\ name' = name /\ out' = out
    BY <2>1 DEF body, graph, uselist, names
  <2>5. Listing(name)' = Listing(name)
    BY <2>4 DEF Listing, Line, PhiRefs, print_as_op, Text, is_void, Home, Args
  <2>6. OutInv'
    BY <2>2, <2>4, <2>5 DEF TextInv, OutInv
  <2> QED BY <2>2, <2>3, <2>6 DEF TextInv
<1> QED BY <1>1, <1>2, <1>3, <1>4, <1>5, <1>6, <1>7, <1>8, <1>9, <1>10 DEF Next, Passes

-----------------------------------------------------------------------------
(* What the text says.                                                      *)

\* A phi with as many pairs as there are predecessors has a pair for each.
LEMMA PredsCovered ==
  ASSUME NEW ops, NEW preds, PhiOK(ops, preds), Len(ops) \in Nat, preds \in Seq(Block),
         Len(ops) \div 2 >= Len(preds)
  PROVE  \A p \in Range(preds) : \E n \in 1 .. Len(ops) \div 2 : ops[2 * n] = p
<1> PICK k, R, l : k = Len(ops) \div 2 /\ R = Range(preds) /\ l = Len(preds)
  OBVIOUS
<1>1. k \in Nat /\ l \in Nat /\ l <= k /\ DOMAIN preds = 1 .. l
  OBVIOUS
<1> DEFINE f == [n \in 1 .. k |-> ops[2 * n]]
<1>2. /\ f \in [1 .. k -> R]
      /\ \A n, m \in 1 .. k : f[n] = f[m] => n = m
  BY DEF PhiOK
<1>3. f \in Injection(1 .. k, R)
  BY <1>2 DEF Injection, IsInjective
<1>4. preds \in Surjection(1 .. l, R)
  <2>1. preds \in [1 .. l -> R]
    BY <1>1 DEF Range
  <2> QED BY <1>1, <2>1 DEF Surjection, Range
<1>5. ExistsSurjection(1 .. l, R)
  BY <1>4 DEF ExistsSurjection
<1> HIDE DEF f
<1>6. IsFiniteSet(R) /\ Cardinality(R) <= l
  <2>1. Cardinality(R) <= l
    BY <1>1, <1>5, FS_SurjCardinalityBound
  <2> PICK D, one : D = 1 .. l /\ one = 1
    OBVIOUS
  <2>2. one \in Int /\ l \in Int
    BY <1>1
  <2>3. IsFiniteSet(one .. l)
    BY ONLY <2>2, FS_Interval
  <2>4. IsFiniteSet(D) /\ preds \in Surjection(D, R)
    BY <1>4, <2>3
  <2>5. IsFiniteSet(R)
    BY ONLY <2>4, FS_Surjection
  <2> QED BY <2>1, <2>5
<1>7. Cardinality(1 .. k) = k
  <2> PICK one : one = 1
    OBVIOUS
  <2>1. one \in Int /\ k \in Int
    BY <1>1
  <2>2. Cardinality(one .. k) = IF one > k THEN 0 ELSE k - one + 1
    BY ONLY <2>1, FS_Interval
  <2> QED BY <1>1, <2>2
<1>8. Cardinality(1 .. k) <= Cardinality(R) /\ (Cardinality(1 .. k) = Cardinality(R) <=> f \in Surjection(1 .. k, R))
  BY <1>3, <1>6, FS_Injection
<1>9. Cardinality(R) \in Nat
  BY <1>6, FS_CardinalityType
<1>10. Cardinality(1 .. k) = Cardinality(R)
  BY <1>1, <1>6, <1>7, <1>8, <1>9
<1>11. f \in Surjection(1 .. k, R)
  BY <1>8, <1>10
<1>12. \A p \in R : \E n \in 1 .. k : f[n] = p
  BY <1>11 DEF Surjection
<1> QED BY <1>12 DEF f

\* The pairs a phi has and those with undef, by what their parts denote.
Listed(ops, preds, left, den) ==
  /\ left \in Seq(Block) /\ Once(left) /\ Range(left) \cap Range(ops) = {}
  /\ Range(left) \subseteq Range(preds) /\ Range(preds) \subseteq Range(ops) \cup Range(left)
  /\ Len(den) = Len(ops) + 2 * Len(left)
  /\ \A n \in 1 .. Len(ops) : den[n] = {ops[n]}
  /\ \A n \in 1 .. Len(left) : /\ den[Len(ops) + 2 * n - 1] = {}
                              /\ den[Len(ops) + 2 * n] = {left[n]}

\* One pair for each predecessor, with the value the phi has for it.
ValueFor(ops, x) == {ops[2 * m - 1] : m \in {m \in 1 .. Len(ops) \div 2 : x = {ops[2 * m]}}}
OneForEach(ops, preds, den, D) ==
  /\ \A n, m \in 1 .. D : den[2 * n] = den[2 * m] => n = m
  /\ {den[2 * n] : n \in 1 .. D} = {{p} : p \in Range(preds)}
  /\ \A n \in 1 .. D : den[2 * n - 1] = ValueFor(ops, den[2 * n])

\* So the pairs are.
LEMMA PairsReadBack ==
  ASSUME NEW ops, NEW preds, NEW left, NEW den, NEW T, ops \in Seq(T), preds \in Seq(Block),
         PhiOK(ops, preds), Listed(ops, preds, left, den), NEW D, D = Len(den) \div 2
  PROVE  OneForEach(ops, preds, den, D)
<1> PICK k, h, l : k = Len(ops) \div 2 /\ h = Len(left) /\ l = Len(ops)
  OBVIOUS
<1>1. /\ k \in Nat /\ h \in Nat /\ l = 2 * k /\ Len(den) \div 2 = k + h
      /\ DOMAIN ops = 1 .. l /\ DOMAIN left = 1 .. h
  <2>1. h \in Nat /\ DOMAIN left = 1 .. h /\ l \in Nat /\ DOMAIN ops = 1 .. l
    BY DEF Listed
  <2>2. l % 2 = 0 /\ Len(den) = l + 2 * h
    BY DEF PhiOK, Listed
  <2>3. k \in Nat /\ l = 2 * k
    BY <2>1, <2>2
  <2>4. (2 * k + 2 * h) \div 2 = k + h
    BY <2>1, <2>3
  <2> QED BY <2>1, <2>2, <2>3, <2>4
<1>2. ASSUME NEW n \in 1 .. k
      PROVE  /\ den[2 * n] = {ops[2 * n]} /\ den[2 * n - 1] = {ops[2 * n - 1]}
             /\ ops[2 * n] \in Range(ops) /\ ops[2 * n] \in Range(preds)
  <2>1. 2 * n \in 1 .. l /\ 2 * n - 1 \in 1 .. l
    BY <1>1
  <2>2. den[2 * n] = {ops[2 * n]} /\ den[2 * n - 1] = {ops[2 * n - 1]}
    BY <2>1 DEF Listed
  <2>3. ops[2 * n] \in Range(ops)
    BY <1>1, <2>1 DEF Range
  <2>4. ops[2 * n] \in Range(preds)
    BY DEF PhiOK
  <2> QED BY <2>2, <2>3, <2>4
<1> DEFINE Of(n, i) == n = k + i /\ den[2 * n] = {left[i]} /\ den[2 * n - 1] = {}
<1>3. ASSUME NEW i \in 1 .. h
      PROVE  /\ k + i \in 1 .. k + h /\ Of(k + i, i)
             /\ left[i] \in Range(left) /\ left[i] \in Range(preds) /\ left[i] \notin Range(ops)
  <2>1. k + i \in 1 .. k + h
    BY <1>1
  <2>2. 2 * (k + i) = l + 2 * i /\ 2 * (k + i) - 1 = l + 2 * i - 1
    BY <1>1
  <2>3. den[l + 2 * i] = {left[i]} /\ den[l + 2 * i - 1] = {}
    BY DEF Listed
  <2>4. Of(k + i, i)
    BY <2>2, <2>3
  <2>5. left[i] \in Range(left)
    BY <1>1 DEF Range
  <2>6. left[i] \in Range(preds) /\ left[i] \notin Range(ops)
    BY <2>5 DEF Listed
  <2> QED BY <2>1, <2>4, <2>5, <2>6
<1>4. ASSUME NEW n \in 1 .. k + h
      PROVE  n \in 1 .. k \/ \E i \in 1 .. h : Of(n, i)
  <2>1. CASE n <= k
    BY <1>1, <2>1
  <2>2. CASE ~(n <= k)
    <3> PICK i : i = n - k
      OBVIOUS
    <3>1. i \in 1 .. h /\ n = k + i
      BY <1>1, <2>2
    <3>2. Of(n, i)
      BY <1>3, <3>1
    <3> QED BY <3>1, <3>2
  <2> QED BY <2>1, <2>2
<1>5. ASSUME NEW n \in 1 .. k + h, NEW m \in 1 .. k + h, den[2 * n] = den[2 * m]
      PROVE  n = m
  <2> PICK N, M : N = den[2 * n] /\ M = den[2 * m]
    OBVIOUS
  <2>0. N = M
    BY <1>5
  <2>1. CASE n \in 1 .. k /\ m \in 1 .. k
    <3>1. ops[2 * n] = ops[2 * m]
      BY <1>2, <1>5, <2>1
    <3> QED BY <2>1, <3>1 DEF PhiOK
  <2>2. ASSUME n \in 1 .. k, NEW i \in 1 .. h, Of(m, i) PROVE FALSE
    <3>1. N = {ops[2 * n]} /\ ops[2 * n] \in Range(ops)
      BY <1>2, <2>2
    <3>2. M = {left[i]} /\ left[i] \notin Range(ops)
      BY <1>3, <2>2
    <3> QED BY <2>0, <3>1, <3>2
  <2>3. ASSUME m \in 1 .. k, NEW i \in 1 .. h, Of(n, i) PROVE FALSE
    <3>1. M = {ops[2 * m]} /\ ops[2 * m] \in Range(ops)
      BY <1>2, <2>3
    <3>2. N = {left[i]} /\ left[i] \notin Range(ops)
      BY <1>3, <2>3
    <3> QED BY <2>0, <3>1, <3>2
  <2>4. ASSUME NEW i \in 1 .. h, NEW j \in 1 .. h, Of(n, i), Of(m, j) PROVE n = m
    <3>1. N = {left[i]} /\ M = {left[j]} /\ n = k + i /\ m = k + j
      BY <2>4
    <3>2. left[i] = left[j]
      BY <2>0, <3>1
    <3>3. i = j
      BY <1>1, <3>2 DEF Listed, Once
    <3> QED BY <3>1, <3>3
  <2> HIDE DEF Of
  <2> QED BY <1>4, <2>1, <2>2, <2>3, <2>4
<1>6. {den[2 * n] : n \in 1 .. k + h} = {{p} : p \in Range(preds)}
  <2>1. ASSUME NEW n \in 1 .. k + h PROVE \E p \in Range(preds) : den[2 * n] = {p}
    <3>1. CASE n \in 1 .. k
      BY <1>2, <3>1
    <3>2. ASSUME NEW i \in 1 .. h, Of(n, i) PROVE \E p \in Range(preds) : den[2 * n] = {p}
      <4>1. den[2 * n] = {left[i]} /\ left[i] \in Range(preds)
        BY <1>3, <3>2
      <4> QED BY <4>1
    <3> HIDE DEF Of
    <3> QED BY <1>4, <3>1, <3>2
  <2>2. ASSUME NEW p \in Range(preds) PROVE \E n \in 1 .. k + h : den[2 * n] = {p}
    <3>1. CASE p \in Range(left)
      <4> PICK i \in 1 .. h : left[i] = p
        BY <1>1, <3>1 DEF Range
      <4> QED BY <1>3
    <3>2. CASE p \in Range(ops)
      <4> PICK j \in 1 .. l : ops[j] = p
        BY <1>1, <3>2 DEF Range
      <4>1. p \in Block
        BY RangeWithin
      <4> PICK n : n = (j + 1) \div 2
        OBVIOUS
      <4>2. n \in 1 .. k /\ (j = 2 * n \/ j = 2 * n - 1)
        BY <1>1
      <4>3. ops[2 * n - 1] \notin Block
        BY <4>2 DEF PhiOK
      <4>4. j # 2 * n - 1
        BY <4>1, <4>3
      <4>5. j = 2 * n
        BY <4>2, <4>4
      <4>6. n \in 1 .. k + h
        BY <1>1, <4>2
      <4>7. ops[2 * n] = p
        BY <4>5
      <4> QED BY <1>2, <4>2, <4>6, <4>7
    <3> QED BY <3>1, <3>2 DEF Listed
  <2> PICK A, B : A = {den[2 * n] : n \in 1 .. k + h} /\ B = {{p} : p \in Range(preds)}
    OBVIOUS
  <2>3. A \subseteq B
    BY <2>1
  <2>4. B \subseteq A
    <3> SUFFICES ASSUME NEW p \in Range(preds) PROVE {p} \in A
      OBVIOUS
    <3> QED BY <2>2
  <2> QED BY <2>3, <2>4
<1>7. ASSUME NEW n \in 1 .. k + h
      PROVE  den[2 * n - 1] = {ops[2 * m - 1] : m \in {m \in 1 .. k : den[2 * n] = {ops[2 * m]}}}
  <2>1. CASE n \in 1 .. k
    <3>0. ASSUME NEW m \in 1 .. k, den[2 * n] = {ops[2 * m]} PROVE m = n
      <4>1. ops[2 * n] = ops[2 * m]
        BY <1>2, <2>1, <3>0
      <4>2. \A i, j \in 1 .. k : ops[2 * i] = ops[2 * j] => i = j
        BY DEF PhiOK
      <4> QED BY <2>1, <4>1, <4>2
    <3>1. {m \in 1 .. k : den[2 * n] = {ops[2 * m]}} = {n}
      BY <1>2, <2>1, <3>0
    <3> PICK M : M = {m \in 1 .. k : den[2 * n] = {ops[2 * m]}}
      OBVIOUS
    <3>2. {ops[2 * m - 1] : m \in M} = {ops[2 * n - 1]}
      BY <3>1
    <3> QED BY <1>2, <2>1, <3>2
  <2>2. ASSUME NEW i \in 1 .. h, Of(n, i)
        PROVE  den[2 * n - 1] = {ops[2 * m - 1] : m \in {m \in 1 .. k : den[2 * n] = {ops[2 * m]}}}
    <3>1. den[2 * n] = {left[i]} /\ den[2 * n - 1] = {} /\ left[i] \notin Range(ops)
      BY <1>3, <2>2
    <3>2. \A m \in 1 .. k : den[2 * n] # {ops[2 * m]}
      BY <1>2, <3>1
    <3> QED BY <3>1, <3>2
  <2> HIDE DEF Of
  <2> QED BY <1>4, <2>1, <2>2
<1>8. \A n \in 1 .. k + h : den[2 * n - 1] = ValueFor(ops, den[2 * n])
  <2> TAKE n \in 1 .. k + h
  <2> PICK x, y : x = den[2 * n] /\ y = den[2 * n - 1]
    OBVIOUS
  <2>1. y = {ops[2 * m - 1] : m \in {m \in 1 .. k : x = {ops[2 * m]}}}
    BY <1>7
  <2>2. y = ValueFor(ops, x)
    BY <2>1 DEF ValueFor
  <2> QED BY <2>2
<1> QED BY <1>1, <1>5, <1>6, <1>8 DEF OneForEach

\* What has a number is defined under its text, and nothing else is.
LEMMA DefinedIs ==
  ASSUME IInv, TextInv, out # Nothing, NEW v \in Numbered
  PROVE  Defined(Text(v, name)) = {v}
<1> USE LightIRAssumption, UseListsAssumption
<1> PICK L, t : L = Listing(name) /\ t = Text(v, name)
  OBVIOUS
<1>1. out[1] = L /\ \A w \in Numbered : name[w] # NoName
  <2>1. out = <<L>>
    BY DEF TextInv, OutInv
  <2> QED BY <2>1 DEF TextInv, OutInv
<1>2. /\ \A m \in DOMAIN Args : L.params[m] = Text(Args[m], name)
      /\ \A i \in DOMAIN added :
           /\ L.blocks[i].label = Text(added[i], name)
           /\ \A j \in DOMAIN instrs[added[i]] :
                L.blocks[i].lines[j].def = IF is_void(instrs[added[i]][j]) THEN <<>>
                                           ELSE <<Text(instrs[added[i]][j], name)>>
  BY DEF Listing, Line
<1>3. /\ Range(Args) \cap Other = {} /\ Range(Args) \subseteq Value /\ Entry \notin Range(Args)
      /\ Range(added) \subseteq Block /\ Nonvoid \subseteq Instr /\ Numbered \subseteq Value
  <2>1. Args \in Seq(Value \ (Instr \cup Block \cup Other))
    BY DEF IInv, Args
  <2>2. added \in Seq(Block)
    BY DEF TextInv, BlockInv
  <2>3. Nonvoid \subseteq Instr
    BY UsableNames DEF Nonvoid
  <2>4. Range(Args) \subseteq Value \ (Instr \cup Block \cup Other) /\ Range(added) \subseteq Block
    BY <2>1, <2>2, RangeWithin
  <2> QED BY <2>3, <2>4 DEF Numbered
<1>4. Numbered \cap Other = {}
  BY <1>3 DEF Numbered
<1>5. t[2] = name[v] /\ t[2] # NoName
  BY <1>1 DEF Text
<1>6. ASSUME NEW w \in Numbered, Text(w, name) = t PROVE w = v
  <2>1. name[w] = name[v] /\ v \in Value /\ w \in Value
    BY <1>3, <1>6 DEF Text
  <2>2. name[v] \in Nat \/ name[v] = Given
    BY <1>1, <2>1 DEF TextInv, NamesInv
  <2>3. CASE name[v] \in Nat
    BY <2>1, <2>3 DEF TextInv, NamesInv
  <2>4. CASE name[v] = Given
    BY <1>4, <2>1, <2>4 DEF TextInv, NamesInv
  <2> QED BY <2>2, <2>3, <2>4
<1> DEFINE A == {Args[n] : n \in {m \in DOMAIN Args : out[1].params[m] = t}}
           B == {added[i] : i \in {m \in DOMAIN added : out[1].blocks[m].label = t}}
           at(i) == {m \in DOMAIN instrs[added[i]] : out[1].blocks[i].lines[m].def = <<t>>}
           C(i) == {instrs[added[i]][j] : j \in at(i)}
<1>7. Defined(t) = A \cup B \cup UNION {C(i) : i \in DOMAIN added}
  BY <1>5 DEF Defined
<1>8. A \subseteq {v}
  <2> SUFFICES ASSUME NEW m \in DOMAIN Args, L.params[m] = t PROVE Args[m] = v
    BY <1>1
  <2>1. Args[m] \in Numbered
    BY DEF Numbered, Range
  <2> QED BY <1>2, <1>6, <2>1
<1>9. B \subseteq {v}
  <2> SUFFICES ASSUME NEW m \in DOMAIN added, L.blocks[m].label = t PROVE added[m] = v
    BY <1>1
  <2>1. added[m] \in Numbered
    BY DEF Numbered, Range
  <2> QED BY <1>2, <1>6, <2>1
<1>10. ASSUME NEW i \in DOMAIN added, NEW j \in DOMAIN instrs[added[i]]
       PROVE  instrs[added[i]][j] \in Built /\ added[i] \in Block
  <2>1. added[i] \in Block
    BY <1>3 DEF Range
  <2>2. instrs[added[i]][j] \in Range(instrs[added[i]])
    BY DEF Range
  <2> QED BY <2>1, <2>2, BuiltIn DEF TextInv
<1>11. ASSUME NEW i \in DOMAIN added PROVE C(i) \subseteq {v}
  <2> SUFFICES ASSUME NEW j \in DOMAIN instrs[added[i]], L.blocks[i].lines[j].def = <<t>>
               PROVE  instrs[added[i]][j] = v
    BY <1>1
  <2> PICK u : u = instrs[added[i]][j]
    OBVIOUS
  <2>1. <<t>> = IF is_void(u) THEN <<>> ELSE <<Text(u, name)>>
    BY <1>2
  <2>2. ~is_void(u) /\ Text(u, name) = t
    BY <2>1
  <2>3. u \in Numbered
    BY <1>10, <2>2 DEF Numbered, Nonvoid
  <2> QED BY <1>6, <2>2, <2>3
<1>12. v \in A \cup B \cup UNION {C(i) : i \in DOMAIN added}
  <2>1. CASE v \in Range(Args)
    <3> PICK m \in DOMAIN Args : Args[m] = v
      BY <2>1 DEF Range
    <3>1. out[1].params[m] = t
      BY <1>1, <1>2
    <3> QED BY <3>1
  <2>2. CASE v \in Range(added)
    <3> PICK m \in DOMAIN added : added[m] = v
      BY <2>2 DEF Range
    <3>1. out[1].blocks[m].label = t
      BY <1>1, <1>2
    <3> QED BY <3>1
  <2>3. CASE v \in Nonvoid
    <3>1. PICK b \in Block : v \in Range(instrs[b])
      BY <2>3 DEF Nonvoid, Built
    <3>2. b \in Range(added) /\ ~is_void(v)
      BY <2>3, <3>1 DEF Nonvoid, TextInv, BlockInv
    <3> PICK i \in DOMAIN added : added[i] = b
      BY <3>2 DEF Range
    <3> PICK j \in DOMAIN instrs[added[i]] : instrs[added[i]][j] = v
      BY <3>1 DEF Range
    <3>3. out[1].blocks[i].lines[j].def = <<t>>
      <4> PICK u : u = instrs[added[i]][j]
        OBVIOUS
      <4>1. L.blocks[i].lines[j].def = IF is_void(u) THEN <<>> ELSE <<Text(u, name)>>
        BY <1>2
      <4>2. u = v /\ t = Text(v, name) /\ ~is_void(u)
        BY <3>2
      <4> QED BY <1>1, <4>1, <4>2
    <3>4. v \in C(i)
      BY <3>3
    <3> QED BY <3>4
  <2> QED BY <2>1, <2>2, <2>3 DEF Numbered
<1> HIDE DEF A, B, C
<1>13. Defined(t) \subseteq {v}
  BY <1>7, <1>8, <1>9, <1>11
<1> QED BY <1>7, <1>12, <1>13

\* What an instruction refers to is what it is printed as.
LEMMA DenotesIs ==
  ASSUME IInv, TextInv, out # Nothing, NEW v \in Other \cup Numbered
  PROVE  Denotes(print_as_op(v, name)) = {v}
<1>1. CASE v \in Other
  BY <1>1 DEF Denotes, print_as_op, Ref
<1>2. CASE v \notin Other
  <2>1. v \in Numbered
    BY <1>2
  <2>2. Defined(Text(v, name)) = {v}
    BY <2>1, DefinedIs
  <2> QED BY <1>2, <2>2 DEF Denotes, print_as_op, Ref
<1> QED BY <1>1, <1>2

\* The predecessors a phi has no pair for.
LeftOf(ops, preds) ==
  IF Len(ops) \div 2 < Len(preds) THEN Kept(preds, Block \ Range(ops)) ELSE <<>>
LeftOver(ops, preds, left) ==
  /\ left \in Seq(Block) /\ Once(left) /\ Range(left) \cap Range(ops) = {}
  /\ Range(left) \subseteq Range(preds) /\ Range(preds) \subseteq Range(ops) \cup Range(left)

\* ... are all of them.
LEMMA LeftFacts ==
  ASSUME NEW T, NEW ops, NEW preds, NEW left, ops \in Seq(T), preds \in Seq(Block),
         PhiOK(ops, preds), Once(preds), left = LeftOf(ops, preds)
  PROVE  LeftOver(ops, preds, left)
<1> PICK S, k, l, h : S = Block \ Range(ops) /\ k = Len(ops) \div 2 /\ l = Len(ops) /\ h = Len(preds)
  OBVIOUS
<1>1. l \in Nat /\ h \in Nat /\ k \in Nat /\ l = 2 * k /\ DOMAIN ops = 1 .. l
  <2>1. l \in Nat /\ h \in Nat /\ DOMAIN ops = 1 .. l
    OBVIOUS
  <2>2. l % 2 = 0
    BY DEF PhiOK
  <2> QED BY <2>1, <2>2
<1>2. CASE k < h
  <2> PICK q : q = Kept(preds, S)
    OBVIOUS
  <2>1. left = q
    BY <1>2 DEF LeftOf
  <2>2. q \in Seq(Block) /\ Range(q) = Range(preds) \cap S /\ Once(q)
    BY KeptFacts
  <2>3. Range(preds) \subseteq Block
    BY RangeWithin
  <2> QED BY <2>1, <2>2, <2>3 DEF LeftOver
<1>3. CASE ~(k < h)
  <2> PICK e : e = <<>>
    OBVIOUS
  <2>1. left = e
    BY <1>3 DEF LeftOf
  <2>2. e \in Seq(Block) /\ DOMAIN e = {}
    OBVIOUS
  <2>3. Once(e) /\ Range(e) = {}
    BY <2>2 DEF Range, Once
  <2>4. Len(ops) \in Nat /\ k >= h
    BY <1>1, <1>3
  <2>5. \A p \in Range(preds) : \E n \in 1 .. k : ops[2 * n] = p
    BY <2>4, PredsCovered
  <2>6. ASSUME NEW n \in 1 .. k PROVE ops[2 * n] \in Range(ops)
    <3>1. 2 * n \in 1 .. l
      BY <1>1
    <3> QED BY <1>1, <3>1 DEF Range
  <2>7. Range(preds) \subseteq Range(ops)
    BY <2>5, <2>6
  <2> QED BY <2>1, <2>2, <2>3, <2>7 DEF LeftOver
<1> QED BY <1>2, <1>3

\* The list of a phi: its pairs, then the predecessors left, with undef.
PhiList(refs, ops, left) ==
  /\ Len(refs) = Len(ops) + 2 * Len(left)
  /\ \A n \in 1 .. Len(ops) : refs[n] = print_as_op(ops[n], name)
  /\ \A n \in 1 .. Len(left) : /\ refs[Len(ops) + 2 * n - 1] = Ref("undef", 0)
                              /\ refs[Len(ops) + 2 * n] = print_as_op(left[n], name)

\* That is what PhiInst::print makes.
LEMMA PhiRefsAre ==
  ASSUME NEW u, NEW V, operands[u] \in Seq(V), NEW left, left \in Seq(V),
         left = LeftOf(operands[u], pre[Home(u)])
  PROVE  PhiList(PhiRefs(u, name), operands[u], left)
<1> PICK ops, l, h : ops = operands[u] /\ l = Len(ops) /\ h = Len(left)
  OBVIOUS
<1>1. l \in Nat /\ h \in Nat /\ DOMAIN ops = 1 .. l /\ DOMAIN left = 1 .. h
  OBVIOUS
<1>2. \A n \in 1 .. l : ops[n] \in V
  BY <1>1
<1>3. \A n \in 1 .. h : left[n] \in V
  BY <1>1
<1> PICK p, r : /\ p = [n \in 1 .. l |-> print_as_op(ops[n], name)]
                /\ r = [n \in 1 .. 2 * h |-> IF n % 2 = 1 THEN Ref("undef", 0)
                                                          ELSE print_as_op(left[n \div 2], name)]
  OBVIOUS
<1> PICK all : all = PhiRefs(u, name)
  OBVIOUS
<1>4. all = p \o r
  <2>1. all = [n \in DOMAIN ops |-> print_as_op(ops[n], name)]
              \o [n \in 1 .. 2 * Len(left) |-> IF n % 2 = 1 THEN Ref("undef", 0)
                                               ELSE print_as_op(left[n \div 2], name)]
    BY DEF PhiRefs, LeftOf
  <2> QED BY <1>1, <2>1
<1> PICK T : T = {print_as_op(v, name) : v \in V} \cup {Ref("undef", 0)}
  OBVIOUS
<1>5. p \in Seq(T) /\ Len(p) = l
  <2>1. \A n \in 1 .. l : p[n] \in T
    BY <1>2
  <2>2. l \in Nat /\ p = [n \in 1 .. l |-> p[n]]
    BY <1>1
  <2> QED BY ONLY <2>1, <2>2
<1>6. r \in Seq(T) /\ Len(r) = 2 * h
  <2>1. ASSUME NEW n \in 1 .. 2 * h PROVE r[n] \in T
    <3>1. CASE n % 2 = 1
      BY <3>1
    <3>2. CASE n % 2 # 1
      <4> PICK k : k = n \div 2
        OBVIOUS
      <4>1. k \in 1 .. h
        BY ONLY <1>1, <3>2, k = n \div 2, n \in 1 .. 2 * h
      <4>2. left[k] \in V
        BY <1>3, <4>1
      <4> QED BY <3>2, <4>2
    <3> QED BY <3>1, <3>2
  <2> PICK m : m = 2 * h
    OBVIOUS
  <2>2. m \in Nat
    BY <1>1
  <2>3. r = [n \in 1 .. m |-> r[n]] /\ \A n \in 1 .. m : r[n] \in T
    BY <2>1
  <2>4. r \in Seq(T) /\ Len(r) = m
    BY ONLY <2>2, <2>3
  <2> QED BY <2>4
<1>7. Joined(T, p, r, all)
  BY <1>4, <1>5, <1>6, BothLists
<1>8. /\ Len(all) = l + 2 * h
      /\ \A n \in 1 .. l : all[n] = p[n]
      /\ \A n \in 1 .. 2 * h : all[l + n] = r[n]
  BY ONLY <1>5, <1>6, <1>7 DEF Joined
<1>9. ASSUME NEW n \in 1 .. h
      PROVE  all[l + 2 * n - 1] = Ref("undef", 0) /\ all[l + 2 * n] = print_as_op(left[n], name)
  <2> PICK i, j : i = 2 * n - 1 /\ j = 2 * n
    OBVIOUS
  <2>1. h \in Nat /\ l \in Nat /\ n \in 1 .. h /\ i = 2 * n - 1 /\ j = 2 * n
    BY <1>1
  <2>2. /\ i \in 1 .. 2 * h /\ j \in 1 .. 2 * h /\ i % 2 = 1 /\ j % 2 # 1 /\ j \div 2 = n
        /\ l + 2 * n - 1 = l + i /\ l + 2 * n = l + j
    BY ONLY <2>1
  <2>3. all[l + i] = r[i] /\ all[l + j] = r[j]
    BY <1>8, <2>2
  <2>4. r[i] = Ref("undef", 0) /\ r[j] = print_as_op(left[n], name)
    BY <2>2
  <2> QED BY <2>2, <2>3, <2>4
<1>10. \A n \in 1 .. l : all[n] = print_as_op(ops[n], name)
  BY <1>8
<1> QED BY <1>8, <1>9, <1>10 DEF PhiList

\* The line of an instruction says what its operands are.
LEMMA LineReadsBack ==
  ASSUME IInv, TextInv, out # Nothing, NEW u \in Built
  PROVE  ReadsBack(u, Line(u, name))
<1> PICK ops, preds, V : ops = operands[u] /\ preds = pre[Home(u)] /\ V = Value
  OBVIOUS
<1>1. ops \in Seq(V) /\ preds \in Seq(Block) /\ Once(preds) /\ Range(preds) \subseteq Numbered /\ Block \subseteq V
  <2>1. u \in Instr /\ Home(u) \in Block
    BY UsableNames DEF Built, Home
  <2>2. ops \in Seq(V)
    BY <2>1, LightIRAssumption DEF IInv, UseTypeOK
  <2>3. preds \in Seq(Block) /\ Once(preds) /\ Range(preds) \subseteq Numbered
    BY <2>1 DEF TextInv, PreInv, Numbered
  <2> QED BY <2>2, <2>3, LightIRAssumption
<1>2. \A n \in DOMAIN ops : Denotes(print_as_op(ops[n], name)) = {ops[n]}
  <2> TAKE n \in DOMAIN ops
  <2>1. ops[n] \in Other \cup Numbered
    BY DEF TextInv, OperandInv, Range
  <2> QED BY <2>1, DenotesIs
<1>3. CASE kind[u] # "phi"
  <2> PICK refs : refs = Line(u, name).refs
    OBVIOUS
  <2>1. refs = [n \in DOMAIN ops |-> print_as_op(ops[n], name)]
    BY <1>3 DEF Line
  <2>2. DOMAIN refs = DOMAIN ops /\ \A n \in DOMAIN refs : Denotes(refs[n]) = {ops[n]}
    BY <1>2, <2>1
  <2> QED BY <1>3, <2>2 DEF ReadsBack
<1>4. CASE kind[u] = "phi"
  <2> PICK refs, left : refs = PhiRefs(u, name) /\ left = LeftOf(ops, preds)
    OBVIOUS
  <2>1. Line(u, name).refs = refs
    BY <1>4 DEF Line
  <2>2. PhiOK(ops, preds)
    BY <1>4 DEF TextInv, OperandInv
  <2>3. LeftOver(ops, preds, left)
    BY <1>1, <2>2, LeftFacts
  <2>4. left \in Seq(Block)
    BY <2>3 DEF LeftOver
  <2>5. left \in Seq(V)
    BY ONLY <1>1, <2>4
  <2>6. PhiList(refs, ops, left)
    BY <1>1, <2>5, PhiRefsAre
  <2> PICK l, h, N : l = Len(ops) /\ h = Len(left) /\ N = Len(refs)
    OBVIOUS
  <2>0. l = Len(ops) /\ h = Len(left)
    OBVIOUS
  <2>7. l \in Nat /\ h \in Nat /\ DOMAIN ops = 1 .. l /\ DOMAIN left = 1 .. h
    BY <1>1, <2>4
  <2>8. N = l + 2 * h
    BY <2>6 DEF PhiList
  <2>9. N \in Nat
    BY ONLY <2>7, <2>8
  <2> PICK den : den = [n \in 1 .. N |-> Denotes(refs[n])]
    OBVIOUS
  <2>10. Len(den) = N
    <3> PICK T : T = {den[n] : n \in 1 .. N}
      OBVIOUS
    <3>1. N \in Nat /\ den = [n \in 1 .. N |-> den[n]] /\ \A n \in 1 .. N : den[n] \in T
      BY <2>9
    <3>2. Len(den) = N
      BY ONLY <3>1
    <3> QED BY <3>2
  <2>11. ASSUME NEW n \in 1 .. l PROVE den[n] = {ops[n]}
    <3>0. n \in 1 .. l
      OBVIOUS
    <3>1. n \in 1 .. N
      BY ONLY <2>7, <2>8, <3>0
    <3>2. refs[n] = print_as_op(ops[n], name)
      BY <2>6 DEF PhiList
    <3> QED BY <1>2, <2>7, <3>1, <3>2
  <2>12. ASSUME NEW n \in 1 .. h PROVE den[l + 2 * n - 1] = {} /\ den[l + 2 * n] = {left[n]}
    <3> PICK i, j : i = l + 2 * n - 1 /\ j = l + 2 * n
      OBVIOUS
    <3>0. n \in 1 .. h /\ i = l + 2 * n - 1 /\ j = l + 2 * n
      OBVIOUS
    <3>1. i \in 1 .. N /\ j \in 1 .. N
      BY ONLY <2>7, <2>8, <3>0
    <3>2. refs[i] = Ref("undef", 0) /\ refs[j] = print_as_op(left[n], name)
      BY <2>6 DEF PhiList
    <3>3. left[n] \in Range(left)
      BY <2>7 DEF Range
    <3>4. left[n] \in Numbered
      BY <1>1, <2>3, <3>3 DEF LeftOver
    <3>5. Denotes(print_as_op(left[n], name)) = {left[n]}
      BY <3>4, DenotesIs
    <3>6. Denotes(refs[i]) = {}
      BY <3>2 DEF Denotes, Ref
    <3> QED BY <3>1, <3>2, <3>5, <3>6
  <2>13. Listed(ops, preds, left, den)
    <3>1. Len(den) = Len(ops) + 2 * Len(left)
      BY <2>8, <2>10
    <3>2. \A n \in 1 .. Len(ops) : den[n] = {ops[n]}
      BY ONLY <2>0, <2>11
    <3>3. \A n \in 1 .. Len(left) : /\ den[Len(ops) + 2 * n - 1] = {}
                                   /\ den[Len(ops) + 2 * n] = {left[n]}
      BY ONLY <2>0, <2>12
    <3>4. /\ left \in Seq(Block) /\ Once(left) /\ Range(left) \cap Range(ops) = {}
          /\ Range(left) \subseteq Range(preds) /\ Range(preds) \subseteq Range(ops) \cup Range(left)
      BY ONLY <2>3 DEF LeftOver
    <3> QED BY ONLY <3>1, <3>2, <3>3, <3>4 DEF Listed
  <2> PICK D : D = Len(den) \div 2
    OBVIOUS
  <2>14. OneForEach(ops, preds, den, D)
    BY <1>1, <2>2, <2>13, PairsReadBack
  <2>15. D = N \div 2
    BY <2>10
  <2>16. ASSUME NEW n \in 1 .. D
         PROVE  den[2 * n] = Denotes(refs[2 * n]) /\ den[2 * n - 1] = Denotes(refs[2 * n - 1])
    <3>0. n \in 1 .. D
      OBVIOUS
    <3>1. 2 * n \in 1 .. N /\ 2 * n - 1 \in 1 .. N
      BY ONLY <2>9, <2>15, <3>0
    <3> QED BY <3>1
  <2>17. ASSUME NEW n \in 1 .. D, NEW m \in 1 .. D, Denotes(refs[2 * n]) = Denotes(refs[2 * m])
         PROVE  n = m
    <3>1. den[2 * n] = den[2 * m]
      BY <2>16, <2>17
    <3>2. \A i, j \in 1 .. D : den[2 * i] = den[2 * j] => i = j
      BY <2>14 DEF OneForEach
    <3> QED BY <3>1, <3>2
  <2>18. {Denotes(refs[2 * n]) : n \in 1 .. D} = {{p} : p \in Range(preds)}
    <3>1. {Denotes(refs[2 * n]) : n \in 1 .. D} = {den[2 * n] : n \in 1 .. D}
      BY ONLY <2>16
    <3>2. {den[2 * n] : n \in 1 .. D} = {{p} : p \in Range(preds)}
      BY ONLY <2>14 DEF OneForEach
    <3> QED BY ONLY <3>1, <3>2
  <2>19. ASSUME NEW n \in 1 .. D
         PROVE  Denotes(refs[2 * n - 1]) =
                  {ops[2 * m - 1] : m \in {m \in 1 .. Len(ops) \div 2 : Denotes(refs[2 * n]) = {ops[2 * m]}}}
    <3> PICK x, y : x = den[2 * n] /\ y = den[2 * n - 1]
      OBVIOUS
    <3>1. y = ValueFor(ops, x)
      BY <2>14 DEF OneForEach
    <3>2. x = Denotes(refs[2 * n]) /\ y = Denotes(refs[2 * n - 1])
      BY <2>16
    <3>3. Denotes(refs[2 * n - 1]) = ValueFor(ops, Denotes(refs[2 * n]))
      BY <3>1, <3>2
    <3> QED BY ONLY <3>3 DEF ValueFor
  <2> PICK line : line = Line(u, name)
    OBVIOUS
  <2>20. /\ \A n, m \in 1 .. Len(line.refs) \div 2 :
              Denotes(line.refs[2 * n]) = Denotes(line.refs[2 * m]) => n = m
         /\ {Denotes(line.refs[2 * n]) : n \in 1 .. Len(line.refs) \div 2}
              = {{p} : p \in Range(pre[Home(u)])}
    BY <2>1, <2>15, <2>17, <2>18
  <2>21. \A n \in 1 .. Len(line.refs) \div 2 :
           Denotes(line.refs[2 * n - 1]) =
             {operands[u][2 * m - 1] : m \in {m \in Pairs(u) : Denotes(line.refs[2 * n]) = {operands[u][2 * m]}}}
    <3> TAKE n \in 1 .. Len(line.refs) \div 2
    <3>1. n \in 1 .. D /\ line.refs = refs
      BY <2>1, <2>15
    <3>2. Pairs(u) = 1 .. Len(ops) \div 2
      BY DEF Pairs
    <3>3. Denotes(refs[2 * n - 1]) =
            {ops[2 * m - 1] : m \in {m \in 1 .. Len(ops) \div 2 : Denotes(refs[2 * n]) = {ops[2 * m]}}}
      BY <2>19, <3>1
    <3> QED BY ONLY <3>1, <3>2, <3>3, ops = operands[u]
  <2>22. ReadsBack(u, line)
    BY ONLY <1>4, <2>20, <2>21 DEF ReadsBack
  <2> QED BY <2>22
<1> QED BY <1>3, <1>4

\* Whichever passes ran and however often the module was printed before, the
\* text it is printed as reads back as the function (Function::set_instr_name,
\* Function::print, PhiInst::print).
THEOREM ListingsReadBack == Spec => []ListingReadsBack
<1>1. IInv /\ TextInv => ListingReadsBack
  <2> SUFFICES ASSUME IInv, TextInv, out # Nothing,
                      NEW i \in DOMAIN added, NEW j \in DOMAIN instrs[added[i]]
               PROVE  ReadsBack(instrs[added[i]][j], out[1].blocks[i].lines[j])
    BY DEF ListingReadsBack
  <2> PICK u : u = instrs[added[i]][j]
    OBVIOUS
  <2>1. out = <<Listing(name)>>
    BY DEF TextInv, OutInv
  <2>2. out[1].blocks[i].lines[j] = Line(u, name)
    BY <2>1 DEF Listing
  <2>3. u \in Built
    <3> PICK b : b = added[i]
      OBVIOUS
    <3>1. added \in Seq(Block)
      BY DEF TextInv, BlockInv
    <3>2. b \in Block
      BY <3>1
    <3>3. u \in Range(instrs[b])
      BY DEF Range
    <3> QED BY <3>2, <3>3, BuiltIn DEF TextInv
  <2>4. ReadsBack(u, Line(u, name))
    BY <2>3, LineReadsBack
  <2> QED BY <2>2, <2>4
<1> QED BY InitInv, NextInv, InitTypes, NextTypes, InitText, NextText, <1>1, PTL DEF Spec
=============================================================================
