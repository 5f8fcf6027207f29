------------------------------ MODULE UseLists ------------------------------
(***************************************************************************)
(* Value and User: every user holds a vector of operands, every value a    *)
(* list of uses, one entry per operand position it fills.  The two are     *)
(* kept in step by hand.  A use list is a bag of (user, position) entries: *)
(* nothing depends on its order.                                           *)
(***************************************************************************)
EXTENDS Naturals, Sequences

CONSTANTS Value,   \* what can be used
          User,    \* what has operands
          MaxOps   \* bound: the operands of one user

ASSUME UseListsAssumption == User \subseteq Value /\ MaxOps \in Nat

VARIABLES operands,  \* operands_ of every user
          uses       \* use_list_ of every value: how often it holds an entry

ArgNo   == 0 .. MaxOps - 1
NoUses  == [p \in User \X ArgNo |-> 0]
uselist == <<operands, uses>>

UseInit == /\ operands = [u \in User |-> <<>>]
           /\ uses = [v \in Value |-> NoUses]

\* User::set_operand on the fresh positions of a constructor, and
\* User::add_operand: s follows the operands u has.
Extend(u, s) ==
  LET n == Len(operands[u])
  IN  /\ operands' = [operands EXCEPT ![u] = @ \o s]
      /\ uses' = [v \in Value |-> [p \in User \X ArgNo |->
           IF p[1] = u /\ p[2] \in n .. n + Len(s) - 1 /\ s[p[2] - n + 1] = v
           THEN uses[v][p] + 1 ELSE uses[v][p]]]

\* mutant: the old list keeps its entries
ReplaceUsesKeeping(old, new, users) ==
  /\ operands' = [u \in User |-> [i \in 1 .. Len(operands[u]) |->
       IF u \in users /\ uses[old][<<u, i - 1>>] > 0 THEN new ELSE operands[u][i]]]
  /\ uses' = [v \in Value |-> [p \in User \X ArgNo |->
       IF p[1] \in users /\ v = new THEN uses[v][p] + uses[old][p] ELSE uses[v][p]]]

\* Value::replace_use_with_when for the users of a set, and, for all of them,
\* Value::replace_all_use_with: set_operand at every position the list names,
\* which enters the use at the new value; the old list loses its entry.
ReplaceUses(old, new, users) ==
  /\ operands' = [u \in User |-> [i \in 1 .. Len(operands[u]) |->
       IF u \in users /\ uses[old][<<u, i - 1>>] > 0 THEN new ELSE operands[u][i]]]
  /\ uses' = [v \in Value |-> [p \in User \X ArgNo |->
       CASE p[1] \in users /\ v = old -> 0
         [] p[1] \in users /\ v = new -> uses[v][p] + uses[old][p]
         [] OTHER                     -> uses[v][p]]]

\* User::remove_use_of_ops for the users of a set, which are then freed.
Free(users) ==
  /\ uses' = [v \in Value |-> [p \in User \X ArgNo |->
       IF p[1] \in users /\ \E i \in 1 .. Len(operands[p[1]]) : operands[p[1]][i] = v
       THEN 0 ELSE uses[v][p]]]
  /\ operands' = [u \in User |-> IF u \in users THEN <<>> ELSE operands[u]]

\* The users of a value.
UsersOf(v) == {p[1] : p \in {q \in User \X ArgNo : uses[v][q] > 0}}

\* The use list of a value names exactly the positions that hold it, each
\* once: what replace_all_use_with, the work lists of FuncInfo and the
\* removal of a dead instruction rely on.
Mirror ==
  \A v \in Value : \A u \in User : \A i \in ArgNo :
    uses[v][<<u, i>>] = IF i < Len(operands[u]) /\ operands[u][i + 1] = v THEN 1 ELSE 0
=============================================================================
