# A verification of the cminus compiler

The repository is a compiler for a small C-like language: a lexer and parser
make a syntax tree, `AST` turns it into classes, `CminusfBuilder` walks those
and emits LightIR, a few passes improve it (`-mem2reg`, `-gvn`), and the IR is
printed and handed to clang.  Everything runs in one thread and keeps nothing
on disk.  What is hard in it is not concurrency but *order*: worklists whose
order is an accident of allocation, fixpoints over cyclic graphs, a stack of
values shared by a whole tree walk, globals that pass from a visit to the next,
maps that outlive the run that filled them, two lists kept in step by hand.
These modules model the compiler at that level, one turn of a loop per action,
and leave the wording of output out.

## Inventory

| component | state it keeps | operations | talks to | correct when |
|---|---|---|---|---|
| parser, syntax tree, `AST` | the tree, the AST, the printer's `depth` | grammar actions, `transform_node_iter`, `ASTPrinter` | builder | the AST is the program that was written |
| `CminusfBuilder`, `Scope` | insert point, `tmp_val`, `require_lvalue`, `pre_enter_scope`, scopes | one `visit` per AST node | makes the IR | blocks end in one terminator, names resolve as the language says |
| `Value`/`User` | `use_list_`, `operands_` | `set_operand`, `add_operand`, `replace_all_use_with`, `replace_use_with_when`, `remove_use_of_ops` | every pass that rewrites | the two lists mirror each other, nobody frees what is still listed |
| instructions, types | instruction lists, the type maps of `Module` | the `create_*` functions, `get_pointer_type`, ... | builder, passes | an operand has the type the instruction needs, equal types are one object |
| naming, printing | `seq_cnt_`, `name_` | `set_instr_name`, `print` | driver | the listing is the function, however often it is printed |
| control-flow graph (`BasicBlock`, `BranchInst`, `Function`) | block list, `pre_bbs_`, `succ_bbs_` | a branch registers its edge at both ends | read by every pass | both lists describe the same edges |
| `Dominators` | `post_order_id_`, `idom_`, `dom_frontier_`, `dom_tree_succ_blocks_` | `run` | reads the graph; used by Mem2Reg | the answers are dominance, and it returns |
| `Mem2Reg` | `var_val_stack` (a global), phis, the instruction lists | `generate_phi`, `re_name`, `remove_alloca` | Dominators, use lists | the code computes what it did, nothing dangles |
| `FuncInfo` | `is_pure`, `worklist` (kept between runs) | `run`, `is_pure_function` | use lists of functions; used by DeadCode and GVN | pure means pure |
| `DeadCode` | `marked`, `work_list`, `ins_count` | `run` = FuncInfo, then mark and sweep to a fixpoint | FuncInfo, use lists; used by GVN | only and all useless instructions go |
| `GVN`, `ConstFolder` | `pin_`, `pout_`, value numbers | `run` = FuncInfo, DeadCode, detect, replace, DeadCode | all of the above | members of a class are equal where one replaces another |
| driver, `PassManager`, runtime, logging | list of passes | `run` | all | passes run in order |

The hard behaviours, each with its line and the properties that cover it, are
listed under `hazards` in `PROJECT.json`.

## Modules

**Front end.**  `SyntaxTree` is what bison's reductions leave of a list of
tokens, rule by rule; the automaton itself is external.  `AST` is
`transform_node_iter`, the flattening of the left-recursive lists and the
printer.  `Frontend` runs a file through them: `parse`, `MakeAST` (which frees
the tree), `run_visitor`.  A program starts out as the AST it should become;
`Text` writes it the way the language description does, and `SameProgram` asks
that what comes out is what went in.

**IR generation.**  `IRGen` models `CminusfBuilder` on the statements of one
function.  A visit method is cut where it accepts a child; what it does
afterwards, with the blocks it keeps in locals meanwhile, is a frame on `todo`
(`waiting` are the blocks it will fill later).  The syntax tree is not an
input: each visit chooses the node it meets, so a run covers every tree within
the bounds.  A variable's value is the place of its `alloca`, so what a name
was resolved to can be compared with what dominates it.  Of an expression only
what reaches the graph is kept: a variable is used, and an index splits the
block.  `IRGenGraph` states what the passes may rely on.

`ExprGen` models the expression visits: `tmp_val` and `require_lvalue` pass
from child to parent, frames hold what a method has saved.  A value is the term
of instructions that makes it, with its type; stores and calls are the list
`effects`, and a load, a call and a checked index know how many of them came
before.  `Meaning` is the reference, by recursion on the tree; which side of an
assignment it takes first is its parameter.

**LightIR.** `UseLists` has operands and use lists and the ways they change; an
entry is a (user, operand number) pair. `replace_all_use_with` walks a list
while it rewrites the operands; `ReplaceUses` is the end of that walk, in one
step. `TypeTable` has the objects of the types and the maps that find them
again; a type is its address. `LightIR` puts them under one function: the
`Create` actions are the create functions with the types they assert,
`StartPasses` ends building, then the passes' calls (`AddPhi`, `AddPair`,
`ReplaceLoad`, `ReplaceMember`, `EraseInstr`, `Sweep`) and `PrintModule` come in
any order. `PrintModule` names what has no name yet, completes phis with undef
pairs, and leaves the listing in `out`.

**Graph.**  `CFG` holds what the passes read of a function, `succ` and `pre`
lists per block, and, beside them, dominance defined by *paths*
(`ReachedAvoiding` drops a block and asks what is still reached), never by the
algorithm under test.

`Dominators` models `Dominators::run`.  The recursion of `post_order_visit` is
a stack of activations; `create_idom` is one action per turn of its loops
(`PickPredecessor`, `JoinPredecessor`, `Climb` and `Meet` for the two fingers
of `intersect`, `CommitIdom`, `EndPass`); `create_dominance_frontier` walks the
runner.  The null block is a key of `idom_` because `get_idom(nullptr)` creates
it.  An `assert` that fails is the state `assert_failed`.  `DominatorAnalysis`
is the abstract specification: one answer, and it is dominance by paths.
`Dominators` implements it under the mapping that shows the results when
`pc = "done"` (`ComputesDominance`).

**Passes.**  `Mem2Reg` models the work list of `generate_phi`, then `re_name`,
with its recursion as a stack of activations that carry the instruction
reached, the children left and `wait_delete`.  The sets of pointers it walks
are taken in any order.  `keys` is the key set of `var_val_stack`, kept apart
from the stacks because the code tests `find` and then uses `back()`: `back()`
of an empty stack is the state `undefined`.  It takes dominance from `CFG`,
which is what `Dominators` is shown to compute on graphs where every
predecessor of a reached block is reached; its programs are of that kind.
`Mem2RegRun` puts the function before and after the pass side by side: once the
pass is done one machine runs both along the same path, loads and stores on a
memory for the source, operands and phis (all at once, on the edge) for the
result.

`FuncInfo` models `FuncInfo::run` and `RunAgain`: DeadCode and GVN run it again
on the same object after instructions were erased.  `held` is the verdict of
the other FuncInfo object, the one GVN keeps from before the cleaning.
`DeadCode` is `MarkCritical`, one operand per `MarkOperand`, then `Unlink` and
`Erase` one instruction at a time in any order, because `wait_del` is a hash
set.

`ValueNumbering` has the functions GVN is built from: `ConstFolder` on words of
`Width` bits, value expressions, the transfer function of an instruction, `join`
and `intersect`. What ends a call without a result is a *fault* and ends the
pass: `Undef` where C++ leaves the outcome open (`BIN_TYPE` falls off its end, a
comparison reads a null pointer, at whatever depth of a cast, `front()` of an
empty list) and `Trap` where the folder divides by zero. A partition is a
sequence of classes in the order of their indexes, as the `std::set` keeps them;
whether older values have the lower addresses, which decides who leads a class,
is `low` of the function, and every function is run with both orders. `GVN` is
the pass: `initial`, `VisitBlock`, `EndRound` with its test of `changed`, then
`replace_cc_members` a block at a time. `GVNMeaning` runs a function before and
after on the same inputs and compares calls, stores and the returned value.

`FuncInfoProofs`, `DeadCodeProofs`, `LightIRProofs`, `IRGenProofs`,
`DominatorsProofs` and `Mem2RegProofs` hold the proofs of their components;
`Mem2RegInvariant` is the invariant of the renaming walk with its lemmas, and
`Reachability` the theory of paths and dominators both graph passes stand on.
The `MC` modules only define the inputs of the runs.

## Runs

| run | question | bounds and why they suffice |
|---|---|---|
| `frontend` | is the AST the program, does the printer list it whole | about 1500 programs: every rule, every statement within every other to depth three, operators in chains of three, lists of up to three elements; a rule of the grammar refers at most two levels down, so a wrong alternative shows there |
| `ir_gen` | terminators, open blocks, reducible, what is out of reach, does dominance follow scopes | two selections, loops or compounds in any nesting, two declarations, uses or indices of one name that may also be a parameter and a global; two levels hold a loop in an arm, an arm in a loop and a return in both arms of an inner `if`, one name every shadowing |
| `expr_gen` | does the code of an expression mean what the language says, where the order of the sides of an assignment makes no difference | all expressions of height two, and of height three with a plain other side, over an int, a float, an array, an array parameter, three functions; of these 1998 the order matters in 340 |
| `light_ir` | use lists, types, and does every listing read back as the function | five menus of instructions (arithmetic, floats and calls, addresses, memory, branches and phis) of three to five instructions and at most three blocks; four operands are a phi of two pairs or a call with arguments, two predecessors a join; three prints are one after each of two passes and main's own |
| `dominators` | is the answer dominance, do the asserts hold, does it return | every graph of 4 blocks with joins of at most 2 edges and both orders of predecessors, up to renumbering; 4 blocks hold a diamond, a loop, two nested loops and an irreducible loop, where a second pass of the fixpoint changes idoms |
| `dominators_returns` | does it return when a join has an unreached predecessor | the six blocks of one nested `if`; **no** |
| `mem2reg` | same values, exact phis, nothing dangling, stacks balanced, where may the stack assert fail | one variable, six 4-block shapes, three bodies per block (read, write, read-write-read), stored in the entry block or not; two variables swapped and copied in two 6-block shapes, where phis of one block read each other; runs of at most 8 blocks pass a loop twice |
| `func_info` | exact verdict, the queue drains; a second run on the old map, and GVN's older verdict | all 512 call relations on 3 functions times four kinds of function; cycles of 2 and 3 and self calls are among them; any loads and calls of pure functions erased before the second run |
| `dead_code` | exact, no use after free, ends | every relation "uses" on 3 instructions, one more in a second function |
| `gvn` | are partitions sound, does the pass change anything, does it end, are duplicates gone, is it defined | over a thousand functions, each with both orders of addresses, in the shapes the builder gives: straight, comparisons, addresses and memory, diamond, loop, loops whose phis read each other, nested ifs, a block behind two returns; words of 3 bits hold overflow and division of the least word; runs of 8 blocks; `MaxRounds` 6 is never reached |
| `gvn_phis` | and for phis that read phis of their block | 90 loops, the read in either direction or one of them; **no** |
| `gvn_rounds` | are the partitions a fixpoint when the rounds end | one loop; **no** |

Fairness: a pass is one sequential call, so the only assumption is weak
fairness of its next-state relation (`FairSpec`, and `Spec` of `GVN`): the
process keeps running while it has a step.  In `FuncInfo` only the steps of the
analysis are fair, a second run need not come.  That `Mem2Reg` ends is not asked:
each turn takes one element off a finite walk.  Deadlock is not checked where
the program really stops (a pass that has returned, a compilation that has
ended).  Where a proof has the types of a module (`TypeCorrect`) a run need not
check them again.

`SameResults` asks for the same behaviour where the partitions are a fixpoint
(`Settled`); where the rounds ended too early `gvn_rounds` already shows that
they may be wrong.  Two cases are left out.  A phi reads another phi of its
block, on either edge (`PhiReadsPhi`): `MeaningKept` asks it of those too, in
`gvn_phis`.  And the leader of a class is not there where a member it replaces
is used (`LeaderAhead`), which takes addresses that fall and a nested `if`; most
functions of either order are without it.  Runs that divide by zero, in the
program, are not compared.  `DefinedInOrder` says where the pass cannot come to
a fault that is undefined: where each block is reached from the entry through
blocks in list order.  `TrapsWithProgram` says where it divides by zero only for
a program that does: where there is one block.

## What disagrees with the code's own words

Shown by runs:

- **The frontier runner may not stop** (`dominators_returns`).  A block that is
  never reached but branches to a join has no idom; the runner goes to
  `nullptr`, and `get_idom(nullptr)` is `nullptr`.
- **A phi takes another's new value** (`gvn_phis`).  Phis of a successor are
  copied one after the other in `detectEquivalences`, though on the edge they
  happen at once, and a leader from an earlier round may have left its class.  In
  `while (u < a) { t = u - v; u = v; v = t; }` the partitions are a fixpoint and
  a use of `u` in the body becomes one of `v`.  A read in one direction is enough.
- **The rounds end early** (`gvn_rounds`).  `changed` is assigned anew for every
  block and classes are compared by members alone, so a loop may keep the
  constant of its first round.

Seen while modelling, and not runs of their own; the first five are what the
named property leaves out:

- A function that only reads a global is reported impure (`FuncInfo.h:90`), while
  the header (`FuncInfo.h:12`) speaks of writing and of calling what writes.
  `ImpureHasCause` has the header's causes and leaves out modules with such a
  reader; `PureIsPure`, `HeldStaysSound` and the theorem `MarkedIsLeast` cover
  them.
- An assignment visits its value before its address (`cminusf_builder.cpp:335`);
  the language description (`cminusf.md:136`) has the address first.  In
  `a[i] = h(p)` the index is read and checked after the call, `p[i] = (i = 0)`
  stores elsewhere.  `ComputesMeaning` has the order of the description and leaves
  out the 340 expressions in which it matters.
- `intersect` takes the member at the lowest address for the leader.  A phi of a
  successor is copied into a class at the end of a block it does not dominate;
  where it lies lowest it leads there and replaces the values it is made of, up to
  a phi of itself alone.  Addresses of a later function need not rise: Mem2Reg
  frees loads and stores, and later phis are allocated in their place.
  `SameResults` leaves it out (`LeaderAhead`).
- `BIN_TYPE` ends without a value where neither operand has a value expression
  (`GVN.cpp:445`).  Behind an `if ... else` whose first arm ends in another `if`
  is a block all of whose predecessors come later in the list; its partition is
  empty in the first round, and a product of two arguments there is such an
  expression.  `DefinedInOrder` leaves such functions out.
- The folder does not look at the divisor (`GVN.cpp:34`), even of a division in an
  arm that is never executed; the compiler is stopped.  `TrapsWithProgram` is about
  functions of one block.
- The assert of step 6 of `re_name` (`Mem2Reg.cpp:124`) fails for a variable
  stored in one arm only that is renamed first: its key is left with an empty
  stack.  The comment below it expects `[ undef, bb ]`.  `FailsOnlyUnstored` says
  exactly which variables it can fail for.

- The index check looks `neg_idx_except` up in the scopes open at that place: a
  local of that name is what it calls, and trips the assert of `create_call`.
- An alloca still loaded in a block nobody reaches is erased.
- With three predecessors `detectEquivalences` would join the first with the
  last and forget the one between; the builder joins at most two edges.
- `void x;` is declared a float (`ast.cpp:59`); the description forbids it.
- `0.0` and `-0.0` are one key of the cache of float constants.
- A literal above the int range makes `stoi` throw; a name of 30 characters is
  cut without its terminating zero.
- `User::remove_operands` leaves stale operand numbers; nothing calls it.

## Proofs

Checked by TLAPS for every value of the constants.  Each component's file ends
with the theorems; the invariant that carries them is at its head.

**`Reachability`.**  `CFG` computes what is reached in rounds, by a recursive
function.  What it computes is needed for every graph, and an induction over
data is out of the provers' reach; `UpTo` is the induction they can do: a set
that holds 0 and the next of each number holds them all up to a bound.  With it
the rounds are shown to reach the *least set* that holds the entry and is closed
under edges (`RoundsReach`), and from then on every proof argues with closed
sets: dominance is reflexive, transitive, antisymmetric, the dominators of a
block are a chain, the nearest one dominates each predecessor of a join or is
its frontier (`EdgeDom`, `FrontierIs`, `IdomIs`, `TreeIs`).

**`DominatorsProofs`**: `TypeCorrect`, `AssertsNeverFail`, `TreeAlwaysClimbs`,
`IdomClimbs`, `DominatorsStay` (`DominatorsOnChain`) and `DominanceComputed`,
the refinement `Spec => ComputesDominance`; for every graph with consistent
edge lists and no branch to the entry, unreached blocks and irreducible loops
included.  An ancestor of a block in the tree under construction is one that
lies in every set closed under idoms, which needs no induction.  That an idom
only climbs is not inductive: within a pass some blocks hang where this pass
put them and others where the last one did.  The invariant has these parts.

- The walk (`StackInv`, `NumberInv`) leaves a list in which every block but the
  entry has a predecessor ahead of it (`OrderInv`); so it has a predecessor with
  an idom when its turn comes, and the assert holds.
- The tree climbs and its blocks are listed (`TreeInv`).  The fingers are
  ancestors of their starts and everything common to the two starts stays above
  both (`MeetInv`), so they stay in the tree and new_idom is the lowest common
  ancestor.
- What this pass has handled is consistent along edges down the list
  (`ForwardInv`), and a path down the list leads from each idom to its block
  (`LeadsInv`).
- What is common to all predecessors of a block is above its idom, or the block
  has not had its turn and the ancestor was lost by a block that has
  (`AboveInv`).  When a block's turn comes the second case is impossible: the
  path from the block that lost it would carry the loss to a predecessor.  So
  the new idom is an ancestor of the old (`CommitLifts`).
- A dominator of a block is never lost from above it: the walk lists a
  successor only through a predecessor (`WalkInv`), so a block no ancestor of
  which is `a` is reached without `a` (`AvoidInv`).  The chain of idoms is as
  long as the tree is high, at most `N`, since post-order numbers climb
  (`SizeBound`, `ChainCloses`); with that the recursive `Chain` of the property
  is the set of ancestors.
- A pass that changes nothing leaves every idom a common ancestor of the
  predecessors (`QuietInv`).  Then the blocks an ancestor does not lie above
  are closed under edges, so ancestors dominate; with the part before, the
  ancestors *are* the dominators (`TreeExact`).
- Of the frontier: what the runner has passed of the block it is at, and what
  the blocks before it have got (`FrontierInv`); at the end it is the dominance
  frontier by paths (`FrontierExact`), and the children are those of the
  dominator tree (`ChildrenExact`).

Assumptions: `N \in Nat \ {0}`; the graphs are typed, their lists describe the
same edges and no branch goes back to the entry (`EdgesAgree`, below, proves
this of what the builder makes).

**`Mem2RegProofs`**: all five invariants of the run, `ValuesSame`,
`StacksDepth`, `FailureOnlyUnstored`, `NothingDangling`, `MinimalPhis`, for
every function whose instructions read what was computed before them (`Legal`).
The invariant is stated over two ghosts: `H`, for each block, place in it and
variable, the value that reaches the place, and `B`, the depth each stack had
when the walk entered a block.

- The walk (`WalkOK`): activations follow the dominator tree, each block is
  under way, waiting or returned, once.
- `ReachOK`: at a block's head a variable is what its phi is, or what it was at
  the end of the immediate dominator, and nothing when there is none;
  in a block it changes at stores only.  `H` grows along the walk and never
  changes behind it (`Grows`).
- `StacksOK`: the top of each stack is `H` at the place the walk has reached,
  and its depth `B` plus what the block has pushed; `KeysOK` ties the key set
  to the stacks, so a stack assert fails only on a variable that a path can
  leave unstored.
- `CodeOK` and `PairsOK`: what is left of a block reads `H`, and so does each
  pair of a phi, read at the end of the predecessor it names.
- `PhisOK`: the work list of `generate_phi` leaves a set of phis closed under
  frontiers (`ClosedOK`), and the least such (`Least`).  The lemma on which
  the correctness of the values rests follows: at the head of a join without a
  phi every predecessor ends with what the immediate dominator ends with
  (`EdgeValue`).  For `MinimalPhis` the same least set is reached by the rounds
  of the property's recursive function.
- `MachineOK`: the two runs are at the same place, and every register of the
  result that is still in the code holds what the source's memory holds.

`NothingDangling` adds that a block the walk has left holds only what stays
(`Clean`): loads and stores whose variable is promoted are gone and nothing
left names them.

Assumptions: `VarAssumption` (only scalars are promoted) and
`ProgramsAssumption` (`Legal`); the entry dominates every block, because no
branch goes back to it.

**`IRGenProofs`**: `BranchesEndBlocks` (`TerminatorLast`), `EveryBlockFilled`
(`NoBlockLost`), `EdgesAgree` (`EdgesMatch` as soon as there is a block),
`OrphansOnlyJoin` (`OrphansAreJoins`), `LoopsEnterAtHead` (`Reducible`) and
`DeclarationsDominate` (`DeclDominatesUse`), with no bound on nesting.

First the invariant of the visits, `IInv`: `NoBlockLost` is not inductive alone.

- `BlocksOK`: a terminator is last, both edge lists agree, a block has
  successors just when it has its branch, and never the same one twice.
- Of the frames: places that emit whatever the insert block holds (`Emitting`)
  and places that ask for a terminator first (`Joining`).  What follows an
  emitting place is a joining one, or follows an expression; an expression never
  ends its block.  So the insert block is open whenever an emitting place is
  reached (`StackInv`), which is what the code relies on without a test.
- Waiting blocks are empty, not the insert block, and each waits in one frame;
  a step fills the insert block and takes the next of the frame's own blocks, or
  new ones (`Fills`, `Replaces`).

Then the graph (`GraphInv`), by what every visit is to it: a move (`Moves`),
which adds edges only out of the insert block and only to new blocks, to blocks
its frame has waiting, or back to the head of its loop.

- A visit and the visits inside it own a *region*: the blocks made since a block
  `d`.  While it is under way nothing enters the region but through `d` and
  nothing waits outside for it (`Open`); when it ends the region is closed
  (`Shut`) for ever.  So a block is dominated by `d` once it lies in a region
  under `d` (`Under`, `UnderDominated`), and this survives every move.
- `LoopsInv`: the region of a loop under way is open at its head, so that the
  branch back comes from under the head.
- `NoKnot`: every set of blocks has one that blocks of the set lead to only from
  under it: without branches back there is no cycle.  `Grounded`: what is
  reached from the entry and from the blocks without predecessor is everything,
  so that nothing but a join of returning arms is not led to.
- At the end these are translated to `CFG`'s terms by `Reachability`.
  `Reducible` peels a graph round by round; that some order exists is turned
  into rounds by the induction `UpTo` (`PeelsExist`, `PeelsAll`).

Last the scopes (`UseIInv`, theorem `ScopesFollowRegions`).  `DeclDominatesUse`
speaks of the end, when the scopes are gone; while they are there:

- `Owned`: each scope but the outermost is left by one visit under way, the
  deeper scope by the inner visit.
- `BindInv`: a variable in scope was allocated in a block whose region is open
  until that visit ends (`Held`), so all that is built meanwhile lies in the
  region.  The region of a scope just entered is empty (`NewHeld`).
- `IndexInv`: a variable that waits for its index is held by a scope further
  out than the visit that waits.
- `UseInv`: a use comes after its alloca in the same block, or in a block under
  that of the alloca, or in a region still open that will lie under it.  When a
  scope is left its regions close, so the third case becomes the second
  (`VarsPop`).

So what `DominatorsProofs` and `Mem2RegProofs` assume of a graph holds of the
graphs the builder makes.  Assumption: the bounds are numbers.

**`FuncInfoProofs`**: `TypeCorrect`, `Sound`, `MarkedIsLeast`, `Precise`,
`HeldSound`. `MarkedIsLeast` says that the functions marked are the least set
the code's own judgement of their texts allows; `Precise` is `ImpureHasCause`,
the same with the header's causes. `PureIsPure` speaks of the end only; the
invariant that carries it says, at each moment, which obligations are still
open: an obviously impure function is marked once the loop has passed it, and a
caller of a marked function is marked unless the function is still in the queue
or the caller still in `uses`. `Precise` needs that every mark made in the
*current* run has a cause while the marks ahead of the loop are left over from
the run before. `HeldSound` needs that erasing loads and pure calls only shrinks
the causes, so the later least set is inside the first. Assumptions: `NumFuncs
\in Nat`, `MaxRuns >= 1`, `Modules` well typed.

**`DeadCodeProofs`**: `TypeCorrect`, `CriticalStays`, `OperandsStay`,
`NoTouchAfterFree`, `ExactUseLists`, `Complete`.  The invariant says that the
marked set is closed under operands up to what is on the work list or in `ops`,
so that when the list is empty the rest can go; that what is left always is
closed; that during `unlink` everything is still in memory; and that the use
lists are exact for all but the instructions already unlinked.  `Complete` adds
that marked instructions lie in every useful set, and that a pass in which
nothing changed left only marked ones.  Assumption: operands are instructions
of the same function.

**`LightIRProofs`**: `MirrorHolds`, `TypesMadeOnce` (`TypesOnce`) and
`ListingsReadBack` (`ListingReadsBack`), for functions of any size, any number
of passes and any number of prints.

- `IInv`, for `MirrorHolds`: a lemma for each way the lists of `UseLists` change
  (`ExtendMirrors`, replacing, unlinking), then one step per action.  It adds to
  `Mirror` that an instruction not made yet has no operands (`Fresh`), without
  which a new one could find entries of its own in the lists.
- `TypesInv`, for `TypesMadeOnce`: every type of the table refers to older ones
  only, and no two have the same fields (`TableOK`).  So what a type prints as
  is defined by induction along the table (`PrintsExist`), and two that print
  the same have the same fields, by the same induction (`SamePrint`).  The
  lemma about a client is that whatever it asks for is made of types that are
  there (`MadeTypes`, `WithGrows`).
- `TextInv`, for `ListingsReadBack`, says what the text relies on.  `BlockInv`:
  an instruction is in one block of the function.  `PreInv`: a predecessor is
  entered once, because while blocks are built only one that has its branch is
  a predecessor.  `OperandInv`: an operand has a name of its own or is among
  what gets a number, and the pairs of a phi are predecessors, each once
  (`PhiOK`); an erasure keeps it because what is erased has no users left,
  which is `Mirror`.  `NamesInv`: no number is given twice, at whatever call,
  because all are below `seq_cnt`.  `OutInv`: the text is of the function as it
  is.  Then a text has one value (`DefinedIs`).  `PhiInst::print` looks for
  predecessors without a pair only when there are fewer pairs than
  predecessors; that there is none otherwise is the pigeonhole (`PredsCovered`).
  The lists the names are taken from are the library's `FlattenSeq`;
  `FlattenFacts` and `KeptFacts` are the inductions along them.

Assumptions: instructions, blocks and the other values are different objects,
the menus name values, and the types the values have are made of types of the
module (`TypesAssumption`).

**Only model-checked.**  `ExprGen`, the front end and `GVN`: their meaning is
recursive on trees and terms, and a `RECURSIVE` operator takes tlapm's SMT
backend from every module that reaches it.  All liveness, which needs fairness
and `ENABLED`: `IdomClimbs` bounds the passes of `create_idom`, but not the
runner of the frontier.

## Not modelled

bison's tables and flex's scanner are generated; the parser is what its rules
leave.  The driver's options, files and call of clang, the wording of the
listing, logging and the runtime are text and I/O.  Floats are tokens and float
folding is uninterpreted.  The caches of constants are left out: constants are
values.  Global declarations and the list of functions are the state in which
`IRGen` begins.  `create_doms` and the print functions of `Dominators`,
`User::remove_operands`, `BasicBlock::delete_instr`, `erase_from_parent`,
`remove_pre_basic_block` and its like have no caller.

## Plan

1. `Pipeline`: GVN's order of FuncInfo, DeadCode, detection, DeadCode over one
   function, with the verdict taken before the cleaning.
2. The caches of constants; global variables and the list of functions in
   `IRGen`.
