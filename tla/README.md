# A TLA+ verification of the Rudra decompiler core

Rudra is a Rust port of the core of Ghidra's decompiler. One function at a time
it lifts machine code to P-code, runs a tree of *Actions* over the P-code until
nothing changes, and prints C. The README of the repository promises
deterministic output: the same input gives the same C, independent of time and
hash order. Nothing in the core runs concurrently. What makes it hard is that
long-lived cursors, memos, link fields and order numbers survive the edits made
under them: by the rules a pass dispatches to, by breakpoints that leave the
pipeline in the middle, by errors that leave it without cleanup, and by restarts
that begin the function again.

The project models that machinery from the source. Paths below are relative to
the repository; line numbers are in `PROJECT.json` under `map`.

## 1. Inventory

### 1.1 Components that carry the control

**Rule pools** (`src/action.rs`, `ActionPool`). *State:* a cursor into the op
tree (`op_state`), the index of the next rule of the op's bucket, hits not yet
reported (`pending_count`), a disable bit and two breakpoint bits per rule, and
the `ActionState` of the pool (status, count, lcount, breakpoints).
*Operations:* `apply_from_status`, `process_op`, `reset`, setting breakpoints,
turning rules on and off. *Hard:* the rules edit the tree the pass walks; a
rule may claim no change after having made one; a breakpoint returns in the
middle of a bucket. *Correct when* no op is skipped, no rule is handed an op it
was not registered for, the cursor never stands on an erased op, the count is
exact, and the pool stops exactly when nothing is left to do.

**Groups, the restart root and the driver loop** (`src/action.rs`,
`Action::perform`, `ActionGroup`, `ActionRestartGroup`). *State:* status, count,
lcount and breakpoints of every node, the child cursor and pending count of
every group, the restart counter and own pending count of the root, the flags
`restart_pending` and jump-table recovery of the function. *Operations:*
`perform`, `apply` of groups, `take_count_delta`, `apply_restart`, `reset`,
breakpoints. *Hard:* a break unwinds the whole chain of calls and is resumed
from the statuses alone; an `Err` unwinds it without restoring anything.
*Correct when* a pass applies every child once, repetition ends at a fixpoint,
once-per-function leaves run once, restart requests are honoured and bounded,
and the count returned is the number of changes made.

**The op tree** (`src/op.rs`, `PcodeOpTree`). *State:* a map from `SeqNum` to
arena handle, an intrusive doubly linked list of the same entries in key order,
a membership bit per cell, a version. *Operations:* `insert`, `slot_only`,
`remove` (stored key, restore, live key), `clear`, `next_id_after`. *Hard:* the
list duplicates the map; cells outlive their entries and are still used as
cursors; keys may be duplicated by explicit sequence numbers. *Correct when*
list and map agree and the successor of any cell, erased or not, is the
successor of its key.

**Order inside blocks** (`src/block.rs`, `src/funcdata.rs`, `src/flow.rs`).
*State:* the op list of each `BlockBasic` and the 32-bit `SeqNum.order` of each
op. *Operations:* `block_insert_at_end` in flow generation; `op_insert_begin`,
`_end`, `_before`, `_after`; `op_uninsert`; `splice_block_basic`;
`split_block_at_case_dest`; `set_order`. *Hard:* midpoints and renumbering at
the ends of the number range, placement relative to MULTIEQUALs, INDIRECTs and
branches. *Correct when* numbers and positions agree and MULTIEQUALs stay in
front.

**Covers and variables** (`src/cover.rs`, `src/variable.rs`, `src/merge.rs`).
*State:* where each Varnode is alive, the union of that over the members of a
HighVariable, the union over the pieces a high overlaps in its VariableGroup,
and a table of pair tests; a dirty bit for each of the caches. *Operations:*
grouping, rebuilding, testing, merging, trimming, dominant COPYs. *Hard:* each
dirty bit is set by another object than the one that holds the cache, and every
merge decision reads the top of the tower. *Correct when* what is not marked
dirty is what a rebuild would give and no merge joins two variables alive at one
point, unless one is a copy of the other.

**The op bank** (`src/op.rs` `PcodeOpBank`, `src/arena.rs` `IdList`). *State:*
seven chains (alive, dead, retired; stores, loads, returns, user ops) threaded
through two pairs of link fields per op, and two denormalised fields per cell.
*Operations:* `create` and its variants, `mark_alive`, `mark_dead`,
`change_opcode`, `destroy`, `destroy_dead`, `insert_after_dead`,
`move_sequence_dead`, `clear`. *Hard:* three chains share one pair of links and
membership is answered from the links alone. *Correct when* the chains
partition the ops by their flags and opcodes and every shadow equals its field.

**Function data and varnodes** (`src/funcdata.rs`, `src/varnode.rs`). *State:*
ops, their inputs and outputs, the descendants of each varnode, two orderings
of the varnode bank whose keys copy fields that change. *Operations:* `op_set_input`, `op_unset_input`,
`op_set_output`, `op_destroy`, `total_replace`, `set_input_varnode` and many
more. *Hard:* every link is stored at both ends, an op may read a varnode in two
slots, the bank may answer with another varnode than it was given. *Correct
when* def-use links are inverse to each other and the orderings hold every
varnode exactly once, under the key it has now.

**Control-flow graph** (`src/block.rs`, `src/graph.rs`). *State:* in and out
edges with reverse indices, the bank's copies of them, edge labels, dominators;
the input slots of MULTIEQUALs follow the in-edges. *Operations:* add, remove,
move, switch and splice of edges, block removal, joins and splits. *Hard:*
deleting an edge slides the slots behind it, in lists whose other halves are in
other blocks. *Correct when* the reverse indices are inverse to each other, the
copies exact and the MULTIEQUAL slots in step after every operation.

**Structuring** (`src/blockaction.rs`, `src/tracedag.rs`, `src/condexe.rs`,
`src/sailr/`), **heritage** (`src/heritage.rs`), **flow following**
(`src/flow.rs`), **jump tables** (`src/jumptable.rs`), **value ranges**
(`src/rangeutil.rs`): worklist algorithms over the two graphs above, several of
them incremental over passes.
Heritage and jump tables are where restarts come from.

### 1.2 Components that are mostly data

The 150 rules (`src/ruleaction.rs` and its companions) and the core actions
(`src/coreaction.rs`) are rewrites without control of their own; the models
treat them as arbitrary edits. Prototypes (`src/fspec.rs`), symbols and scopes
(`src/database.rs`, `src/varmap.rs`), types (`src/type_system/`), address
spaces, printing, marshalling, parsers, options, the SLEIGH translation and the
front ends are value types, tables, formatting and I/O. `PROJECT.json` lists
each with the reason it is left out, and names the few state machines inside
them that are worth a module (range maps, parameter trials, the pretty
printer's queue).

### 1.3 How the components meet

The driver resets the root action and performs it. `perform` calls `apply` of a
node; a group calls `perform` of its children; a pool asks the op tree for the
first op and for successors, hands ops to rules, and destroys the dead ops it
meets. Rules and core actions edit ops through `Funcdata`, which keeps the op
bank, the op tree, the block lists and the order numbers in step. They may also
set `restart_pending`, which the restart root reads once its children are done.
Everything is a call on one thread; the only suspension is a breakpoint, which
returns -1 through all frames and leaves the statuses to resume from.

### 1.4 Hazards

`PROJECT.json` lists them at the lines where they bite. Three families matter
most: (a) something computed before a call and used after it (the memoised
successor, the local copy of the opcode, the op under the cursor, slots looked
up before an edit slides them, a pair test); (b) a structure kept twice (list and
map, cell and op, order number and position, the two ends of an edge or of a
def-use link, cover and cached cover); (c) leaving in the middle (breakpoint, `Err`, restart) and
entering again.

## 2. Modules

| module | models | extended by |
|---|---|---|
| `ActionPool` | one rule pool under `perform` | `ActionPool_proofs`, `MCActionPool` |
| `ActionTree` | groups, restart root, driver | `ActionTree_proofs`, `MCActionTree` |
| `PcodeOpTree` | map, order list, parked cursor | `PcodeOpTree_proofs`, `MCPcodeOpTree` |
| `BlockOrder` | op lists and order numbers | `BlockOrder_proofs`, `MCBlockOrder` |
| `PcodeOpBank` | the bank's chains, link by link | `PcodeOpBank_proofs`, `MCPcodeOpBank` |
| `OpLists` | what the bank promises: seven lists | instantiated by `PcodeOpBank` |
| `DefUse` | def-use links and the varnode bank's tree | `DefUse_proofs`, `MCDefUse` |
| `BlockGraph` | edge halves, their copies, MULTIEQUAL slots | `MCBlockGraph` |
| `FlowGraph` | what the edits promise: a multigraph without slots | instantiated by `BlockGraph` |
| `HighCover` | covers of merged variables, dirty bits, pair tests | `MCHighCover` |

Operators whose comment begins with "Mutant of" are variants of the one that
follows them, with a bug that could have been made there; each shows that a
property can fail. They are not part of any specification.

### 2.1 ActionPool

*Correspondence.* `optree`, `dead`, `opcode`, `version` are what the pool sees
of the op bank; an op is its `SeqNum` key, and `born` keeps keys from being
issued twice, as `uniqid` does. `opState`, `ruleIndex`, `pendingCount`,
`disabled`, `ruleBreak`, `ruleTmpBreak` are the pool's fields; `status`,
`count`, `lcount`, `actBreak` its `ActionState`; `code`, `memoVer`, `memoNext`
the locals of `process_op`. `pc` says which call is running. Each way into
`perform` is an action (`PerformStart`, `PerformStartBreak`,
`PerformAfterStartBreak`, `PerformMid`, `PerformAfterActionBreak`), each
outcome of a rule another (`RuleMiss`, `RuleLies`, `RuleHit`, `RuleHitBreak`,
`RuleError`, `SkipDisabledRule`); `ProcessDeadOp`, `ProcessOp`,
`AdvanceOpState`, `EndPass` are the rest of the pass.

*Rules are external.* `redex` holds the pairs of rule and op on which a rule
would report a change. A hit consumes its pair, edits the tree (insert anywhere,
mark dead, change an opcode, or nothing) and may enable other pairs. A rule may
make any such edit and report no change (`RuleLies`), or fail after it
(`RuleError`). What the code notices of an unreported edit is a change of the
current op's opcode; it does not notice that the op has died, which the hit path
would, nor anything done elsewhere. So the dead op goes on to the next rule of
its bucket, and a pass may end as "no change" with work left behind the cursor.
The ghost `untold` collects exactly those ops, and `Quiescent` and
`NoStaleDispatch` say what holds of all others. `fuel` bounds the edits;
real rules stop by themselves or the decompiler does not, and no property but
termination needs the bound.

*Ghosts.* `visited`, `behind` (ops inserted behind the cursor), `untold` (ops
changed unreported at or behind the cursor in this pass), `hits`, `erred` are
history only; no guard reads them.

### 2.2 ActionTree

*Correspondence.* Functions on nodes for `status`, `count`, `lcount`, `breaks`,
`cursor`, `pending`; the root's `ownPending` and `curstart`; the function's
`restartPending` and `jumptable` and the header warning `warned`; `callback`
says whether the driver installed `restart_flow`. The chain of Rust calls is
the path from the root to `at`, `step` is where in that node control is, `ret`
what comes back. An error is a single action, `LeafError`, which changes the
control only: `?` restores nothing. Leaves are external: they return any small
number of changes, fail, request a restart, and a pool may park.

*Driver.* It performs until it is told of a break, and resumes, or gives the
function up and resets for the next one. After an error it resets.

### 2.3 PcodeOpTree

*Correspondence.* `inner` is the set of values of the map, `KeyOf` their fixed
keys; `prev`, `next`, `intree`, `head`, `tail` the list; `slotted` the live
arena cells. `remove` runs in steps (`RemoveOwn`; `RemoveForeign` then
`RemoveRestores` then `RemoveLive` or `RemoveNothing`; `RemoveUnstored`), since
its restore path is where it can go wrong. A client parks a cursor on any cell
and memoises the successor with the version, as the rule pool does.

### 2.4 BlockOrder

*Correspondence.* `ops[b]` is the op list of a block, `order` the numbers,
`phase` separates flow generation (which appends and never renumbers) from
editing. `Insert` is the part common to all placements: find the neighbours'
numbers, take the midpoint or renumber. `MaxOrd` stands for `u32::MAX` and
`Gap` for `0x0100_0000`; subtraction wraps and the append limit saturates as in
the code. Ops are MULTIEQUAL, INDIRECT (with the op it guards), flow break, or
ordinary: all that the placements tell apart. Block edges are not modelled, so
a splice or split may join any two blocks the code could be asked to join.

### 2.5 PcodeOpBank and OpLists

*Correspondence.* `ins` and `code` are the two pairs of link fields, each with
the head, tail and length of the chains that run through it: alive, dead and
retired ops over `ins`, one chain for each listed opcode over `code`. `opcode`
and `dead` are fields of the op, `cellOpcode` and `cellDead` their copies in the
arena cell. `intree` and `gone` are the ops in the tree and the ones retired
since the last `clear`. The operators `Contains`, `InsertAfter`, `PushBack`,
`Unlink`, `Cut` and `SpliceAfter` are `IdList`'s methods; every operation of the
bank is an action made of them. `destroy_dead` runs in steps, with `sweep` true
between them, since its loop reads a successor across a destruction; nobody else
runs in between.

*Discipline of the callers.* Nothing is done to a retired op,
`insert_after_dead` is given two different ops, and `move_sequence_dead` a place
that is not inside the range it moves: the preconditions `arena.rs` documents
and its debug builds assert. Calls the code answers by an early return change
nothing and are stuttering steps. The tree is a set here; its list and its
duplicate keys are `PcodeOpTree`'s subject. `mark_incidental_copy`, which sets a
flag no chain depends on, is left out.

*Abstraction.* `OpLists` has lists in place of links. The refinement mapping
reads each chain by following `next` from its head. The sweep is part of the
promise: it retires the dead ops in their order and stops with none left.

### 2.6 DefUse

*Correspondence.* `fd` is the part of `Funcdata` that links ops and varnodes:
`inrefs` and `output` of the ops; `descend`, `def`, `state` (the INPUT and
WRITTEN flags) and `loc` of the varnodes; `tree`, the bank's entries with the
key each was entered under, and `key`, the copy of that key in the cell. The
code builds one edit out of another (`op_set_all_input` calls `op_set_input`,
which erases, clones a constant and adds), so the edits are operators from state
to state, named after the functions, and an action is one call from outside.
A loop of the code is `Repeat` with the loop's body. `abort` records the panic of
a free varnode that gets a second reader: the function is lost, and the next one
starts with an empty graph.

*Abstraction.* Of the keys of the two trees, which permute the same parts, one
is kept. Storage is a register, a part of it that overlaps, and a constant:
equality and overlap are what the bank distinguishes. `Pinned` ops are the calls
and INDIRECT sources that `op_destroy_recursive` spares, `Locked` storage the
inputs `clear_dead_varnodes` keeps. Flags, types and symbols are left out.

### 2.7 BlockGraph and FlowGraph

*Correspondence.* `in` and `out` are the edge lists, each entry with the block
it points at and the slot of its other half; `sin` and `sout` the copies kept in
the block bank, refreshed exactly where the code refreshes them. `phi[b]` is the
MULTIEQUAL of a block: for each slot, the block at whose end its value is read;
all MULTIEQUALs of a block are edited alike, so one stands for them. `phase`
follows the pipeline: flow following connects blocks, heritage places
MULTIEQUALs, then the edits come in any order: unreachable blocks, do-nothing
blocks, redundant branches, branch removal, flips, node joins, return splits,
conditional execution, guards folded into a switch. `Heritage` is the one
external-like step: it places a MULTIEQUAL wherever two edges meet.

*Abstraction.* `FlowGraph` has a number of edges for each pair of blocks and says
for each edit which edges go and which come. The refinement maps the slots away.

*Parallel edges.* `Parallel` names the edits that may be applied to a block
entered twice from the same block. The passing run leaves them out (the code
orders the two edges by a first-match search, see 3.1), the violating run lets
block removal in.

### 2.8 HighCover

*Correspondence.* A high, and the piece it owns, is named by the varnode it was
made for. `cover[v]` is what a rebuild of v's cover would compute now; `stored`
and `stale` are the cover kept in the varnode and its COVERDIRTY bit; `hcover`,
`dirty`, `piece` are fields of the high, `phigh`, `group`, `off`, `inter`,
`pcover` of the piece, `span` the size of the group; `yes` and `no` the table of
pair tests. A cover is a set of points. Rebuilding, testing, moving tests,
grouping, merging two groups and the dominant-COPY pass are operators named
after the functions; each call is an action. `Touch` is any edit of the data
flow that changes where a varnode is alive. `Clash` is the search for two
varnodes alive in one block that are not copy shadows, over the pieces both
sides list, and `UntiedCall` the test for calls on aliased storage.

*Abstraction.* A point of a cover stands for a block. `value` gives each varnode
the root of its chain of COPYs, so two are copy shadows when their values are
the same; `PartOf` says which values are computed as, or put together from, bytes
of which others, for `partial_copy_shadow`. Address-tied varnodes are taken to be
aliased stack storage, for which the call test does not return early, and a
varnode that is not tied may be a temporary. Every edit of a cover goes through
`set_flags(COVERDIRTY)`, as `add_descend`, `erase_descend` and the bank's
`set_def` do; the comment in `inflate_test` on paths without that notification
(`merge.rs:1396`) is older than they are. A test that finds its answer early
leaves some members' covers unbuilt; the next reader builds them. `inflate_test`
is split into what it does to one high.

*History.* The code loses two kinds of notification, and two history variables
say at which highs. `deaf` holds the highs that were not told of a change. It
happens in two places: a piece whose own list of intersections is out of date
tells nobody of a changed cover (`mark_extend_cover_dirty`, `variable.rs:1920`),
nor of a piece that joins the group next to it (`group_with_arcs`,
`merge.rs:1839`, `1860`), on the grounds that everybody was told when the list
went out of date; a neighbour that has rebuilt since then was not. A deaf high
tells too few in its turn, and stops being deaf when it is rebuilt over all the
pieces it overlaps. `suspect` holds the deaf highs, until their tests are purged,
and those that a new dominant COPY has joined, whose cover is rebuilt with the
tests kept. No guard reads either. `CoverFresh` says that every other high is
right when it is not marked dirty, `TestsFresh` that every test between other
highs is, and `NoMergeAlive` that a merge in whose groups nothing is suspect joins
no two varnodes alive at one point, copies of one value excepted, which the code
merges on purpose.

## 3. Runs

Deadlock is checked in all of them but the two of `BlockGraph`: a graph of one
block without edges has no edit left to make.

| run | properties | instance | states |
|---|---|---|---|
| `pool_edits` | TypeOK, Quiescent, NoStaleDispatch, NoOpSkipped, AdvanceIsStrictSuccessor | 3 keys, 2 opcodes, 2 rules, 2 edits, no breakpoints | 3,395,734 |
| `pool_debug` | CursorInTree, CountExact, Completes | 2 keys, 1 opcode, 2 rules, 1 edit, start and action breakpoints on the pool, breakpoints and disabling on a rule | 591,504 |
| `tree_resume_restart` | TypeOK, EachChildOnce, Fixpoint, OncePerFunction, RestartHonoured, CountExact, Completes | 6 nodes in the shape of the universal tree, with and without the restart callback, 1 restart, 3 changes, breakpoints on the inner group | 477,790 |
| `optree` | TypeOK, ListIsMap, NextIsSuccessor, MemoFresh | 4 ops, two with the same key, 6 mutations | 210,417 |
| `op_bank` | TypeOK, LinksSound, ShadowsAgree, ImplementsLists | 4 ops, 2 listed opcodes and one other | 7,304 |
| `block_order` | TypeOK, OrderMonotone, PhisFirst, ComparisonStable | 2 MULTIEQUALs, an INDIRECT, the op it guards and a branch, 2 blocks, numbers 0..15, gap 4 | 242,046 |
| `def_use` | TypeOK, DefUseSound, BankCanonical, DestroysUnreadOnly | 3 ops with 2 input slots between them, 3 varnodes of a register, its overlapping half and a constant | 85,908 |
| `block_graph` | TypeOK, EdgesReciprocal, ShadowsExact, PhiSlotsMatch, ImplementsFlowGraph | every graph of up to 4 basic blocks and 4 edges, and every sequence of edits of it | 47,006 |
| `high_cover` | TypeOK, CoverFresh, TestsFresh, NoMergeAlive | 5 varnodes, one of them made later: four values in two groups, one of the groups in aliased storage, or two copies of a third and one group; 1 program point, 1 edit of the data flow | 79,229 |
| `destroy_double_read` | NoDanglingRead (violated) | as `def_use` | |
| `parallel_remove` | PhiSlotsMatch (violated) | as `block_graph`, block removal under parallel edges | |
| `dominant_stale_tests` | AllTestsFresh (violated) | 5 varnodes of one size, two of them copies of a third, no groups, a dominant COPY built in a tested high | |

*Why the bounds are enough to meet the interesting cases.* Three keys give a
pass an op behind the cursor, one under it and one ahead, so an edit can land on
each side; a rule registered for both opcodes and one for a single opcode make
retyping matter; a second edit can undo or race the first. Two keys and one
edit suffice where the question is what a suspension loses. The tree has a
repeating group inside a repeating group, a once-per-function leaf before and a
one-act leaf after it, and a pool that can park, so that a break can hit at
every depth. With a bound of one restart, both the granted and the refused one
occur. In `BlockOrder` the numbers are so few that midpoints run out,
renumbering happens in the middle of insertions, and appends saturate; with 32
bits the same needs some five hundred ops. The assumption `WidthAssumption`
(three numbers to an op) keeps the instances in the range the code lives in.
Four ops in one chain give a range of two a neighbour on one side and a place to
go to on the other, with the ends of the chain moving in the same step. Two
listed opcodes suffice because the four lists by opcode are treated alike.
Three ops and two slots let one op read a varnode twice, or two ops read it, or a
chain of three be destroyed recursively. Four blocks and four edges hold a
diamond, a loop, parallel edges and a block with three in-edges, so that a
deleted slot has slots on both sides; node joins and splits make up the fifth
block. In `HighCover` one varnode is a part of another at either end, so merging
the two parts merges their groups and shifts offsets, and three varnodes of one
size let a test be made, moved by a merge and asked for again. In the second
program a varnode that `merge_test_basic` refuses, such as the stack pointer, is
the source of two COPYs, so that a dominant COPY can be built. One program point
is enough: covers are only united and intersected, point by point, so a stale
point shows itself alone. One edit gives each cache one chance to go stale.

Symmetry is used only among blocks of `BlockOrder`, among the two MULTIEQUALs,
among the ops of `DefUse`, and among the ops and the listed opcodes of the bank,
which nothing orders, and only in runs without liveness. Three runs use a view.
`MCBlockOrder` leaves out the number of an op that is in no block, which no
guard and no property reads. `MCActionPool` keeps the variables that `process_op`
sets on entry only while it runs, and of the version of the current op only
whether it is the one in the memo. `MCHighCover` leaves out what a cache holds
while it is marked out of date, the tests of a high so marked once no edit is
left, and the fields of highs and pieces that are gone: every reader rebuilds
first, and the properties read only what is not dirty. It also leaves out the
covers stored in varnodes, which either are marked or equal `cover`, and which
every reader brings up to date.

*Fairness.* `FairSpec` of `ActionPool` and `ActionTree` is weak fairness of the
engine and of the driver's call. The engine runs on its caller's thread and
waits for nothing, so it does take its next step; a driver that gets -1 from
`perform` calls it again, as the stage tracers under `examples/` do. Nothing is assumed of the
debugger, which may set and clear breakpoints for ever without starving
anything. Termination also needs the leaves and rules to run dry, which `fuel`
says.

### 3.1 What the violated properties show

* `NoDanglingRead`: `destroy_varnode` looks up the slot of each reader before it
  clears the first one. An op that reads the varnode twice is listed twice, both
  times with its first slot, and its second slot keeps a varnode that has left
  the bank. `total_replace_constant` documents this very trap.
* `PhiSlotsMatch` under parallel edges: `block_remove_internal` appends one
  MULTIEQUAL input per in-edge of the removed block, in slot order, and then
  redirects the edges with a search for the first out slot that leads there.
  When one block enters twice, the two orders may differ.
* `AllTestsFresh` with a dominant COPY: `build_dominant_copy` dirties the high, then
  calls `merge_highs`, whose last step rebuilds the cover and clears the dirty
  bit; `move_intersect_tests` is not called, so the pair tests of the high
  survive, made with the members it had before. In the trace a variable found not
  to clash with another gets a dominant COPY that is alive where the other is,
  and the answer is still no.

### 3.2 Observations without a run

Met while modelling; each is in the model as the code has it and no property
forbids it.

* *Ties.* Between two odd numbers two apart, `insert_op` halves both before
  adding and gives the left one (`block.rs:3064`); `compare_order` (`op.rs:495`)
  then answers 1 in both directions. `OrderMonotone` is therefore stated with
  "not greater".
* *Saturation.* `block_insert_at_end` of flow generation (`flow.rs:2531`) does
  not renumber when the numbers are used up, after some 540 ops.
* *Cover endpoints.* `cover.rs:38` stores the number an op had when the cover was
  computed; a renumbering does not dirty it, so an endpoint taken before and one
  taken after may compare against the block. `HighCover` keeps points, not
  numbers, and does not see this.
* *Duplicate keys.* Removing an op whose `SeqNum` another op holds takes out the
  other's entry, restores it, and then erases it through the live key
  (`op.rs:2021`).
* *Counts after an error.* `pending_count` of nested groups and pools survives an
  `Err` and the `reset` for the next function (`action.rs:407`, `1927`), whose
  count then includes changes of the failed one. `CountExact` is about performs
  on a tree no error has left behind.
* *Swallowed notifications.* 4 is the low byte of 3. They are grouped, a rebuild of
  3 clears its list of intersections but not that of 4, and an edit of 4 then
  tells nobody (`variable.rs:1920`): 3 keeps the cover it has, and the tests made
  with it, until something else dirties it. The properties of `HighCover` say
  that this stays confined to the highs in `deaf` and `suspect` (2.8).
* *Groups.* `combine_groups` (`variable.rs:1745`) moves pieces into a group
  without growing its size; `update_high_covers` (`merge.rs:1300`), which only
  tests call, rebuilds without purging.

## 4. Proofs

Six proof modules, checked by TLAPS for every value of the constants that
satisfies the named assumptions.

**ActionPool_proofs** proves `TypeOK`, `Quiescent`, `NoStaleDispatch`,
`CursorInTree`, `NoOpSkipped`, `CountExact` and `AdvanceIsStrictSuccessor`. The
inductive invariant `IInv` is `TypeOK`, `NoStaleDispatch` and `Quiescent` with
five more parts: `CursorInv` (the cursor of a running or parked pass is in the
tree, and a memo at the current version is its successor), `SkipInv`
(everything below it was visited or inserted behind it), `CountInv` (where in
the status machine a hit has, or has not yet, been counted since `lcount` was
taken), `SweepInv` (while the pass has counted no hit, everything below the
cursor that is not in `untold` is alive and quiet, and so are the rules already
tried on the current op: this is what turns "a pass without hits" into "nothing
left to do"; `LieLemma` says that what an unreported edit leaves outside
`untold` it has not touched), and
`HitInv` (without an error, count plus pending count is the number of hits).
`Quiescent` is not inductive by itself, since it says nothing until the last
step of the last pass.
Assumptions: keys are naturals, the buckets are sequences of rules, there is an
opcode, the fuel is a natural.

**PcodeOpTree_proofs** proves `TypeOK`, `ListIsMap`, `NextIsSuccessor`,
`MemoFresh`. `ListIsMap` is stated by strict neighbours in key order rather than
by walking the list, so that it can be carried through every link update. The
inductive invariant adds that the memo is never ahead of the version, and that
between taking out an entry by mistake and putting it back its key is free and
the memo stale. The version only grows in the model; in the code it wraps after
2^64 mutations, which is out of reach. Assumption: keys are naturals, the sentinel is
no op.

**ActionTree_proofs** proves `TypeOK`, `EachChildOnce`, `Fixpoint`,
`OncePerFunction`, `RestartHonoured` and `CountExact`: every safety property of
the module, for every tree. None is inductive, because what a return means
depends on the frames above it, and the frames are not a variable. The first
invariant, `TreeInv`, therefore says that there is a set S of nodes that is the
chain of calls: it holds the root and `at`, is closed under `Parent`, and every
node of it but the root is the child its parent's cursor stands on (`Chain`). A
call adds a node to S, a return takes it away, an error or a reset shrinks S to
the root; so no induction over the depth of the tree is needed. `Sync` is
`EachChildOnce` for all groups at all times, suspended and abandoned ones too;
`Turns` and `Restarts` tie the ghost counters and the function's flags to the
statuses. The second invariant, `CountInv`, adds the set F of all nodes with a
frame, the running ones and below them the suspended tail a break left behind,
and `sub`, for each of them the number of changes on their way up from it that
its parent has not counted: `Amounts` and `Counting` say that the root's count
and what is on its way to it add up to `changes`, `Seen` that a repeating group
whose subtree is dirty has counted more than `lcount` or is about to. Both were
checked by TLC as invariants of `tree_resume_restart` before they were proved.
Assumptions: `TreeAssumption` and `FlagAssumption` (children and parents agree);
`RootedAssumption` (a set of nodes closed under `Parent` that misses the root is
empty, which is how a finite tree excludes a ring of parents);
`TurnAssumption` (no leaf that repeats is also once-per-function or one-act; no
`Action::new` of the repository combines those flags, and without it such a leaf
would be applied again inside one perform).

**PcodeOpBank_proofs** proves `TypeOK`, `LinksSound`, `ShadowsAgree` and the
refinement `ImplementsLists`, for any finite set of ops and any opcodes. The
inductive invariant does not speak of links one by one: it says that there is,
for each chain, a sequence without repetition that holds exactly the ops of its
class and that the links *spell* (each element's `next` and `prev` are its
neighbours, head and tail its ends, the length its length). Inserting, unlinking
and splicing a run are then lemmas on sequences (`InsertSpells`,
`UnlinkSpells`, `SwapSpells`), and each operation of the bank moves one op, or
one run, from one sequence to another (`MoveSpells`, `AddSpells`,
`RemoveSpells`). `SpellsWalk` shows that following the links from the head reads
exactly that sequence, so the sequences of the invariant are the lists of the
refinement mapping, and each action is shown to take the step of `OpLists` with
its name. Assumption: `BankAssumption`.

**BlockOrder_proofs** proves `TypeOK`, `OrderMonotone`, `PhisFirst` and
`ComparisonStable`. The inductive invariant of the first two adds
`NumbersInRange`: every number in a block is at least 2 (`insert_op`
assumes it of the left neighbour of the first op) and below `MaxOrd` in flow
generation. The argument: a midpoint lies between its neighbours
(`MidpointFacts`, integer division of each half); renumbering uses a step of at
least 2 whose multiples stay in range (`StepFacts`, from three numbers to an op
and a pigeonhole on the length of a list without repetition); every action but
splice and split changes one list (`OneListInv`). `PhisFirst` needs to know where
each placement puts its op (`PlacementFits`: a MULTIEQUAL where only MULTIEQUALs
stand in front, anything else behind them all). `ComparisonStable` is an action
property: a renumbering is strictly increasing along the block
(`RenumberedKeeps`), and by `OrderMonotone` two ops whose numbers differ stand in
the order of their numbers. Assumptions: `KindAssumption`,
`WidthAssumption`.

**DefUse_proofs** proves `TypeOK`, `DefUseSound` and `BankCanonical`. The edits
are operators from a state of the graph to the next, so the invariant is one too:
`Inv(s)` holds of every state an edit passes through, not only of those between
calls. It says that the tree's entries are filed under what their varnodes are
now, each under a key of its own (`Canon`), that varnodes not made yet are free
and unknown to every list (`Young`: this is why a new varnode finds no reader), that reads
and writes agree at both ends (`Reads`, `Writes`), and that lists are short.
Where an edit takes a varnode out of step with its writer and puts it back,
`InvBut` holds in between, the invariant without what it says of that one varnode. Reads are compared by
counting: `CountAppend`, `CountRemoveAt`, `CountUpdate` and `CountSwap` say what
an edit of a list does to the number of times it holds a value, and `Rewire`
concludes from the counts alone. Each loop of the code is a lemma with an
invariant of its own (`MoveNext`, `UnsetNext`, `SetNext`, `WalkNext`,
`RawNext`...), the recursive destruction included. That the bank may
answer with another varnode than it was given is `ReplaceInv`; that a constant
with a reader is copied first, so that the panic never happens, is `FreshCopy`.
Assumption: `GraphAssumption` (finitely many ops, at least one storage).

*Only model-checked:* liveness (`Completes` of both action models; liveness under
fairness and `ENABLED` are beyond the prover), `DestroysUnreadOnly` of `DefUse`,
and all of `BlockGraph` and `HighCover`. There, as in `DefUse`, an edit is a loop over a list of
readers, edges or pieces. The library's induction theorems take an operator as a
parameter, which the installed provers cannot instantiate. What a loop yields is
proved by a least counterexample instead (`NatMin`, and on it `RoundsHold`: what
the first round enters with and each round keeps, holds of all), one loop at a
time; `LoopExists` shows that the recursive function of a loop exists, from which
its equation follows.

## 5. Plan

In this order; the first eight are modelled and checked.

1. `ActionPool`, proved.
2. `ActionTree`, proved but for liveness.
3. `PcodeOpTree`, proved; then the tree that `ActionPool` assumes shown to be
   what `PcodeOpTree` provides (refinement of the key set by the linked list).
4. `BlockOrder`, proved.
5. `PcodeOpBank` and `OpLists`, proved with the refinement.
6. `DefUse`, proved but for `DestroysUnreadOnly`.
7. `BlockGraph` and `FlowGraph`; then proofs that `AddEdge`, `SwapEdges` and the
   edge deletions, moves and switches keep the halves reciprocal, and the edits
   made of them.
8. `HighCover`; then `MoveIntersectTests` and `CoverDirty` as lemmas.
9. `CircleRange`: the modular ranges of `src/rangeutil.rs` as operators, checked
   against sets of values at small widths.
10. The passes of heritage over `BlockGraph` and `DefUse`; the stages of
    jump-table recovery; range maps; the flow worklist; cover blocks by endpoint.

Abstract specifications worth stating: a pool as "some rule fires until none
can", implemented by `ActionPool`; heritage as "every read sees the definition that
reaches it".

## 6. Not modelled

Rewrites of individual rules and actions, types, prototypes, symbols, printing,
parsing, marshalling and the SLEIGH engine, for the reasons in 1.2. In the
modelled parts: statistics, warnings other than the restart header, printing,
and the test fixtures that build op lists without a block are left out; the
root action database (deriving and cloning of root actions) is configuration
and is planned last.
