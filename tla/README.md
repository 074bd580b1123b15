# Lucid: a verification project

This directory holds TLA+ models of the Lucid language implementation, the TLC
configurations that check them on small instances, and theorems about them whose
proofs TLAPS checks. File names below are relative to the repository's root.

Contents: 1 the system, 2 the models, 3 the runs, 4 what is proved, 5 where the
code and its documents disagree, 6 what is not modelled, 7 plan.

## 1. The system

Lucid is an embeddable scripting language written in C++17. Source text goes
through the lexer and parser, the semantic analysis (Sema) and the bytecode
compiler; the bytecode module is loaded and run by an interpreter, which calls
host functions and a runtime library of strings, arrays and tables. A command
line tool resolves imports, watches files and drives the pipeline. An older
runtime, the C ABI of a compiler to native code, is kept in `src/runtime` and
`src/runtime-abi` (`docs/Architecture.md`, section 6); the CMake build does not
compile it.
The interpreter at this commit has its frames, loader, tables and runtime
operations; the dispatch loop and most opcode handlers are not in the repository.

| component | state it keeps | operations | interacts through | what makes it correct |
|---|---|---|---|---|
| threads: `src/runtime/Concurrency*` | ThreadHandle (refcount, state, result box); the pool's queue, stop flag, active count | spawn, join, submit, workerLoop, waitAll, shutdown | a mutex and condition variable per pool and per handle; program code called on workers | no use after free, exact counts, one owner per box, joins and shutdown return |
| event loop: same files | FutureHandle; the loop's queue and running flag | async, await, runOnce, runUntilEmpty, shutdown | an await runs other tasks on the stack of the awaiting call | the same, however deep awaits nest |
| tables: `interp/.../TableObject.cpp` | slots with generations, a free list threaded through them, cells, primary index, reset floor, version | addRow, removeRow, clear, shrink, setCell, byPrimary, isLiveRowRef | row references that the program keeps anywhere | a reference reads its own row or nothing; keys stay distinct; storage is reused |
| emitter: `bytecode/.../{compile,emit,memory}` | code bytes, operand-depth counter, ownership stack, slot allocator with scopes, loop stack | one emit function per statement and expression; drops at scope, loop and function exits; jump patching | recursion over the checked tree; the interpreter trusts the code blindly | the code keeps the stack balanced on every path, reads no slot before it is stored, frees each object once and leaks none |
| contract: `contract/` | none (tables of opcodes, types, resource plans) | planForType, stack effects | shared by compiler and interpreter | both sides agree |
| compiler driver: `bytecode/.../compile` | constant pool, function table, lambda lift | compile in two passes, finalizeProto | Sema's annotations | balanced functions, unique constants |
| artifact and serialisation: `bytecode/.../Serialize*` | - | write, read | files | read(write(m)) = m, refusal of everything else |
| interpreter: `interp/` | frames, call depth, loaded program, tables | call, pushFrame, load | host functions; panics as exceptions | frames popped on every exit, loading is all or nothing |
| runtime library: `runtime/` | strings, arrays, handles with refcounts | retain, release, copy, drop, concat, push | values copied bitwise by the interpreter | balanced counts, no overflow of 32-bit sizes |
| host registry: `runtime/HostRegistry.cpp` | functions and types, a view over a parent | register, resolve by name or index | loader, handles | an index means one type |
| parser: `parser/` | token cursor, diagnostics | peek, consume, synchronize, one function per rule | AST arena | every loop consumes or stops; recovery does not cross brackets |
| Sema: `sema/` | context stack, scopes, narrowing facts, sequence states | declare, resolve, check; const evaluation | AST annotations read by the emitter | scopes nest; facts are dropped at joins and assignments |
| core: `core/` | AST, bump arena, string pool, diagnostics | allocate, intern, report | everything | stable pointers and ids |
| CLI: `cli/` | module cache, dependency graph, watched files, a watcher thread | resolve, order, watch, run pipeline | callback from the watcher thread | order respects imports; no lost change, no self-deadlock |
| legacy memory runtime: `src/runtime` | allocation registry, arenas, closure environments, panic state | alloc, free, retain, release | any thread | balanced registry and counts |

Hard behaviours: threads with a lost wake-up window, calls nested through await,
references that outlive the storage they name, a compiler whose bookkeeping
follows the text while the machine follows jumps, a parser that must go on after
an error without stopping or skipping too much, a checker whose facts (scopes,
narrowing, cached types) are right in one place and stale in the next, counts of
shared handles, a thread that polls files another process writes. `PROJECT.json`
lists each hazard at its line, together with the properties that would catch it
going wrong.

## 2. The models

    TaskLifecycle  <--- implements ---  ThreadPool    <- MCThreadPool,  ThreadPoolProofs
                   <--- implements ---  EventLoop     <- MCEventLoop,   EventLoopProofs
    RowStore       <--- implements ---  GrowingTable  <- MCGrowingTable
                        TableObject <-- FixedTable    <- MCFixedTable  (both: TableProofs)
    ValueStore     <--- implements ---  RuntimeValues <- MCRuntimeValues
                       HostRegistry <--     ^
                RuntimeValuesInvariant <----+----  RuntimeValuesLemmas, RuntimeValuesProofs
    ResourcePlan <- Emitter <- Execution <- MCExecution,  EmitterProofs <- ExecutionProofs
    Lexer, Parser <- ParseFile <- MCParseFile        (measured against LucidSyntax)
    SemaContext <- ConstEval <- SemaTypes <- SemaExpr <- SemaTable <- SemaStmt <- SemaDecl
                <- Checking <- LucidRun <- MCChecking
    ModuleResolver <- FileWatcher <- MCFileWatcher,  ModuleResolverProofs

`TaskLifecycle`, `RowStore` and `ValueStore` are abstract specifications: what a
task, a table and a value promise. `LucidSyntax` and `LucidRun` are references of
another kind: the grammar as a recognizer, and what an accepted program can do
when it runs. The other modules are the code. Definitions that begin with "Mutant
of", or that their comment calls a bug, are plausible bugs of the definition that
follows them; the specification does not use them. They document what each property
can detect.

**ThreadPool** (`src/runtime/ConcurrencyRuntime.cpp`, `ConcurrencyEntry.cpp`).
One program counter per OS thread. A step is what happens between two points at
which another thread may act: a critical section, an atomic access, a
notification. A mutex held over a whole step needs no variable; it is held across
two steps only between the test of a wait predicate and the sleep ("doze" labels),
and during the drain of a shutdown, and the guards `PoolUnlocked` and
`HandleUnlocked` say so. `Notify` picks any sleeper, as `notify_one` may.
`SpuriousWake` is the spurious wake-up C++ allows. Allocation failure and a
missing thunk are `SpawnFails`; a task's thunk may return a box or null
(`Return`). Handles are linear in the language, so the code that spawned a task
joins it at most once, and every kept handle before it ends: `Join` and `Return`
have this as their guard.

**EventLoop** (same files). The loop has no thread: an await pops tasks and calls
them on its own stack. `stack[h]` is the chain of calls of thread h, so an await
below an await below a pump is a longer stack. The loop is one per process and
nothing stops code on worker threads from awaiting, hence `Threads` is a set.

**TableObject** (`interp/src/interp/TableObject.cpp`) has the columns and cells that every
table has; the two kinds of table extend it.

**GrowingTable** (same file). Slots, the free list in
the generation field of dead slots, the generation counter with its width
(`GenMod`), the reset floor, the capacity. The loop of `shrink` is one step per
turn (`walk` holds its local variables); every other operation is one step, as a
table has no concurrent user. `issued` is history: the slot every reference was
issued for, so that `RefsTrackRows` can speak of references kept anywhere. A value
is an object and `Text` what it says: the code compares the objects.

**FixedTable** (same file). Cells and the hash index; strings are compared by
content in the index, by identity in the scan of a `@unique` column.

**Emitter** (`bytecode/src/bytecode`). The emit functions recurse over a checked
body. The model has no tree: each step emits the next statement of some body that
Sema accepts, so its behaviours are the compilations of all such bodies, and
`todo` is the recursion. Every emitting operator maps a compiler context (code,
depth, maximum, ownership stack, `ok`) to the next one, in the order of the code;
a failed `AST_ASSERT` clears `ok` and ends in "abort". Code is a sequence of
instructions: a jump's operand is an instruction index, and a placeholder 0. What
Sema accepts enters as guards: `MayDeclare` (`insertLocal`), `Resolve`
(`lookupValue`), no statement after one that transfers, a value returned on every
path. Statements: declaration, assignment to a local, expression statement,
return, break, continue, block, if/else, while, range loop, loop over rows or over a
column of integers, switch. Expressions: literals, locals, fixed-array literals,
calls, `and`, `??`.

**Execution** (`interp/.../Frame.hpp`, `InterpreterInternal.cpp`,
`ops/OpsRuntime.cpp`) runs the finished code in a frame with a heap of objects. A
bool is the set of truth values it may have, so a branch on a condition takes both
ways. `Value` is trivially copyable: `LoadLocal` copies the reference. Ids of
objects are reused only when neither allocated nor named by the frame, so a second
free is always seen. The handlers that are missing from the repository are mapped
as external and follow the comments of `contract/Opcode.hpp` and of the emitter.

`Gaps` names the constructs that the emitter translates wrongly (section 5). With
`Gaps = {}` a body avoids them and the properties hold; a run that shows one of
them admits it.

**RuntimeValues**, **HostRegistry** (`runtime/`). A program with a few variables
makes, copies, assigns, stores, removes and drops values; each of its statements
calls the library in the order the emitter gives the instructions (evaluate, copy,
drop the old value, store). `mem.heap` is a function of the objects that are
allocated, with the count, payload, elements and capacity of each; `mem.broken` says
that a call used an object that was not, `mem.stuck` that a loop does not end,
`mem.full` that the program needs more objects than the instance has. The host's
callbacks are recorded for each payload, with the type they ran as. Types are
registered, and a view opened, at any time. `dropValue` and `copyValue` recurse over the
type of a value: `dropping[n]` and `copying[n]` are what they do to values whose types
nest less than n deep, with `Dropped` and `Copied` for one call. The types are those made
of strings and handles (`TypesTo`); what owns nothing is copied bit by bit.

**Lexer**, **Parser**, **ParseFile** (`parser/`). The lexer is a state machine over
characters, a token a step. The rule functions call each other and have no effect
except on the cursor and the diagnostics, so each is an operator from a parser state
to the state in which it returns; the loop of `parseFile` is the state machine. The
synchronizers are operators on the same state, in `ErrorRecovery.hpp`'s order of
tests. `stall` and `holes` are history: the tokens on which a loop turned over in
place, and the nodes that lost a part.

**SemaContext** to **Checking** (`sema/`). A checker state is a record (symbol
tables, scopes, contexts, narrowing levels, type cache, what resolvers have stored
on declarations, diagnostics); each rule function is an operator on it, and
`analyze` is the state machine: register names, resolve declarations, check bodies,
finalize, a declaration at a time. **ConstEval** is the constant evaluator with
integers of `Width` bits. **LucidRun** is the reference: the kinds of values each
expression of the program may have when it runs and the faults a body can meet,
found from the text without the checker.

**ModuleResolver**, **FileWatcher** (`cli/`). Modules are parsed depth first, as the
usage example in `ModuleResolver.hpp` does. `computeTopologicalOrder` is one step per
turn of its two loops; the hash maps are walked in an order nobody chose, so every turn
takes any of the edges that are left. What a change affects is the least set that is
closed under `dependents`, as the code's worklist computes it. The watcher
has its thread, its mutex (held by a thread in a pass; what the main thread does
under it is one step) and the file system, which another process changes at any
moment. Time is the second that `file_clock` gives; its epoch is before or after
the present. The callback is declared (`run.hpp:72`) and defined nowhere: it parses
again what `getAffected` names.

## 3. The runs

| run | what it asks | bounds | states |
|---|---|---|---|
| `pool_safety` | do handles stay live and exactly counted, does each box have one owner, does a shutdown lose nothing, is it a `TaskLifecycle` | 2 clients, 2 workers, 3 tasks (one spawned by another, one not kept), waitAll, shutdown, spurious wake-ups | 126,000 |
| `pool_progress` | do accepted tasks settle, do joins return, does a shutdown return | the same tasks, one client that may shut down | 110,000 |
| `pool_shutdown_hang` | does `shutdown` always return? It does not | as above, without nesting | violation |
| `loop` | the same safety for futures, with nested awaits; does every await end, and give up only on a task that another thread is running | 2 threads, 3 tasks (one started by another), shutdown | 30,000 |
| `table_rows` | does a reference read its own row or nothing, is the free list sound, are keys distinct, is it a `RowStore` | 4 rows added, 2 reserved slots, the counter exhausted after 4 | 372,000 |
| `fixed_keys` | are lookups exact and keys distinct under hash collisions and equal strings | 3 rows, 5 values, 2 of them equal strings, 2 hashes | 2,520 |
| `emit` | does the code of every body without gaps balance its stack, store before it reads, free once, leak nothing | bodies of 3 statements plus returns, 2 names, strings and fixed arrays of strings | 2,039,000 |
| `parse` | is what is read clean grammatical and what is grammatical read clean, is damage reported and kept in its declaration, does the loop end; do tokens depend on their own characters only | every form of the grammar, every file one token away from one (32 tokens inserted or put in place), texts of up to 6 characters over 4 alphabets | 311,000 |
| `check` | does an accepted program run without a value of the wrong kind and without changing a frozen table; are constant cells exact | every body of two statements over 8 declarations, tables with up to 3 attributes, constants of 4 bits | 213,000 |
| `tables` | may two modules each have a table of one name? They may not | pairs of modules | violation |
| `values` | is every count the number of holders, each payload released once and by its type, each variable's value its own | 2 variables of 6 types (handles, strings of two contents, arrays of either, arrays of arrays of handles), 4 objects, arrays of 3, capacities below 4 | 214,000 |
| `watch` | does the order of modules respect the imports, is who is told of a change an importer, is every importer told, does stop return | 4 packages of 3 files, 2 of them edited, 2 seconds, 2 starts | 142,000 |

The first property of `loop`, `table_rows`, `fixed_keys`, `parse`, `emit` and `watch` is
a conjunction of invariants with definitions of their own (`HandlesSound`, `RowsSound`,
`KeysSound`, `ParsesTheGrammar`, `SlotsSound`, `ModulesSound`): the types, and what belongs together.

Why the bounds are enough.
*Threads.* Every hazard of section 1 takes at most a waiter, a worker and a third
thread: two workers race each other for the queue while a client is between its
predicate and its sleep. Three tasks give a task that spawns and joins (its worker
is then a joiner), one that is not kept, and one more to be queued while both
workers are busy. A pool of two workers with one nested join keeps one worker
free; section 5 has what happens otherwise.
*Tables.* Four rows over two reserved slots reach reuse, growth, trimming and
growing again. `CounterMax` = 5 and `GenMod` = 1000 shrink the two widths of the
generation independently: the counter is exhausted within the run and no stamp
wraps. The code's widths (2^64 and 2^32) wrap long before they exhaust;
that is the overflow of section 5. `MaxVersion` bounds CLEAR, the only operation
that could raise the version for ever.
*Emitter.* Three statements nest three deep, and each pair (a transfer inside a
block inside a loop, a declaration before or after it) fits in three. Returns do
not count, so every body can be completed. The form of an expression does not
depend on its use, and `SpreadForms` gives each form to one use.

*Parser.* A recovery is entered by one wrong token; what follows is decided by the
next few. Every single insertion, deletion and replacement in every form therefore
reaches every recovery of every rule; `MaxErrors` is above what one edit causes,
except for the loop that stalls (section 5). The lexer's scanners look at most three
characters ahead.
*Checker.* Most facts it keeps are written by one statement and read by the next,
so bodies have two, the first a declaration of a variable of each type, and
statements with bodies nest a third. Four bits make every overflow, shift
and division of two operands happen.
*Values.* Two variables share a handle, an array holds what a variable holds, and
the removal of the one races nothing but comes in any order. A capacity field of two
bits (`CapMod` = 4) doubles past its width with arrays of length 2. Types nest twice
(`MaxNesting`), so that arrays of what may be nil and arrays of arrays are among them.
Strings have two contents, so that CONTAINS must tell them apart and must not tell two
objects of one content apart. Handles have one payload: a second one multiplies the
states beyond the run, and `ContainsItsValues` (section 4) covers any number.
*Watcher.* A change needs one later second to be seen, a second start to be missed by
a watcher that was stopped. The packages have a chain with a shortcut, a cycle, an
import of a missing file, and an alias declared twice.

Stopping. A program may stop calling: those specifications have states without a
successor, and their configurations switch the deadlock check off; so does a
checker that has finished. Liveness properties take over where something must
happen. `fixed_keys`, `parse` and `emit` check deadlock: emitted code never gets
stuck.

Fairness. *ThreadPool*: the operating system runs every thread that can run, and
the code of a task comes to an end; so each worker and each client is weakly fair
in its steps inside the runtime, and a worker in the code of its task as well. No
client is obliged to call anything. A mutex is held for bounded steps, so weak
fairness suffices. *EventLoop*: the same for a thread inside the runtime or inside
a nested task. *GrowingTable*: a call of shrink runs to its end. *FileWatcher*: the
scheduler runs the watcher's thread, which sleeps for half a second and not for
ever, and a join returns when its thread is done; nobody is obliged to start, stop,
or edit. The parser's termination is a bound on its turns (`RecoveryMoves`),
an invariant. The other modules have no liveness property.

What each property says, and the code behaviour it is about, is in the comment
above its definition. For each property of each passing run `PROJECT.json` names
one of the mutants, which that run refutes.

## 4. What is proved

`ThreadPoolProofs` proves, for every set of clients, workers and tasks (the
workers finite and not empty: `PoolAssumption`):

- `TypeCorrect`, `HandlesLive`, `RefcountExact`, `BoxSafe`, `JoinOutcome`,
  `ShutdownComplete`: the six invariants that `pool_safety` checks;
- `Refinement`: the thread pool implements `TaskLifecycle`.

The invariants are not inductive: `RefsExact` survives a release only if the
handle is in one place, which depends on the worker's label, on what is queued and
on who submits. `IInv` adds the rest:
*Places* ties the handle in a thread's hand to its label; *Custody* says the
scheduler's reference is in one queue position, one worker or one submitter;
*Holding* is the exact count, with liveness of whatever is held; *Joining* says
a joined handle is in the variable of the code that joins it, so that two threads
never join one handle; *Boxes* says where the box is in each state; *Stages* ties
a task's state to the label of the thread that holds it, which makes the joiner's
view and the worker's exclusive; *Counting* makes the active count the number of
workers inside a task, so it never goes below zero; *Stopping* says a worker that
exited saw the queue empty after the stop, and that none comes back.

There is a lemma for each action (it preserves `IInv`) and, for the refinement, one
for each action that changes the mapped state; a step that leaves handles, queue
and `cur` alone maps to a stutter. `Drain` is the interesting one: `DrainQuiet`
shows from *Stopping* that there is nothing left to cancel.

`EventLoopProofs` proves, for every set of threads and tasks and whoever starts them
(`LoopAssumption`):

- `HandlesAlwaysSound`: types, exact counts, no use after free, one owner per box;
- `AwaitsAbandonOnlyOthers`: an await gives up on a pending future only while another
  thread is running its task;
- `Refinement`: the event loop implements `TaskLifecycle`.

Here the hard part is the stacks, which grow without bound. Most of `IInv` avoids
positions: it speaks of the set of all frames (`Active`), in which the code that a
frame runs tells it from the others (*Once*), so that "the frame that awaits t" and
"the frame that schedules t" are unique. *Shape* says what waits below a top frame;
*Calls* what a frame's label says about its future; *Queued* that what is queued is
pending, not run, and queued once; *Begun* that only code that has begun starts
tasks, so that a task on the queue has no child on any stack; *Below*, which this preserves,
that no task is run by an await of its own child's. *Below* is what
`AwaitsAbandonOnlyOthers` needs: when the queue is empty and the future of the top
frame pending, the frame that runs it can only be on another stack.

`TableProofs` proves of fixed tables, for any number of rows, any columns, values and hash
function (`FixedAssumption`):

- `KeysAlwaysSound`: lookups find exactly the keys the rows have, and unique columns
  are distinct;
- `IndexAlwaysTight`: no entry of an overwritten key stays.

The strengthening is *Indexed*: the index is the set of the rows' present entries.

`TableProofs` proves of growing tables, for any columns, values, reserve and number of ADDs
(`TableAssumption`), under two hypotheses that its theorems state:

- `GenFits`: fewer rows are added than a generation can count. Beyond it the code's
  32-bit stamp wraps and a stale reference can read a new row (section 5);
- `TextFaithful`: values that say the same are the same. The code compares the handles
  of strings, so without it two rows may hold equal strings (section 5).

- `RowsAlwaysSound` (needs both): a reference reads its own row or nothing, the count
  is exact, unique columns are distinct, ADD fills slots in order;
- `FreeListAlwaysSound` (needs `GenFits`): followed from the head, link by link, the
  free list ends, visits no slot twice and visits dead slots only. It does not visit
  all of them: of the slots that ADD grows it links the first only (section 5), and a
  slot taken when the counter is exhausted is lost;
- `Refinement` (needs `GenFits`): the growing table implements `RowStore`.

*Counted* ties the counter to the number of ADDs; *Owned* says a live slot carries the
number of the last row that was put in it; *Listed* is about the free list, threaded
through the generation field of the dead slots. To say that it visits dead slots only
one needs no reachability, and so no recursion: some set of dead slots contains the
head and is closed under the links. A shrink walks the list with its links half
rewritten; *Listed* then has two such sets, what is kept and what is still to be walked.
*Rising* and the ordered form of the list give the order of ADDs.

The hypotheses and assumptions hold in the instances that the runs check: TLC
evaluates each `ASSUME`, `table_rows` has `GenMod` above `MaxAdds`, and its `Text`
tells all values apart. The invariants were checked by TLC before they were proved.

`ModuleResolverProofs` proves, for any finite package, whatever its files say
(`ResolverAssumption`), parsed in any order of the imports and sorted in any order of
the hash maps:

- `ModulesAlwaysSound`: `OrderRespectsImports` (each module comes once, and one with no
  cycle behind it after what it imports, but for an import lost to another of the same
  alias) and `AffectedIsImporters` (what is told of a change is what imports the file,
  directly or not). The second has the hypothesis `Plain`: no import closes a cycle and
  no file declares an alias twice. Without it the code loses edges and it is false.

Three arguments meet. *Path*: the stack of the parser is a path of imports from the
root, so an import that is still being parsed when it is needed closes a cycle; hence
*Resolved*: every import of a module that is on no cycle resolves, unless its alias is
declared again. *Sorting*: between any two steps of the sort a module's indegree is
the number of its imports that are not out, or out with an edge still to be taken, and
what is out comes after its imports. Where the queue is empty, each module that is left
has an import that is left; in a finite package following these imports must repeat
a module (`HasCycle`), so what is left is on a cycle or behind one (`LeftIsBehindCycle`).

`EmitterProofs` and `ExecutionProofs` prove, for bodies of any length, blocks nested to
any depth, any names, and locals of any types of the model (`GapsAssumption`,
`ExprsAssumption`, `LocalsAssumption`, `BoundAssumption`, `NamesAssumption`):

- `CompilerNeverAborts` (`NeverAborts`): no assertion of the compiler fails;
- `StackHeightsAgree` (`HeightsAgree`): the stack has the height the emitter counted,
  on every path to every instruction, and never more than `maxStackDepth`;
- `SlotsAlwaysSound` (`SlotsSound`): names have their declarations' slots, and no slot is
  read before it is stored to;
- `DropsFreeOnce` (`FreesOnce`) and `NothingLeaks` (`NoLeak` and `ResultLive`): whatever a
  body made or was passed is released once on every path, but for the result.

Their hypothesis is `Gaps = {}`, the configuration of the run `emit`: with one of the
constructs that the code translates wrongly they are false (section 5).

The invariants speak of a frame, and the emitter has none, so neither end is inductive
alone. The proof reads the code as a bytecode verifier would. A *State* says what is
known of a frame where an instruction is about to run: the height of its stack, what each
entry is (`Entry`: a value that owns nothing, a string it owns, what slot s holds, a result
that may be nil, ...), what its slots hold, and the places whose objects are allocated.
*Sound* says that each instruction has a state which fits it (a free needs an owner, a
return needs that nothing is held) and leads to the state of the instruction it goes to;
a jump that is not patched is *open* with its state, and a place the code may come back
to is a *head*.

`EmitterProofs`: each emit function extends sound code and says what is known after it
(the lemmas *Ends...*). The compiler's own state supplies what these need. *Nest* ties
`todo` to the scopes, loops, declarations and placeholders of each open block, with a
`Level` for what is known where the block was opened and where its exits go; *Knows* says
which slots hold what in the innermost one. A break that leaves three blocks is the
interesting case: the state at its jump must be the one at the loop's exit, so that what
`DropScopes` released is exactly what the scopes in between own (`HeldBy`). There is a
lemma for each action (*...Compiles*). A loop's body begins with the state that its end
leads back to, as every scope inside has ended by then.

`ExecutionProofs`: the ends of blocks, with which the finished code is *Compiled*; then
the machine. A frame *Matches* a state if its values are what the state knows (*Typed*)
and if objects and owners, the held places and the owning entries, correspond one to one
(*Exact*). An instruction that fits leaves a frame that matches the next state (*...Moves*);
the properties follow, as a state with nothing held has an empty heap. The invariant
(`ExecutionInv`) says that there are such states, over unbounded sets, so TLC cannot
evaluate it; the run checks the properties that follow from it.

`RuntimeValuesProofs` proves (from the lemmas of `RuntimeValuesLemmas`, about the
invariant that `RuntimeValuesInvariant` defines), for any variables, types nested to any depth, contents,
registries, names and numbers of objects and payloads, and any capacities that double
up to the width of the field, as from 4 to 2^32 (`ValuesAssumption`):

- `CountsAreOwners` (`RefsMatchOwners`): every count is the number of the object's owners,
  nothing is used after it is freed, and what has no owner is freed, but for the fixed
  arrays, of which `dropValue` drops the elements only;
- `CallbacksOnce` (`ReleasedByItsType`): the host's release callback runs once for a
  payload, when its last handle goes; it is the one of the payload's type, unless the
  handle was made through a view that has types of its own, where it is false (section 5);
- `StuckAtHalf` (`GrowsToHalf`): the doubling of a capacity fails to end only for an array
  that is half as long as a `uint32_t` can say;
- `ContainsItsValues` (`ContainsByValue`): CONTAINS on an array of handles or strings
  finds a value exactly if an element has the same payload or the same text;
- `Refinement`: the library implements `ValueStore`.

An operation is a sequence of calls, in the middle of which the counts are wrong: an
element that is being replaced has no owner, a copy not yet a place. *Sound* says what
holds between any two calls. It is given W, the contents of every place (a variable, an
element of an array, or the operation's own hand), and O, the arrays that the operation
has to itself: the count of an object is the number of places it is in, an array is in
one place or in O, its elements are the contents of its places, a value fits the type of
its place (*Fits*), and a handle's payload has been released as often as its handle is
gone (*Hosted*). `DropOk` and `CopyOk` say what `dropValue` and `copyValue` do to such a
W: the one empties a place, the other fills an empty one, and no other place that is open
to the caller changes. Both are proved level by level: what they do to the types that
nest n deep follows from what they do to the types of the elements (`DropLevel`,
`CopyLevel`), and an array's loop by induction over its elements. There is a lemma for
each statement of a program (*...Made*); at its end O is empty and the hand is, and the
variables show W, which is the invariant *RVInv*. What the program can reach is then what
is in a place (`HeldNamed`), and the first three properties follow.

`ContainsItsValues` and `Refinement` are about what values are to the program: `Tree` of
a value is what is below it, without the objects. Between two calls a tree depends on
nothing but the contents of the places and on the types and payloads of what is
allocated (*Sound* makes it so); `DropOk` and `CopyOk` therefore keep the trees of all places
they do not speak of, and a copy has the tree of its original. Each statement then maps to
the step of `ValueStore` that changes the same variable in the same way, or to a stutter.

Loops and recursive definitions rest on a few lemmas that each proof module states for
itself: a set of naturals has a least element, induction with a set in the place of the
predicate (`UpTo`, `NatInd`), and that a function defined by recursion exists
(`Recursion`).

Only model-checked:
- liveness (fairness and ENABLED are out of the prover's reach);
- the code of bodies that use a construct of `KnownGaps`;
- the parser and the checker, whose definitions are RECURSIVE operators over trees,
  which the prover does not take.

## 5. Where the code and its documents disagree

Shown by the runs that expect a violation:

1. `ThreadPool::shutdown` stores `m_stop` and notifies without the mutex
   (`ConcurrencyRuntime.cpp:335`). A worker between its predicate and its sleep
   misses both, and the join of line 340 never returns. `pool_progress` shows that
   this window is the only reason.
2. `resolveNamedType` asks the type cache for a name alone
   (`SemaResolve.cpp:155`): with a table of one name in two modules, the row
   references of the first read the columns of the second, against
   `LucidGrammar.md:695`.

Found with other instances of the same models. What is named is stated in the
module; add it to the configuration and change that as said.

*Threads.*
- `AwaitGetsOutcome` in `MCEventLoop_loop.cfg`: `__lucid_await` gives up when the
  queue is empty (`ConcurrencyEntry.cpp:128`), although another thread may be running
  the task. `AwaitAbandonsOnlyOthers`, which holds, says this is the only case.
- `WaitAllWaits` in `MCThreadPool_safety.cfg`: `waitAll` can return while a popped
  task has yet to run, as the active count rises after the pop released the mutex
  (`ConcurrencyRuntime.cpp:304`). It can also sleep for ever, as the count is lowered
  and notified without the mutex (`:317`, `:323`): `WaitAllReturns` with `FairSpec`.
  Nothing in the repository calls it.
- `notify_one` may wake a waitAll caller in place of a worker (`:283`); with one
  worker, a task that joins a task it spawned waits for the worker it occupies
  (`:307`): `EveryTaskSettles` with `Workers = {w1}` and `NestedParent`.

*Tables.*
- `ReusesBeforeGrowing` with `Reserve = 0`: `addRow` links only the first of the
  slots it adds (`TableObject.cpp:414-421`); without `@reserve` a table has 4, 8, 16, 32
  slots after 1, 2, 3, 4 rows, against the bound of `LucidGrammar.md:312`.
- The generation of a slot is the low half of a 64-bit counter
  (`TableObject.cpp:429`): `RefsTrackRows` fails with `GenMod = 2`.
- The scan of a `@unique` column compares string handles: two rows can hold equal
  strings (`NoDuplicates` with `Text <- Strings`). `byPrimary` finds nothing in a
  growing table, whose index is never built (`:174`).

*Emitter*, with constructs of `KnownGaps` in `Gaps`:
- `{"alias"}`, `ResultLive` (or `FreesOnce`): a returned local is a bit copy of a slot
  that the return has just dropped (`EmitStmt.cpp:421`). `emitCopy` has no caller. If
  the missing `LoadLocal` handler copied deeply instead, the drop of an assignment and
  of a scope, which load the slot and free what is on the stack, would free the copy
  and leak the original: with either meaning of `LoadLocal` the code is wrong.
- `{"while_exit"}`, `NoLeak`: break and continue in a `while` do not drop the body's
  own scope, as the index the loop records is the one of that scope and the drop
  excludes it (`DropSchedule.cpp:106`, against `DropSchedule.hpp:82-84`); in a `for` the
  index happens to be one further out.
- `{"for_continue"}`, `NoLeak`: continue in a `for` jumps to the function's first
  instruction (`EmitStmt.cpp:464`, `:823`): the target is not known when it is used.
- `{"shadow"}`, `BindsDeclared`: after a block that declares a name again, the name
  keeps the dropped inner slot (`SlotAllocator.cpp:98`).
- `{"switch_case"}`, `NeverAborts`: the subject is discarded on the way to default and
  in every case, and the depth counted along the text falls below zero
  (`EmitStmt.cpp:676`, `:693`).
- `{"and"}`, `HeightsAgree`: the branch pops the left operand, and the path that skips
  the right one has no value (`EmitExpr.cpp:1202`).
- `{"void_call"}`, `NeverAborts`: a statement that calls a void function pops a value
  that was not pushed (`EmitStmt.cpp:388`).

*Parser.*
- `GrammarAccepted` in `MCParseFile_parse.cfg`: the lexer ends every token vector with
  an end-of-file token (`Lexer.cpp:730`) and `isAtEnd` is true only past it
  (`TokenStream.cpp:92`), so `parseFile` reports an error at the end of every file
  (`Parser.cpp:127-157`). "Clean" in the properties means: up to there.
- A closing bracket that nothing opens is never consumed: the loop reports it again
  until the diagnostics are used up (`Parser.cpp:124`, against `LucidGrammar.md` 12.7).
  `RecoveryMoves` says that only closing brackets stall, and that the loop ends.
- A label before a loop (`LucidGrammar.md:1706-1708`) never parses; break and continue
  take an identifier of the next statement for their label.
- `&`, `|`, `^`, `<<` and `>>` have no infix precedence (`ParseExpr.cpp:111-147`).
- `CasesHaveValues` in `MCParseFile_parse.cfg`: `case : { }` is read clean
  (`ParseStmt.cpp:692-736`, against `LucidGrammar.md:1702`, which asks for at least one
  value). `ParsesTheGrammar` excepts it: what is read clean is `GrammaticalFilled`, the
  grammar with that one production added; `LucidSyntax` itself refuses it.
- A node that lost a part is not always marked: unclosed blocks, rows and array
  literals, a `for` without an iterable, a dynamic array type without `]`. `holes`
  records them, and `LossesReported` says that a diagnostic was reported. `check`
  starts from files without one, as `Pipeline.cpp` does.

*Checker.* The instances of `MCChecking` leave no accepted program with these, as
the code refuses or mistreats what should be accepted:
- a literal has `isConst` and no value (`SemaExpr.cpp:316`), which the evaluator
  takes for unknown (`ConstEvaluator.cpp:60`): every initializer at module level that
  is a literal is refused, and every literal `case`;
- `x == nil` is always refused (`SemaExpr.cpp:2014`), so no narrowing is ever in force;
- parameters are declared while no scope is open (`SemaDecl.cpp:240`): an assertion
  stops the checker at the first function with a parameter;
- nobody calls `addModule`: every import is an undefined module;
- entering a module clears its pending lambdas (`SemaContext.cpp:50`): only those of
  the last module are finalized;
- ADD to a dynamic array stops at an assertion (`SemaExpr.cpp:1466`); `t[i].c` is
  never assignable (`:892`, `:1513`).

The checker accepts what it should refuse. `ViewsAreNoValues` in
`MCChecking_check.cfg`: a column view `T.c` is accepted where a
value of the column's type is wanted (`let x: int = T.c`, `return T.c`). It gets the
element's type and a flag (`SemaExpr.cpp:953-968`) that no rule of the checker asks for,
against `LucidGrammar.md:841-843` and the comment at that place, which say it is no value
of any type; the emitter stops at it (`EmitExpr.cpp:694`). In `LucidRun` such a use is a
fault ("view"). For the same reason `for` over a column of integers is refused and
`.TOARRAY()` unknown, so the loop over a column in `Emitter` is code that the checker
does not let a program reach.

It accepts besides: a variable read in its own initializer;
a `switch` whose bodies break, as the last statement of a function with a result; a
lambda that reads a local of the function around it (against
`LucidGrammar.md:979`); column attributes and the types of cells are not looked at (so
no checked table has a primary column, and no run reaches the lookup `byId`).
`LucidRun` knows these faults ("unset", "noreturn", "capture"), and no property of a
run forbids them. The least integer, negated, wraps in `foldUnary`
(`Negated` in `CellsAreExact`).

*Runtime library.*
- A fixed array is dropped an element at a time and itself never (the exception in
  `RefsMatchOwners`). Two variables of a fixed array of non-owning elements are one
  array, as its copy is a copy of bits; such types are not in `MCTypes`.
- `ContainsStructurally` in `MCRuntimeValues_values.cfg`: an array of arrays compares its
  elements as objects (`Array.cpp:166-172`), so CONTAINS does not find an equal array,
  against `LucidGrammar.md:957`, which has it structural. `ContainsByValue` therefore
  speaks of arrays of handles and of strings.
- A view's own types and functions hide those of its parent with the same index
  (`HostRegistry.cpp:101`, against the header, lines 33-35). `ReleasedByItsType` excepts
  handles of views that have types of their own.
- `retain` calls the host at each rise of the count to two, `release` once at zero
  (`HostRegistry.hpp:80` has it that they pair up).
- A capacity that passes 2^31 doubles to zero and the loop does not end
  (`Array.cpp:75`): `GrowsToHalf` says when.
- `emitCopy` has no caller, so the deep copies that `RuntimeValues` makes do not
  happen in the code that the emitter produces; see `{"alias"}` above.

*Command line tool.*
- Times are cut to seconds: a second write in a second is never reported.
- With libstdc++ all times count from a moment in the future and are negative, while a
  missing file has time 0: a file that was missing at a poll is never reported
  again. `ChangeReachesImporters` speaks of later times only.
- To watch a file again swallows a change that has not been polled yet.
- The order of modules is computed once; a module cached later is not in it. Cycles,
  and aliases declared twice, lose edges.
- `handleHotReloadChange` is declared and defined nowhere, and `run` creates no watcher
  (`run.cpp:95-99`). A callback that calls `watchFile` would wait for itself.

Seen while reading, not modelled: `LoadIndex` and `StoreIndex` sit one entry too
high in the effect table (`contract/Opcode.cpp:58-59`, `contract/Opcode.hpp:81-82`);
an array literal of more than 127 elements stops the compiler
(`EmitExpr.cpp:653`); `emitElementWiseCopy` duplicates its last copy and not the
source (`EmitCopy.cpp:60`); the binding of a loop over a column of strings is
never dropped where the body falls through (`EmitStmt.cpp:1346`); the length of a
concatenation wraps in 32 bits (`String.cpp:85`); the loader fills baked bindings and
cells with empty values (`Loader.cpp:292`, `:338`, `:352`); an allocation that fails in
an element-wise copy returns the original (`ValueOps.cpp:128`).
Sema warns about a statement after one that transfers and leaves it unresolved
(`SemaStmt.cpp:152`), while the emitter still emits it and stops at the
first name without a declaration; `MayEmit` keeps such bodies out of the model.

## 6. What is not modelled

*Not modelled.* The artifact and its serialisation: a container with a reader and a
writer that name the same fields in the same order. The loader and host calls: one
pass over an artifact, into a dispatch loop that is not in the repository; with it go
the frame stack and panics, whose other half is missing. The AST, string pool, arena
and diagnostics: containers without a protocol. Argument parsing, output and the JSON
dumper. The ABI headers. The legacy runtime other than its threads: nothing in
the repository builds or calls it.
*Partly.* The emitter: loops over arrays, suspend points, table methods, field and
index places, compound assignment, static data, `start`, lambdas. The compiler driver:
only the end of a function. The runtime library: what its text operations compute.
*Abstracted.* What strings and numbers are (values are model values, except in the
lexer and the evaluator), allocation failure outside spawn and async, what the drop
of a table's cells does to the strings in them, the bytes of instructions and
their widths, source locations and the wording of messages.

## 7. Plan

Done: threads, event loop, tables, emitter with one frame, runtime library and host
registry, lexer and parser, checker, module order and file watcher.

What would come next, in this order:

1. *Emitter, the rest*: field and index places, compound assignment, table methods,
   closures and static data, when the interpreter's handlers exist to run them.
2. *Composition*: `Execution` with the objects of `RuntimeValues`, once the emitter
   calls `emitCopy`; `LucidRun`'s programs through `Emitter`.
3. *Loader and calls*: the frame stack, call depth and panics, with the dispatch loop.
4. *Serialisation*: the reader on damaged input.
5. *Proofs*: the checker's facts (`AcceptedIsTyped`), with its recursion over trees
   written as recursive functions; the emitter's theorems for the constructs of
   `KnownGaps`, when the code is repaired.
