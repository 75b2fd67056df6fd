# TypeRunner: TLA+ models, checks and proofs

TypeRunner checks TypeScript types by compiling them to bytecode and running the
bytecode in a small virtual machine. This directory models the way of a source
file through the program: scanner, parser and node factory, the compiler, the VM
with its reference counted types and memory pools, and the bytecode cache of the
command line tool. Paths below are relative to the repository; `checker/` is
`src/checker/`.

## 1. The system

```
 source text -> scanner -> parser -> syntax tree -> compiler -> bytecode -> VM -> diagnostics
                              |                         |          ^         |
                         node factory              file.ts.tsb ----+       pools of Type,
                                                  (main.cpp)               TypeRef, spans
```

| Component | State | Operations | What is hard |
|---|---|---|---|
| Scanner (`scanner.cpp`, `utf.cpp`) | position, token, its start, value and flags | `scan`, the rescans, `lookAhead`, `tryScan` | characters of several bytes, tokens that only the parser can tell apart |
| Parser (`parser2.h`, `parser2.cpp`) | scanner, context flags, list contexts, errors, call stack | one function per production, speculation, lists, recovery | flags and errors under lookahead, lists that must make progress, precedence |
| Node factory, node tests, parenthesizer (`factory.cpp`, `node_test.cpp`, `parenthesizer.cpp`, `types.h`) | the tree | one `create` function per node kind | untyped children, transform flags, parentheses added behind the parser's back |
| Compiler (`checker/compiler.h`) | subroutines, sections, symbols | `handle` per node kind, `pushFunction`, `optimise`, `build` | when a call may become a tail call, when a spread tuple may be modified in place |
| Module, printer (`checker/module2.h`, `checker/utils.h`, `checker/debug.h`) | header, subroutine table, storage | `parseHeader`, `readStorage`, `eatParams`, `parseBin`, `clear` | offsets and widths written by one side and read by two others |
| VM (`checker/vm2.cpp`, `checker/vm2.h`) | stack, frames, loops, cached and narrowed types | one per OP, `run`, `clear(module)`, `gcStackAndFlush` | reused frames and loops, caching, in-place tuples, garbage collection between any two OPs |
| Types (`checker/types2.h`, first part of `checker/vm2.cpp`) | `refCount`, flags, lists of `TypeRef`, hash tables | `use`, `useAsRef`, `gc`, `drop`, `gcFlush`, `appendChild`, `addHashChild` | ownership: the stack owns nothing, caches and members do |
| Template literals (`CartesianProduct`, `handleTemplateLiteral`, `widen`) | none | product of groups, merging of texts | temporaries that nobody owns |
| Assignability (`checker/check2.h`) | none | `extends` | recursion over all pairs of kinds, a hash as fast path |
| `PoolSingle<T>` (`checker/pool_single.h`) | block chain, bump pointer, free list, gc queue | `allocate`, `destruct`, `gc`, `gcFlush`, `clear`, destructor | reuse of blocks after `clear()`, release through a bounded queue, byte arithmetic at the end of a block |
| `PoolArray<T>` (`checker/pool_array.h`) | the same, once per power of two | `construct(size)`, `destruct`, `gc`, `clear` | slots of different classes must not mix |
| Tool (`main.cpp`) | `file.ts` and `file.ts.tsb` | run or compile and run | staleness, kills between file system calls |
| `PoolBand`, path functions, GUI, first VM (`vm.h`), `vm3.h` | see PROJECT.json | | |

The program has one thread. What makes it hard is not concurrency but long
sequences of legal operations on shared, reused and reference counted state; the
exception is the bytecode cache, where the editor is a second actor and the
process can be killed. The hazards are listed line by line in `PROJECT.json`.

What makes each part correct: tokens partition the text and are as long as
possible; the tree is the one that was written, complete or with an error, and
speculation leaves no trace; the parser always ends; a pool never hands out memory
that somebody holds and never loses any; `refCount` is the number of owners and
nothing reachable is collected; the bytecode computes what the declarations mean,
the caches included; a tail call happens only where nothing is left to do; every
run ends and everything can be released; the cache never runs bytecode of another
text.

## 2. The modules

| Module | Models | Notes |
|---|---|---|
| `Scanner` | `scanner.cpp`, `utf.cpp` | characters; one action per kind of `scan`, rescan and restore |
| `Tokens` | the scanner as the parser sees it, `token()` predicates | lexemes instead of characters; `scanner` checks that both agree |
| `Grammar` | every parse function as a short program | instructions are the calls the function makes, in their order |
| `Parser` | the parser's state and the meaning of the instructions | composes `Tokens`, `Grammar`, `Factory`, `Shapes`; a stack of calls with their positions and saved flags |
| `Factory`, `TransformFlags`, `Parenthesizer` | the `create` functions, the flags they compute, the parentheses they add | pure operators on nodes |
| `Shapes` | the structs of `types.h` and `forEachChild` | which child may stand where: `TreeWellFormed` |
| `SourceTexts` | | texts, with grouping and types defined without the parser |
| `Compiler` | `Subroutine`, `Program`, `Compiler::handle` | a pure function from syntax trees to bytecode, byte positions kept |
| `Bytecode` | `parseHeader`, `readStorage`, `eatParams`, `parseBin` | reads what `Compiler` builds |
| `TypeHeap` | types, `gc`, `drop`, hash tables, `extends` | a heap is a value, every operator returns the heap after the call |
| `RefCounts` | `use`, `drop`, `gc`, `gcFlush` and what a client may do with a type | ownership alone: every call of `gc` is a step, for any number of types and owners |
| `Templates` | `CartesianProduct`, `handleTemplateLiteral`, `widen` | extends `TypeHeap` |
| `Vm` | `process()` and its callers | composes `Compiler`, `Bytecode` and `Templates`; one action per OP |
| `TypeSemantics` | nothing in the code | the reference: what a type expression means, by recursion on the tree |
| `Programs` | | constructors of syntax trees for the MC modules |
| `Allocator` | what every pool promises | abstract: regions handed out are inside a block and overlap nothing held |
| `PoolSingle`, `PoolArray` | the pools | refine `Allocator` |
| `BytecodeCache` | `main.cpp`, `fs.h` | one action per call of the file system, an editor, kills |
| `MC*` | | instances: families of source files and texts, small size classes |
| `PoolSingleProofs`, `PoolSingleSlotsProofs`, `PoolArrayProofs`, `RefCountsProofs`, `BytecodeCacheProofs` | | theorems and their proofs |
| `ListLemmas` | | facts about lists without repetitions, induction over sets of numbers and division, which the proofs about pools and types share |

*Scanner.* `text` is a string whose characters are bytes: "GH" stands for a letter of
two bytes, "IJ" for a blank of two, "QRS" for the line separator of three, "L" for
the quote of a template. `scanner` has the fields of the class; an action is the
part of `scan()` for one class of first characters, a rescan, or the return of
`lookAhead`/`tryScan`. `error()` has no return statement, so after an error the
model goes on or ends in a crash. A conflict marker ends in a
crash, because `Scanner::scanConflictMarkerTrivia` calls itself.

*Parser.* The functions call each other, so `stack` holds a frame per call: the
instructions still to execute (`code`), the start position, the nodes collected so
far (`out`), the arguments that are true (`arg`), and what speculation or a list has
to restore. An instruction is one call of the code: `Expect("=")` is
`parseExpected(...)`, `Try` and `Look` are `tryParse` and `lookAhead`, `Inside` and
`Outside` the `do...Context` functions, `Node(k)` is `finishNode(factory.createK(...))`.
Conditions (`At`, `Is`, `And`...) are evaluated in the state in which the code
evaluates them. `ret` tells a null result from a node. Lists are actions of their
own: `parseListElement`, `ListTerminated`, `abortParsingListOrMoveToNextToken`,
`AfterElement`. A predicate that looks ahead without changing anything but the
scanner is an operator of `Tokens` that computes the state behind its tokens. Positions are
positions of lexemes, `errs` the positions of the diagnostics. What would throw sets
`status` to "exception", a null pointer or a missing return to "crash".

*Tree.* A node is `[kind, pos, end, c, tf, flags]`; `c` are its children in the order of
`forEachChild`, `tf` its transform flags. The kinds that the structs demand come from
`Shapes`. At the end of a file the parser looks for an `import.meta` in the tree; the
walk (`walkTreeForImportMeta`) is kept as it is written: `visitNode` drops what it
finds and lists are not visited, so `import.meta` alone never makes a file a module.

*Pools.* `PoolSingle` and `PoolArray` use the names of the fields; `live` is the
client's side: what was handed out and not released.

*Types.* A type is a record with `kind`, `flags`, `refCount`, `size`, `hash` and
`kids`; `kids` is the `TypeRef` list (or the single owned type, or the hash table of
more than five members), `hash` the text that the code hashes; a bucket is the
length of that text, so that collisions in the table happen. Queued types keep their
content until the queue of the pool is flushed, as in the pool; `fault` records the
exception or the invalid access that would end the process.

*Ownership.* `RefCounts` looks at the same code from closer by and at less of it. `gc()`
calls itself for members whose count falls to 0, and flushes the pool's queue in the
middle of that recursion; `TypeHeap` computes the result of a whole call, `RefCounts` has
the C++ call stack as a variable (`todo`) and a step per call and per turn of the loop
over the members (`released` counts the turns). The clients (the OPs) allocate, build
lists, cache (`Use`), drop and discard in any order that respects the discipline of the
code: work with a type that has an owner or that you have just allocated, and add
members only to a type that is not yet a member itself. The slot of a type keeps its
content when it is flushed, as in the pool, so the loop may still read the list of a
type that has been freed.

*VM.* `frames` is `activeSubroutines`, `loops` the array of `LoopHelper`, both reused
without reset as in the code; stack positions count from 1. A frame has one field
the code lacks, `arguments`, the number of arguments it was entered with, which only
the invariant about owners reads. A binary has one cell per byte, so every address,
jump distance and parameter width is the one of the code. A type parameter of a
function or class makes it a `FunctionRef` or `ClassRef` (`EmitRef`, `PushRef`), which
`Instantiate`, `CallExpression` and `New` turn into a call (`CallRef`).

An action is a whole `case` of `process()`, with the calls of `gc`, `use` and
`drop` it makes, in their order. Undefined or faulty behaviour is kept:
`restoreSymbolCheckout` changes nothing because the code changes a copy,
`TypeArgumentConstraint` reads the wrong cell, `[...T, ...U]` with an empty `T`
faults, `StartInferTypeArguments` removes the callee of a call, the second address
of a `FunctionRef` is executed as OPs.

The definitions named *Variant* or *Mutant* before a definition are its mutated
forms: each property of a passing run fails when the definition is replaced by its
variant.

## 3. The runs

| Run | Shows | Bounds |
|---|---|---|
| `scanner` | tokens partition the text with all trivia accounted for, no longer token was possible, literals have the value that was written, every scan moves on, and `Tokens` makes the same of the lexemes | all texts of up to 3, 4 or 5 characters over six alphabets, each chosen for one part of the scanner, and the characters of the parser's texts |
| `parser` | speculation keeps the context, every list makes progress, ranges nest, nodes have the children their structs demand, missing nodes are reported, the factory adds no parentheses, expressions and types are read as written, and every file ends | a corpus that uses every parse function, broken texts, expressions of up to three operators and types of two levels |
| `vm_types` | reference counts, garbage collection, caching, tail calls, loops, results and termination, on source files from small grammars: generic, conditional, distributive, recursive types, templates, functions, classes, types of more than five members; run twice, cleared and collected | 60 types, 12 stack cells, 5 frames, 3 loops, gc queue of 3. Deadlock is checked, so no run stops at a bound |
| `vm_tests` | the model agrees with the programs of `src/tests/test_vm2.cpp` (number of diagnostics and of active types), and sequences of up to three statements give the diagnostics and narrowed types of the reference; templates that merge texts, calls, classes with members and generics are executed beside them; what the printer shows of a binary is what is executed, up to the first OP whose width it gets wrong | 30 types, 12 cells, gc queue of 2 |
| `pool_single` | no aliasing, no lost or doubly queued slot, blocks reused after `clear()`, refinement of `Allocator` | 3 blocks of 2 slots, queue of 2: a full queue, a full block, reuse of a block and a third block all happen |
| `pool_array` | the same for spans of 2, 3 and 4 elements in classes 1, 2 and 4, free lists of all classes disjoint | 3 blocks of 4 slots, queues of 2 and 1 |
| `ref_counts` | the count of a type is the number of its owners between any two calls of `gc()`, no owner is left with a collected type, `gc()` never throws "Type already deleted", and once nobody owns anything everything has been given to the pool | 4 types, alike; 2 holders, alike; lists of 2 members; a queue of 1, so that nearly every collection flushes it |
| `bytecode_cache` | kills between any two file system calls, saves and restored versions between runs | 2 texts, 6 writes: two complete compilations and two saves, or more of one |
| `parser_catch`, `pool_array_overrun`, `vm_tail_call`, `bytecode_cache_edit` | one disagreement each between the code and what its comments, assertions, tests or README say (section 5) | one source file or a small instance each |

`CHECK_DEADLOCK FALSE` is set for the pools, which stop when the bound on blocks is
reached or the destructor has run, and for the parser, which stops behind a file.

`ContextKept` is what `speculationHelper` asserts, and the same for a whole file.
`TreesAsWritten` compares the tree with `SourceTexts`, which groups operators by a
table of precedences and writes types down with the parentheses they need.
`CacheFaithful` compares every cached type with `TypeSemantics`. `PrinterAgrees` says
that a walk over the binary with `eatParams()` meets every OP that is executed; it is
false of binaries with a call that has arguments or with a generic function or class
(findings 10 and 11 of section 5), so it speaks of the OPs in front of the first
`StartInferTypeArguments`, `FunctionRef` or `ClassRef`. It is checked in `vm_tests`, the
run whose sources have these OPs; without the exception TLC refutes it there.

*Tests left out of `vm_tests`.* `controlFlow1` needs binary expressions, the global `Date`
and calls without type arguments (finding 8); `vm2TemplateLiteral3` carries the comment
"not implemented yet", and the model gives two diagnostics where the test asks for one;
`gcUnion`, `gcTuple` and `gcObject` push OPs without a source file, `vm2Cartesian` calls
`CartesianProduct` alone, `vm2Complex1` and `vm2BenchOverhead` are benchmarks, and
`vm2TwoTests` and `vm2FnTailCallConditionDeeper` repeat the programs of other tests.

*Sources left out of the passing runs.* The disagreements of section 5 have their own
run or are described there, and `TypeSources` in `MCVm` avoids the constructs that lead
to them: calls in the false branch of a distributive type, uses of `T` after `...T` that
reach `RestReuse`, two calls that use a default, indexed access to a member that
exists. Two spreads in one tuple and constraints other than `any` are left out for the
reasons given with the hazards. Functions that are called, merged templates and
classes with members leak or underflow in the code and are executed in `vm_tests`
only, which checks results and not ownership. `RefGCQueueSize` is large enough that
the queue of `TypeRef`s is not flushed in the middle of the collection of a property,
where the code reads a `TypeRef` after queuing it. `MaxAllocations` (8) is how many
types one OP may allocate, `MaxList` (5) the number of members from which on a type
has a hash table. Texts of the parser avoid `a!!.b` and lone statement keywords, on which
the code loops; texts of the scanner avoid the two-byte blank, conflict markers and
escapes whose value the code gets wrong.

*Fairness.* `Vm!Spec` assumes weak fairness of `Execute` only: `process()` is a
`while (true)` that executes the next OP whenever there is one. No fairness is
assumed of the caller's `clear`, `gcStackAndFlush` or of a second `run`.
`Parser!Spec` assumes weak fairness of `Next`: the parser is one thread that goes on
until its function returns, and nothing else takes part.

## 4. The proofs

`PoolSingleProofs` proves, for every slot size, block size, queue size and bound
on blocks that `SizesAssumption` (the code's `static_assert`) admits:
`TypeCorrect`, `SlotsNeverAlias`, `FreeListIsSound`, `QueueStaysInBounds` and
`RefinesAllocator`. `NoAliasing` alone is not inductive: it says nothing about the
slots that will be handed out next. The invariant `IInv` adds

- `Chain`: headers link the blocks in the order of their allocation, so the block
  reached through `next` is the following one;
- `Cursor`: `lastSlot` is what `initializeBlock` computes, so that
  `currentSlot < lastSlot` means that a whole slot is left;
- `Carving`: slots that are held or free lie in blocks up to the current one, and
  in the current block below `currentSlot`, so the bump pointer and the blocks
  behind it are untouched;
- `Apart`: held and free slots are pairwise disjoint;
- `Lists`: free list and queue have no repetitions, the free list meets no held
  slot, the queue only held ones;
- `Counting`: `active` is the number of held slots.

There is one lemma per action, and lemmas about lists without repetitions (tail,
concatenation, reversal, cardinality) that the actions share. Each lemma also
states what its step means to a client (`HandsOutFresh`, `OnlyReleases`), from
which the refinement follows.

`PoolSingleSlotsProofs` proves, under the same assumption, `NoSlotIsLost`,
`DestructorIsComplete` and the action property `BlocksAreReused`. `IInv` bounds the
slots that are held or free from above only; that none is missing needs an equation.
`SInv` adds

- `OnGrid`: the bump pointer is a multiple of the slot size, at most one place behind
  the last slot. Without it `currentSlot >= lastSlot` would not mean that a block is used
  up, and the slots carved could not be counted by a division;
- `Complete`: held and free slots together are all places below the bump pointer. This
  is what makes `BlocksReused` true: with an empty free list and a full last block
  every place is held;
- `Balance`: their number, from the counters the code keeps;
- `DestructorReachesUsedBlocks`: the walk along `prev`. The proof is an induction on the
  length of the walk, over a set of numbers (`InductionOnNat`), because a theorem with a
  predicate as parameter cannot be instantiated.

`PoolArrayProofs` proves `FreeListsAreSound`, `QueuesStayInBounds` and
`RefinesAllocator` for `PoolArray`, for every set of classes, block size, queue size
and bound on blocks. The hypothesis `Served` says that each size asked for has a class
that is large enough and not larger than `GCQueueSize`. The code relies on it without
checking: it clamps larger sizes to the largest class (a hazard in `PROJECT.json`), and
a class above `GCQueueSize` has a queue of length 0, behind which the first `gc()`
writes. The program satisfies it up to 1024 elements, with pools of 10000 and queues of
5000, and so does the instance of the run `pool_array`. Blocks of the abstract allocator
are one element longer than those the code requests, because the last span of a block
does reach behind it (section 5). The invariant `PInv`, which TLC has also checked on the
instance of `pool_array`, consists of

- `Types`;
- `Owners`: some assignment of blocks to classes exists such that a class uses only its
  own blocks and the links of a block lead to a later block of the same class. No field of
  the code holds this assignment, so it is quantified. It is what keeps slots of different
  classes apart, whose sizes differ;
- `ClassesOK`: for each class, its slots lie below its bump pointer and apart from one
  another, free list and queue have no repetitions, what is free is not held and what is
  queued is. It speaks of one `struct Pool` and its clients, so each operation is proved
  once about a class (`CarveOK`, `TakeFreeOK`, `EnqueueOK`, `FlushOK`...) and the others
  are left alone (`OtherClasses`);
- `Distinct`: an address is held once, so a release by address removes one span;
- `Counting`: `held` is the number of spans held.

`RefCountsProofs` proves `CountsOwners`, `NothingDangles` and `NothingLeaks` for every
finite number of types and of holders, every length of the lists from 2 on and every
size of the queue (`RefCountsAssumption`). The properties do not follow from one another:
that `gc()` finds its type alive depends on the calls that are waiting on the C++ stack,
of which they say nothing. The invariant `IInv`, which TLC has also checked with queues
of 1 and of 2, is `OwnersCounted` and

- `TypeOK`, with `thrown = FALSE`;
- `Alive`: what has an owner lives, and a type a client has in hand lives without one;
- `Pending`: a living type without owner is in somebody's hand or about to be collected;
- `Calls`: a call that is about to start finds its type owned, or alive and in nobody's
  hand; at most one further call waits, that for the type of a property while the call for
  its name is the innermost one. The code lowers both counts of a property before it
  collects either, and this is correct only because the name is a leaf of its own;
- `Loops`: a collected type that still owns members has its loop on the stack, once;
- `Shape`: a living type owns all of its members, leaves have none, and properties have a
  name that is a leaf and different from their type;
- `Queue`: the queue holds what is deleted, each type once and no more than fit;
- `Acyclic`: every non-empty set of types has one that no type of the set owns. With it
  the living types, once nobody holds one, cannot keep each other alive; without it
  reference counting would leak, and `NothingLeaks` be false. It holds because a type takes
  members only while it is not a member itself.

There is one lemma per action; `CollectStep` and `Flagged` have what the three kinds of
collected types share, `ClientStep` what the operations of clients share, and
`FewerEdges` and `ConstructAcyclic` the preservation of `Acyclic`.

`BytecodeCacheProofs` proves `CacheIsFaithful` and `CacheIsUsed` for any set of
texts and any number of writes, assuming that the source file does not change
while the tool runs (`~EditWhileRunning`; without it the first is false, see
below). The invariant: times of versions are unique (`TimesUnique`), bytecode
that carries the time of any version ever saved was compiled from that version
(`TimeTells`), and what each step of the tool has established (`Progress`,
`WarmKept`). `TimeTells` has to speak of all versions, because an old one may be
restored with its time.

Only model-checked: the properties of `Scanner`, `Parser` and `Vm`. Their state is text,
trees and bytecode, and what the code does with them is defined by recursive operators,
which the prover cannot use; `Terminates` is moreover liveness under fairness. Every
property that the runs `pool_single`, `pool_array`, `ref_counts` and `bytecode_cache`
check is proved. `RefCounts` is the proved counterpart of `OwnersCounted`, `NoDangling`
and `EverythingReleased` of `Vm`: it shows that the discipline is sound, the run
`vm_types` that the OPs follow it on the source files tried. That `Vm` refines
`RefCounts` is not shown; one OP is many of its steps.

## 5. Where the code disagrees with its own statements

PROJECT.json quotes the lines. With a run that expects the violation:

1. `checker/pool_array.h:122`: the last span of a block reaches one element behind
   the block (`pool_array_overrun`).
2. `checker/compiler.h:177`: the section after a branch does not inherit
   `isBlockTailCall`; the false branch of a distributive type gets a tail call
   inside its loop, which `tailCall()` asserts cannot be (`vm_tail_call`).
3. `main.cpp:34`: a file saved while it is compiled gives its time to bytecode of
   the previous text (`bytecode_cache_edit`).
4. `parser2.h:2946`: a statement keyword without a case in `parseStatement`, such as a
   lone `catch`, is an element of a list that takes no token (`parser_catch`).

Seen while modelling, kept in the model, without a run of their own:

5. `checker/compiler.h:99`: the second use of a type argument overwrites the wrong
   field, so a tuple that is used later is modified in place.
6. `checker/vm2.cpp:1299`: a cached default type argument is pushed without owner
   and dropped by `Return`.
7. `checker/vm2.cpp:63`: `gcStackAndFlush()` after a reassigned `let` collects a
   type twice and throws.
8. `checker/vm2.cpp:1445`: `StartInferTypeArguments` pops the callee of every call
   without type arguments.
9. `checker/vm2.cpp:421`: the flags of a reused frame are not reset.
10. `checker/utils.h:66`: `eatParams()` has no case for the parameter of
    `StartInferTypeArguments` and skips two bytes behind `InferTypeArguments`, which has
    none: of a call with an argument the printer and the debugger show no
    `CallExpression`.
11. `checker/vm2.cpp:906`: two addresses are written behind `FunctionRef` and `ClassRef`,
    `process()` reads one.
12. `parser2.cpp:18`: only repeated errors mark the next node.
13. `parser2.h:7312`: interfaces, enums, modules, imports and exports throw, though
    TODO.md lists interfaces as parsed.

## 6. What is not modelled

- *Scanner and parser*: JSX, JSDoc and incremental parsing; every caller parses
  `ScriptKind::TS` from scratch, so no file reaches them. `reScanInvalidIdentifier` is
  no action, because `tryScan` always restores. The wording of diagnostics.
- *Factory*: the `update` functions and the nodes no parse function creates.
- *Compiler and VM*: interfaces (the parser cannot produce one), BigInt types, object
  spreads, defaults of type parameters of functions and classes, `Widen` as an action
  (emitted, but `Set` has always narrowed first), the source map and the positions of
  diagnostics, the stepper of the debugger. Collisions of 64-bit hashes.
- *Tool*: time stamps are assumed finer than the time between two writes, and one tool
  process runs at a time.
- `PoolBand`, path functions, message tables, the GUI, the first VM and `vm3.h`, for
  the reasons in PROJECT.json.

## 7. Plan

Done: pools and their allocator specification, scanner, parser, factory, compiler,
binary layout, VM with reference semantics, bytecode cache; ownership of types as a
specification of its own; proofs of all properties of `PoolSingle`, `PoolArray`,
`RefCounts` and `BytecodeCache`.

Next:

1. `Vm` as a client of `RefCounts`: each OP as a sequence of its steps, which would
   carry the proofs over to the VM.
2. `PoolBand` as a third implementation of `Allocator`.
3. Two tools on one file, once the code has a rule for it.
