# TLA+ models of GGJS

GGJS is an Android demo that runs JavaScript in a vendored QuickJS engine
(version 2025-09-13) behind a small JNI bridge: C++ classes make Kotlin objects
look like JavaScript objects and functions, Kotlin maps lead from the pointer
of a JavaScript object back to its Kotlin object.

All paths below are relative to `src/`; `cpp` stands for
`quickJS/src/main/cpp`, `kotlin` for
`quickJS/src/main/java/com/example/quickjs`, and a line number alone is one of
`cpp/quickjs/quickjs.c`.

## 1. Inventory

| component | state | operations | what is hard | what makes it correct |
|---|---|---|---|---|
| Reference counting and cycle collector (5535-6268, `quickjs.h` 679-715) | `ref_count`, `mark` and list of every cell; `gc_phase` | `JS_DupValue`, `JS_FreeValue`, `set_value`, `free_zero_refcount`, `JS_RunGC` (weak pass, `gc_decref`, `gc_scan`, `gc_free_cycles`), `JS_FreeRuntime` | loops that free objects while they walk lists of them; counts that are wrong on purpose during a pass; marks left for the next pass | counts exact, nothing in use freed, no garbage left, loops end |
| WeakRef, WeakMap, FinalizationRegistry (49534-50348, 58051-58290) | `weakref_count`, `weakref_list`, map records | constructors, `deref`, `set`, `delete`, finalizers | structures of dead objects live on until their last weak reference | a dead object is never returned, its structure freed exactly once |
| JNI bridge (`cpp/ggjs.cpp`, `jsi.cpp`, `jsi.h`, `utils.cpp`) | `GGRuntime::objFunctionCache`, `JSIObject::functionCache` | create object and function, set global, get and set property, eval, destroy, conversions | caches and maps keyed by address; who owns a reference; widths of numbers | reads never touch freed memory, each call reaches its Kotlin object, destroy leaves nothing, numbers keep their value |
| Kotlin runtime classes (`kotlin/JSRuntime.kt`, `JSObjectProxy.kt`, `JSFunction.kt`, `JSContext.kt`, `bridge/JSBridge.kt`) | `trackProxyMap`, `trackMethodMap`, lazy `ptr` | `createJSObject`, `createJSFunction`, `propGetter`, `methodCall`, `destroy` | entries outlive their objects, addresses are used again | an entry belongs to the object now at its address |
| Demo application (`app/.../MainActivity.kt`, `Person.kt`) | `Person.age`, one `JSContext` per activity | three scripts run by taps | number conversion; a new runtime for every activity, none destroyed | `Person.age` follows the script |
| Jobs, promises, async functions (1813-1877, 19735-20560, 51174-52100) | job list, promise reactions, resolving functions, request queue of async generators | `JS_EnqueueJob`, `JS_ExecutePendingJob`, resolve, reject, `then`, `await`, `Promise.all`, `next` | code of the program runs inside a resolution; the order of jobs | each reaction runs once, in order; what is settled is told; requests answered in order |
| Modules (28365-29210, 29225-30338) | loaded list, `status`, DFS indices, async parents and counts, `var_refs` | load, resolve export, link, evaluate, async completion, name space | cycles, failures half-way, errors that arrive late | each module is loaded and evaluated once, after its dependencies; a name stands for one variable |
| Map and Set iterators, ArrayBuffer, Atomics (1006-1026, 49820-50481, 57752-57929) | records with counts, iterators, waiter list | iterate, `forEach`, delete, clear, wait, notify | a record deleted below an iterator; wake-up against timeout | no record is visited after it is freed; no lost wake-up |
| Shapes, arrays, atoms and strings (4648-5224, 8565-9858) | shape hash, property arrays, fast arrays, atom table, ropes | add, define and delete property, set length, intern | sharing and copy on write, two representations of arrays | an object's properties change only by what is done to it |
| Standard library and event loop (`quickjs-libc.c`) | timers, descriptors, signals, rejected promises, workers, pipes, shared blocks | `js_std_loop`, `js_os_poll`, post and take messages | signals in the middle of the poll, threads that free what they share | events after jobs; messages in order, each once; counts exact |
| Command line tools and tests (`run-test262.c`, `qjs.c`, `qjsc.c`) | the agents of a test | start, broadcast, receive, join | one condition variable for all | every agent takes every broadcast |
| Parser, bytecode compiler and interpreter (16850-19650, 20671-36000) | code, labels and scopes of a function; the stack of blocks a jump may leave (`BlockEnv`); stack levels; the frame of a call | parse statements, `resolve_variables`, `resolve_labels`, `compute_stack_size`, `JS_CallInternal` | jumps out of nested `finally` blocks, iterators and scopes; dead code; jumps that become narrower while others are measured | code does what the statements mean, and its stack is as computed |
| Regular expressions and Unicode (`libregexp.c`, 46390-46850, `libunicode.c`) | code; `capture`, `stack`, `state_stack`; `lastIndex` | compile, `lre_exec`, `exec`, `match` | loops with empty bodies; captures kept or restored while going back; going backward in a lookbehind; surrogate pairs | what is found is what the expression matches, and the interpreter ends |
| Number conversion and containers (10595-12100, `dtoa.c`, `cutils.c`) | limbs of a BigInt | arithmetic, logic, shifts, comparison, text, doubles | numbers of one limb beside longer ones; limbs that only repeat the sign; corrected guesses of a quotient | results are exact and in their shortest form |

Interactions. Kotlin calls the bridge through JNI on the thread that owns the
runtime; the bridge calls the engine's API; the engine calls back into the
bridge (finalizers and exotic property handlers of `jsi.h`), and the bridge
calls back into Kotlin (`propGetter`, `propSetter`, `methodCall`). There is one
thread: the hard interleavings are those of callbacks, of loops over lists
that the loop body changes, and of addresses freed and used again. The engine
itself is one thread per runtime; threads meet in `Atomics`, in the message
pipes and shared blocks of workers, and in the agents of `run-test262`. The
event loop drives the job queue, which drives promises, async functions and
modules. The bridge does not: nothing in `cpp/ggjs.cpp` calls
`JS_ExecutePendingJob`, so in the application reactions queue up and never run.

## 2. Modules

| module | what it is |
|---|---|
| `ObjectGraph` | the abstract promise about memory: objects and the values that link them; a set of objects may be taken back when no value outside a closed set enters it |
| `JSHeap` | the mechanism: counts, lists, marks, cycle collector, weak references, destruction of the runtime; implements `ObjectGraph` |
| `JSHeapProofs` | the proofs about `JSHeap`, with completeness of the collector and the refinement |
| `GGBridge`, `GGBridgeProofs` | the bridge and the Kotlin maps, and the proofs about them |
| `GGValues` | numbers that cross the bridge |
| `BigInt` | BigInts as limbs, against the integers of TLA+ |
| `Matching` | what regular expressions match: a definition without code or stack |
| `RegExp` | compiler and interpreter of regular expressions, against `Matching` |
| `Statements` | what statements mean, by completions; which are refused |
| `ControlFlow` | how statements, tests and `yield` are compiled and run, against `Statements` |
| `Programs` | the functions `ControlFlow` is checked with |
| `Promises` | job queue, promises, async functions, the rejection tracker |
| `PromiseAll` | `Promise.all`, `allSettled`, `any` |
| `PromisesProofs` | the proofs about both |
| `AsyncGeneratorState`, `AsyncGenerator` | the request queue of an async generator: its state with what is promised of it, and how it changes |
| `ModuleLoading`, `ModuleExports`, `Modules` | loading of files; resolution of names; linking and evaluation |
| `RequestsProofs` | the proofs about `AsyncGenerator` and `ModuleLoading` |
| `OrderedMap` | what walks over a Map promise |
| `MapIterators` | Map records under iterators and `forEach`; implements `OrderedMap` |
| `ArrayObject` | an array as scripts see it |
| `Arrays` | fast and slow arrays; implements `ArrayObject` up to two paths |
| `OwnProperties` | objects with properties of their own |
| `Shapes` | shared shapes and copy on write; implements `OwnProperties` |
| `CollectionsProofs` | the proofs about `MapIterators` and `Shapes` |
| `Atomics` | `Atomics.wait` and `notify` |
| `EventLoopState`, `EventLoop`, `EventLoopProofs` | `js_std_await` and `js_std_loop`, and the proofs |
| `WorkersState`, `Workers`, `WorkersProofs` | message pipes and shared blocks of workers, likewise |
| `TestAgentsState`, `TestAgents` | the agents of `run-test262` |
| `ThreadsProofs` | the proofs about `Atomics` and `TestAgents` |
| `MCJSHeap`, `MCGGBridge` | instances for TLC of the module in the name |
| `MCAlgorithms`, `MCJobs`, `MCModules`, `MCCollections`, `MCThreads` | unions of several modules and instances: a behaviour belongs to the one that `part` names, the variables of the others stand still. State spaces add up and do not multiply. A run and a theorem speak of one definition where the `MC` module extends the module that states it: this is why the state and the promise of some components are modules of their own, and why `MCCollections` extends `MapIterators` and `Shapes`, and `MCModules` `ModuleLoading` |

### JSHeap

A cell (`Addr`) is a GC object of the engine: a JS object, a `WeakRef`, a
`WeakMap` with room for one record, or the `JSVarRef` of a captured variable.
A place (`Ref`) is anything that can hold a counted `JSValue`: a local of C
code or of a JS frame (owner `Stack`), a property, a map value, the link of a
closure to a variable, the value of a closed variable. Counts are numbers kept
by the operations, and places are what they should count: the correctness of
the counts is a relation between the two.

| state | in the code |
|---|---|
| `kind` | `gc_obj_type` and class; `"zombie"` is an object with `free_mark`, whose structure is kept |
| `rc`, `mark`, `list` | `header.ref_count`, `header.mark`, and the list `header.link` is on: `gc_obj_list`, `gc_zero_ref_count_list`, `tmp_obj_list` |
| `wcount` | `weakref_count` |
| `wkey`, `wval` | `JSWeakRefData.target`, or key and value of a `JSMapRecord` |
| `pc`, `todo` | the loop the engine is in and what is left to visit; `gc_phase` follows from `pc` |
| `closing` | `JS_FreeRuntime` is running |

Program actions (`NewObject`, `NewWeakRef`, `Deref`, `MapSet`, `MapDelete`,
`ReadValue`, `AddProperty`, `SetValue`, `FreeValue`, `CaptureVar`, `ShareVar`,
`CloseVar`, `RunGC`, `FreeRuntime`, `NewRuntime`) are enabled in `pc = "run"`
only; a value whose count drops to zero moves `pc` to `"free_zero"`, and the
program goes on when that loop has ended. The collector is one action per
visited cell: `WeakStep`, `FreeZeroStep`, `DecrefStep`, `ScanStep`,
`FreeCycleStep`, with one action for the end of each loop. `FreeObject` is the
whole of `free_object` with the finalizer and the variables that die with it.

Abstractions. The order of a linked list is left open: a loop may visit any
cell that is left, so the results hold for every order. Recursion of
`mark_children` is not there in the code either (it visits direct children).
The memory threshold of `js_trigger_gc` is left out: a collection may start
between any two operations. Allocation does not fail. `js_map_set` on an
existing key frees the old value before it stores the new one; the model
stores first, as nothing can read the record in between. Strings, symbols as
weak targets, shapes, bytecode and async frames are not cells.

### GGBridge

The engine appears through its API: `heap` holds class, count, and the Kotlin
object each cell was made for; an object whose count reaches zero is freed at
once. The references that exist are in `script`, `global`, `java`, in the
function cache, and `leaked` (results of `nativeEvalCode`, which nobody frees).
`trackProxyMap`, `trackMethodMap` and `objFunctionCache` are the maps and sets
of the code; `functionCache` of a `JSIObject` is the field `call` of its cell,
the only property for which a getter returns a function (`JSBridge.kt` 19-43).

| action | code |
|---|---|
| `InitRuntime`, `Destroy` | `JSRuntime.initRuntime` with `GGRuntime::init`; `nativeDestroy` with `GGRuntime::destroy` |
| `SetGlobalFun`, `SetGlobalObj` | `JSContext.registerGlobalFun`, `registerGlobalObj`, `Person.init`: the lazy `ptr` creates the object, and the global variable takes over its reference |
| `AddRefCount`, `ReleaseRefCount` | the functions of the same name, in pairs |
| `GetCached`, `GetFreed`, `GetNew` | the outcomes of `JSIObject::get`: the address in `functionCache` holds a function, holds freed memory, or a new `JSFunction` is made |
| `CallPrint`, `NewObject`, `ReadGlobal`, `WriteGlobal`, `Drop` | what a script does |
| `PassObject`, `EvalResult` | `JSIObject::set`, arguments of `nativeCreateJSFunction`'s callback, and `nativeEvalCode`, with `toJavaObject` |

`fault` says what went wrong: `"dangling"` (a reference to freed memory is
held or followed), `"conversion"` (the uninitialized result of `toJavaObject`),
`"assert"` (`JS_FreeRuntime` finds objects). What the program does after that
is undefined, and nothing is modelled: this is why the configurations of
`GGBridge` do not check deadlock. `hit` records that a getter has been
answered from `functionCache`; it is a history variable of the properties.

### GGValues

`js` is the number a script holds, `box` a Kotlin property of type `Any?`,
`age` the property of `Person`. The widths of `int32_t`, `jlong` and the
significand of a double are constants, so the boundaries are inside a small
instance; doubles are counted in halves. `toJavaObject` and `toJSValue` are
the conversions with the tags of the engine (`JS_NewFloat64` and `JS_NewInt64`
give an int its own tag, the interpreter's sum of two doubles does not);
`Compute` makes numbers as a script does, `SetAge` is `JSIObject::set` into `Person.setter`, which
takes an `Int` only, and `TapAge` the button that adds one. A double that is an
integer out of the range of `jlong` is undefined in C++, and any result is
possible.

### BigInt

A state is an operand `x` and, after one step, `out`: an operator, its other
operand and the result. The loops over limbs (`mp_add` to `mp_divnorm`), the
operations of `JSBigInt` (`js_bigint_add` to `js_bigint_pow`), the short cuts
for numbers of one limb (`Arith`, `Logic`, `Unary`), doubles
(`js_bigint_to_float64`, `js_bigint_float64_cmp`) and text (`to_string`,
`js_bigint_from_string`) are operators named after the C functions. The widths
are constants: bits of a limb, limbs of the largest BigInt, bits of a double's
significand. `Expected` is the operation on integers.

### RegExp, Matching

`problem` is an expression, as a tree of terms, with flags, an input and
`lastIndex`. `lre_compile` makes instructions of it as the parser does of the
text, with offsets in instructions. The interpreter has one action per opcode;
`states` is the stack of states to go back to, and `PopSplit`, `PopGreedy`,
`PopLook` and `Unwind` are what it does when it goes back or a lookahead ends.
`Return` is `js_regexp_exec` and the loop of `RegExp.prototype[Symbol.match]`.
`Matching` defines the ordered list of ways in which a term matches, with the
tree alone. Characters are a few letters, a line terminator, and the two halves
of a pair. The text of an expression, names of groups, escapes, and the tables
behind classes and case folding are left out.

### ControlFlow, Statements, Programs

`Statements` has the syntax as records and what it means: `Meaning` runs a
function by completions (normal, `break`, `continue`, `return`, `throw`, each with
its target or value), as ECMAScript defines it, and `LegalAll` says which jumps
have a target. `ControlFlow` has what the engine does, one action per pass:
`Parse` (`js_parse_statement_or_decl` and the functions it calls, `emit_goto`,
`emit_break`, `emit_return`, `close_scopes`), `ResolveVariables`, `ResolveLabels`
(`skip_dead_code`, `find_jump_target`, jumps shortened in one pass and by
`Shrunk` in a second), `Call` (`compute_stack_size`, and `JS_CallInternal` up to
the first event). The frame `vm` has the stack with catch offsets, iterators and
return addresses of `gosub` on it, as in the interpreter.

A function shows itself by events: an expression is evaluated, a closure made, a
generator resumed, an iterator asked for, stepped or closed. What comes of one is
any of the outcomes (`Evaluate`, `MakeClosure`, `Resume`, `StartIteration`,
`NextResult`, `CloseIterator`, `CloseUnwinding`, `Interrupt`). When the code has
run, `RunsAsWritten` compares the trace of its events with that of `Meaning` under
the same outcomes. `Programs` has 4,282 functions: jumps out of up to three nested
statements (`Leaving`), loops with captured variables (`Capturing`), generators
(`Yielding`), tests with constants in them (`Tested`), `switch` statements in every
order and jumps to jumps (`Switched`).

### Promises, PromiseAll, AsyncGenerator

`Promises` keeps the engine's part in one record, `eng`: `JSPromiseData` of
each promise with its reactions, the job list, the pairs of resolving functions
that have been called (`JSPromiseFunctionDataResolved.already_resolved`), and
the list of rejected promises that `js_std_promise_rejection_tracker` keeps.
The operators named after C functions (`fulfill_or_reject_promise`,
`resolving_function_call`, `perform_promise_then`) give the engine after a
call, and actions use them. `calls` holds the code that runs: a script, a
handler, a `then` function, an async function. JavaScript code is the
environment, and does one operation per step: `New`, `Call` (a resolving
function, again too), `Then`, `CallAsync`, `Await`, `Return`. `StartScript` and
`ExecutePendingJob` (`ReactionStep`, `ThenableStep`) are the host, with the
queue empty or not between two scripts. A thenable is a promise, an object with
a function `then`, or one whose getter throws. `Places` are where a reaction can
be: on the list of its promise, in the job list, among those that ran (`ran`); the
properties speak of them.

`PromiseAll` takes its elements from an iterator (`NextElement`,
`IterationFails`, `LoopEnds`), and elements call the functions they were given
at any time, during the loop too (`CallFunction`). `first` records what an element
passed first.

`AsyncGenerator` has the activations of `js_async_generator_resume_next` as a
stack: `loop` (at its top), `body` (in `async_func_resume`), `answer` (in
`js_async_generator_resolve`, inside of which code runs if
`Object.prototype.then` is defined: `ThenDefined`). `Ask` is
`js_async_generator_next`; `LoopResumes`, `LoopCompletes`, `LoopCompleted` and
`LoopEnds` are the branches of the loop; `Yield`, `Finish` and `Await` what the
body does; `AwaitDone` and `ReturnDone` the jobs.

### ModuleLoading, ModuleExports, Modules

The three phases of an import, each with the graph of modules as part of the
initial state. In `ModuleLoading` a file loads or not whenever it is asked for;
`calls` are the nested calls of `js_resolve_module`, and a module object that
failed is freed and leaves the lists, but not the requests of other modules. The
list of loaded modules is the set of its objects, in the order of their numbers: new
ones come to its end and none moves.
`ModuleExports` computes `js_resolve_export1` with its list of visited pairs
(`Resolve1`) and `get_exported_names`, and compares them with a definition
without an order of search. In `Modules` the two depth first searches
(`LinkVisit`, `LinkRequest`, `Bind`, `LinkFinish`; `EvalVisit`, `EvalRequest`,
`EvalFinish`, `Start`) have their call stack in `frames` and the DFS stack in
`stack`; `LinkFail` and `Fail` are the error paths of `js_link_module` and
`js_evaluate_module`; `Fulfilled`, `Execute` and `Rejected` the jobs that run when
a top level await is over. Any module may be imported again at any time.

### MapIterators, Arrays, Shapes

`MapIterators`: a record is a number, used once. New ones come to the end of the
list and none moves, so the list is a set of numbers in their order, and the next
record is the least of those that follow. `map` holds what finalizers change (list, counts, `cur_record` of the iterators, the records that calls of
`forEach` lock), because they run inside of other calls: `FreeValue` may free an
iterator that is a value of the map it walks over, and so the record it stands
on. `js_map_clear` is `ClearStart`, `ClearStep`, `ClearDone`; nothing else runs
in between, but the finalizers do. `Collect` frees a map and its iterators in
any order the cycle collector may choose. `js_map_getOrInsert` with a callback is
`Delete` followed by `AddRecord`.

`Arrays`: `count` elements of a fast array, or slots of a shape; `SetElement`,
`DefineElement`, `DeleteElement`, `SetLength`, `FixLength`,
`PreventExtensions`, `Pop`, each with both representations, and with
`compact_properties` at its threshold. `flaw` says which of two paths was taken
that `ArrayObject` does not have, after which the model stops.

`Shapes`: shapes at addresses with their references, the hash table, and the
property arrays of objects, which must have room for what the shape names.
`js_shape_prepare_update` clones a shared shape and takes a hashed one out of
the table (`Prepared`). The hash is one bit that changes with each property:
collisions are the rule. `Packed` is what `compact_properties` leaves of a sequence.

### Atomics, Workers, TestAgents, EventLoop

In the three modules of threads, the steps are what the code does between two
points where another thread can come in: a lock or unlock, a wait on a
condition variable, a call that another thread can see. Pthread calls are
modelled from POSIX: a wait gives up the mutex and sleeps in one step, and wakes
up by a signal, the clock, or (`SpuriousWakeups`) by itself. Stores to shared memory
do not take the mutex.

`Atomics`: `Wait`, `Compare`, `Sleep`, `Expire`, `WakeUp`, `Return` are
`js_atomics_wait`; `Store` with `Lock`, `Take`, `Taken`, `Signal`, `Signalled` a
store followed by `js_atomics_notify`, which moves waiters from the list to one of
its own and signals them, one after the other, with the mutex held. A waiter lies
on the stack of its thread.

`Workers`, with its variables and promise in `WorkersState`: `Create` and `Start`
(`js_worker_ctor`, `worker_func`), `Post`, `PostLock`, `PostAppend`, `Select`, `Take`,
`Read`, `FreeMessage`, handlers set and unset, Worker objects collected (`Finalize`),
and the end of a thread in its order: `Leave`, `FreeHandlers`, `FreeRuntime`.

`TestAgents`: the main thread starts the agents, broadcasts and joins them; an
agent registers (`Register`), waits (`AwaitBroadcast`, `TakeBroadcast`) and is called
back (`Call`, `EndCallback`). What is done with the mutex held is
one step. An agent that registers its next function inside of the callback loses
it (the code frees it after the call, `run-test262.c` 531-532), so agents
register in a job.

`EventLoop`: `js_std_await` and `js_std_loop` with jobs, the check of rejected
promises, and `js_os_poll` in its steps: signals read and written in two
(`ReadSignals`, `WriteSignals`), then timers (`TimerFires`), then `Select` and
one descriptor (`Selected`). `Raise` is a signal handler and may come at any
step; `Tick` is time. The history variables `owed` and `cut` keep the signals that
were not answered, and whether the loop over jobs was left at one that threw. The
callback of an event performs up to `Fuel` operations
on timers, handlers and promises, and throws or returns.

## 3. Runs

| run | instance | states | shows |
|---|---|---|---|
| `heap` | 3 cells, 4 values, symmetric | 363,747 | exact counts at every step of every pass, nothing in use freed, weak counts, the collector's assertions, no garbage left after a collection, nothing left of a destroyed runtime; `JSHeap` implements `ObjectGraph`, and dead objects stay dead |
| `heap_returns` | 3 cells, 3 values | 769,870 | every loop of the engine ends |
| `bridge` | 2 addresses, 2 global variables, 2 functions, 2 proxies, references from Kotlin | 543,090 | exact counts until a cache hit, no freed memory without one, entries of the maps belong to the objects now at their address; what `destroy` finds was leaked |
| `bridge_functions_alive` | 3 addresses, one global variable | | violated: see Findings |
| `algorithms` | `int32_t` of 2 bits, `jlong` of 4, a significand of 2; limbs of 2, 3 and 6 bits; expressions with loops, groups, references and lookarounds, and inputs of three or four code units; the functions of `Programs` | 760,561 | numbers keep their value across the bridge; BigInts are exact; what regular expressions find, and that they end; compiled statements do what they mean, on the stack that was computed |
| `bigint_compare` | the limbs of 6 bits | | violated: see Findings |
| `jobs` | 3 promises and an async function with 5 operations; 3 elements; 5 requests and 3 awaits of a generator; every graph of 3 modules with one request each | 141,205 | order and number of reactions, what the host hears, results of `all`, answers of generators; and that awaits, requests and imports end |
| `modules` | every graph of 3 modules with up to 2 requests (4 modules with one for the order of execution), awaits, errors and unresolved names anywhere; graphs of files; graphs of exports | 2,711,648 | linking, evaluation, loading, resolution |
| `collections` | 4 records under 2 iterators and a `forEach`; 3 records with the iterators as values of their map; an array with 4 indices; 2 objects with 2 names, 2 prototypes and 3 shapes | 424,579 | the three data structures are exact and implement their abstract specifications |
| `threads` | 3 threads in `Atomics`, 1 or 2 workers, 3 agents, an event loop with timers, descriptor and rejections or with signals | 1,094,989 | lists of waiters, pipes and counts, broadcasts, events after jobs |
| `threads_live` | smaller instances without symmetry | 55,887 | no lost wake-up, messages are delivered, timers fire |
| `arrays_length` | the array of `collections` | | violated: see Findings |

Each run of a union checks the type invariants of its modules along with one of
its properties; `threads` does not, as those of its four modules are theorems.

Bounds. Three cells and four values contain a cycle of two objects that a
third refers to, a closure sharing a variable with another and closing a cycle
through it, a map whose value is or owns its key, a weak reference into a
cycle, and garbage beside objects in use. Liveness is checked without symmetry,
which would be unsound for it. In the bridge two addresses suffice for an
address to be used again by an object of another class, and the six properties of
`bridge` are theorems for any number of them; the violation needs three, for a
proxy, its cached function and an object that takes over an address. `MaxRefs` bounds the
references the script holds to one object (and the results of one object that
`evalCode` leaks), `MaxJava` those Kotlin took, `MaxLeaks` the calls of
`setGlobalFun`; with a bound of one each kind of reference can be missing or too
many, and global variables and the cache add to it.

`MaxOps` bounds what scripts and handlers do with promises, `MaxReactions` the
calls of `then` and `await`: five operations make a promise that follows one
that follows a third, a thenable that calls both functions, and a late handler.
Three elements are one before, one in and one after a call during the loop of
`PromiseAll`. Three modules make every cycle with a tail and a diamond without
its top; four with one request each let two wait for one that is not ready.
`MaxFailures` bounds imports that do not link, after which a second attempt
meets what the first left. Limbs of two bits have all numbers of four limbs with
all of three, so that every short cut and every correction of a quotient is
taken; limbs of three bits make quotients long enough for the inverse
(`UDIV1NORM_THRESHOLD`), limbs of six have room for a decimal digit and a
significand. `MaxExp` bounds the exponents of doubles. The expressions are all
quantifiers around bodies that may be empty, capture, refer or look around, with
something behind them, and the same in a lookbehind; `INT32_MAX` of `Matching` is
the maximum of a quantifier without one. Two deleted slots move the others, not eight
(`MinDeleted`), so that an array of five slots can do it in the middle of a
loop. A function has five events, nine if it captures variables (two iterations,
each with its closures), and is then interrupted; `Int8` and `Int16` are so small
that jumps of one, two and four bytes occur and a shortened one brings another
into reach; `MaxSteps` ends a function without events. `Fuel` and `MaxJobs` bound what an event may do, not how many events there
are. Numbers are scaled with their types.

Fairness. `JSHeap` assumes weak fairness of `Collector`, and `RegExp` of its
interpreter: the loops run on the engine's one thread and wait for nothing. `Promises` and `AsyncGenerator` assume
that the code that runs returns and that the host runs pending jobs, as
`js_std_loop` does and the bridge does not. `Modules` assumes strong fairness
for the end of every top level await (an await may be over only from time to
time between other imports). `Atomics`, `Workers` and `TestAgents` assume that
each thread that can go on does, and `Atomics` that the clock of a timed wait
runs. `EventLoop` assumes that time passes and callbacks return. Nothing is
assumed of the program: it need not make another call.

### Findings

`bridge_functions_alive`. `JSIObject::get` returns a function found in
`functionCache` without `JS_DupValue` (`cpp/ggjs.cpp` 128-134); the interpreter
frees what a getter returned, so each hit takes away a reference of the cache.
A script that reads `JSBridge.call` three times, as three taps on the first
button of the demo do, reads freed memory the third time. `FunctionsStayAlive`
states what `cpp/quickjs/doc/quickjs.texi` 838-840 asks of such functions.
`bridge` shows the other side: this is the only way to freed memory.

`arrays_length`. `set_array_length` deletes the elements of a sparse array in a
loop over slot numbers (8823-8828); `delete_property` moves the slots together
once half of them are deleted, and the loop passes by those that have moved
behind it. The length is set all the same: elements remain beyond it. `AsPromised`
shows the other side: up to this path and one more, arrays behave as
`ArrayObject`. The other path (`flaw = "grown"`): `JS_CreateProperty` and
`JS_DefineProperty` grow the length before they find that the array is not
extensible (9436-9447), and the rejected operation leaves it grown.

`bigint_compare`. `js_bigint_float64_cmp` compares exponents without the sign
(11727-11731): of two negative numbers the one with the greater exponent counts
as the greater, and `-1n < -4.5` is true. `BigIntExact` shows the other side:
with equal exponents, and for all that are not both negative (`Misjudged`), the
comparison is exact.

Statements that TLC refutes and that no document claims are kept in the modules,
beside the properties, with what the code does instead:

- `GGBridge`: `nativeSetGlobalFun` never frees the reference to the global object
  it takes (`cpp/ggjs.cpp` 217), so `JS_FreeRuntime` finds the global object on
  the object list and its assertion (2004) fails: `RuntimeFreed`, whose other
  side is `LeftOnlyIfLeaked`.
- `PromiseAll`: an element that calls both functions of `allSettled` is counted
  twice, so the result may come before the others have answered.
- `AsyncGenerator`: when code runs inside an answer (`Object.prototype.then`) and
  calls `next`, the body is resumed out of turn or an assertion fails (the
  instance `then`); and requests behind one that completes the generator are
  left on the queue until another call comes.
- `Modules`: `js_link_module` relinks the modules of a failed import and counts
  their variables again (`VarRefsExact` after a failure); an import that is an
  alias in a cycle may be bound to a variable that does not exist yet
  (`LinkCrash`).
- `ModuleLoading`: after a file of a cycle has not loaded, modules that request
  it keep a pointer to the freed module. `ModuleExports`: with aliases and name
  space exports one binding may be found on two ways and be called ambiguous,
  which is why the instances have neither.
- `BigInt`: `js_bigint_asUintN` normalizes its result as a signed number, and
  `BigInt.asUintN(64, -1n)` is `-1n` (`Unsigned` says when the result is exact).
- `RegExp`: a group in a loop keeps what it captured in an earlier iteration that
  it does not take part in (`ResetEachTime`); `MatchFound` holds with captures
  that are reset when a loop starts. Two more differences are kept out of the
  instances: a reference of a group in a lookbehind to that group itself, in a
  loop, and `\q{ab}` in a lookbehind, which steps back by one character.
- `ControlFlow`: what it differs in from `Statements` is kept out of `Programs`.
  `continue` in the body of `for (let ...)` does not copy the captured variable
  (27938, "XXX: check continue case"), and an exception that leaves a block does not
  close its captured variables; neither shows in what a closure reads later, only
  in which closures share. `for (x of yield ...)` does not compile ("stack
  underflow": `has_iterator` is set at 27452, before the expression is parsed). When
  a generator waits in the left side of `for (... of ...)` and `return()` is called,
  the iterator is not closed. A loop has one label at most (27611).
- `MapIterators`: `js_map_clear` has read the next record when it frees a value,
  and the finalizer of an iterator may free that record (`NoFreedRecord`).
- `Atomics`: a spurious wake-up returns "ok" (`OkMeansNotified`), and a waiter
  whose time is up is counted by a notify and returns "timed-out"
  (`NotifiedMeansOk`).
- `EventLoop`: a job that throws leaves those behind it (`NoJobLeft`); a signal
  between the load and the store of `os_pending_signals` is lost
  (`SignalNotLost`); timers that are set again and again starve descriptors
  (`HandlersCalled`).
- `Workers`: a `Worker` object that is collected takes its handler with it, and
  its thread may end (`HandlerKeepsThread`).
- `TestAgents`: a signal for the main thread may wake an agent, and `broadcast`
  never returns (`BroadcastReturns`), an agent may read the values of the next broadcast
  (`ReceivedAsSent`), and buffers of replaced broadcasts are left (`NoBufferLeft`).

## 4. Proofs

TLAPS checks 25376 obligations, with no step left out. The theorems hold for
every value of the constants, from the assumptions named in the modules:
`AddrRefAssumption` and `TokenAssumption` of `JSHeap` (finite sets of cells and
places; owners and `Nil` are neither), those of `GGBridge` about its names and
bounds, `PromisesAssumption` (promises are not among the other values, and "no
function" is neither a promise nor a function), `AllAssumption` (a number of elements; `None` is not a result),
`BoundsAssumption`, `LoopAssumption`, `LoadingAssumption` (bounds are natural numbers,
a null pointer is not a module object),
`AtomicsAssumption` (finitely many threads, a notify asks for one waiter at least;
one that asks for none returns before the lock, 57907), `AgentsAssumption` (a test
has an agent and a broadcast), `WorkersAssumption` (finitely many workers; the
main thread and nobody are none of them), `MapAssumption` (finitely many iterators,
which are the values that matter; `None` is no iterator, key or record) and
`ShapesAssumption` (memory for a shape more than there are objects, so that
`js_clone_shape` finds room; the sizes of the code are positive; free memory is no
name, shape or object).

| module | theorem | property |
|---|---|---|
| `JSHeapProofs` | `HeapInvariant` | `IInv == TypeOK /\ HeapInv`, the inductive invariant |
| | `TypeCorrect` | `TypeOK`; counts do not become negative |
| | `RefCountCorrect` | `RefCountExact` |
| | `WeakCountCorrect` | `WeakCountExact` |
| | `MemorySafety` | `NoUseAfterFree` |
| | `AssertionsHold` | `CollectorAsserts` |
| | `NoResurrection` | `DeadStayDead` |
| | `HeapImplementsGraph` | `GraphSpec`, the refinement |
| | `CollectorIsComplete` | `NoGarbageLeft` |
| | `NothingLeaks` | `RuntimeEmpty` |
| | `HeapStaysConsistent` | the invariant these three rest on |
| `GGBridgeProofs` | `BridgeInvariant`, `BridgeTypes` | the inductive invariant and `TypeOK` |
| | `CountsExact` | `ExactUntilHit` |
| | `OnlyTheCacheDangles` | `DanglingOnlyAfterHit` |
| | `ProxiesAreCounted` | `ProxyCountsExact` |
| | `CallsAreRouted`, `ProxiesAreRouted` | `CallsReachTheirFunction`, `ProxiesKeepTheirObject` |
| | `OnlyLeaksAreLeft` | `LeftOnlyIfLeaked` |
| `PromisesProofs` | `PromisesInvariant` | `PromisesInv`, the inductive invariant |
| | `PromisesJobsExact` | `JobsExact`: `TypeOK`, `InOrder`, `Follows`, `ResumedOnce` |
| | `PromisesHostHears` | `HostHears` |
| | `PromiseAllTypes`, `PromiseAllComplete` | `AllTypeOK`, `CompleteMeansAll` |
| `RequestsProofs` | `AsyncGeneratorTypes`, `AsyncGeneratorAnswers`, `AsyncGeneratorResumedInTime` | `TypeOK`, `AnswersInOrder`, `ResumedInTime` |
| | `LoadingTypes`, `ModulesLoadedOnce` | `LoadingTypeOK`, `LoadedOnce` |
| `EventLoopProofs` | `EventLoopTypes`, `EventLoopQuiet` | `TypeOK`, `EventsWhenQuiet` |
| `ThreadsProofs` | `AtomicsTypes`, `AtomicsWaitersListed` | `TypeOK`, `WaitersListed` |
| | `TestAgentsTypes`, `TestAgentsBroadcastTaken` | `AgentsTypeOK`, `BroadcastTaken` |
| `WorkersProofs` | `WorkersTypes`, `WorkersPipesExact` | `TypeOK`, `PipesExact` |
| `CollectionsProofs` | `RecordsKept`, `MapTypes` | `RecordsExact`, `MapTypeOK` |
| | `WalksInOrder` | `Ordered`, the refinement of `OrderedMap` |
| | `ShapesShared` | `SharingExact` |
| | `SharingUnseen` | `ObjectsApart`, the refinement of `OwnProperties` |

The argument for `JSHeap`. Exact counts alone are not inductive: that a step of
`gc_scan` may free what it did not revive depends on which cells are on which
list, what their marks say, and on whose references are missing from the counts
at that point. `RefCountExact` names those cells (`Deducted`) and speaks of all
steps; `ListsInv`, `CountsInv` and `TodoInv` say what each list means in each
loop; `PlacesInv`, `RecordsInv`, `WeakKeysInv` and `VarsInv` say who may hold
what; `CyclesInv` says that the cells being freed are known only to each other,
which is what makes freeing them safe. There is one lemma per action, under it
one step per conjunct the action disturbs; `NextInv` combines them. The lemmas
about `Edges` (counting values) and `KeyOf` (counting weak references) carry
the arithmetic. The refinement maps a step that frees a set of cells to the
abstract `Collect`: the set is closed because `CyclesInv` holds, and every other
step of the engine is a stutter. Completeness of the collector adds what the
scan leaves: a cell that keeps a count is reachable from a count that no edge
explains.

The argument for `GGBridge`. The references to an address are the sum of
`script`, `global`, `java`, cache and leaks; a count is that sum until a hit
takes one away, and then only the function that was hit can be wrong, as nothing
refers to a function but the cache and the script. The maps are right because
the object that takes over an address replaces their entries before anything
looks them up.

`Promises`. That a reaction runs once, and in its turn, is not inductive: it depends
on where it is. `Ordered` says of the three places that the reactions of one promise
are in the order of their calls within each, that those that ran come before those
that are queued, and those before the ones on a list; `Numbered`, that the places
together hold exactly the calls that were made. A promise that settles moves its list
to the end of the queue, which keeps `Ordered` only because a promise with a list has
no reaction in the queue after it: `Truthful` says so (the list belongs to a pending
promise, a queued reaction is told the state of a settled one). `Follows` needs the
longest chain. A promise that is resolved with another waits first for a thenable job
(`Asked`: one job, and no function of its pair left to call), then for a reaction
whose handlers are a new pair of functions, and agrees when that reaction has run
(`FollowOK`). Nobody else may settle it in between, so nobody else may know that pair:
`Sole` says it of every function that can still be called, those the program holds,
those of async functions and of frames (`Hands`), and those in other reactions;
`Pairs` counts the pairs, of which only the last may be uncalled. `Handled` joins
`is_handled`, the reactions there are and the list of the host, and `Awaits` the
async functions that wait with the reactions that continue them. There is one lemma
for each operator of the engine (a promise is made, a function is called in each of
its cases, a reaction is added, a job is taken) and one for each action, which adds
what the action does to the program's side.

`PromiseAll`. `CompleteMeansAll` does not speak of the counter it depends on.
`AllInv` does (`Counted`): `remaining` is the number of elements taken, and one
while the loop runs, less those that have answered, less those of `allSettled` that
were counted a second time. So the counter reaches zero when all have answered,
unless one was counted twice, which is the case the property sets apart
(`Twice`), and the values recorded by then are the first ones (`Recorded`).

`AsyncGenerator`. `Ordered` joins what was answered and what is queued into the
requests in their order. That the body runs for the first of the queue needs where
the activations stand: at most one of them runs the body, and it is the innermost
(`BodyOnTop`), the function waits for what the state says (`FuncExact`), there is
a reaction for each await and it finds the request it was made for (`Single`,
`Served`). Without code inside the answers there is one activation at most, which
is why `ResumedInTime` holds then.

`ModuleLoading`. Of a module whose requests are not all resolved nothing can be said
but where its call stands, so `LoadInv` speaks of the calls: those of `js_resolve_module`
are for different loaded modules, each of which needs all that are called for inside of
it (`Nested`), and what comes before the request a call is at is linked (`Begun`). Every
other module is linked to loaded modules, and if one of these still waits, it needs the
module that links to it (`Resolved`): that module was reached while the other was waiting.
So when a request fails and the modules that wait are freed, an entry that is left behind
closes a cycle of two names, which differ because a name is loaded once (`Once`). Without
a cycle the loaded modules are closed under what `Reads` follows, and an import reads no
other.

`EventLoop`. An event callback is called from three points of `js_os_poll`, long
after the checks that make it right. `Calm` carries the facts there: once the loop
over jobs was left there are none, or one threw, and once the check was passed no
rejection is without a handler, as nothing but scripts and callbacks adds either.
`SignalsOwed` says the same of the copy of `os_pending_signals` that `js_os_poll`
works with while handlers change the original: a signal it clears is one that is
owed. The lists are shown to have one entry for each timer, descriptor and signal
from what `RemoveAt` and `Append` do to such a list (`TimersOK`, `HandlersOK`,
`SigsOK`).

`Atomics`. `WaitersListed` is almost inductive: a step of another thread could
only disturb the list of a running notify, and `BatchHeld` says that while that
list is not empty a thread is in the loops of notify and so has the mutex, which
excludes every wait that would return or link. The rest are four lemmas about
lists whose entries differ: removing, appending, dropping the first.

`TestAgents`. `InStep` says that every agent is in the same broadcast, up to the
one pending; `RefsExact` counts the references to each buffer (the number of
agents that were not joined, for the last one), so an agent that uses a buffer has
a reference; `Asleep` is about who may sleep at which point, and a broadcast, which
wakes all, establishes it. What is proved is safety of the broadcasts, not that
`broadcast` returns: `BroadcastTaken` lets the main thread sleep with nothing pending
beside an agent that waits for the next broadcast (`run-test262.c` 516), and that
agent may have got the signal of 520 that was for the main thread. The code then stays in
the loop of 642; `BroadcastReturns`, which would exclude it, does not hold.

`Workers`. `PipesExact` speaks of the users of a pipe and of a block one by one, and
none of its parts is inductive alone. What a thread has in hand ties them together
(`Carried`): one that posts works for a `Worker` object that exists, so the pipe is
not freed before `list_add_tail`, and its message has the next number, as no other
thread posts there; one that takes serves a port of its own, and a port exists only as
long as its object (`Lives`), so the pipe has a reference. The waker is compared with
the queue and with the mutex (`Locked`): between the lock and `list_add_tail` it is
signalled and the queue may be empty. `Ordered` counts what was posted as what was
taken and what is queued until the pipe is freed, and then forgets the rest. A block
is counted by three disjoint sets (`Shared`): messages in pipes, which are told apart by
pipe and number, threads with a message in hand, and `SharedArrayBuffer`s; each step
moves one element between them or adds or removes one, and the end of a pipe or a
runtime removes a set (`FreePipesKeeps`). The sets must be finite, which is all that
is asked of the workers.

`MapIterators`. `RecordsExact` counts the references of each record, and a step may
give several of them up: `js_map_iterator_next` unlocks one record and locks the next,
a deleted record drops its value, whose finalizer may be that of an iterator, which
unlocks a record in turn, perhaps the one being deleted, and may free the map itself.
Inside of such a step the counts are not those of the users. `Balanced(s, h)` says that the references
of a state `s` are right for given locks `h`; `map_decref_record` takes one lock from
`h`, the step that moves the iterator or ends the call takes it from the users
(`LocksStepOff`, `LocksLeave`), and the two meet again in `Whole`, where `h` is
`Locks(s)`. That a finalizer does not take the record that is worked on needs to
know who may be freed: an iterator that is a value of the map or of a call is not
gone (`Sound`), and one that the script holds neither. For the hash table and for
clear, `Made` says that a new record is behind all others, `Hashed` that outside of a
clear the table has the records that are not deleted, and `Cleared` that a clear has
emptied all records before the one it stands on, which is on the list unless an iterator of
the map has been freed: this is where the read of freed memory comes from, and the
only place. `Freed` says that nothing is left when the map is gone.

The refinement of `OrderedMap` rests on the same invariant. The log has one entry for
each record that was ever made, a gap for one that is deleted or freed. The position of
an iterator is the number of its record, but not once it is at its end: then its record
may have gone. Most steps only make gaps (`Hides`: no record comes back, and ends,
positions and calls stay), and these are `Remove` (`HiddenIsRemoved`), whatever chain of
finalizers ran in them. That an iterator or a call of `forEach` goes to the *nearest*
entry ahead, although the code follows the list from a record that may be deleted, and
drops its lock on that record first, is `NextIs`: what that lock freed was no entry. `forEach` is `Enter`,
`Walk` or `Abandon`; it keeps the records that its outer calls are at, so the walks below it
stay as they are (`WalksBelow`). A key must not be `None`, the mark of a gap.

`Shapes`. Each operation is put together of three steps that an object can take: it
leaves its shape, which goes with its last object (`Left`), it joins a hashed one that
fits (`Joined`), or it founds one at a free address, if no hashed one is like it (`Founded`); a change of a
shape that is the object's own is leaving and founding at once. `js_free_shape`,
`js_clone_shape`, `add_shape_property` and `js_shape_prepare_update` are shown to be
such steps, with the order in which the code links, counts and replaces. The
invariant adds to the property that a hash is that of the properties (`Tidy`): so a
search in the bucket of the hash that a shape would have finds every shape like it,
and a new one is put into the table only when there is none (`Distinct`). That
`compact_properties` leaves as many values as properties needs the numbering of what
it keeps (`NthPlace`). There is room for a clone because each shape has an object
(`Room`).

That scripts see nothing of this (`SharingUnseen`, the refinement of `OwnProperties`) is
shown for the others and for the object apart. For the others the same three steps
do: each leaves the prototype and the properties of every shape that another object has
(`Aside`), also when a shape is freed or is taken out of the table. The object itself
has turned to certain properties and values when it has joined or founded a shape that
has them (`Turns`), and every operation ends so. What a script sees of that are the
properties that are not deleted, with their values, in their order (`Packed`). Lemmas
about `Packed` say what adding an element that is kept, marking one deleted and
replacing one do to it (`PackedMore`, `PackedLess`, `PackedPut`), and that compacting
does nothing (`CompactSeen`). They rest on the place of an element being the number of
those before it (`PlaceNth`), which makes induction over sequences unnecessary.

Only model-checked: liveness under fairness (`EngineReturns`, `AwaitEnds`,
`ImportsSettle`, `StoreWakes`, `Delivered`, `TimersFire`), which is out of the
prover's reach; and what modules with recursive operators state (`Modules`,
`ModuleExports`, `BigInt`, `RegExp`, `Matching`, `Statements`, `ControlFlow`,
`Programs`, `Arrays`), for which the prover has no SMT backend: `LinkedWhole`,
`DependenciesFirst`, `SearchFinds`, `BigIntExact`, `MatchExact`, `RunsAsWritten` and
`StackForeseen`, and of `AsPromised` what it says of `Arrays`; `Ordered` and
`ObjectsApart`, the rest of it, are proved. The rounding of `GGValues` rests on the
laws of powers of two, which need induction over data.

## 5. Not modelled

- The lexer, functions, classes, destructuring, the operators on values, `eval`,
  `with` and the opcodes that are not about control flow. They make up more than
  half of the implementation, and with the built-in functions that are compositions
  of property reads and writes, the tables of Unicode characters and the generator
  of these tables are the reason why the models cover a small part of its lines.
- The standard library's functions on strings, numbers, dates, JSON, proxies,
  typed arrays; values of array elements and accessors, `shift` and `unshift`.
- The text of regular expressions, their named groups, the tables of Unicode, and
  the methods of `RegExp` other than `exec` and `match`.
- `dtoa.c`: arithmetic on numbers of many words, out of reach of enumeration.
  `DynBuf` and `list.h` appear as sequences in the modules that use them.
- Files, processes and printing of `quickjs-libc.c`; option parsing, test lists
  and reports of the command line tools.
- In the parts that are modelled: bytecode, async frames and contexts as cells
  of the collector; `FinalizationRegistry`; symbols as weak targets; import
  attributes and C modules; `Array.fromAsync`, async-from-sync iterators;
  `Promise.race` and `finally`, which have no state of their own; reports of
  agents, which stay on `report_list`.
- `isJSProxyObject` (`JSRuntime.kt` 30) answers true for a plain object at an
  address whose old proxy is gone: `EvalResult` of `GGBridge` takes it for that
  proxy, as the code does, and no property forbids it. `toJavaObject` leaves its
  result uninitialized on one way (`utils.cpp` 8): fault `"conversion"` of `GGBridge`, where the model
  stops. `js_std_await` never returns if its promise cannot settle any more.
