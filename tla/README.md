# QuickJsCPP: a TLA+ model of the runtime

QuickJsCPP is the QuickJS engine of October 2019 (`src/quickjs`), built with
MSVC, and two C++ layers over it: `src/quickjspp.hpp` (namespace `qjs`) and
`src/binding` (namespace `jsb`), with the hosts `main.cpp` and `main2.cpp`. One
thread runs everything (only `Atomics.wait` knows several, in builds with
`CONFIG_ATOMICS`, which `quickjs.c` 97 leaves out): program code,
collections, jobs and handlers interleave at the calls the engine makes, and
that is where its hard behaviour is: a collection in the middle of anything that
allocates, a getter in the middle of a promise resolution, a conversion of an
argument that changes the array a method works on, a handler that changes the
list it was found in, a failed allocation between two steps.

The repository has no documentation and no tests; comments and assertions in the
source are what it says about itself.

## 1. Inventory

| component | state it keeps | operations | what makes it hard | what makes it correct |
|---|---|---|---|---|
| **Heap**: counts, weak references, `JS_RunGC` (`quickjs.c` 4744-5445, 43540-43614) | `header.ref_count`, `gc_header.mark`, `obj_list`, `tmp_obj_list`, `free_obj_list`, weak record lists | `JS_DupValue`, `JS_FreeValue`, `set_value`, `js_map_set`, the passes of the collector, `JS_FreeRuntime` | counts are wrong on purpose while a collection runs; frees cascade and are put off in the sweep; half of the structures are on no list | counts are exact again afterwards, nothing reachable is freed, every cycle is found, `obj_list` ends empty |
| **Promises and jobs** (44064-45024, 1502-1556) | state, result and reactions of a promise, `already_resolved` of a pair, `job_list` | constructor, resolving functions, `then`, reaction and thenable jobs, `JS_ExecutePendingJob` | program code runs inside a resolution; promises follow promises; `JS_EnqueueJob` can fail unseen | settled at most once, never left without a way to settle, takes over the right outcome |
| **Async functions** (17860-18077) | the suspended frame, `is_active`, the resolving functions | call, await, resume, return, throw | resumed through two functions that do not look at the state of the frame | resumed once for each await, never while it runs or after it ended |
| **Generators, async generators** (17563-18500) | a frame moved to the heap, its state; a queue of requests | next, return, throw, yield*, await inside a generator | code re-enters a generator that waits for it; requests arrive while another is being answered | the state says what the frame is; requests are answered in order, each once |
| **Event loop and timers** (`quickjs-libc.c` 70-96, 1588-1995, 2701-2767) | `os_timers`, `os_rw_handlers`, `os_signal_handlers`, `os_pending_signals` | `setTimeout`, `clearTimeout`, handlers, `js_os_poll`, `js_std_loop`, `js_std_free_handlers` | a timer has two owners and a finalizer; handlers remove themselves; signals, time, collections | structures freed once, live functions called, jobs before handlers, timers fire, the loop ends |
| **Maps and iterators** (43270-43990) | record list with zombie records, hash table, `record_count` | set, delete, clear, `forEach`, iterators | the program deletes the record an iterator stands on, or the iterator itself goes | an iteration visits what is there, a record is freed once |
| **Modules** (25000-26700) | `JSModuleDef` flags, import and export tables | load, resolve, instantiate, evaluate, `import()`, C modules | cycles, stars that meet, errors half way, `import()` in a body | each body once, after what it imports; an import is what the files say |
| **C++ handles** (`quickjspp.hpp` 285-363, `easyBinding.hpp` 29-225) | a `JSValue` and the context that owns it | copy, move, assign, release, property proxies, module exports | a handle without its context still has the value | one owner for each reference |
| **Interpreter** (14372-17560) | operand stack, variables, catch offsets, iterators of one frame | the instructions, exceptions, suspension | exceptions unwind operands of half-done instructions; program code assigns the variable an instruction is reading | no reference lost or freed twice, iterators closed once, the stack fits |
| **Compiler** (20054-30270, 30363-30560) | bytecode, labels, scopes, block environments | parse, `resolve_variables`, `resolve_labels`, `compute_stack_size` | break, continue, return and yield out of nested statements; jump threading and dead code | the program does what its text means |
| **Shapes, properties, arrays** (3919-4325, 6315-9104) | shapes shared by objects, their hash table, property tables, fast arrays | add, define, delete, set, `length` | an operation in place on something shared; two representations of an array | an object is the map its operations describe |
| **Array methods** (35330-36930), **typed arrays, Atomics** (47556-50316) | none of their own | the methods of the prototypes | arguments are converted, by program code, after the length was read | the method does what it is defined to do |
| **Regular expressions** (`libregexp.c` 1199-2490, `quickjs.c` 39997-41240) | instructions, captures, a backtracking stack; `lastIndex` | compile, exec, replace, split, matchAll | counters on an unchecked stack, captures restored on the way back, program code between matches | the match that is defined, in the space computed at compile time |
| **Serialization** (31743-33349) | a table of atoms, marks of the objects being written | `JS_WriteObject`, `JS_ReadObject` | writer and reader agree on every width and index by convention only; atoms are renumbered | what is written is what is read |
| **Proxies** (42192-43106) | target, handler, `is_revoked` | the internal methods | traps and descriptors are program code that changes the target in the middle | a proxy does not contradict what its target cannot change |
| Atoms, other built-ins, Unicode, std and os functions, hosts, tools | | | sequential | |

Who calls whom. A host creates a runtime and a context, evaluates a script and
calls `js_std_loop`, which alternates between the job queue of the runtime and
`js_os_poll`; both run program code. Program code is compiled, run by the
interpreter, and calls the library, which calls back program code in getters,
conversions, comparison functions and traps. It allocates, and an allocation of an
object may start a collection. Promises and async functions put jobs into the
queue. Timers, promises, maps and C++ classes own values of the heap and take
part in collections through their `gc_mark` and `finalizer`. A host ends with
`js_std_free_handlers`, `JS_FreeContext` and `JS_FreeRuntime`, which collects once
and asserts that nothing is left.

The `hazards` of `PROJECT.json` list, line by line, what in this code a test
would hardly reach, with the properties that watch over it. Beyond that list:
`js_map_clear` frees a value before it reads the next record (`quickjs.c` 43701),
`gc_scan` keeps its cursor in the runtime (5373), a failed evaluation frees
modules whose bodies run (26524), a signal that arrives just before `select` does
not interrupt it (`quickjs-libc.c` 1918), `GetTickCount` wraps (1730), the POSIX
poll tests the wrong descriptor set for write handlers (1987), the class id of a
C++ class is static though `JS_NewClass` is per runtime (`quickjspp.hpp` 208), and
the function list of `manualApi.cpp` 84 lives shorter than what refers to it.

## 2. Modules

| module | what it models | composed with |
|---|---|---|
| `ReachableHeap` | what the heap promises: only unreachable structures disappear | abstract specification of `GcHeap` |
| `GcHeap` | counts, recursive freeing, WeakMap records, `JS_RunGC`, last collection | implements `ReachableHeap` |
| `PromiseFate` | what a promise promises: one fate, taken over by its followers | abstract specification of `PromiseJobs` |
| `PromiseJobs` | promises, resolving functions, async functions, the job queue, the C stack | implements `PromiseFate` |
| `EventLoop` | `js_std_loop`, both `js_os_poll`, timers with their objects and closures, handlers, signals, teardown | the queue as a count |
| `Generator`, `AsyncGenerator` | generators that call one another; the request queue of an async generator | side by side in `MCGenerators` |
| `MapEntries` | what an enumeration promises to a program that changes the map | abstract specification of `MapRecords` |
| `MapRecords` | record list, table, zombies, iterators, `forEach` | implements `MapEntries` |
| `ModuleLinking` | loading, resolution, instantiation, evaluation, `import()` | |
| `ValueHandles` | the C++ owners of references | |
| `Interpreter` | one frame of bytecode, its references and its stack | runs the functions of `MCInterpreter` |
| `Computation` | the shared variable of the library's modules | extended by those below |
| `RegexpText`, `RegexpCompile`, `RegexpExec` | compiler and matcher of regular expressions | held against `RegexpMatch`, what they mean, in `RegexpExec` |
| `RegexpMethods` | exec, match, matchAll, replace, search, split over `lastIndex` | each method against its definition |
| `Properties` | shapes, objects, arrays | held against `PropertyMap` |
| `ArrayMethods` | the methods of arrays, `rqsort` | held against `ArrayMeaning` |
| `TypedArrays`, `AtomicsWait` | buffers, views, DataView; with `CONFIG_ATOMICS` also Atomics, wait and notify between threads | |
| `Compiler`, `CodeOptimizer`, `CodeRun` | from the tree of a program to code, its optimization, its run | held against `ProgramMeaning` in `Compiling` |
| `Serialization` | writer and reader of values and bytecode | |
| `Proxies` | the internal methods of proxies over objects of `PropertyMap` | extends `Properties` |
| `GcHeapProofs`, `GeneratorProofs`, `PromiseProofs`, `EventLoopProofs`, `ModuleLinkingProofs`, `MapRecordsProofs`,
`AtomicsWaitProofs`, `ValueHandlesProofs` | theorems | extend the modules they are about |
| `MCGcHeap`, `MCEventLoop`, `MCGenerators`, `MCModuleLinking`, `MCInterpreter`, `MCCompiler`, `MCLibrary` | constants and inputs for TLC | |

### GcHeap

A *cell* is a counted structure: an object (`Obj`, on `rt->obj_list`) or one of
the structures that only counts keep alive (`Aux`: shapes, closed variable
references, function bytecode). A place `<<cell, name>>` in `Strong` owns the
reference in `slot`; a place in `Record` is a record of a WeakMap, which owns
its value (`slot`) but not its key (`weakKey`). References owned from outside
the heap (C stack, contexts, C++ handles, the queue) are counted in `held`.

`mark_children` and `__JS_FreeValueRT` recurse over the C stack. The model keeps
the set of pending calls (`work` for the passes that change counts, `visit` for
`gc_scan_obj`, the places of `freeing` structures for a free) and takes them in
any order. The depth first order of the code is one of these, so what holds for
all of them holds for the code whatever the order of properties and lists. The
loops over lists pick any structure left to visit; the cursor `el_next` that
makes this so in C is not modelled.

`phase` is the pass of `JS_RunGC`: `decref` (gc_decref), `scan` (first loop of
gc_scan), `restore` (second loop), `sweep` (gc_free_cycles). Program operations
happen only when no collection and no free is in progress (`Mutating`), as in
the code, where finalizers never run program code.

`free_object` does nothing in the sweep, so an object outside the cycle whose
last reference was in the cycle stays behind with count 0 until the next
collection. `CollectionComplete` is therefore stated where the sweep *begins*:
what is unreachable there has mark 3, also what an earlier sweep left.

### PromiseJobs

`stack` is the C stack as far as promises are concerned. A frame of program code
(`script`, `executor`, `getter`, `handler`, `thenable`, `async`) may do anything
the language offers and then ends; the other frames are C code about to call a
resolving function or to go on with an await. A pair `<<p, n>>` is the n-th pair of
resolving functions made for promise `p`; `used` holds the pairs whose
`already_resolved` is set, `given` those that program code can call.
`js_promise_resolve_function_call` is split where the code reads `then`, since a
getter may run there.

Promises are of the intrinsic class with its own `then` and `constructor`; any
other object is `Object`, whose `then` is program code that may return, throw or
be a function. `catch`, `finally`, `race` and `all` are written over `then`,
`resolve` and the constructor and are covered as program code. With `MayFail`
any part of the jobs that `JS_EnqueueJob` was asked for is lost, as when it runs
out of memory, since its callers ignore its result.

### EventLoop

The closure of timer `a` refers to the objects of the timers `b` with
`<<a, b>>` in `captures`; `root` are the timer objects that other variables of the
program reach. Freeing a value is a sequence of finalizer steps during which
nothing else happens (`Quiet`). `JS_RunGC` frees the timer objects that only garbage
refers to, and their closures, computed from the children that
`js_os_timer_mark` reports. `refs` counts the references to the function of the
handler that runs, and `kept` says whether its place still owns it.
`pc = "undefined"` stands for everything that may follow a call of a freed function.

`program` is chosen once: which platform, whether closures may refer to their own
timer objects, whether jobs may throw, which signals arrive, how long delays are.
The properties that the code does not keep for some programs name what they need
(`JobsFirst` no job that throws, `TimersSound` no cycle for its second half).
Time is relative: `left` is what remains until a timeout. The vendored engine
compiles only with MSVC as it stands (a macro of `quickjs.c` 721-725 has no usable
form elsewhere), so the Windows `js_os_poll` is what the project builds; the POSIX
one is modelled because the code has it and because signals exist only there.

### Generator, AsyncGenerator

In `Generator` the C stack is a sequence of frames of program code and of
`js_generator_next` calls in progress; `frame` is what has become of the
`JSAsyncFunctionState`. A generator that stands in `yield*` can be entered again by
the inner iterator it is calling; from where a call goes on with a frame that has
moved on nothing is said (`Overtaken`, see section 4). In `AsyncGenerator`,
`js_async_generator_resume_next` is a loop of the C stack; the awaits of the body
and of `return` on a completed generator are jobs that come back in any order.

### MapRecords, ModuleLinking, ValueHandles

`MapRecords` keeps the list of records with a count of the iterators on each, and
lets the finalizer of an iterator run wherever a value is freed. To `MapEntries` a map is
its values, which key was set before which, and what each iterator and each call of
`forEach` has still to visit; places, counts and zombies are mapped to nothing. A turn
of `forEach` has the steps of the code: the callback returns or throws and its arguments
are freed, the next place is taken and the record at hand released, the result is freed,
the entry at that place is visited. A value freed on the way may be an iterator; where it
takes the record of that place with it, nothing is said of what follows (`Astray`, see
section 4). `ModuleLinking`
keeps the recursive walks as frames of `stack`; programs are given by the `.cfg` as
files with requests, stars, imports and exports. `ValueHandles` counts who owns each
reference: the wrappers of both layers, property proxies, the class prototype of a
context, exports that wait for their module.

### Interpreter

The frame of one function: `sp` slots with references (`Ref(t)`), catch offsets and
iterators. An instruction is one step, or several where it runs program code in
between; what a value is, and whether program code throws, is chosen. The functions
are the bytecode that this compiler emits for 42 small programs.

What an instruction does with its operands, before or after it can throw, is in tables
of effects (`FieldOps`, `SpreadOps`, `GlobalDeclarations`, ...), one for each group of
instructions that calls the same functions (`JS_AddBrand`, `JS_CopyDataProperties`,
`JS_DefineGlobalVar`). What those functions do to the objects is left out: here they
take references, give references and throw.

### The library

The modules that extend `Computation` share one variable, a record whose `mode`
says whose call it is; each has an `...Init` with its own inputs and a `...Next`.
Where the code computes something that has a definition of its own, the definition
is a separate module (`RegexpMatch`, `PropertyMap`, `ArrayMeaning`,
`ProgramMeaning`) and the invariant compares the two at the end of a call; program
code that may run in between is a step that changes what it can change.

Numbers are small integers and, in `ArrayMethods`, NaN and -0, which tell the three
equalities of `js_strict_eq2` apart; in `TypedArrays` a number has `ByteValues`
values to a byte, and the operations of Atomics (`js_atomics_op`) are those on its bits.
These and `AtomicsWait` translate code that is compiled only with `CONFIG_ATOMICS`
(49876-50342), which this repository does not define; they stand for the code as it is
written, not for the program that is built.

`Serialization` is driven by tables: for each kind of value the fields in the order
in which the writer puts them (`WriteFunction`, ...) and in which the reader takes
them (`ReadFunction`, ...), each translated from its own function. What a buffer
that ends early leaves half read is freed as the code frees it (`FreeRead`). In `Proxies` the
answer of a trap is any value; `facts` is what the program has been told for good.

## 3. Runs

Every property of a passing run has a mutant in `PROJECT.json`: a plausible slip
in the code (the `Slip_...` operators) for which TLC finds the property violated.

| run | instance | question |
|---|---|---|
| `gc_cycles` | 3 objects with 2 slots, 2 outside references each | every graph on three objects, any interleaving of program, frees and collections: types, exact counts, no dangling, assertions, empty list at the end |
| `gc_weakmap` | 2 objects, a WeakMap with a record, a structure on no list | weak records; marks reset; every cycle found; collections end; refinement of `ReachableHeap` |
| `promise_once` | 3 promises, 2 pairs each, 2 frames of program code, failures | one way to settle until an allocation fails, one way to resume, never fulfilled with a promise |
| `promise_fate` | 3 promises, 2 pairs each, no failures, fairness | refinement of `PromiseFate`; who waits for a settled promise goes on |
| `loop` | 2 timers, a descriptor, a signal, three kinds of programs, fairness | timer structures have exactly the life of their owners, no freed function is called, jobs before handlers, timers fire and the loop ends |
| `generators` | 2 generators, calls 8 deep; or one async generator with 4 requests, fairness | the state tells the frame; requests answered in order and once, bodies resumed where they stopped, what is awaited is answered |
| `map_records` | 3 keys, two of one bucket, an iterator, nested `forEach` | counts, table, refinement of `MapEntries` |
| `modules` | six programs of four files, 3 calls of `import()` | bodies once and in order, imports bound, nothing half linked |
| `module_circle` | the same | **violation**: see Findings |
| `handles` | 2 C++ values, 3 objects, 2 modules | one owner per reference; what is left at the end is what nobody could free |
| `interpreter` | the bytecode of 42 functions | references, stack depth, closing of iterators |
| `library` | one call (or short program) at a time, from families of inputs | regular expressions, their methods, objects, arrays, typed arrays, Atomics, compiled programs, serialization, proxies, each against its definition |

**Bounds.** Three objects with two references each contain every shape a
collection distinguishes: self cycles, cycles with a tail in and a tail out,
two cycles that share a member, a garbage cycle that refers to a live object and
the reverse. Two outside references separate "a reference was returned" from
"none is left". Three promises give a promise that follows one that follows
another, and the promise that a thenable job's `then` creates; two pairs are the
first pair and the one of a thenable job. Two frames of program code are a getter,
executor or async function inside a script or handler. Two timers give every
order of set, clear, expiry and collection of one against another, with closures
that refer to themselves and to each other; with delays above `MaxWait` a wait is
also cut short by the cap of 10000 ms. Two generators are the caller and the called,
each other's and their own inner iterator; four requests are one being answered, one
awaited, one queued and one that arrives meanwhile. Three keys and a table that
grows at two records give a chain with a zombie in it and a resize over it. Where a
bound blocks an action (`Room`, `RoomFor`, `MaxJobs`, `MaxSignals`, `MaxHeld`,
`MaxRequests`, `MaxDepth`, `MaxImports`) it blocks only program code from starting
something new, never C code from going on. The inputs of `library` are families
built from parts that interact (loops in lookaheads, indices from both ends, every
part of a descriptor, statements in statements), not single cases; the families are
in `MCLibrary` and `MCCompiler`.

**Fairness.** `GcHeap!FairSpec`: a collection and a free run to their end in the
function that started them. `PromiseJobs!FairSpec`: C code goes on, program code
ends (a script in an infinite loop promises nothing), and the host comes back to
the queue, as `js_std_loop` does. `EventLoop!FairSpec`: the same, and the clock
advances, strongly fair because it advances also while it is looked at only now
and then. `MCGenerators!MCSpec`: C code goes on, a body moves on, a promise that is
awaited is settled, strongly fair since other requests come between. Nothing is
assumed of input and signals. `TimersFire` has the hypothesis that jobs come to an
end: a job that always enqueues another keeps `js_std_loop` in its inner loop.

**Deadlock** is not checked where the system really stops: when the bounds leave a
script nothing to do, in a wait for input that never comes, at the end of a call or
a program. It is checked in both runs of the heap.

### Findings

*A module is bound to what does not exist yet* (`module_circle`). `js_instantiate_module`
is described as "Prepare a module to be executed by resolving all the imported
variables." (`quickjs.c` 26193), but it creates the variables of one module while it
already binds the imports of another: in a circle `js_resolve_export` finds a local
export of a module without variables, and the code uses bytecode as a function
object or a null pointer (26323). A program of two files that import from each other
through a third ends the process. `ImportsBound` holds for what is bound otherwise.

## 4. Where the code departs from its models or from the language

Met while modelling, most of them confirmed by running a script with the engine
under an address sanitizer. The models contain the behaviour unless it is said that
the property or the inputs leave it out.

- *Timers.* `let t = os.setTimeout(() => os.clearTimeout(t), 50)` inside a function
  makes a cycle: object, closure, variable, object. `js_os_timer_mark` reports the
  closure as a child of the object, so `JS_RunGC` frees both while the structure stays
  in `os_timers`, and `js_os_poll` calls a freed function (`quickjs-libc.c` 1768). The
  second half of `TimersSound` is about programs without such cycles.
- *Jobs.* The inner loop of `js_std_loop`, commented "execute the pending jobs", is
  left at the first job that throws (2760); `JobsFirst` is about the others.
- *Promises.* An `await` of a promise whose `constructor` throws never continues; a
  getter of `Object.prototype.then` meets the assertion at `quickjs.c` 18417.
- *Generators.* A generator re-entered through `yield*` goes on with a frame that has
  moved on or was freed (17785, 17822); `Overtaken` ends the model there. An async
  generator loses requests whose answer fails or that follow a completion in the same
  step (18406): `AnsweredOrOver` says which are answered. Destructuring in a generator
  contradicts the comment at 14115. `for await` closes its iterator wrongly, and
  `js_append_enumerate` closes one whose `next` threw (14305).
- *Maps.* `js_map_clear` uses the next record after freeing the value of the current
  one, which can be an iterator standing on it (43701). `js_map_forEach` takes `el->next`
  and only then frees the result of the callback (43752-43756): if that is the last
  reference to an iterator standing on a next record that was deleted, its finalizer
  frees the record and the loop goes on from freed memory. In `MapRecords` the place is
  `Freed` then and the call stops; `ImplementsMapEntries` holds until there.
- *Modules.* `js_dynamic_import_job` tests `ret` instead of `ns` (26459); a failed
  resolution leaves a null module (26325); a failed instantiation or evaluation frees
  modules another walk is in (26204, 26524). A variable found through two stars, once
  in its own module and once in one that imports and exports it, counts as ambiguous,
  since modules and local names are compared (25770).
- *Interpreter.* `add_loc` (16663), `inc_loc` and `dec_loc` (16919, 16940) use the
  value of a variable after the program code of `ToPrimitive` has assigned it.
  `FrameSound` holds until that happens.
- *Properties.* `a.length = {valueOf() {...}}` that adds properties makes the code use
  a freed shape (7636, 7884, 8552); defining an index on an array that is not extensible
  throws but changes its length (8286); defining a bad length with `writable: false`
  throws but makes it read-only (8560); a read-only property of a prototype does not
  stop an assignment (7993, against the comment at 7753); `Reflect.set` on a getter
  without setter answers true (7609).
- *Arrays.* `indexOf` uses the length it read before its argument was converted;
  `Array.from` closes an iterator that threw (35437); `flat` calls setters of
  `Array.prototype` (36561); `sort` leaves an element that is in its place unwritten.
- *Typed arrays.* `fill`, `copyWithin` and `indexOf` write or read through the pointer of
  a buffer that the conversion of an argument has detached (48368, 48335, 48511, against
  the comment at 8112); the constructor does not look again either (49494);
  `set` between overlapping views of different types reads what it has written (48067).
  `BuffersAsDefined` leaves out the calls in which that happens. The species constructor
  that `ArrayBuffer.prototype.slice` may call (47805-47835) is not modelled.
- *Atomics.* `CONFIG_ATOMICS` is commented out (`quickjs.c` 97), so nothing of Atomics is
  in the program that this repository builds, and no part of it starts a second thread;
  what follows is about a build that defines it. A waiter taken off the list by notify can
  still answer "timed-out", a spurious wake-up answers "ok" (50242-50268).
- *Regular expressions.* `/(?:)*?b/` on a text without b never ends and
  `/(?:(a?)\1)*b/` runs out of memory; captures are not reset in each turn of a loop;
  a turn of a loop that reads nothing ends it. `RegexpMatch` follows the engine there
  and says so. `lastIndex` inside a surrogate pair matches before it; split makes
  "undefined" of a capture that did not take part (41208); matchAll truncates
  `lastIndex` to 32 bits (40777).
- *Compiler.* `return` inside for-in inside for-of inside try with finally, and `yield`
  in a default value of an array pattern inside try, are refused as "unconsistent stack
  size"; an unlabelled `break` inside a labelled statement that is no loop leaves only
  that statement (24029, 24618), so `while (1) { foo: { break; } }` never ends; `continue` in
  a for statement does not give closures their own variable (25019); the value of a
  finally that ends abruptly is lost. The programs of `MCCompiler` are without these.
- *Serialization.* An object refused for an accessor keeps `tmp_mark` and every later
  write that meets it is refused as circular (32313): `ReadsBack` says that a mark stays
  only then. Reading is not safe against a buffer that ends early: a function has its
  counts from the `memcpy` at 32896 on, but its code only from 32736, its constants and
  closure variables from their turn; on an error in between `free_function_bytecode`
  (30801-30815) and `free_bytecode_atoms` (26968) go through null pointers. A module is
  freed by `js_free_module_def` and its count lowered afterwards (33264-33266). In
  `Serialization` these are the errors "null pointer" and "use after free". Holes
  become undefined, other properties of arrays and symbols are dropped, and an array that is not extensible becomes a template where bytecode is
  allowed, all without an error.
- *Proxies.* `getOwnPropertyDescriptor` does not compare values, getters and setters
  ("XXX: not complete check", 42640), so the value of a constant may be told differently
  there: `ProxiesKeepWord` leaves these values out. `defineProperty` refuses some
  descriptors the language allows (42753-42766). `p->extensible` is read where the
  target may be a proxy itself (42623); targets here are ordinary objects.

## 5. Proofs

What is proved holds for every value of the constants, from the named assumptions
of the modules alone. `tlapm` checks every leaf.

### The heap (`GcHeapProofs`)

For every finite set of structures, every choice of places and every bound, from
`HeapAssumption` (finiteness, disjointness, owners are cells, records belong to
objects):

| theorem | statement |
|---|---|
| `TypeCorrect` | `Spec => []TypeOK` |
| `HeapInvariant` | `Spec => []IInv` |
| `CountsExact` | `Spec => []RefCountExact` |
| `MemorySafe` | `Spec => []NoDangling` |
| `MarksReset` | `Spec => []SurvivorsUnmarked` |
| `AssertionsHold` | `Spec => []CollectorAssertions` |
| `WeakKeysSafe` | `Spec => []WeakKeysLive` |
| `CollectorInvariant` | `Spec => []CInv` |
| `EveryCycleFound` | `Spec => CollectionComplete` |
| `LastCollectionEmpties` | `Spec => []FreeRuntimeListEmpty` |
| `HeapImplementsPromise` | `Spec => ImplementsReachableHeap` |

The safety properties are not inductive one by one: the counts say nothing about
what may be freed unless they are exact, and they stay exact only if the passes
treat each reference once, which depends on the marks. `IInv` is the conjunction of

- `TypeOK`; `Exact`, the count of *every* structure in memory, not only of live ones;
- `NoDangling`; `FreeIsBlank` (returned memory has no marks, counts or references);
- `FreeingDead` (a structure being freed is not referred to by the live part);
- `AuxLayered` and `AuxReferred` (structures on no list have no cycles among
  themselves, so each that is alive and marked is reached from an object: without
  this a pass would never visit some of them);
- one conjunct for each pass, `RunPass` ... `SweepPass`, saying which marks exist, what
  the pending calls are and that a structure kept by the scan refers only to kept
  ones: this is why the sweep frees no live structure.

The counting argument is in a few lemmas about cardinalities: a step changes the
set of counted references to a cell by at most one place, so its cardinality by
one. Each action then has one step per conjunct it can disturb. `IInv` was checked
by TLC on the instances above before it was proved.

That the collector frees nothing it should keep follows from `IInv`; that it keeps
nothing it should free needs more. `CInv` adds `DecrefReached` (`gc_decref` goes on from
every structure it marks), `CyclesMarked` (in `gc_scan` every member of a set that
nothing outside refers to stays marked) and `LastCollection` (with nothing held, all
that is left is marked when the last sweep begins). A set that nothing outside refers
to takes the place of a path: all the references to a member come from members,
which are marked, so none of them is counted and the count is zero (`CycleUncounted`);
a structure on no list that `gc_decref` had missed would be referred to only by such
structures, and those form no cycle (`gc_decref_endMarks`).

The refinement maps the memory in use to `exists` and the counts, marks and passes to
nothing. A structure being freed, or a marked one in the sweep, is not intact, and
what is not intact is such a set (`DyingIsUnreachable`): this is what lets `Release`
be `TakeApart`. The end of the sweep returns all that is being freed at once
(`ReclaimStep`). It also needs `OneRecordPerKey`, that `js_map_set` adds no second record
for a key.

### Generators (`GeneratorProofs`)

| theorem | statement |
|---|---|
| `FramesMatch` | `GeneratorSpec => []FrameMatchesState`, any number of generators and any depth of calls |
| `RequestsInOrder` | `Spec => []InOrder` of an async generator, any number of requests |
| `OnlyWhereStopped` | `Spec => []ResumedWhereStopped` |

`FrameMatchesState` is carried by `Matching`, which also says where on the C stack a
generator that runs has its call. For async generators `AsyncInv` is `AsyncTypes`
(the C stack has one of six shapes), `Numbered` (the requests answered are the first
that were made, the queue holds the ones after them) and `Stopped` (which state of
the generator goes with which state of its frame, and what waits for a promise is in
the state that waits). `InOrder` follows from `Numbered` alone, `ResumedWhereStopped`
needs all three: that the loop finds a body to run is a fact about the queue.

### Promises and async functions (`PromiseProofs`)

For any number of promises, pairs and frames, with or without allocations that fail,
from `PromiseAssumption` (the special values are distinct from each other and from
promises, pairs and handlers):

| theorem | statement |
|---|---|
| `PromisesTyped` | `Spec => []TypeOK` |
| `PromisesSound` | `Spec => []PromiseInv` |
| `OutcomesFlat` | `Spec => []NeverNested` |
| `SettledOnce` | `Spec => []OneRight` |
| `FunctionsSound` | `Spec => []AwaitInv` |
| `ResumedRight` | `Spec => []ResumedOnce` |
| `PromisesKeepTheirFates` | `~MayFail => (Spec => ImplementsPromiseFate)` |

`PromiseInv` is the conjunction of `TypeOK`; `Sound` (pairs, jobs and frames refer only
to promises and functions that exist, a job rejects only through functions that reject
and fulfills only with what is no promise, the two handlers of an await are the same
continuation); `RoomKept` (every thenable job has room for the pair it makes, which is
a bound of the model); `OneWay`; and `NeverNested`. `OneWay` says what `OneRight` counts
without counting: the ways to settle a promise, by an unused pair, by a thenable job
and by a getter in progress, exclude each other and are each at most one. A step
either leaves the ways of a promise as they are (`Quiet`), or spends one
(`SpentPair`, `SpentGetter`, `SpentJob`) and puts at most one in its place
(`OneWayAgain`). `NeverNested` needs `Sound`: that a job hands on an outcome that is
no promise is known only from where the job came from.

`AwaitInv` adds `OneAwait`, which says the same of async functions: one reaction or job
at most resumes a suspended function, none resumes a running one, and a running one has
one frame. A step moves the places that wait (`Moved`): a reaction that is served or a
promise that settles turns each place into one at most (`MovedServed`, `SettleMoves`),
and `then()` adds one only for an await (`ThenMoves`). That the function resumed by a
job was suspended follows: were it not, nothing could wait for it. Jobs lost to a
failed allocation are covered, so both theorems say what remains true after one:
nothing is settled or resumed twice.

The refinement needs one hypothesis: no allocation fails. A job that could not be allocated
is lost, and its promise is told a fate that never reaches it; `PromiseFate` has no such
thing. What a pending promise is told comes from the thenable job that makes it follow
another (`Follower`), or from a pair no program has seen (`Hidden`), through the reaction, job
or call that is going to use it (`Tells`). `FateInv` adds to `PromiseInv` that a hidden pair
tells one thing (`OneTales`) and is never called with a promise, that nobody else calls a
hidden pair (`OpenReactions`, `OpenJobs`, `OpenFrames`), and that promises are rejected with
errors only (`ErrorsOnly`). Queue, C stack and reactions are looked at as sets (`Items`), so
that taking a job off the queue is one member less. `WaysTell` is where `OneWay` is used
again: what is told of a promise is what its one way to settle tells. Most steps change
nothing that is told (`CalmFates`); each other one is a step of `PromiseFate`: a promise is
made (`CreateFate`), is open again when its outcome is looked at for a `then` (`ReopenFate`),
follows another (`FollowFate`), is to take over its outcome (`TakeFate`), or has it
(`SettleFate`).

### The event loop (`EventLoopProofs`)

For any set of timers, descriptors and signals and every kind of program, from
`LoopAssumption` and `NoneAssumption` (the bounds are numbers, the kinds of programs are
what they say, and `None` is no place of a handler):

| theorem | statement |
|---|---|
| `LoopTyped` | `Spec => []TypeOK` |
| `TimersAlive` | `Spec => []TimersSound` |
| `JobsBeforeHandlers` | `Spec => []JobsFirst` |

`LoopInv` is `TypeOK`, the kinds of programs, and three parts. `Where` says what goes
with each place of the loop: a function that runs has the reference of its call and one
more exactly while its place still owns it, and jobs are pending in the loop's own
calls only after one that throws. `Owned` relates structure, list, object and function
of each timer; it ends where defined behaviour does, at the call of a handler whose
function has been freed. `Straight` says that this never happens in a program whose
closures refer to themselves through no timer: `Acyclic` gives every set of timers an
element that no closure of the set refers to, so a collection finds nothing to free
(`NoGarbage`) and functions are freed only with their timers. The lemmas about lists
(`ListDel`, `ListAdd`) say that unlinking and linking keep `os_timers` free of
duplicates.

### Modules (`ModuleLinkingProofs`)

For any number of modules, whatever their files request, import and export and however
often program code calls `import()`, from `ModuleAssumption` (the names in files are
names of modules, and a file imports only from modules it requests):

| theorem | statement |
|---|---|
| `LinkingSound` | `Spec => []Inv` |
| `WalksOnce` | `Spec => []OneWalk` |
| `BodiesOrdered` | `Spec => []BodiesInOrder` |
| `NothingHalfLinked` | `Spec => []NoHalfLinked` |

None of the three properties is inductive, and none follows from its own walk alone:
an `import()` begins other walks in the middle of one, and a failure frees modules that
other calls still refer to. The invariant `LinkInv` speaks of the files, the calls in
progress, what the last one returned, and the *sets* of modules that are loaded,
resolved, instantiated, marked, evaluated and run. Its parts are

- `Flags`: the flags are set in order, and what a module is linked to is resolved;
- `Nested`: which call makes which (a walk of one kind is never below a call of another
  one, except through a body);
- `Calls` and `Once`: what a call knows of its module, and that no module is in two calls
  of one walk; this is `OneWalk` with witnesses instead of cardinalities;
- `Answered`: a call that has waited has an answer;
- `Ordered`: the requests of a module, up to the one its evaluation is at, have been
  evaluated without an exception, are in progress below it, or have just failed. At the
  last request this is `BodiesInOrder`;
- `Closed` and `Reached`, unless a failure is on its way to the call that frees the
  modules: a module that is instantiated has its links instantiated or is going to; and
  every nonempty set of modules that are instantiated and not evaluated has one that a
  call is going to evaluate, or that a module outside the set is linked to. With no
  call in progress nothing is left that could be in such a set, which is `NoHalfLinked`.
  "Going to" is said of sets, and not of paths along the requests, so that the proof
  needs no induction over paths.

A step of the program is one of a few events on the calls: the last one goes on
(`MoveStep`), makes a call (`PushResolve`, `PushCompile`, `PushInstantiate`,
`PushEvaluate`, `PushBody`, `PushImport`), returns (`PopPlain`, `PopDependencyFails`,
`PopEvaluated`), or modules are freed below it (`FreeModules`). Each event has a lemma
about `LinkInv`, each change of the module definitions one about the sets (`Mod...`),
and each action a lemma `..._Keeps` that puts two or three of them together.

### Maps and sets (`MapRecordsProofs`)

For any keys with any hashes, any finite set of iterators and any depth of `forEach`,
from `MapAssumption` (keys and iterators are finite sets, hashes are natural numbers, no
key or iterator is `None`, no iterator is the number of a call, and the special values of
`MapEntries` are none of its values):

| theorem | statement |
|---|---|
| `RecordsTyped` | `Spec => []TypeOK` |
| `RecordsSound` | `Spec => []RecordsCounted` |
| `MapsKeepTheirPromise` | `Spec => ImplementsMapEntries` |

The invariant `Good(World)` is one statement about a map, its iterators and the calls in
progress: `Sane` (a zombie is a record without key, other records have different keys,
the table holds exactly the records that are not zombies, each in its bucket, and
whoever enumerates stands on a record of the list or before the first), `Counted`
("size" is the number of records that are not zombies) and `Balanced` (the count of a
record is the number of those that stand on it, and one more unless it is a zombie).
Two calls may hold the place of a record that has been returned: `js_map_clear`, and
`js_map_forEach` between the next place it has taken and the entry it visits there
(`Stands` tells them from the others). Only the innermost call can be between two
entries (`OnTop`), so what a record loses by the result of a callback concerns one
call, and once that call has lost its place (`Astray`) it makes no further step.

It does not hold in the middle of an operation. Between its steps a record `d` may
already be out of the table while it is not yet a zombie, and a record `e` may still
have the count of a visitor that has gone on; `Sane(w, d)` and `Balanced(w, e)` name
them. What a function does to a world is then a lemma about these two: `Decref` and
`Settled` for `map_decref_record`, `EmptiedGood`, `PlaceKept` and `Deleted` for `map_delete_record` and the
value it frees, whose finalizer may free iterators and with them other records, `Resized` for
`map_hash_resize`, `Added` for `map_add_record`. A record that is returned shifts the
places of those after it; `ShiftBack` says that this is a bijection of the records that
remain, so that every count keeps its meaning (`Unlinked`). The actions need the
lemmas in the order of the code, which is what the proof is about: `js_map_clear` takes
the next place before it deletes the current record, `js_map_forEach` after the arguments
of the callback have been freed and before its result is.

The refinement says what a program sees of all this: the order of the keys, their values,
and what each enumeration has still to visit. Each of the functions above has a second
lemma about that view. Two facts carry them. Where records move but keep their order, or
stay and lose their contents, only the key of the record that goes is lost (`Carried`,
`CarriedWorld`, `Loses`); a zombie has no key, so to let go of a record and to free a zombie
changes nothing a program sees (`LosesNothing`, `DecrefView`). And the next record that is no zombie is
the first of what is left to visit (`NextView`). On top of them are the effects a whole
operation may have: a value that is freed may end the enumeration of an iterator
(`Drops`), a key goes with its value (`Removes`), or is added behind all others (`Adds`).
Each action lemma proves the invariant and that the step is one of `MapEntries` or none
(`Moves`); `clear` is one `Delete` for each record it frees.

### Atomics.wait and notify (`AtomicsWaitProofs`)

For any number of threads and any sequences of stores, waits and notifies, from
`WaitAssumption` (programs are finite sequences of operations, and there are fewer
threads than `INT32_MAX`, so that a notify without a count takes every waiter):

| theorem | statement |
|---|---|
| `WaitSound` | `AtomicsSpec => []IInv` |
| `WaitersAlwaysFound` | `AtomicsSpec => []WaitersFound` |

`WaitersFound` speaks of the list, the signals and the values between any two steps.
What carries it, `Good`, adds where each thread is (`Busy`, `Mutexed`) and how far the
notify in progress has come (`Taken`): whom it has taken off the list waits for its
place, and waiters it has passed wait for others, so that at its end none is left who
should have been found. That is what `Remembered` rests on: a thread that waits for a value
that has changed is signalled, or a notify is to come, either of a thread that has not
begun it or of the one under way (`EndsKeeps`). A store is
remembered because its own thread notifies after it, which is `Announces`; a wait that
begins between the two finds the new value under the mutex (`EnlistsKeeps`). Each action is
first turned into what it does to the fields (`Fields`), and each such effect has a
lemma that it keeps `Good`.

### C++ handles (`ValueHandlesProofs`)

For any finite sets of Values and objects, in both headers, from `HandleAssumption` (those
sets are finite, and the global object is an object):

| theorem | statement |
|---|---|
| `HandleInvariant` | `Spec => []HandleInv` |
| `HandleTypes` | `Spec => []TypeOK` |
| `HandlesOwnedOrLost` | `Spec => []OwnedOrLost` |

`OwnedOrLost` compares each count with the owners of the object and says what is left at the
end. `HandleInv` says it with a difference: the *slack* of an object, its count less the
properties that refer to it, is what the Values, the context, the modules and the lost
references make (`Matched`). An operation of the engine is a fact about slack: `JS_DupValue`
adds one, `JS_FreeValue` takes one, to set a property turns one into a property, and freeing an
object with everything that only it kept alive changes no slack but its own
(`LetGoSlack`). The other parts are `Fitting` (which owner may be in which state), that an
object without references keeps no property, so that nothing is freed twice, and
`Ended` for the freed runtime. Each step of the C++ layers adds, moves or drops one owner
(`HandleOwners`, `SlotOwners`, `ModuleOwners`, `LostOwners`) and calls the engine
accordingly; `OwnersBefore` and `StepKeeps` put the two together.

`free_object`, `Reached` and the loops over slots are recursive functions. They are reasoned
about for every size by `Induction`, which speaks of a set of numbers and follows from a least
element (`LeastElement`), and by `Iterates`, that a function can be iterated;
`ReachedSmallest` says that `Reached` is the smallest closed set, and what the collector
frees is what is outside it (`RunGC`).

### Model-checked only

- Liveness (`CollectionEnds`, `WaitingEnds`, `LoopLives`, `AnsweredOrOver`): the prover
  does not handle fairness and ENABLED.
- `ImportsBound`: what an import is bound to is computed by `js_resolve_export` and held
  against `StandsFor`, both recursive functions over chains of `export from`.
- What recursive definitions compute: regular expressions and their methods, array
  methods and `rqsort`, the compiler, serialization. Their modules use RECURSIVE
  operators, and so do the definitions they are held against.
- `FrameSound` and `IteratorsClosedOnce` of the bytecode interpreter and the properties of
  `Properties`: their operators fold over the operand stack and follow chains of
  prototypes with RECURSIVE operators.
- That who waits for a settled promise goes on, and the refinement of `PromiseFate` when
  allocations fail: a job that is lost then leaves its promise pending for good.

## 6. Plan

Done: the modules of section 2, in the order heap, promises, loop; generators,
maps, modules, handles, interpreter; regular expressions, properties, arrays, typed
arrays, compiler; serialization, proxies. Left, in this order:

1. `GcList`: the cursor `el_next` of `gc_scan`, refining the choice of `GcHeap`.
2. Atoms, and `String.prototype.split` and `replace` with strings.
3. JSON: `JSON.stringify` and `JSON.parse` with program code in `toJSON` and revivers.

## 7. Not modelled

Atoms (a counted table like that of the heap), the tokenizer and the parser of
regular expressions, functions and classes in the compiler, with, private names,
templates, line numbers, sizes of operations; Math, Date, JSON, Number and most of
String and Object; Unicode tables; files, processes and terminals in std and os;
command line tools and generators of tables. Strings and symbols own nothing and are
not cells. Allocation failures are modelled where the code goes on without noticing
(`JS_EnqueueJob`), not where it throws. Several contexts in one runtime, and the depth
of the C stack, are left out. `PROJECT.json` gives the reason for each component.

## 8. Running

    tlc -workers 2 -config MCGcHeapCycles.cfg MCGcHeap.tla
    tlapm GcHeapProofs.tla

Each run of section 3 takes from seconds to about three minutes on two cores
(`library` the longest); `PROJECT.json` names its module and `.cfg`.
