# ScriptBasic in TLA+

Models of the ScriptBasic interpreter, model-checked with TLC and proved about with TLAPS. Every definition
is translated from the C sources; `PROJECT.json` names for each one the lines it stands for (`map`), the runs, the
mutants that show that each property can fail, the disagreements between code and documentation (`findings`), the
hazards of the code and the theorems.

## 1. The system

ScriptBasic reads a BASIC program, translates it into an array of nodes and interprets that array. It is embedded:
the command line interpreter runs one program, the HTTP server runs many interpreter threads in one process, each with
an execute object of its own, and extension modules share data between them.

| Component | Sources | State | Operations | Hard parts |
|---|---|---|---|---|
| Shared lock | `thread.c` | three mutexes, the count of readers | lock and unlock for reading, for writing | interleavings of the mutex calls, starvation |
| Logger | `logger.c` | linked list of items, state, open file, a mutex used as a signal | `log_init`, `log_printf`, `log_shutdown`, `log_state`, `log_thread` | wake-ups, shutdown racing with callers, failing allocations, file rotation |
| Execution engine | `execute.c`, `commands/goto.c`, `commands/function.c` | program counter, error handler, locals, GOSUB stack, step counters, C stack of calls | the command loop, calls from expressions, ICALL, host calls, jumps, error handling | errors that leave functions, registers saved on the C stack, limits |
| Variables | `memory.c`, `commands/let.c`, `commands/function.c`, `commands/file.c` | places and structures, lists of references | assignment, REF, UNDEF, BYVAL, SWAP, input, call by reference, return | sharing and release of structures, order of release |
| Segment allocator | `myalloc.c` | blocks of a segment, size limit | allocate, free, finish | limit, release of all blocks |
| IF and loops | `commands/if.c`, `commands/while.c` | loop variables in the node array | FOR, WHILE, REPEAT, IF | jumps out of loops |
| Module manager | `modumana.c`, `dynlolib.c`, `basext.c` | module lists of interpreter and process, activity counts | load, call, unload, shut down | order of finalizer, keeper, shutdown; interpreter threads |
| Handle arrays | `hndlptr.c` | growing array under a mutex | get, look up, free | lazy creation, failing allocation |
| HTTP server | `httpd.c`, `variations/httpd/websrv.c`, `service.c` | slots of threads, free list, server state | accept, handle, release, stop | slots at their limit, shutdown with running handlers |
| mt extension | `extensions/mt/interface.c` | process variables, sessions, shared locks | get and set variables, create, select, delete sessions, lock | locks held across calls, deletion of what is in use |
| Interpreter object | `scriba.c` | life cycle of an interpreter, cache file | load, run, call, destroy | stale cache, order of calls |
| Translation | `reader.c`, `ipreproc.c`, `epreproc.c`, `lexer.c`, `expression.c`, `builder.c`, `syntax.def` | the program as text, symbols, nodes | sequential passes | none concurrent |
| Pure algorithms | `match.c`, `sym.c`, `mygmtime.c`, `md5.c` | arguments only (`sym.c`: balanced trees) | LIKE, symbol lookup, dates, digests | boundaries, widths |
| Options, configuration, hooks | `options.c`, `conftree.c`, `confpile.c`, `hookers.c` | tables | look up | none |
| Commands, files, system | the other `commands/*.c`, `filesys.c`, `uniqfnam.c` | open files | input and output | operating system |
| Extensions, front ends | `extensions/*`, `variations/*` | of the wrapped libraries | bindings | third-party code |

How they interact: the engine evaluates expressions, and a user function in an expression is a recursive call of the
command loop; arguments are references to places of the caller's variables, so a call and a return change the lists
that `memory.c` keeps. An error anywhere below unwinds the C stack through the engine's error handling. `RESUME`,
`GOSUB` and the limits are registers of the same object. The server's threads each have an engine; they share the
logger, the module list of the process and the sessions of the mt extension, which is what the shared lock is for.

What makes each component correct: the **lock** excludes writers from everybody and lets in who is past the entrance;
the **logger** is a FIFO queue whose thread never sleeps over work, and it ends after a shutdown; the **engine** keeps
control, locals, pending GOSUBs and handlers within the function they belong to and stops at its limits; the
**variables** that refer to one another share one value, whatever is released in which order, and no structure is
lost, freed twice or reached after its release; **allocator**: every block belongs to one segment and the limit holds; **modules**:
each is shut down once, after its last user; **handles**: one handle per pointer, none lost; **server**: a slot has one
connection and comes back; **sessions**: nobody uses a deleted one, and every lock taken is given back once.

## 2. Modules

Modelled so far:

| Module | What it is |
|---|---|
| `Mutex` | mutexes of the thread library, from their use in `thread.c` |
| `RWLock` | the abstract lock: many readers or one writer |
| `SharedLock` | the lock of `thread.c`, a step for each mutex call and each access of `dwReaders` |
| `SharedLock_proofs` | inductive invariant and theorems about it |
| `LogQueue` | the abstract log: a FIFO queue, an item that is taken, what was written |
| `Logger` | `logger.c`, a step for each mutex call, each access of the queue and each call on a `FILE` that another thread may close |
| `Logger_proofs` | inductive invariant and theorems about it |
| `Execute` | the engine: `execute_Execute_r`, calls of user functions, `goto.c`, `function.c` |
| `Alias` | what a program sees of its variables: a value each, and groups that share it |
| `Variables` | the structures behind it: assignment, `LINE INPUT`, `-=` and the like, `SWAP`, `REF`, `UNDEF`, `BYVAL`, calls and returns, on scalar variables |
| `MC*` | instances for TLC: program families, the bounds that are operators, symmetry |

### SharedLock
`pc[t]` is the statement a thread executes next, `locked` the set of locked mutexes, `iReaders` the local variable of
the functions. `dwReaders++` is a fetch and a store. Each thread calls the functions as their documentation asks: it
unlocks what it locked. The functions that create and destroy a lock are not modelled: nobody may be using it then.

### Logger
`QueueStart`, `QueueEnd` and the field `n` of the items are the linked list; `heap` says which items are allocated, in
use or freed. `wpc` is the statement of `log_thread`, `pc[t]` that of a caller inside `log_printf` or `log_shutdown`.
`mxRun` is locked by the logging thread and unlocked by a caller, that is, a signal. A time stamp is a small number, `LastTime` keeps
that of the last item written. Allocations and `fopen` may fail if `MayFail`; the message (`text`) and the item (`heap`) of a
`log_printf` are allocated one after the other. A log may have no file name (`type = "none"`): its functions return at once. Two things
are coarser than the code: a read or a store of the state under `mxState` is one step, since nothing else happens in these critical
sections, and so is the write of an item by the logging thread, which alone touches the file of an asynchronous log.
Calls are bounded by the items (each accepted message has an item) and by `MaxShutdowns`.

The file of a synchronous log is shared without a mutex: the test of `fp`, `fprintf`, `fflush`, `fclose` and `fp = NULL` are steps of
their own, and `closed` says that `fp` points to a `FILE` that is closed. What C leaves undefined there (writing to such a `FILE`, closing
it again, closing NULL) does nothing in the model. The other outcome, that the process dies, only ends the behaviour: it matters to no
safety property, and the liveness properties are about processes that live.

### Execute
A program is a function from nodes to commands. Of an expression only the user functions it calls remain, in their
order, with the calls in their arguments, and whether its evaluation fails after them; of the commands outside
`goto.c` and `function.c` only whether they evaluate an expression. `pEo` has the registers of the same names. The C
stack of `execute_Execute_r` is `stack`; an activation keeps what `execute_Evaluate` saves in its local variables.
Nothing gives `ErrorResume` a value before the first handled error or call (`execute.c` assigns it in lines 482, 491, 503, 658 and 818
only, and the object comes from the heap as it is, `scriba.c:760`): it starts with a member of `Leftover`. The auxiliary field `resume` of
an activation tells such a value from one that the code assigned. A leftover above the size of the program ends it at once
(`execute.c:429`) and is not in the model. `at` is the place in the loop: `fetch` before a command, `eval` while its calls are made, `after` when its outcome is
handled. The hooks do nothing, as the default ones. `ICALL` and `Function` are the handlers of `function.c`, `HostCall`
is `execute_ExecuteFunction` called after the program ended.

### Variables
A variable is a place (`Cell`): an element of the array of globals or of the locals of a call. A place holds NULL or a
structure (`obj`) with the fields `State`, `vType`, `aValue`, `rprev`, `next` of `memory.h` and a value. The helpers
(`ReleaseVariable`, `SetRef`, `ReplaceVariable`) take and return a memory, so that a command that makes several calls is one action:
`REF`, `FUNCTIONARG` and `ReleaseLocals` call them in the order of the code. Which free structure an allocation
takes does not matter as long as nothing refers to a free one, which is what `OneOwner`, `RefsLive` and `ChainsMatch`
say. Numbers replace numbers in place; any other value gets a structure of its own. `FailedCall` is a call of which a later argument
cannot be evaluated: the locals made so far are released and the function is not executed.

An evaluated expression is its value. So `LET` finds its place (`let.c:63`), evaluates the expression (`let.c:70`) and assigns in one
step, and `FUNCTIONARG` evaluates all its arguments in one: what a function does that is called in between, such as `UNDEF` or `REF` of the variable that
is being assigned to, is not modelled.

Four kinds of statements break this memory management in the code itself (`Careless`): `REF` of a variable that
others refer to, releasing a referenced value that came from `LINE INPUT` or `BYVAL`, `SWAP` of referenced variables,
and `LINE INPUT` or `-=` and its like on referenced variables. The passing run leaves all four out, so its result is
about programs that avoid them, and says nothing about the lines that these statements execute; the run `variables_reref` adds
the first and fails (sections 3 and 6), and so do the same properties with any of the other three.

## 3. Runs

| Run | Properties | What it shows |
|---|---|---|
| `lock` | `TypeOK WriteExclusive LightOff RWLockSpec WriterShutsEntrance EntranceLeadsIn EveryoneServed` | the lock excludes, implements `RWLock`, and serves |
| `exec_jumps` | `TypeOK LocalsOfRunningFunction LabelsAreLocal GosubsSorted CallersGosubsKept StopIsFinal` | control stays in its function over calls, errors, resumes and GOSUBs, unless it resumes to a leftover |
| `exec_ends` | `StepLimit LevelLimit Terminates ErrorsFindHandlers` | limits hold and end every program, errors find the nearest handler |
| `log_queue` | `QueueSpec TypeOK NoDanglingItem NoLostSignal OwnFile NoLeak` | the list is a queue, wake-ups are kept, lines are in the right file, memory is not lost |
| `log_live` | `EveryItemLeaves ShutdownEnds` | items leave the queue, the thread ends and the file is closed after one shutdown or two |
| `variables` | `TypeOK OneOwner RefsLive ChainsMatch AliasSpec` | the lists of references are exact and implement aliases |
| `exec_stop` | `StopIsFinal` (violated) | a second call in an expression forgets STOP |
| `exec_resume` | `ResumeInHandler` (violated) | RESUME NEXT succeeds outside error handling |
| `exec_return_dead` | `LabelsAreLocal` (violated) | RETURN jumps into a function that failed |
| `log_waiting` | `AllWaitingWritten` (violated) | items stay unwritten after a shutdown |
| `log_sync` | `SafeLogging` (violated) | a thread writes to a file that another one closed after the test |
| `variables_reref` | `ChainsMatch` (violated) | REF of a referenced variable leaves a link to a freed structure |

Bounds, and why they are enough:

* `lock`: three threads are the fewest that show a writer between two readers, and two writers with a reader. The
  theorems cover every finite number. Threads are not a symmetry set, as liveness is checked.
* `exec_*`: programs of seven nodes with one function, but all programs of their family: every combination of the
  listed commands, some 66,000 programs in `exec_jumps` and 14,000 in `exec_ends`. One function that calls itself is every function the registers can tell
  apart; two levels of calls are the fewest at which a caller's saved registers are saved again. The step limits end
  loops after 9 to 12 commands, enough for each node of a program to run and to come round once. The programs of
  `exec_jumps` leave out the combinations that `exec_return_dead` and `exec_stop` show (a function that fails with a pending
  GOSUB, a second call in an expression after STOP). In `exec_jumps` `ErrorResume` starts with zero or with node 5, which is inside the
  function of both families, so that a RESUME of the main part before the first error jumps there; `LabelsAreLocal` excludes what follows, the other
  properties do not. The other runs start with zero. In `exec_ends` the level limit is one, so two bodies may run, and the steps suffice for a third.
* `log_queue`: three items fill the queue from empty to first, middle and last item, with two callers to race on each
  of them, one shutdown, two hours for the rotation, failures, and all three types of log. `log_live` drops time and failures, which
  liveness does not depend on, and allows two shutdowns. `log_sync` has two threads and a message each.
* `variables`: two globals and two locals give lists of up to three references to one value, of which the first, a middle
  and the last can be released; a variable passed twice; a local that outlives its call through a global that refers to it. One
  level of calls: a deeper frame is reached by the same pointers. Two numbers tell an update in place from a copy, a text needs
  structures of its own. Five structures are one more than the places, the most that are in use at once. `View`
  identifies memories that differ only in the names of the structures.

Deadlock is checked in `lock` and `variables`. The other systems may stop: a program ends, the calls of the logger are
bounded.

**Fairness.** `SharedLock`: a thread that is inside a lock function or holds the lock goes on (weak fairness of its
steps); it need not ask again. With that alone a thread may starve at `mxWrite`, since a mutex picks any
waiter; `EveryoneServed` has as premise that the choice is random, as the comment of `thread.c` says, which for liveness is strong
fairness. `Logger`: weak fairness of the logging thread and of each thread inside a call. It is
enough because the calls are bounded: a mutex is contended finitely often. Nobody has to call the logger. `Execute`: one
thread that goes on while it can. `Variables` has no liveness property: nothing there has to happen.

## 4. Proofs

TLAPS proves, for every value of the constants within the stated assumptions:

* `SharedLock_proofs` (for any finite set of threads): `TypeCorrect`, `WritersExclude`, `LightAndBox`, `EntranceShut`
  and `Refinement`. The invariant `IInv` adds to the types: for each of the three mutexes the place of the program at
  which some thread must be when it is locked, and that at most one thread is between its lock and its unlock
  (`Guarded`), the count as the cardinality of the threads whose card is in the box, the values that `iReaders` may have between fetch and
  store (`Registers`), and when the light is off (`Light`). `WriteExclusive` is not inductive: that a second reader does not
  lock `mxRead` again depends on the count, and the count on nobody else storing between fetch and store. `Refinement`
  maps each step to a step of `RWLock` or to a stutter.
* `Logger_proofs` (any finite sets of threads and items, any time span and bounds): `TypeCorrect` and `SignalKept`. `IInv` adds
  that an item in somebody's hands exists (`Hands`), that one thread at a time is in the critical section of the queue
  (`ChainExclusive`), that the logging thread waits only if it saw the queue empty after its last signal (`QuietIsEmpty`),
  and who is going to send the signal if it is not empty any more (`Signalled`). `NoLostSignal` alone is not
  inductive: it needs the trigger that a caller computes under `mxChain` before it links the item.

Only model-checked: `QueueSpec`, `NoDanglingItem`, `OwnFile` and `NoLeak` of the logger, everything of `Execute`
and of `Variables`. Out of the prover's reach are liveness, `ENABLED`, and induction over data: what the recursive functions
(`Waiting`, `Walk`, `Dereference`) compute for lists of any length.

## 5. What a mutant is

For each property of a passing run `PROJECT.json` names a definition and a variant of it with a plausible bug (`... Bug:`
comments in the modules); with the variant in place TLC finds the property violated.

## 6. Where code and documentation disagree

With a run (see `findings`): the six violation runs of section 3.

Met while modelling, without a run:

* `RESUME` before the first error tests an `ErrorResume` that was never assigned (`commands/goto.c:127`): if the heap left a node of a
  function there, the main program goes on inside that function. `exec_jumps` has such starts; without the premise on `resume`,
  `LabelsAreLocal` is violated.
* `ON ERROR RESUME label` never reaches its label, although "will try to continue execution on the label" (`commands/goto.c:72`):
  `execute.c:494` clears `ErrorGoto` and line 496 then jumps to it, which ends the program or function with success (`ErrorResumesLabel`).
* The level limit is checked before the level is raised (`execute.c:798`): one more level than `maxlevel` is possible, and `LevelLimit` says that it is never two.
* A failing function leaves `lFunctionLevel` raised (`execute.c:834`): a program that handles many errors of functions reaches the
  limit without being deep.
* A function called by the host can `RETURN` into the main program if that ended with a pending GOSUB.
* `LOGSTATE_DEAD` is set before the file is closed (`logger.c:112`), although `logger.c:165` says all files are closed in that state.
* A second `log_shutdown` turns a dead log into one that shuts down for ever (`logger.c:378`): `log_state` then never tells the end, which
  the second part of `ShutdownEnds` excludes. For a synchronous log it calls `fclose` with NULL (`logger.c:373`).
* A synchronous log accepts messages after the shutdown and drops them. `log_state` never says that it is shut down (`logger.c:180`).
* `log_printf` looks at the state (`logger.c:295-297`) before it allocates and links its item (299-346): the item may be linked after
  `log_shutdown` returned and the thread ended, although then "the log queue does not accept more log items" (`logger.c:355`), and
  `log_printf` returns 0.
* `ref a = b : a &= "x"` and `LINE INPUT a` change `b` only and leave `a` with the old value (`commands/let.c:989`, `commands/file.c:462`),
  although the text on `REF` says that altering one alters both. With `Careless = {"input"}` TLC finds `AliasSpec` violated.
* `SWAP` of a referenced variable takes the list of references to the other place and leaves the references where they
  were (`commands/let.c:127`). With `Careless = {"swap"}` `ChainsMatch` is violated.
* A string read by `LINE INPUT`, or a copy made by `BYVAL`, never becomes immortal, so `UNDEF` of such a variable leaves
  the references to it on a freed structure. With `Careless = {"unknown"}` `RefsLive` is violated.

## 7. Not modelled, and the plan

Modules to come, in this order, the most important first:

1. `Variables`: arrays as cells of cells (assignment copies, elements released with their array), mortal lists, failing
   allocations. Proof of `OneOwner` and of the local part of `ChainsMatch` (next and rprev invert each other).
2. `Activations`: an abstract specification of calls (a stack of functions with locals, handler and pending GOSUBs each), to be
   implemented by `Execute`; proofs of `GosubsSorted` and `LocalsOfRunningFunction`. FOR, WHILE and IF as further commands.
3. `Sessions`: the mt extension on top of `RWLock`, with the threads that use, select and delete sessions.
4. `ServerPool`: the accept loop, the slots and the shutdown of `httpd.c`.
5. `Modules`: `modumana.c` with two interpreter threads and a process object; `Handles` for `hndlptr.c`.
6. `Logger`: proof that the linked list refines `LogQueue`, as far as it needs no induction over the list.
7. `Segments` (`myalloc.c`) and the pure algorithms: `match.c`, `mygmtime.c`, `sym.c` against reference definitions.

Left out for good: the translation of the source text (sequential passes over text, with `syntax.c` generated), input and
output, the operating system layer, string and number functions, configuration files, bindings of third-party libraries, front
ends. They have no protocol that outlives a call.
