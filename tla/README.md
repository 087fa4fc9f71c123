# Mernel: a verification project

Mernel is a small C++20 library in three parts: `MernelPlatform` (streams, logging, JSON,
compression, tables, dates, a profiler), `MernelExecution` (task queues and executors) and
`MernelReflection` (structs to property trees and back). This directory holds TLA+ modules
translated from its source, the configurations TLC checks them with, and proofs that TLAPS
checks. Paths below are relative to `src/src/`.

1. [The system](#1-the-system): components, state, operations, interactions, what makes them correct
2. [Modules](#2-modules): which module models what, and how
3. [Runs](#3-runs): what each run checks, its bounds, why they are enough
4. [Fairness](#4-fairness)
5. [Findings](#5-findings): where the code disagrees with its own comments
6. [Proofs](#6-proofs): what holds for every value of the constants, and the arguments
7. [What is left out](#7-what-is-left-out)
8. [Plan](#8-plan)

## 1. The system

| Component | State | Operations | Hard | Correct when |
|---|---|---|---|---|
| **TaskQueue** (`MernelExecution/TaskQueue.cpp`) | a list of tasks, `m_readyState`, the set of handlers, one mutex | `addTask`, `takeFirst`, `execOne`, `markReady`, `registerHandler`, `unregisterHandler` | handlers are called in a loop *under* the mutex; they hear of *changes* only | a handler that was unregistered is not called; the state that was announced agrees with the list |
| **ParallelExecutor** (`ParallelExecutor.cpp`) | `m_activeThreads`, `m_terminate`, `m_isReady`, two mutexes, a condition variable, the worker threads | `execQueue` (spawn, loop, retire, wait, join), `handleEvent`, `abort` | termination detection while tasks add tasks, wakeups, `abort` at any moment, tasks added from outside | no owed task is left, no worker leaves too early or sleeps for ever, calls return |
| **TaskQueueWatcher, BlockingExecutor** (`TaskQueueWatcher.hpp`, `IExecutor.hpp`) | the watched state, counters, a stop flag, a mutex and a condition variable | construct, destroy, `waitForState`, `stop`, `start`, the events; the blocking `execQueue`, `abort` | a second mutex taken in both orders; `notify_one` with several waiters; timeouts | no call after destruction, the watcher knows the queue's state and counts every task, a waiter wakes |
| **ByteOrderBuffer, streams** (`ByteOrderBuffer.hpp`, `ByteOrderStream.hpp`) | bytes, size, a read and a write position, an end-of-file flag; a protocol mask and a width for sizes | resize, remove from the start, read, write, reset, forbid growth; scalars in a byte order, strings, containers, maps, bit arrays, fields, padding, values written to an offset, user data | partial messages, exceptions half way through a message, positions that fall behind the end, buffers that are full, objects that are read into again | what is sent is received, unchanged, in order, however it is cut |
| **PropertyTree** (`PropertyTree.*`) | a tree of nothing, scalars, lists, maps | `[]`, `append`, `insert`, conversions, `mergePatch`, `removeEqualValues` | nulls with two meanings, maps that meet other kinds | patches follow RFC 7396; for documents whose lists are equal, a difference applied as a patch gives the other document |
| **Reflection** (`MernelReflection/*`) | the values and settings of reader and writer | struct to tree, tree to struct, for every kind of field | values in memory and entries in the tree that show through; versions; exceptions half way | what is saved is loaded |
| **JSON files** (`FileFormatJson.*`, `FileIOUtils.*`) | a buffer and a file | print a tree or have rapidjson write it, append to or overwrite a buffer, read; open, write, read files | numbers and names that a text does not tell exactly, names that come twice, texts of other programs; a crash between truncation and writing | what can be told is read back as it was; what can be loaded is one whole document |
| **Logger** (`Logger.*`) | levels and the backend; for files: the open file, a counter, a mutex, a directory | construct, destroy and flush a message, replace the backend, clean up the directory, open, write, count, close | several threads, restarts, failing calls, a clock that stands still, a backend that is replaced while messages are alive | what is let through is written; the directory is bounded and holds the last messages |
| **ChronoPoint** (`ChronoPoint.*`) | a number of microseconds | dates to days and back, fields of a moment, printing | divisions, leap years, moments before 1970 | conversions are inverse |
| **Profiler** (`Profiler.cpp`) | a default context; per context a list of names, records, a cached record | scopes, switchers, records, clearing | a fixed array of names, a cached pointer, scopes of several contexts inside one another | what was timed is recorded under its path |
| **Compression** (`Compression.*`, `ByteBuffer.hpp`) | holders of shared bytes; zlib's stream and two buffers while it works | compress, uncompress with four types | buffers that are full or end exactly with their source; damage; an error that may be skipped; shared bytes | success means a whole document; what nobody altered is accepted |
| **CSV tables** (`FileFormatCSV.*`) | a table | write to a buffer, read from one | line breaks, empty cells and rows, tables that are added to | what is written is read |
| **Command line** (`CommandLineUtils.*`, `splitLine` of `StringUtils.hpp`) | declared and required options, values by option | `markRequired`, `parseArgs`, `getArg`, `getMultiArg` | options that are set although the call is refused, repeated options, values that stay from earlier calls | what is accepted is complete; an option changes only to a value it was given |
| Application locations, processes, shared libraries | none of their own | ask the platform | - | not modelled: pure I/O |

**Interactions.** An executor registers with a queue as a handler and takes its tasks; the tasks
add others to the queue. A watcher registers with a queue and is called by whoever adds or takes a
task. Streams work on buffers, buffers on holders of bytes that they may share. Reflection writes
property trees; the JSON writer writes those into buffers, and `FileIOUtils` into files. Loggers of
all threads share their backends. Scopes of the profiler share contexts.

## 2. Modules

A variable has the name of the member it stands for, an action that of the function, where there
is one. `PROJECT.json` gives the lines of every definition under "map".

**Execution.** `TaskQueue` has the operations of the queue on the thread `x` of the caller, cut
where another thread can see the difference: the step that takes the mutex and changes the list,
one step for each handler that is called (`Deliver`), and the step that releases the mutex. Two
modules use it and say what a handler does:

- `ParallelExecutor`: workers, callers of `execQueue()`, producers that add tasks from outside,
  threads that call `abort()`. `pc` says where in its function a thread is. The wait on the
  condition variable is its test, its sleep (in which the mutex is released) and its wakeup, which
  may be spurious. `late` (history) are the tasks added from outside while a call is under way.
- `TaskPool` is what an executor promises, with neither threads nor locks: tasks start in the order
  they were added, once, only inside a call, at most one for each worker; the call returns when no
  task runs and none it owes is left; after `abort()` has returned no task starts.
  `ParallelExecutor` implements it (`ImplementsPool`, by INSTANCE with a mapping of the variables).
- `TaskQueueWatcher`: the watcher, its waiters with and without a timeout, `BlockingExecutor`, and
  threads that have several of these roles.

**Streams.** `ByteOrderBuffer` has an operator from buffer to buffer for each member function,
`ByteOrderStream` one from stream to stream for each operation; `ok` turns FALSE when an exception
is thrown. `MessageStream` is two programs on top of them, which agree on byte order and user data:
the sender writes messages, into a buffer that grows or one that does not, and takes back what a
failed write left; a transport carries any number of bytes; the receiver tries to read, into a new
object or the one it used before, catches the exception, and starts over. Bytes have `Bits` bits,
two in the run.

**Trees.** `PropertyTree` has the operations on trees, `TreeOperations` those that are recursive
(`mergePatch`, `removeEqualValues`; they are kept apart because nothing can be proved above a
recursive operator), and `TreeDocuments` two trees that are edited, patched and compared in any
order. `Reflection` has the reader and writer as operators from values
and trees to outcomes, for a struct whose first field is of any kind (scalar, property with a
setter, enum, vector, set, array, optional, map, string map, struct; `Item` and `Name` are the numbers and keys there are), and `Settings` is a program
that keeps such a struct in a file: it may be restarted between any two steps, also as another
version, and calls on the file may fail.

**JSON.** `JsonBuffer` has both writers and the reader. A text is a tree of tokens in which the
members of an object have an order and may share a name; texts of other programs are given, not
written. A double is named after its digits, and the few names there stand for the cases in which
printing and reading differ: exact in six digits, exact only in seventeen, changed in the last of
seventeen (rapidjson as it is configured does not round correctly), the same as an int, with an
exponent that is not a JSON number once `.0` is put behind it, no number at all. Integers have
`IntBits` bits. In names, a full stop stands for the zero at which the plain writer cuts them.

**Log files, dates.** `Calendar` has the calendar of `ChronoPoint.cpp`. `LogFiles` has threads with
a `Logger` object each, from its constructor, which asks the backend whether the level is enabled,
to its destructor, which flushes the message to the backend there is by then; a program that
replaces the backend or takes it away while no thread is in a destructor; and
`LoggerBackendFiles`, which writes into a directory: a file is named after the moment it is opened,
which `Calendar` takes apart. `logged` and `written` (history) are numbered messages.

**Profiler.** `Profiler` has one thread with a stack of scopes and switchers, `frames`, which
outlive nothing but their blocks; `timed` (history) are the scopes that ended, under the path they
had.

**Compression.** `Compression` has holders that point to vectors (`p`, `blob`), `def()` and `inf()`
turn by turn of their loops, and a `Carry` that cuts or alters what is packed. A byte of a document
is its position; a byte of a stream tells how far a reader knows the document once it has read it.
That is all zlib is assumed to do: `deflate()` puts out what it likes, when it likes, within the
rules of its manual (it stops short of a full buffer only when its input is used up; the checksum
comes last, and only when told to finish); `inflate()` reads as far as it has room for what it
learns. A byte that was altered is not noticed as such: from there on `inflate()` is astray
(`Strayed`), decodes any number of any bytes, which `inf()` gives out turn by turn like all others,
and stops at an invalid code, at a wrong checksum, or at the end of its input, as it happens. What is
assumed is that a checksum is never right by chance.

**Tables.** `CSV` has writing and reading as operators over sequences of characters, and a program
that reads, writes, and fills a table with any rows and names of columns (`Given`): cells with tabs
and line breaks, which nothing escapes, and rows without a cell are among them.

**Command line.** `CommandLine` has one object that is used for call after call. An argument that
should name an option is told by its dashes and its name, a value by its parts between commas.
`early` (history) are the options that got their value before they were required.

The `MC*` modules give values to constants that a configuration cannot write down. `MCConversions`
brings five machines with nothing in common into one run (`Compression`, `TreeDocuments`, `CSV`,
`JsonBuffer`, `CommandLine`): `job` picks one of them for each behaviour, and a step of one leaves
the others alone.

`ByteOrderStream` has neither the exponentiation of the library nor its folds, of which the provers
know nothing: `Run` is n steps of anything, and `Power`, `ValueOf` and every operation on a container
are made of it.

Proofs are in modules named after the one they are about, with `Proofs` behind it; those about the
executor and about the watcher both begin with the lemmas about the queue. `ByteOrderProofs` is about
`ByteOrderBuffer` and the numbers of `ByteOrderStream`, `MessageStreamProofs` about the rest of that
module and `MessageStream`, `LogFilesProofs` about `Calendar`, too, and `ConversionProofs` about
`Compression`, `CommandLine` and `CSV`.

## 3. Runs

| Run | Checks | Bounds, and why they are enough |
|---|---|---|
| `executor_safety` | Types, and `m_activeThreads`, which is unsigned, never below zero (`TypeOK`); no owed task is left (`NoTaskStranded`); `m_activeThreads` counts (`ActiveCount`); no worker leaves while another works (`NoEarlyExit`); no handler is left behind (`NoDanglingHandler`); no wakeup is lost (`NoLostWakeUp`); the executor implements `TaskPool` (`ImplementsPool`) | 3 workers, 2 callers, a producer, an aborter, 3 tasks. With three workers one can retire, one sleep and one run a task that adds the last one. |
| `executor_liveness` | `CallsReturn`: unless somebody aborts, every call returns | 2 workers, 2 callers, a producer, 2 tasks, no symmetry |
| `executor_abort` (violation) | `AbortsReturn` | finding 1 |
| `executor_ready_lost` (violation) | `NoReadyLost` | finding 2 |
| `watcher_safety` | No call of a destroyed watcher (`NoCallAfterDestroy`); the watcher's state, the queue's and its tasks agree (`StateAgrees`); progress counts each task once (`ProgressCounts`); one waiter alone never sleeps through its state or `stop()` (`LoneWaiterWakes`) | 2 producers, 2 consumers (one thread is both), a waiter, a controller, an owner, 3 tasks. Deadlock is not checked here: it is finding 3. |
| `watcher_deadlock` (violation) | `AddReturns` | finding 3 |
| `message_stream` | Messages arrive in order (`InOrder`), the bytes on the way are those of the messages and no others (`InTransit`), a whole message is never refused (`NoneRefused`) | `MaxSent` = 2 messages of 4 kinds (a map and empty containers, garbage behind a string in its field, some of it shorter than the room there is, a field without room for its garbage, one that cannot be written), none with a body longer than its length can say in pieces of every size, in both byte orders, with and without user data, with padding that is checked or not, buffers that grow or have `Capacity` = 48 bytes (one message of any kind, not two), objects new or used. Every position of a cut and every pair of neighbours occurs. |
| `conversions` | What `inf()` gives out is the document as far as the stream tells it before the first altered byte, and success means a whole one, unless a wrong checksum is skipped (`GivenBack`); what nobody altered is accepted (`IntactIsAccepted`); `CompatiblePatchFollowsRfc`, `DifferenceIsPatch`, `NothingEqualLeft` of trees; `WrittenIsRead`, `EveryLineIsRead` of tables; `TextTellsTree`, `LastIsRead` of JSON; `AcceptedIsComplete`, `ChangedOnlyAsGiven` of the command line | Compression: buffers of `CHUNK` = 2 bytes, documents up to `MaxSize` = 3 (empty, short of, exactly, and beyond a buffer), `MaxIdle` = 1 byte of a stream that tells nothing, `MaxCalls` = 3 (pack, carry, unpack), `MaxStray` = 1: an altered byte makes `inflate()` put out up to a full buffer and then have more to put out, which is all that its turns tell apart. Trees: every pair of up to `MaxNodes` = 7 nodes over two names and two contents. Tables: texts of up to `MaxText` = 4 characters (tab, carriage return, line feed, another), and up to `MaxWritten` = 8 written again; rows without a cell, with two, with a tab and with a line feed in one are added up to `MaxRows` = 2 and to what was read. JSON: `IntBits` = 3 (a number beyond the signed ones wraps), `MaxTexts` = 2 (a second text behind the first makes both unreadable), every leaf at up to two levels, and texts of other programs with two members, of one name or two, with objects and lists in them. Command line: an option of either type, one declared as both, one as neither, `MaxPairs` = 2 in a call, so that an option is repeated and another one refused beside it; the number of calls has no bound. |
| `merge_patch` (violation) | `PatchFollowsRfc` | finding 4; `MaxNodes` = 5 |
| `log_files` | The directory and its files stay within their limits (`FilesBounded`, `FileBounded`), the files hold the last messages without a gap (`LastLinesKept`) and enough of them (`EnoughKept`); unless a call fails or the program ends, every message a Logger accepted is written or will be (`NoneLost`) | 2 threads, 2 levels (one below the backend's), a backend that comes and goes, 2 files of 2 messages, `MaxLogged` = 5 messages (a file is removed twice), `MaxFaults` = 2 failures or restarts, a directory that holds only log files, 4 moments around ends of month and year, two of them in one millisecond. The module also asserts the calendar day by day for the 400 years it repeats after (`DatesFollow`). |
| `profiler` | The cached record is right (`CacheIsRight`), records are the paths of what was timed (`RecordsArePaths`), no name is left (`NoNamesLeft`), switchers restore (`SwitchersNest`) | 2 contexts, an array of `Capacity` = 3 names (8 in the code), `MaxOpen` = 4 objects open (one beyond the array), `MaxMixed` = 3 of both contexts, `MaxRecords` = 2 |
| `settings` | What is saved is loaded (`LoadRestoresSaved`, `FreshLoadIsSaved`), loading twice is loading once (`LoadIsIdempotent`), saving what was loaded gives the same file (`SaveIsCanonical`), a version that does not fit leaves the rest as it was (`RestIsReadOrKept`) | Every kind of field over two numbers and two names (so that a set has both, a map one or two of the keys another has), `MaxItems` = `ArraySize` = 2 (an array is given a list that is shorter or fits, never a longer one, see section 5), every setting, `MaxFaults` = 1 fault or restart, a kept buffer of up to 2 documents |

The configurations check deadlock except where the system may stop: in the watcher's runs, because
of finding 3 and of `~TaskQueue`, and in the profiler's, where a program has done all it may. A
program that has nothing more to do with its documents stutters (`Quiet` in `Compression`).

Each property has a mutant in `PROJECT.json`: a slip of a kind one makes in this code, with which
TLC finds the property violated. Only `executor_safety` checks a type invariant; those of the
other modules with proofs (`LogFiles`, `TaskQueueWatcher`, `Profiler`, `Settings`) are part of their proved
invariants instead.

## 4. Fairness

Only `executor_liveness`, `executor_abort` and `watcher_deadlock` need fairness (`FairSpec`). It is
strong fairness of the steps of each thread: a thread that can go on again and again does so at
last. That is what a scheduler gives to threads, and what mutexes give in practice to one that
waits while another one locks and unlocks; C++ promises neither in writing. Nothing is assumed of
`Choice`: that a user adds a task, calls, aborts, or that a wakeup is spurious or a wait times out.
A task that runs is a step of its worker, so tasks are taken to return.

## 5. Findings

1. **`abort()` may never return** (`ParallelExecutor.cpp:97`, run `executor_abort`). It sets
   `m_terminate` and notifies without the mutex of the wait. A worker that has found the predicate
   false and does not wait yet misses both, and nobody notifies again. `execQueue()`, `abort()` and
   the destructor, which calls it, stop for ever.
2. **A task may be left although its Ready event came** (`ParallelExecutor.cpp:75`, run
   `executor_ready_lost`). A worker finds the queue empty; another thread adds a task and the handler
   sets `m_isReady`; the worker then retires and resets it. `execQueue()` returns with the task in
   the queue. Only tasks added from outside are lost this way: `NoTaskStranded` holds.
3. **`addTask()` and `waitForState()` deadlock** (`TaskQueueWatcher.hpp:53`, run `watcher_deadlock`).
   The queue calls the watcher under the queue's mutex, `waitForState()` asks for the queue's size
   under the watcher's.
4. **`mergePatch()` deletes where the RFC replaces** (`PropertyTree.cpp:265`, run `merge_patch`). A
   map in the patch that meets a scalar or a list leaves nothing there. The comment above it quotes
   the RFC's pseudocode, which goes on with an empty map.

What looked wrong but is contradicted by nothing in the repository is no finding; such things are
hazards with a note in `PROJECT.json`, or left out below. The chief of them:

- A wrong checksum that is to be skipped (`Compression.cpp:131`) loses what `inflate()` had put out
  in the same call, the whole of a short document, and reports success, also when what it has put
  out is not the document. `GivenBack` states exactly this loss, and that the wrong bytes begin no
  earlier than the stream was altered.
- What a JSON text does not tell: a quote in a string or name printed for the eye
  (`PropertyTree.cpp:21` escapes other characters, so that the text cannot be read); a double
  printed with an exponent, behind which `.0` is put; a double that needs the last of seventeen
  digits, which becomes another one at each turn; the rest of a name behind a zero
  (`FileFormatJson.cpp:113`); an integer beyond the signed ones. `TextTellsTree` says which trees
  have none of these, and shows that nothing else is lost.
- A text in which a name comes twice, for things of different kinds, ends the program: the exception
  leaves a function that is `noexcept`. `LastIsRead` shows that only such texts do.
- The assertion for `std::array` (`PropertyTreeReader.hpp:127`) is the wrong way round: it fails for
  a list shorter than the array and lets a longer one be written behind its end. The model gives
  arrays lists that fit.
- With two waiters on a watcher, `notify_one` may wake the one whose state has not come
  (`TaskQueueWatcher.hpp:66`): `LoneWaiterWakes` holds for one.

## 6. Proofs

All theorems hold for every value of the constants that satisfies the named assumptions in the
modules, and are checked by SMT, Zenon and, for the temporal steps, LS4.

**Executor** (`ParallelExecutorProofs`). For any number of workers, callers, producers, aborters
and tasks: types (`TypeOK`); `NoTaskStranded`; `NoLostWakeUp`; `NoDanglingHandler`; `ActiveCount`;
`NoEarlyExit`; `ImplementsPool`. None of these is inductive alone. That no task
is stranded needs to know that workers exist only inside one call (`OneCall`) and that the queue's
handler loop runs under its mutex over handlers that are registered (`Registered`). That no wakeup
is lost needs the discipline of the monitor (`Monitor`): the mutex is held from retirement to the
wait, so what a worker saw is still true when it sleeps, unless `abort()` changes it without the
mutex, which is finding 1 and why the theorem says "unless aborted". The count: every step that
moves a worker into or out of `NotRetired` changes `m_activeThreads` by one, so that it never wraps
below zero (`CountOK`, a part of `TypeOK`), and once a worker has left none is at work and nothing
calls one back.

`ExecutorIsPool` is the refinement: an initial state of the executor is one of `TaskPool`, and every
step is a step of it or a stutter. Taking a task is `Start`, the end of a call `Return`, and so on;
locking, waiting and waking are stutters. It needs, beyond the invariant above, that a worker has
a task exactly where its place in the code says so (`TasksHeld`), that a task is in the queue or with
one worker, once (`EachOnce`), and that no worker of a call is about to take a task once `abort()`
has returned (`AbortIsFinal`); their conjunction is `PoolInv`.

**Queue and watcher** (`TaskQueueWatcherProofs`). For any number of threads in
any mix of roles and finitely many tasks (`TaskAssumption`: the counters count): the types;
`NoCallAfterDestroy`; `StateAgrees`; `ProgressCounts`; `LoneWaiterWakes`. The invariant has eight
parts. `Lifetime`: the watcher is registered exactly while its owner has it, and threads are in
`waitForState()` only then. `Announced`: the handler loop runs under the queue's mutex, over
handlers that are registered, with the event that agrees with `m_readyState`; so nobody is called
who has left. `EmptyIsEmpty` relates that flag to the list, and `Known` what the watcher was told
last to the flag, but for the event on its way; `StateAgrees` follows. `TasksFit` bounds the tasks
by those there are, so that the numbers are those of finite sets, and `ProgressCounts` is inductive
with it. `LoneWaiterWakes` needs only the types and `Lifetime`: whoever changes what it waits for
does so under the watcher's mutex and notifies, and with one waiter the notification is its own.

**Profiler** (`ProfilerProofs`). For any names, contexts, capacity and nesting: `CacheIsRight`,
`NoNamesLeft`, `SwitchersNest`, `RecordsArePaths`, and the types. A context has no more names than scopes open in it
(fewer if it was cleared), and a scope knows whether it pushed its own (`NamesFit`), so the list is
empty once all have ended; a switcher will restore the default context that it found, whatever is
opened and closed above it (`Restorable`). A record is kept under the list of names there was when
its scope ended; what it should be kept under is the path of the scopes open by then, a function of
the stack of frames. That the list is this path (`ListsArePaths`) is kept because the name pushed or
popped is the last of both, which is an induction over the ranks of frames in the stack;
`RecordsAreOfPaths` follows record by record.

**Byte order** (`ByteOrderProofs`). `SetSize`, `RemoveFromStart` and writing keep size, storage and
positions of a buffer consistent, for buffers of any size; the mask permutes the bytes of a scalar
so that reading undoes writing, and the two predefined masks are big- and little-endian. A number
has the digits it was put together from (`DigitsOfValue`) and is the value of its digits
(`ValueOfDigits`), in any base, which is what both the bytes of a scalar and the flags of a bit
array rest on.

**Streams** (`MessageStreamProofs`). For messages of any shape and length, bytes of any number of
bits, fields, flags and arrays of any size, buffers of any capacity, any number of messages and
chunks of any size: `InOrder`, `InTransit` and `NoneRefused`. The first half is about one message.
`Writes(s, t, code, fits)` says that a step from the stream `s` to `t` appends `code` behind what
was written, leaves what stands before alone, and throws exactly if it does not fit;
`Finds(s, t, code, value)` that a step that meets `code` at the read position passes it and tells
`value`, and throws exactly if its end has not come. Both are shown for each operation (for
containers by induction over their elements, from `StepsExist` and `StepsAreUnique`, which say that
`Run` is its steps) and put together part by part. That is `MessageWrites`, where the length,
written last behind the position, must not touch the rest, and `MessageFinds`, which also says what
is left in the object: a map that is not cleared and a garbage that is not replaced show through, but
what an exception leaves half way does not show any more once the message is read.

The second half is the invariant `MessageInv` (TLC found it kept in all states of `message_stream`).
The two buffers are in order (`OutOK`, `InOK`): one that grows has nothing before its read position,
one that does not is back at its start when it is empty. The messages sent are such as fit
(`SentOK`), those received are the first of them as they are read, the object is fit for the next
one (`ObjectOK`), and the bytes that arrived with those that wait are the wire format of the
messages between. A write that throws is taken back to where it began (`TakenBack`), carrying moves
the first bytes (`CarriedKeeps`), and a read either takes the first message or leaves the bytes
alone.

The proofs say more than the run where they may: every garbage is allowed, also one shorter than the
room for it in the field, to which an earlier form of `Kept`, what a reader gets to know of a garbage,
did not give a value; the run now has such a message. What they assume is `MessageAssumption` (a
message is what the types of its parts allow: no zero in a string of a field, no garbage that ends
with one, since the reader cannot know them) and that the length of a body is below what four bytes
can say, which is a guard of `WriteMessage`.

**Log files** (`LogFilesProofs`). For any number of threads, limits, moments and faults:
`FilesBounded`, `FileBounded`, `NoneLost`, `LastLinesKept` and `EnoughKept`. The invariant says that the lock is held exactly between `Lock`
and `Unlock` and that the counter is never less than what the open file holds; the cleaning removes
files until there is room for one, and only the holder of the lock opens another. For `NoneLost`
messages that are let through are numbered: as long as nothing fails, each is in the log once, or
in the Logger object of one thread, or was dropped because there was no backend when that object was
destroyed (`MessagesArrive`).

What the files hold rests on `Laid`: as long as names ascend, every file has a place in what was
written, holds that part of it, and ends where the next one begins; the newest ends where what was
written ends; and as long as nothing fails every file but the open one is full, and one is gone
only when all the others are there. Writing appends to the newest, opening adds a file behind it, and
cleaning takes the first away (`FilesAreLaid`; TLC found no violation of `Laid` in the states of
`log_files`). The two properties speak of the files one behind the other, as a reader of the
directory would put them: that this is the end of what was written is an induction over the rank of
a file (`LastLines`), and how much of it there is one over their number (`Enough`).

**Calendar** (`LogFilesProofs`). `days_from_civil(civil_from_days(z)) = z` for every integer `z`:
within an era the year, the day of the year and the month follow from each other. `SetTm` undoes
`GetTm` to the millisecond, plus the value of a duration it never initialises, a parameter of the
theorem.

**Compression** (`ConversionProofs`). For buffers and documents of any size, any number of calls, and
whatever `inflate()` makes of altered bytes: `GivenBack` and `IntactIsAccepted`. The first argument
follows a checksum: `def()` has the document in three parts, taken by zlib, in its buffer, and not
yet read, so the checksum that zlib writes when told to finish tells the length of the whole document
(`PartsOfData`, `SourcesChecked`); altering and carrying make no checksum of another document. And
it follows `inf()` through the stream: either it has read nothing that was altered so far, and knows as
much as the last byte it has read tells (`BytesRead`, `SoFar`), or it has gone astray at the first
altered byte, which stays where it is, and has given out the document up to there and then
whatever was decoded (`AstrayFrom`). Only in the first case can it meet a checksum that is right, and
then it has given out as much as that says, since it ends only with a buffer that is not full. The
theorem `UnpackedIsWhole` does not say that what is given out is right: behind an altered byte it is
not, and with `skipCRC` that passes for success. It also needs that the holder an operation writes to
is not one it reads from (`LoopsApart`).

The second says what nobody has altered looks like: a header, codes that reach further and further
into the document, and the checksum of as much as the last of them reaches (`IntactIsStream`), all of
it but the end while `def()` is at work, since `deflate()` goes on with what it has put out whatever
the buffers were. And `inf()` is always somewhere before the end of such a stream, knows as much of
the document as the bytes it has read tell, and has the rest before it in the right order
(`IntactIsRead`); so no byte is one that `inflate()` stops at, and the input does not end before
the checksum, however many reads and buffers it takes.

**Command line** (`ConversionProofs`). For any options, any pairs of names and values and any number
of calls: `AcceptedIsComplete` and `ChangedOnlyAsGiven`. What is stored of a single option is one value,
of another a list of words, and what is stored empty was stored before the option was required
(`OptionsInvariant`, which TLC found kept in the states of `conversions`): so a required option
that has any value has one that says something, unless the program required it too late. That
`splitLine` gives the words of a value, all of them and in their order, goes through the places of
the elements of a finite set (`Enumerated`, `SplitIsWords`); that the last value counts through its
largest element (`Largest`, `ValueIsLast`).

**Tables** (`ConversionProofs`). For texts over any characters, of any length, any number of
calls, and whatever rows and columns a program fills its tables with: `WrittenIsRead`, and that what
is read is clean, with no tab and no line break in a cell and a cell in every row, although what was
written need not be (`ReadIsClean`). The invariant is only that tables are made of characters
(`TablesOK`); a table is read again as it was if it is clean (`Distinct`): nothing is escaped, so
only this makes a written text say where its cells end. What a text looks like is said by positions: `JoinedIsLaid` is where each cell lies in a line and each line in a text. Scanning a line
goes through its characters, and finds a cell at each tab (`CellsOfLine`); scanning a text goes
through its lines, each of which ends at its first line break and not at one inside it
(`LineIsScanned`, `LinesOfWritten`), and stops where the text does, with an empty line at the end only if
it is ended by a line break. That is where a table whose last row is one empty cell is excluded.

**Settings** (`SettingsProofs`). For any numbers and names, sizes and number of faults, and for every
kind of field and every setting: `LoadRestoresSaved`, `FreshLoadIsSaved`, `LoadIsIdempotent`,
`SaveIsCanonical` and `RestIsReadOrKept`. The first half is about reader and writer: what a field of
a kind is written as is read as that field again, merged with what is there (`FieldsAreRead`, one lemma for
each kind; sets and maps go through the order in which they are written, `Places` and `InSomeOrder`, and
lists through the number of items that are read, `FittingType`), and reading a tree twice is
reading it once (`FieldIsReadOnce`). From fields this goes to structs entry by entry: an entry is
missing exactly when the field has the default that reading puts in (`EntryOf`), which is where
"`m_skipDefault` only with `m_resetToDefault`" is needed.

The second half is the program's invariant: the struct in memory holds what its kind may hold,
whatever kind of document it was read from; the tree between `Serialize` and the file is the
document of the struct in memory, and the document in the file that of the struct it was made of,
as long as maps are cleared (`TreeIsOfValue`, `FileIsOfSaved`). Without clearing only the types of
entries are known, and only `LoadIsIdempotent` is stated.

**Induction.** The induction theorems of the library take an operator, which no prover here can
instantiate. Where a proof needs induction over ranks or lengths it goes through the set of numbers
for which a statement fails: `SetInduction`, from the well-foundedness of the naturals.

**Only model-checked**: liveness (no prover here handles fairness and ENABLED); patches and
differences of property trees and JSON, `TextTellsTree` and `LastIsRead` among them (recursive
definitions, above which tlapm has no SMT backend, and trees have no induction that the provers could
instantiate); `EveryLineIsRead` of tables, which is stated with the recursive `FlattenSeq` and
`SelectSeq` of the libraries.

## 7. What is left out

- *Coverage of the code*: what a component leaves out is in the note of its entry in `PROJECT.json`.
- *Undefined behaviour* is a nondeterministic choice where it has outcomes a build can produce: the
  profiler's pop behind its array and the member `nested` that one constructor never sets. Once it
  has happened in a context, properties say nothing of it. Where no outcome can be named it is left
  out: an output of compression that shares its bytes with the input it grows over, a buffer whose
  holder another buffer resizes, an array given a longer list.
- *Scalars, text, time*: conversions of scalars that reflection does not use, white space, the byte
  order mark that is skipped and error messages of JSON, the times of the profiler, formatting of
  messages.
- *Reflection* by custom conversions, transforms, types that read themselves
  (`PropertyTreeReader.hpp:97` passes such a type its own value instead of the tree); more than two
  fields. A list of several items read into an optional, which an assertion excludes.
- *Logger*: contexts and labels (the constructor of a context does not set `m_logLevel`,
  `Logger.cpp:46`, so the level of such a message is whatever was there), the console and syslog.
  `SetLoggerBackend` (`Logger.cpp:31`) is not synchronised with logging; the model replaces the
  backend only while no thread is in `~Logger()`.
- *Watcher*: `setProgressHandler` writes the handler without the mutex, and the handler, a user's
  function, runs under both mutexes.
- *Streams*: two buffers over one holder, which each keep a pointer into it; writing to an offset
  outside the buffer; types that give no byte order of their own.
- *ChronoPoint*: local time and arithmetic (`operator*=` at `ChronoPoint.hpp:116` divides), moments before
  1970 except in the theorems on dates.
- *Tasks*: one that throws ends the process; one that calls its own executor waits for itself.
- *Executor*: a thread that cannot be started. The exception of `std::thread`'s constructor
  (`ParallelExecutor.cpp:87`) leaves `execQueue()` with the handler registered and threads that are not
  joined. Nothing in the repository catches it, so the process ends, and for what has happened by then
  this is no more than a thread that stops; `NoDanglingHandler` is about calls that return.
- *Compression*: `Z_NEED_DICT`, which a zlib header altered in one bit brings about: `strm.msg` is null
  then, and comparing it with a text (`Compression.cpp:131`, only with `skipCRC`) is undefined: no
  outcome can be named.
- *Command line*: the help text and messages. *Locations, processes, libraries*: they hold no state.
- *Third-party code*: zlib and zstd are modelled from how they are called, rapidjson from the lines of
  its writer and reader on which names and numbers rest; googletest,
  the build files and examples are not part of the program.

## 8. Plan

In the order of importance; what is done is marked.

1. Execution: `TaskQueue`, `ParallelExecutor` with `TaskPool`, `TaskQueueWatcher` - done; all its
   safety properties and the refinement proved, liveness checked.
2. Streams: `ByteOrderBuffer`, `ByteOrderStream`, `MessageStream` - done; all its properties
   proved.
3. Logging: `LogFiles` with `Calendar` - done; all its properties and the dates proved. To come:
   contexts and labels.
4. Trees, JSON and settings: `PropertyTree`, `JsonBuffer`, `Reflection`, `Settings` - done; all
   properties of the last two proved. To come:
   containers of structs inside one another, custom conversions.
5. `Profiler`, `Compression`, `CSV`, `CommandLine` - done; all properties but
   `EveryLineIsRead` of the tables proved.
