# A TLA+ model of judge_server_cpp

judge_server_cpp is an online-judge server: clients connect over TCP, submit
programs and query results; worker threads compile and run the programs in a
sandbox and push the results back over the connection. This directory holds TLA+
modules that model the parts of the server where threads, processes and the
network meet, TLC configurations that check them on small instances, and proofs
that TLAPS checks for every value of the constants.

Paths below are relative to the repository root: `src/src/...` in
`PROJECT.json` is `src/...` in the repository, `src/sjudge/...` is `sjudge/...`.

## 1. The system

```
 client ──TCP──> TcpServer::start (select loop, one thread)
                   │  ClientSockets: ConnectionRegistry, ConnectionSlot, AckBarrier
                   │  SubmissionRequestHandler / QueryRequestHandler
                   ▼
             SubmissionService::submitAsync ──> ResultStore.createSubmission
                   │                        └─> SubmissionQueue.push
                   ▼
             JudgeWorkerPool (N threads): pop, hooks, processSubmission
                   │      runner: prepare, compile, runCase ──> sjudge (fork/exec)
                   │      ResultStore.updateResult after every stage and case
                   ▼
             onSubmissionFinished ──> AckBarrier / ConnectionSlot ──eventfd──> select loop
```

| Component | State | Operations | What makes it correct |
|---|---|---|---|
| `ResultStore` | map id → snapshot and finish time, next id, one mutex | `createSubmission`, `updateResult`, `getResult`, each with a lazy cleanup by age and capacity | status only moves forward; a terminal snapshot never changes; unfinished records are never evicted; oldest evicted first; bounded size |
| `SubmissionVerdictReducer` | none | `summarize` | the verdict of a submission is that of the first most severe case |
| `SubmissionQueue` | FIFO, shutdown flag, condition variable | `push`, `pop`, `shutdown` | no lost wake-up; drained before workers exit |
| `SubmissionService` | locals of `processSubmission`, work directories | `submitAsync`, `processSubmission`, `query` | every path ends the submission, removes its directory and agrees with the store |
| `JudgeWorkerPool` | threads, `stopped_` | `workerLoop`, `stop`, `graceful_shutdown` | accepted submissions are judged; `stop` returns |
| `ConnectionRegistry`, `ConnectionSlot` | slots, free list, per slot fd, session, status, buffers, one mutex each | `acquire_slot`, `release_slot`, `set_pending_response[_if_session]`, `consume_pending_response`, `set_readable/writable/idle` | a slot has one owner; bytes go out in order, once |
| `AckBarrier` | waiting channels, deferred messages, one mutex | `mark_waiting`, `release`, `try_defer` | no message lost, duplicated or kept |
| `TcpServer`, `ClientSockets` | fd_sets, eventfd, session counter | `start`, `handle_*_event`, `queue_protocol_response_for_channel` | every live connection is watched; workers wake the loop; no message to the wrong client |
| `sjudge` | child process, monitor and judge results | `run_sjudger`, `monitor_child_process`, `run_child_process_or_exit` | the child is reaped; the verdict says what happened; the call returns |
| `Buffer`, `ConnectionSlot::read_message` | byte array with two indices; socket | `readFd`, `append`, `retrieve`, `makeSpace`; cut at the length prefix | messages are handed over whole, in order, once, and never to the next connection |
| `JudgeProtocol` | none | decoding and dispatch of a request | a request is read as what the client sent, everything else is refused |
| runners (`CppRunner`, `PythonRunner`, `run_executable_case`) | one work directory per submission id: source, program, wrapper, output | `prepare`, `compile`, `runCase`, clean-up | the verdict belongs to this submission's source, program and output, also after a crash and a restart |
| `ChildSetup`, `Privilege`, `CgroupSupport`, `SeccompPolicy` | the process between fork and execve | chdir, redirection, limits, cgroup, groups, user, filter | what the configuration asks for is in force when the program starts |
| `Config` | the parsed file | `loadFromFile`, one getter per setting | a setting means what the file says |
| `Logger`, utilities, legacy driver, checkers | | | see section 8 |

Shared state: the store is used by the loop thread (queries, submissions) and all
workers; the queue by the loop thread and all workers; a connection slot by the
loop thread and, through `set_pending_response_if_session`, by any worker; the
barrier by both. Callbacks: `JudgeWorkerPool` calls the notifier hooks
`onSubmissionStarted` and `onSubmissionFinished` of `ClientSockets` from the worker
threads, outside any lock.

What is hard in this code (the list `hazards` in `PROJECT.json`, each at its line):

- two critical sections where one decision spans both: record creation and push,
  barrier release and acknowledgement, emptying a response and going back to
  reading;
- connections that go away while a worker still holds their reply channel, and
  slots that are reused meanwhile;
- the eventfd and the condition variable: a wake-up between the look at the state
  and the wait;
- exceptions and refusals at any stage of `processSubmission`;
- a store at its limit whose unfinished records may not be evicted;
- shutting down at any moment;
- the child and the parent of the sandbox racing with each other and with the
  clock, and one wait status that has several causes;
- a length prefix and a body that arrive in any pieces, in a buffer that is grown,
  moved and reused while it holds half a message, and a `readv` whose second area has
  a length that was never set;
- submission ids, and with them directory names, that start again at 1 when the
  server is restarted, while files and processes of the former run are still there;
- a sandbox that is the result of a file, a conversion and a dozen system calls in an
  order in which an early one can take away the permission or the memory for a late one;
- an exception in the forked child, which nothing in `sjudge` catches: a copy of the
  worker goes on where the parent's worker does, with the same files.

## 2. Modules

| Module | Models | Uses |
|---|---|---|
| `SubmissionTypes` | statuses, verdicts, snapshots | |
| `ResultStore` | the store, one action per public method | `SubmissionTypes` |
| `SubmissionLifecycle` | abstract specification: what the store promises about one submission | implemented by `ResultStore` |
| `SubmissionVerdictReducer` | `summarize` | `SubmissionTypes` |
| `SubmissionQueue` | the queue and its condition variable | |
| `SubmissionService` | `processSubmission`, stage by stage | store, queue, reducer |
| `JudgeWorkerPool` | composition: caller, workers, hooks, owner that stops the pool | all of the above |
| `AckBarrier` | the barrier | |
| `ConnectionRegistry` | slots and free list | |
| `ClientSockets` | composition: clients and kernel, select loop, worker hooks | barrier, registry |
| `Buffer` | the byte buffer, as operators on its cells and indices | |
| `MessageDelivery` | abstract specification: what the framing promises the handlers | |
| `Framing` | composition: client, socket, `read_message` on the buffer, reuse of the slot | `Buffer`; implements `MessageDelivery` |
| `JsonValue` | the conversions `get<T>` of the JSON library | |
| `JudgeProtocol` | decoding of requests and the dispatch on the result | `JsonValue` |
| `Config` | loading, sections, getters of the sandbox and of the work directory | `JsonValue` |
| `ChildSetup` | the process out of fork, the calls of the child before execve: effect, permission, failure, exception | |
| `Runner` | composition: one work directory through several runs of the server | `ChildSetup`, `Config` |
| `SJudger` | the sandbox, parent and child, up to the verdict of a case | |
| `Conversions` | the two pure conversions at the ends of the pipeline, run on all inputs: payload to request, case verdicts to verdict | `JudgeProtocol`, reducer |
| `ResultStoreProofs` | theorems about the store and its refinement | `ResultStore` |
| `SubmissionVerdictReducerProofs`, `ConversionsProofs` | theorems about `summarize` and the decoder | reducer, `Conversions` |
| `JudgeWorkerPoolProofs` | theorems about queue, service and workers together with the store | `JudgeWorkerPool`, `ResultStoreProofs` |
| `FramingProofs` | theorems about buffer and framing and their refinement | `Framing` |
| `ClientSocketsProofs` | theorems about event loop, slots, barrier and worker hooks | `ClientSockets` |
| `SJudgerProofs` | theorems about the sandbox | `SJudger` |
| `RunnerProofs` | theorems about runners, set-up of the child and configuration | `Runner` |
| `MC*` | instances for TLC | |

Definitions carry the names of the functions they model; `map` in `PROJECT.json`
gives the lines of each. A definition with a suffix, such as
`release_slot_Twice`, is a deliberately wrong variant that is used to show that a
property can fail; no specification uses one.

### Granularity

A step is what runs under one lock, or one system call.

- **Store.** A public method is one critical section, so one action. Calls are
  operators on the content (`CreateOutcomes`, `UpdateOutcomes`, `GetOutcomes`) that
  give the set of possible outcomes, because `std::sort` leaves the order of equal
  finish times open; `JudgeWorkerPool` uses the same operators inside its actions.
- **Queue.** `waiting` is the set of threads inside `condition_.wait`. Notification
  and spurious wake-up take a thread out; it then evaluates the predicate again in
  a separate step.
- **Workers.** A stage of `processSubmission` is one step: it touches the store
  once, and otherwise only files of its own submission. Runners may return every
  outcome they have, or throw, at each stage. The check of `stopped_` and the query
  of a hook are one step, since the flag matters only for whether the query happens.
- **Network.** Each critical section of a slot or of the barrier is a step, and so
  are `select`, `send`, the drain and the write of the eventfd. A byte stream is a
  sequence of half frames (length header, body), so requests and responses come and
  go in pieces. Copying the unsent bytes and `send` are one step: a worker can only
  append in between, which does not change what is sent. A client that closes can
  still be sent to until its answer, a reset, is in (`broken`).
- **Start and stop of the loop.** `start` and `stop` are steps of their own, because
  `stop` may come before `start`, and its store to `running_` and its write to the
  eventfd are two. `select` may be interrupted or fail, `accept` may fail, and a read
  event may find nothing to read, for which the code releases the connection.
- **Framing.** Here `ClientSockets` is cut off at the slot and a byte is a byte: a
  record that says which message it belongs to and where, so that a byte in the wrong
  place is seen. One read event is one step. The length of the second area of `readFd`
  is assigned to `vec[2]`, outside the array, so it is whatever the stack held: a
  nondeterministic choice from `ExtraLengths`, on both sides of the real size, of which
  `readv` refuses those above `MaxLength`. `second` keeps the length that the last
  step used, for the properties.
- **Requests.** Both requests are records of JSON values with their types; a
  conversion is the set of results it may have, empty when it throws. The number of
  bits is a constant, so that values outside of it are small.
- **Runner.** A file is the number of the submission that wrote it, 0 if it is not
  there. Each function of the child's set-up is a list of calls with an effect on the
  process, a condition the kernel imposes and an exit code; the child takes one
  call per step, the parent waits. It starts with the descriptors of the server
  (`inherited`) and none of its streams redirected (`std`). Once RLIMIT_AS is set the
  calls that need memory may fail with their code or throw (`OutOfMemory`), and
  `is_directory` may always throw. `Restart` may happen at every step: the directory
  stays, the child and the compiler go on. Whatever the environment does wrong is
  recorded in `faults`, and the properties say which faults excuse what.
- **Second workers.** A child that throws is `unwinding` until it has passed the
  clean-up guard, and `second` in the loop of its copy of the worker, until it is
  killed, dies, or leaves that loop with exit code 0. The child of this submission does
  not have this submission in its queue; children of other submissions that were forked
  while this one was waiting do. `strays` are the submissions they have, `busy` says in
  which runs of the server others are judged meanwhile, and `StrayStep` lets them
  do anything that `processSubmission` does to the directory, in any order.
- **Sandbox.** Each system call of the parent is a step; a step of the child's
  set-up fails with its exit code, proceeds, or throws (`returned`); a child that threw
  ends by a signal, with 0, or never; the user's program ends at any time or never, with any exit code, signal and use of resources. The judge codes
  keep their numbers, because set-up errors come back as exit codes.

Sizes and times of the configuration are CONSTANTS, the settings of the sandbox are
read from a modelled file. Times, sources, outputs and messages are
abstracted to what the properties tell apart.

## 3. Runs that pass

| Run | Instance | States | What it shows |
|---|---|---|---|
| `store` | 4 ids, 5 instants, retention 2, capacity 2, a snapshot for every status | 13,563 | types, `CapacityBound`, `TerminalIsFinal`, `EvictsOldestFirst`, `UnfinishedSurvives`, `FreshAfterEveryCall`, and the refinement `ImplementsLifecycle` |
| `request_and_verdict` | every payload over 5 types and all kinds of fields, integers on both sides of the width, every list of at most four cases over all verdicts | 20,602 | requests are read as documented, up to the conversions of `get<int>`; `summarize` computes the first most severe verdict |
| `pool` | 2 workers, 3 submissions, capacity 1, 2 cases, workers symmetric | 1.6 M | worker and store agree, no submission lost, no wake-up lost, directories cleaned, pushed results final |
| `pool_liveness` | 2 workers, 2 submissions, 1 case | 41,683 | accepted submissions are judged, `stop` returns |
| `two_slots` | 2 slots, 3 connections, 1 request each, 1 submission, one `stop` | 5.5 M | slots accounted for, every connection watched, no response and no `stop` missed by a loop that blocks |
| `one_slot` | 1 slot, 2 connections in turn, 2 requests on either, 2 submissions | 1.9 M | nothing reaches the wrong client; frames go out whole and in order; results handed over once, and kept by the barrier only during a submission; a result overtakes its acknowledgement, and a response is stranded, only in one window each |
| `framing` | 2 connections in turn, 2 messages of 0 or 4 bytes behind a header of 2, a buffer of 3 bytes, a second area of 4 whose length is 0, 2, 4, 6 or 9, of which `readv` refuses the last | 67,827 | bytes are neither lost nor misplaced, `MessageDelivery` is implemented, no message ends its connection unless the second area has a wrong length, the first request of a client and every request of one that waits is taken |
| `execution` | 2 runs of the server, both languages, 4 installations, one of which judges others meanwhile | 5.0 M | confinement from file to execve, a set-up that defeats itself in two ways only, verdicts on the own program and output, compile errors only for sources that do not compile; the same when children of other submissions became second workers and judge this one too, in the same directory |
| `sandbox` | limits 0 and 1, use 0 to 2, 3 instants, 4 exit codes, 2 signals | 1.4 M | no child left, set-up errors reported, AC and WA only for a program that ran to its end within its limits, killed means timeout, `run_sjudger` returns |

Each property has a mutant: a plausible wrong version of one definition with
which TLC finds the property violated under the same configuration.

**Why the bounds are enough.** In `store` the capacity can be exceeded by finished
and by unfinished records, with equal and with different finish times, and time
passes the retention twice. In `pool` two workers compete for one task and for one
wake-up, the third submission finds a full store, and the pool is stopped or shut
down gracefully in every state. In the network runs there is a slot to reuse, a
connection too many, a response that is appended to while it is being sent, and a
request behind another in the input buffer; more slots only add copies, because the
loop treats them one after the other. In `framing` the buffer is smaller than one
message and larger than its header, so that it is grown, moved and exactly full; a
message without a body and one behind another arrive in one read; the second
connection finds the buffer grown and with old bytes; the second area is absent, too
short, right, too long for `extrabuf` and too long for `readv`. In `execution` a second run
finds everything the first can leave, with a child or a compiler of it alive; a third
run would find nothing a second cannot leave. Every call of the set-up succeeds, is
refused, lacks memory and throws where it can. `NotBoth` bounds the run:
a second run of the server that has to do with survivors of the first is followed as
long as no second worker is among them (the second workers of other submissions come up
in the second run, in a directory that holds whatever the first has left); the proofs need no such bound. Between them the four installations turn
every restriction on (the CPU quota of the cgroup aside, which is written like the other
two limits), give the user once as a usable number, once out of range and once as a
text, and have a server with and without the right to change the user, and builds with
and without libseccomp. In `sandbox` every limit can be absent, kept and exceeded, and
the clock can pass it before, between and after each pair of steps.

**Deadlock.** The store run checks for deadlock. Elsewhere it is switched off: the
pool may be stopped for good, clients may stop sending, the sandbox run ends, the
bounded runs of the server are used up. That
nothing hangs that should go on is what the liveness properties and `NoLostWakeup`
and `SelectMissesNothing` (`NoDeafConnection` and `NoLostWake` together) are for.

**Fairness.** `FairPoolSpec` assumes weak fairness of each worker's own steps, and of
a `submitAsync` or a stop that has begun. That is a scheduler that runs runnable
threads, compilers and programs that return (the sandbox enforces limits), and
nothing else: no one has to submit or to stop the pool, and spurious wake-ups are
not needed. `FairSandboxSpec` assumes it of the parent's steps and of the clock, and
nothing of the child: it may hang anywhere. `FairFramingSpec` assumes that the loop
gets round to a slot that is readable and to the response of a request taken; clients
need not send anything. `RequestTaken` is about clients that wait for their answer
before they send on, and about the first request of any client; a request sent behind
another may be left in the buffer until more bytes arrive.

**Abstract specifications.** `SubmissionLifecycle` and `MessageDelivery` are
implemented by the store and by the framing (`ImplementsLifecycle`,
`ImplementsDelivery`, each an `INSTANCE ... WITH` a mapping). The first maps a record
to a phase, the second the bytes to messages and the status of the slot to the end of
the connection.

## 4. Runs that show a disagreement

Each checks one statement of a comment or a document and finds behaviour of the code
that contradicts it; the quotations are in `findings` in `PROJECT.json`.

| Run | Statement | What the code does |
|---|---|---|
| `ack_order` | the acknowledgement precedes the result (`AckBarrier.h`, `docs/architecture.md`) | `release()` comes before the acknowledgement is queued; a worker that finishes in between is first |
| `blocking_wait` | with the eventfd the loop may block without a timeout (`TcpServer.cpp`) | a result queued between `consume_pending_response` and `set_readable` is left in a slot that is only read |
| `disconnect` | workers go on after a client has gone (`docs/完整评测的流程.md`) | `send` to a reset connection raises SIGPIPE, which nothing handles |

More differences between documents, comments and code were met while modelling; they
are not runs, but the properties above say what the code does instead:

- `JudgeWorkerPool.h` says that `graceful_shutdown` closes the queue. It sets the flag
  before it calls `stop()`, whose exchange then fails: the queue stays open and nothing
  is joined, and the destructor's `stop()` returns for the same reason. The server
  itself never calls it.
- `sjudge/docs/result-mapping.md` maps errors of the program to TLE, MLE or RE. A
  program that exits with 5-8 or 11-16, the codes of the set-up, is a SYSTEM_ERROR
  (`sjudge_call.cpp:76`). `SetupFailureIsSystemError` is the direction that holds.
- `CgroupSupport.h:14` says that `write_control_file` returns false when the write
  fails. The value is still in the stream's buffer when the result is computed, so a
  limit that the kernel refuses is lost without notice: `lost` in `ChildSetup`, and an
  exception of `ConfinedAtExec`.
- A setting of the sandbox with another type, such as `"run_uid": "7"`, counts as not
  given, and the default is to leave the restriction off. Numbers that do not fit are
  reduced to the width, possibly to 0, which means the same.
- The wrapper of a Python program has mode 0700 and belongs to the user of the server:
  with a `run_uid` of another user the child cannot execute it
  (`SetupNotSelfDefeating`).
- RLIMIT_AS, from the memory limit of the case, is set before the cgroup, the filter
  and the building of `argv`, in a process that has the address space of the server.
  These still allocate: they may fail with their own codes, which are system errors, or
  throw. `SetupNotSelfDefeating` names this as the other way in which the set-up
  defeats itself.
- `ChildSetup.h:9` says that a set-up step that fails ends the child with an error code,
  which the parent takes for a SYSTEM_ERROR, and `sjudge_call.cpp:50` that the child does
  not return. A step that throws does neither: nothing in `sjudge` catches the exception,
  so a copy of the worker returns from `run_sjudger` into the catch block of
  `processSubmission` (`SubmissionService.cpp:354`), and the parent reports what becomes
  of that: a timeout, a run-time error, or a success (`SetupThrows` in `SJudger`,
  `Unwind` in `Runner`).
- A child that threw removes the work directory that the parent still uses, writes to the
  eventfd and judges its copy of the queue a second time; if the pool was shut down before
  it was forked it leaves the loop and exits with 0, and the parent compares whatever
  the output file holds (the exceptions in `AcceptedRanToEnd` and `RunsOwnProgram`).
- Of the server's descriptors only the eventfd is close-on-exec. The listening socket and
  those of the clients are open in the user's program, and a program that outlives the
  server keeps its port (`ConfinedAtExec` excepts them).
- `docs/protocol.md` answers a request with a field of the wrong type with an error.
  `get<int>` accepts booleans and floats, and reduces integers to the width of an int
  (`ReadAsDocumented`).
- `readFd` sets the length of its second area in `vec[2]`, outside of the array. What
  the read then does with the second area is open; `Framing` leaves it open.
  `GivenUpOnlyBySecondArea` says that nothing else is wrong with the framing: with the
  length that was meant no message ends its connection.
- `stop()` before `start()` is overwritten by `start()`. After that the loop runs; the
  wake-up only ends its first wait.
- A read event that finds nothing to read (`EAGAIN`) releases the connection.
- `docs/architecture.md` says that the final snapshot is pushed whenever the
  connection is alive. The update that finishes a submission can evict it at once,
  and then the hook has nothing to push. `UnfinishedSurvives` gives the exact
  conditions: a zero retention, or unfinished records that alone fill the store.
- `docs/完整评测的流程.md` says that any MLE case makes the submission MLE. TLE has
  priority, and an earlier RE or OLE wins (`SummaryIsMostSevere`).
- `sjudge/docs/result-mapping.md` gives `real_time_ms > max_real_time_ms` as the
  condition for a timeout. A child that ends between the last look at the clock and
  the next poll is recorded with such a time and mapped by its exit status.
- The same document puts memory signals before CPU time. The code, its comment and
  its unit tests compare CPU time first.

## 5. Proofs

Every invariant of a passing run is a theorem, for every value of the constants; so are
all action properties and both refinements. The inductive
invariants were checked by TLC, part by part, on the instances of section 3 before they
were proved. The assumptions on the constants give them their types; those that say
more are named below.

**The store** (`ResultStoreProofs`), for every retention, capacity, set of snapshots
and bound (`StoreAssumption`, which only gives the constants their types).

- `StoreInv`, the types and `FinishTimeMatchesStatus`, is inductive. It must contain
  both: the cleanups look at the finish time, the transitions at the status.
- `CleanupKeepsEntries` says what a cleanup can do (the rest is a part of the store,
  everything dropped had finished); `CreateCases`, `UpdateCases`, `GetCases` and
  `StepCases` reduce a step to one or two cleanups and at most one write. Every
  action property is proved over these cases: `TerminalIsFinalCorrect`,
  `FreshCorrect`, `OldestFirstCorrect`, `UnfinishedSurvivesCorrect`.
- `OldestFirstCorrect` needs the state between the two cleanups of `updateResult`
  (`MidUpdateContent`): the record just finished has the youngest time.
- `CapacityCorrect` rests on the cardinality lemmas `VictimsReachLimit` and
  `CleanupReachesLimit`: after a cleanup the store is within its limit, or no
  finished record is left.
- `LifecycleImplemented`: under the mapping `phase` (unborn, the stored status,
  gone) every step of the store is a step of `SubmissionLifecycle` or a stutter.

**The sandbox** (`SJudgerProofs`), for all limits, exit codes, signals and bounds
(`SandboxAssumption`: exit codes are bytes, signals positive).

- `SandboxInv` is the conjunction of the types and of four parts that say, for each
  place of the parent, what is known: `ChildInv` (when the child exists, when it has
  a wait status, that a failed set-up step left a known code), `TimeInv` `TimeInv` (the parent that is out of time), `MonitorInv` (what was recorded is
  what happened, except for the signal of a child that ended just before the kill)
  and `ResultInv` (judge code and verdict are the mappings of the record). None of
  the properties is inductive by itself: each relates the end to something that
  happened several steps earlier.
- `NoChildLeftBehindCorrect`, `SetupFailureCorrect`, `AcceptedCorrect`,
  `KilledIsTimeoutCorrect`, `SandboxTypeCorrect` follow from it without another
  induction. A child that threw is a fourth place of the child, between set-up and end,
  and the exception of `AcceptedCorrect`.

**The conversions** (`SubmissionVerdictReducerProofs`, `ConversionsProofs`).

- `SummaryIsDecisive`: for a list of any length the loop of `summarize` returns the
  verdict of the first most severe case. The loop is a recursive function, so this
  needs induction over the rounds. The induction rules of the library take an operator
  and cannot be used; `NatSetInduction` states the rule for sets instead, which follows
  from `WFMin` and the well-foundedness of `<`. `RoundsExist` shows that the recursive
  definition has a solution, `DecidesAmong` is the loop invariant.
- `SummaryCorrect` and `RequestsAreReadAsDocumented` are the two properties of the run,
  the second for every width of an int (`JsonAssumption`: the width is a positive
  number, and what powers of two are used for).

**The pool** (`JudgeWorkerPoolProofs`), for any finite set of workers
(`QueueAssumption`), any number of submissions and cases, and every store.

- `PoolInv` has five groups. `Custody` says where each submission is and what the store
  says of it: one holder at most (`Ownership`), only ids that were given out
  (`GivenOut`), a submission nobody has taken is QUEUED (`AwaitingIsQueued`), an
  unfinished one has a holder or was refused (`UnfinishedIsHeld`), the worker and the
  store agree at every stage, what was pushed is what is stored. These need each other:
  that the store accepts a worker's snapshot follows from the agreement, and that the
  agreement survives the calls of other threads from there being one holder.
  `CasesOK` carries the loop over the cases, `WaitingIsAtPop` and `NoLostWakeup` the
  condition variable, and `Directories` the work directories, of which one that could
  not be removed must belong to a submission that is over (`UndeletedIsDone`).
- Calls of the store enter through three lemmas about one entry (`Shrunk`, `Inserted`,
  `Rewritten`), proved from the lemmas of `ResultStoreProofs`.
- `PoolTypeCorrect`, `WorkerAgreesCorrect`, `NoLostWakeupCorrect`,
  `PushedResultCorrect`, `WorkDirsCorrect` and `NoSubmissionLostCorrect` follow.

**The framing** (`FramingProofs`), for every size of the header, of the buffer and of
its areas, and for all lengths and numbers of messages (`FramingAssumption`: there is a
first connection, and `readv` accepts an area of the size of `extrabuf`).

- Each operation of the buffer is described by what it does to `Content`, the bytes that
  can be read: `append` and `readFd` add to it, `retrieve` takes from its front,
  `makeSpace` and growth leave it alone.
- `FramingInv`: the stream is the frames of the messages sent so far (`StreamOK`), what
  was handed over are the first of these messages (`HandedOver`), and the buffer holds
  what was read and not handed over (`ReadIsHeld`). The layout of the stream, where each
  frame ends, is a sum, treated by induction as above.
- `GivenUpCorrect`: a read that ends a connection with bytes to read was refused by
  `readv` (an area above `MaxLength`, which is at least `ExtraSize`), got nothing (no room
  in either area), or ran over `extrabuf`; all of them need a second area of a wrong length.
  The lemmas about `readFd` rule out that any length prefix or body does it.
- `FramingTypeCorrect`, `NothingMisplacedCorrect` and `DeliveryImplemented`: every read event is a step of
  `MessageDelivery` or a stutter.

**The network** (`ClientSocketsProofs`), for any number of slots, connections, requests
and submissions (`NetworkAssumption`, `RegistryAssumption`: there is a slot).

`NetInv` is proved in four layers, each from the ones before it:

1. `Typed`: the types, and that an event is handled only for a connection that is there
   (`HandlesLive`). The other layers need it because the loop reads a slot in one
   critical section and writes it in another.
2. `Accounted`: every session is in one slot, and the free list is the slots without one,
   each once. `Watching`: what the fd_sets hold while the loop passes over the slots
   (`FdSets`), that a connection is IDLE only while its message is handled
   (`IdleIsHandled`), and that a response queued behind the back of the loop is followed
   by a wake-up (`WakeFollows`). `NoDeafConnection` and `NoLostWake` speak of `select`
   only and are not inductive: the invariant says it of every prefix of the slots the
   loop has already looked at (`LookedAt`).
3. `BarrierOwned` (the barrier holds messages back only for the submission under way),
   `MessagesOwn` (queued, deferred and held messages belong to the connection they are
   for, though a worker may hold the channel of one that is gone), `AckComes` (an
   acknowledgement is queued or the next thing the loop queues) and `OncePerPlace` (a
   result is in one of three places, or in none before it was handed over).
4. `Positions` and `StreamsFlow`: `StreamIntact` in terms of the position in the pending
   response up to which was sent, which between `send` and `consume_pending_response`
   is ahead of the offset in the slot. `FlowAppend` and `FlowSend` are the two facts about
   sequences behind it: appending a frame and sending a part commute.

From it follow `NetTypeCorrect`, `SlotsAccountedCorrect`, `NoDeafConnectionCorrect`,
`NoLostWakeCorrect` (together `SelectMissesNothingCorrect`), `OnlyOwnMessagesCorrect`, `StreamIntactCorrect`,
`HandedOverOnceCorrect` and `AckWindowCorrect`.

`StrandedOnlyInWindowCorrect` is the other half of the run `blocking_wait`. A pending
response is attended to when its slot is WRITABLE, or its handler has yet to make it so
(`Attended`). `AttendedStep` goes through all steps of the loop, the workers, the clients
and `stop()`: none but `set_readable()` for the slot can end that. Together with
`NoLostWakeCorrect` it says that the eventfd does make the blocking wait safe, that one
call aside, for any number of slots, connections and submissions.

**The runners** (`RunnerProofs`), for every number of runs of the server, every set of
deployments and every width of an int. `RunnerAssumption` says that a configuration file
is a JSON text or none (`WellFormed`), `AbsentAssumption` that a field that is not there
is no value, and `JsonAssumption` three facts about powers of two.

- `RunnerInv` is inductive and has eleven parts. `SettingsOK`: `config` is what the getters
  make of the file. `WorkerOK`: the types. `ChildrenOK`: each child of any run has ended,
  executes, is on its line of calls, or threw. `OwnChild`, `CompilersOK`, `SurvivorsKnown`: the
  worker waits for the child of its run, there is at most one compiler of it, without
  the fault `survivor` nothing of an earlier run is alive, and without `stray` no second
  worker has this submission. `FilesOK`: whose the files can be at each step of the
  worker, whatever second workers do to them. `DirOK`: which are there when there is
  nobody else. `OwnRun`: whose program executes, and whose output is in the
  file. `Judged` and `SetupNotSelfDefeating`: the properties themselves.
- A child on its line (`SettingUp`) is described by four facts about the calls it still
  has to make: every call of the line is in force or still to come; execve, and nothing
  else, is the last; after `setuid` only calls follow that need no rights; the streams
  are redirected before anything that can throw (`StreamsEarly`). `LineTyped`
  and `LineHas` establish them for the line that any configuration determines,
  `EffectInForce` shows that no call undoes another, and `SetupAdvances` that a step
  keeps all four. With nothing to come every restriction is in force.
- `SettingsSaid` goes from the file to `judge_config`, through sections, types, defaults
  and the reduction of numbers to their width; with it follows `ConfinedAtExecCorrect`.
- `SetupNotSelfDefeatingCorrect` uses the third fact (`LinePermitted`) and `DirOK`: the
  files are there while the child of this run is being set up. What is left, besides the
  wrapper, are the outcomes of `OutOfMemory`, which the invariant records as the fault
  `memory`.
- `VerdictIsOwnCorrect` needs `DirOK` and `OwnRun`. The set-up opens the output, and so
  empties it, before the program can write; and `compile()`, which looks only at what is
  there, finds an older program only when `remove_all` has failed and something else has
  gone wrong as well. By the fourth fact a child that throws has opened the output too, so
  what it or the logging of a second worker leaves there is this submission's own
  (`OutputRedirected`).
- `RunnerTypeCorrect` follows from the same invariant.

**Only model-checked.** Liveness (`AcceptedIsJudged`, `StopTerminates`, `RunReturns`,
`RequestTaken`), which is out of the prover's reach.

## 6. Plan

Done: all components of section 1 that are modelled, and a proof of every invariant,
action property and refinement. What could still be added:

1. the three facts about powers of two in `JsonAssumption` as consequences of the width
   being positive, should the provers learn exponentiation;
2. the scan for test data and the encoding of responses, should a property turn out to
   depend on them.

A composition of `ClientSockets` with `JudgeWorkerPool` in one run was considered: its
states are the products of runs of several millions each. They are composed by
contract instead: `ClientSockets` lets a worker finish an accepted submission at any
time, once, which is what `PushedResultIsFinal` and `AcceptedIsJudged` say.

## 7. Running

```
tlc -workers 2 -config MCResultStore.cfg MCResultStore    # and the other runs
tlapm ResultStoreProofs.tla                               # and the other proof modules
```

Every passing run ends within two to three minutes on two cores, every proof module within a
few minutes. The leaves are kept small enough for slow machines: all modules are also
proved with an eighth of the provers' time limits (`tlapm --stretch 0.13`).

## 8. Not modelled

- **The JSON library** (`src/json.hpp`, 24.8 thousand lines, vendored): the five
  conversions the server uses are in `JsonValue`; parser, serializer and containers
  are not. Encoding of responses has no state and no branch besides tables of names.
- **`testlib.h` and the checkers** (`checker/`, 3.5 thousand lines, third-party), and
  the programs of the sandbox tutorial. `compare_case_output` runs
  `/judge/checker/fcmp2` when it is installed (`RunnerExecutionSupport.cpp:73-80`) and
  compares line by line otherwise; both are the choice of AC or WA in `Runner` and
  `SJudger`, so what a checker computes is not modelled. With the JSON library they are over four fifths of the code in the repository; the server's and
  the sandbox's own code has about 5.9 thousand lines.
- **The legacy driver** (`ExternalSjudgeCompat`): formats and parses the command line of
  an external sandbox that the server does not use.
- **The comparison of outputs**, by the checker or line by line, and the scan of the test-data directory:
  a choice of AC or WA, and of the number of cases. An error in the middle of the scan
  gives fewer cases, without notice.
- **Second workers outside of `Runner`**: their writes to the eventfd, each a
  wake-up of the loop without a cause, are not in `ClientSockets`; that they may make the
  directory of a submission again after its worker has removed it is not in
  `JudgeWorkerPool`, whose `WorkDirsAreCleaned` is about the workers of the server; and
  what they start is a part of `StrayStep`, no process of its own.
- **Texts**: the server dies when a message that is no UTF-8 is encoded in a worker's
  hook. What follows from a server that dies is in `Runner`.
- **Sizes in the configuration** (threads, slots, retention): CONSTANTS. With no worker
  thread, which the code accepts, nothing is judged; every run has workers.
- **Descriptors beyond `FD_SETSIZE`**: descriptors are slots and sessions here.
- **What the kernel enforces** once a limit, filter or cgroup is in force, and which
  system calls a filter names.
- **`SubmissionService::submit`** and other functions that only tests call; the creation
  of the sockets, before the first state of `ClientSockets`; logging.
