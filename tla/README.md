# Verification of the timer service

TLA+ specifications of `timer`, a service that stores tasks, runs them by cron
expressions with a resolution of one second, and reports their start and end
over HTTP. `main.cpp` is in the root of the repository, every other source file
named here is under `src/` or `include/`: `taskTable.cpp:184` is line 184 of
`src/taskTable.cpp`.

## 1. The system

One process: the main thread (`main.cpp`) waits in `pause()` and is driven by
signals; a listener thread and two workers serve the HTTP API; every run of a
task has a thread of its own, a thread for the start notification, two reader
threads and a child process.

| component | state | operations | talks to |
|---|---|---|---|
| Task table, `taskTable.cpp` | `table` (std::map), rows of SQLite table `task`, `mutex`, `runCountAtomic` | constructor, `exist`, `get`, `set`, `remove`, `list`, `size`, `run`, `runCount` | called by HTTP workers and by the SIGALRM handler |
| HTTP handlers, `httpThread.cpp` | the server, per request a local `Task` | `GET /`, `GET/POST/DELETE /task`, `POST /task/run`, `POST /task/status`, `start`, `close` | task table, without a lock of their own |
| Cron, `cron.cpp` | six bit masks | `parse`, `checkRunTime`, `getNextRunTime` | parsed in `set()`, checked by the tick, searched by the start notification |
| Task run, `TaskTable::run`, `notify.cpp` | locals of the run thread, shared by reference | count, notify start, run, collect, count down, notify finish | Process, Cron, the notification server |
| Process, `process.cpp` | pid, three pipes, two contents | fork and exec, read, wait, close | the child |
| Supervisor, `main.cpp` | `config`, `taskTable`, `httpThread`, `isRunning`, `isReload` | start, tick (SIGALRM), reload (SIGHUP), stop (SIGTERM) | owns everything above |
| Pid file, `main.cpp:32-45`, `util.cpp` | a file | check, write, remove | other instances |
| Time, config, messages, log | a static buffer, constants | conversions | everybody |

What is hard about it:

- **Races on the table.** Only `set()` and `remove()` lock. A handler is
  exist / get / set or exist / remove, and anything may happen in between.
- **Two copies.** The map is changed first and the database second; a statement
  may fail, the process may die. The map is rebuilt from the rows.
- **Handlers on signals.** The tick, the reload and the stop interrupt arbitrary
  code and each other, on any thread of the process, and the reload deletes
  objects that other threads point to.
- **Detached threads** that share locals, the table and the configuration.
- **Pipes and children** that fill, hang, die or leave processes behind.
- **A timer that samples the clock**, and a static buffer for the time.
- **Calendar arithmetic** by six functions that call each other.

What makes each component correct: map and rows agree between operations and
an answered write is durable (task table, handlers); the time announced is the
time the scheduler will act on (cron), and each second is acted on once (the
timer); a run ends, is counted, and its report is complete and comes after that
of its start (task run, process); no object is used after it was deleted, every
signal is acted on, one instance runs (supervisor, pid file). `PROJECT.json`
lists the hazards one by one.

## 2. The modules

| module | what it is |
|---|---|
| `TaskTable` | task table and HTTP handlers: state machine, properties, inductive invariant |
| `TaskStore` | abstract: an atomic durable map with requests that crash, commit or are refused |
| `TaskTableRefinement` | the mapping from `TaskTable` to `TaskStore` |
| `Cron` | parsing, checking, and the search for the next run time |
| `TaskRun` | run threads, notifications, processes and pipes |
| `Supervisor` | `main()`, its signal handlers, and the objects they create and delete, composed with the listeners, the workers and the runs that use them |
| `Scheduler` | the timer against the clock, and localtime's buffer |
| `TaskTableProofs`, `TaskStoreProofs`, `CronProofs`, `TaskRunProofs`, `SupervisorProofs`, `SupervisorTypeProofs`, `SchedulerProofs` | theorems and proofs |
| `MCTaskTable`, `MCCron`, `MCTaskRun`, `MCSupervisor`, `MCScheduler` | instances for TLC |

Definitions called "Variant" are not part of a specification. Each is the
operation after it, or the one it names, with a plausible bug; with it in that
operation's place one property of the module fails.

### TaskTable

`table` and `db` are functions from keys to tasks, `mutex` is the set of threads
inside the critical section, and `pc` is where each worker is:

    Receive -> Exist -> Get -> Run                                  (run, detail)
                          \-> Lock -> SetInsert -> SetHead -> SetTail -> SetRow
    Receive ------------------^                                     (save)
    Exist -> Lock -> Erase -> DeleteRow                             (delete)

An action is what another thread can see happen at once. `operator[]`, the
assignment of the first members and that of the others are three actions,
since readers take no lock; the assignment is split at one place, between what
is run (`cmd`: exec_file and args) and when (`sched`: loop and cron; enable).
`SetFault` and `DeleteFault` are statements that do not prepare or do not step.
`Crash` is the end of the process, by whatever cause, and the next start.
`Blank` is a default `Task`, whose `loop` and `enable` are uninitialised.
`Hangs` is a worker in `Cron::parse` with an expression such as `*/0`, for which
`i += step` makes no progress (`cron.cpp:122`): it keeps the mutex.
The map nodes that a race may corrupt are not modelled beyond `Crash`.

`blamed` and `phantoms` are history: the keys on which a statement failed, and
those that `get()` inserted, since the start. They are what the two hazards do
to the properties; nothing in the specification reads them.

### Cron

An expression is six sets of items. `Parse` is `parse()`; the regular
expressions that split the text are abstracted away. Every
`calculateNextRun...()` calls the next in tail position, so the recursion is a
state machine with the function in `level` and its argument in `time`, and
termination is a liveness property. A mask is the set of its bits;
`From(f, current)` is `mask & (range << current)` with the width the constructor
gives each range. Times are a day number and a second of the local day. Zones
have a fixed offset: daylight saving is not modelled. `Days` reproduces what
`date.h` does with a month and day that are no date.

### TaskRun

Per run: the run thread's `pc`, the start notification's `note`, `notifyMutex`,
the child, and per stream a pipe, a reader, what is still to be written and what
was read. The run thread leaves in two steps: `PostFinish` unlocks
`notifyMutex`, which is the last of the locals and so the first to go, and
`DestroyLocals` destroys the others, the mutex among them. In between the
notification thread may take the mutex, so the locals may go at any place it is
at. From then on its steps are undefined behaviour, `NoteDangles`: the process
dies, or the thread gets to a place of `Astray` (it locks what is no mutex, or
waits for it for ever; searches with what is left of the task; posts late).
Programs differ by the six traits that matter to the
code: see `Programs`. Posting is an action from beginning (`pc = "post"`) to
end; whether it arrived does not matter, since nobody looks at the result.

### Supervisor

`signal()` blocks only the signal being handled, so a handler may be interrupted
by another one at any statement. The model has two threads that take signals:
the main thread, and one `other` for all the rest (a worker, a run), to which
the kernel gives a process signal when the main thread is in a handler. Each
has a `stack` of places: a statement of a handler is an action that changes the
top, a signal pushes the handler's first place (`Deliver`), the handler's end
pops it (`Return`), and `main()` is at the bottom of the main thread's stack.
`while (isRunning)` and `pause()` are two places, since a signal may come in
between; a signal on top of `pause()` ends it.

| code | actions |
|---|---|
| tick, `main.cpp:62-76` | `TickStart` (the test of `isReload`), `TickList`, `TickCopy` (inside `list()`), `TickRun`, `TickEnd` |
| stop, `main.cpp:87-94` | `StopClose`, `StopDisarm`, `StopRunning` |
| reload, `main.cpp:97-130` | `ReloadFlag`, `ReloadClose`, `ReloadDeleteTable`, `ReloadDeleteConfig`, `ReloadConfig`, `ReloadTable`, `ReloadHttp`, `ReloadClear`; `ReloadFail` is `exit()` |
| `main.cpp:132-144` | `Test`, `Pause`, `RemovePidFile`, `DeleteHttp`, `DeleteTable`, `DeleteConfig` |
| listener, `httpThread.cpp:26-43`; `httplib.h:6249-6266, 6671-6765` | `Listen`, `ListenFails`, `AcceptFails`, `Close`, `ListenerEnds` |
| workers and runs | `Request`, `Respond`, `RunEnds` |

`ListenFails` is an address that cannot be bound and `AcceptFails` an `accept()`
that fails for good. Either way `listen()` returns false, of which nobody takes
notice (`httpThread.cpp:30`), the server is `failed`, and the service goes on
without its API.

The objects behind `config`, `taskTable` and `httpThread` are numbered by the
order of their creation; `ptr` is the globals, `deleted` the objects deleted.
`Uses`, `ListenerUses`, `WorkerUses` and `RunUses` say which objects a thread
dereferences in its next step. An action needs them intact; when they are not,
the behaviour is undefined and `Dangle` ends the process, with the one who did
it in `outcome`. So "never used after it was deleted" is a statement about
`outcome`, and what a freed object may do later need not be imagined.

`overlap` and `missed` are history. `overlap` records what the code is not
written to survive: a SIGHUP on top of a tick or of another SIGHUP, on whichever
thread, or after the stop; a tick that passed its test while a SIGHUP handler
had not set `isReload` yet; a SIGTERM that meets a reload or another SIGTERM off
the main thread. `missed` holds the servers closed before they listened:
`Server::stop()` does nothing then.

### Scheduler

`now` counts 1/`Units` of a second from the second the service started in,
`next` is the timer's expiry, and a tick is two actions, `localtime()` into the
shared `buffer` and the copy with which the tasks are checked. A tick is handled
within `MaxDelay` of its expiry (one that takes longer would coincide with the
next expiry, which is why `MaxDelay < Units` is assumed). `OtherLocaltime` is
another thread in `getLocaltime(timePoint)`, which does not take `timeMutex`
(`util.cpp:63-68`); it may come between the two. `phase` is when, within a
second, the timer was armed. `skipped` and `disturbed` are history: the ticks
that met a reload, and whether the buffer was overwritten before a tick copied it.

## 3. The runs

| run | bounds | shows |
|---|---|---|
| `task_table` | 2 workers, 1 uuid and the empty one, 4 bodies, 4 requests, 1 fault, 1 crash | `Coherent`, `RowsReload`, `AckedDeleteIsGone`, `AckedSaveIsStored`, `EveryRequestAnswered` |
| `task_table_store` | 2 uuids, 5 requests (saves and deletions), no fault, 2 crashes | `StoreSpec`: implements `TaskStore` |
| `task_table_phantom` | 4 requests | **violated**: `SaveAlwaysStores` |
| `task_table_status` | 3 requests | **violated**: `StatusKeepsTask` |
| `cron` | 130 expressions, 27 calls, offset +5:30, 1000 days | `NextMatchesClock`, `NextIsEarliest`, `HourlyEnds` |
| `cron_later` | daily at 08:00, asked at 10:30 and at 10:59 | **violated**: `NextIsLater` |
| `cron_found` | minute 59 of every hour | **violated**: `NextIsFound` |
| `task_run` | 2 runs, 6 programs, pipes of capacity 1, a notification URL | `FinishTellsTruth`, `NotificationsTakeTurns`, `RunningCountsChildren`, `RunEnds` |
| `task_run_order` | 1 run | **violated**: `StartReportedFirst` |
| `supervisor` | 1 SIGHUP, any number of ticks and stops, 2 handlers at a time, 1 run | `TicksSafe`, `NoDoubleDelete`, `ReloadServes`, `OldServersEnd`, `StopEnds` |
| `supervisor_exited` | 1 SIGHUP, 1 handler at a time, 1 run | **violated**: `HttpExited` |
| `scheduler` | 4 seconds in quarters, ticks up to half a second late, every phase | `OncePerSecond`, `NeverTwoMissed` |

Each passing run but `task_table_store` checks its module's `TypeOK` as well.

Why the bounds are enough. The pool of the service has two workers, so two is
the real number. Interference on a key takes two requests at once; a third
leaves the stale state and a fourth meets it, so four requests reach every pair
of operations on a state that a pair has spoiled. No step touches two keys, but
for the empty one a default `Task` brings in; the refinement is checked with two
uuids, since a store of two is more than two stores of one. The four bodies are
one for each kind of expression, two the parser accepts, one it refuses and one
it does not return from. One fault and one crash are met at every point. In
`cron`, the second and minute fields
are every form of item (star, list, range, step, clipped), the calls are at the
first, middle and last second, minute and hour, before a leap day, in June and
at the end of a year, and the other fields cover each branch of each function.
One pipe unit of capacity with two to write is a full pipe; the second run
of `task_run` is there for the counter and is silent.

In `supervisor`, two handlers at a time are every pair of one handler on top of
another in one thread and of two beside each other in two. One reload makes two
generations of objects; a second one does the same again, but for the reload of
a server whose predecessor still listens. The safety properties were proved for
all bounds (section 4) and their invariant `IInv` model-checked, in
forms of the module without failing listeners, at 2 reloads and 2 handlers (half
a million states) and 3 handlers (five million). No SIGTERM is sent to a service that has stopped: the
operator has what they asked for. In `scheduler` the phases and delays decide
in which second a tick ends; quarters of a second have one of each case (well
inside, just inside, just outside), and four seconds one that is first, last and
between two others.

The six violations are disagreements between the code and the repository's own
words, with the lines under `findings` in `PROJECT.json`:

1. `get()` inserts. After GET /task or POST /task/run overlaps DELETE /task, the
   key is in the map only, and saving it again answers 0 and stores nothing.
2. POST /task/status writes a stale copy of the whole task.
3. After the hour of today's run has passed, the next run time announced is in
   the previous month (`date::month{tm.tm_mon}`).
4. Minute 59, second 59 and hour 23 are not seen from 0; a task restricted to
   one of them is searched for without end, and its run hangs with it.
5. The start notification may be posted after the finish notification.
6. A reload deletes the task table and the configuration in the statements after
   `httpThread->close()`, which waits for nobody: the old listener, its workers
   and the runs still use them, though `main.cpp:101` says `退出HTTP线程` (leave
   the HTTP thread).

### What the properties except

A property that holds only outside some case names the case in its own text.
`EveryRequestAnswered` excepts an expression that `parse()` does not return from
(`Hangs`). `TicksSafe` and `NoDoubleDelete` except `overlap`; a SIGHUP on top of
a tick does delete the table the tick is copying, and two SIGHUPs at once do
delete one table twice. These are signals an operator would have to send within
microseconds of a tick or of each other, and no text of the repository promises
more. `OldServersEnd` excepts `missed`, `StopEnds` the SIGTERM between the test
and `pause()`, and one that another thread takes: it does not end `pause()`, and
has disarmed the timer that would. `ReloadServes` promises a server that
listens or one that could not: after a reload onto an address that cannot be
bound, `isReload` is cleared, the ticks go on, and no server listens, with
nothing in the program that would notice or try again (`watch()` has no caller).
`ReloadServes` and `OldServersEnd` also end when the process does, which a worker with a deleted object may cause (violation
6). `OncePerSecond` is for a timer armed early enough in a second; both
properties of `Scheduler` except a disturbed buffer and the ticks of a reload.
What a property excepts it does not show to be right: the hazards in
`PROJECT.json` that consist of such a case list no property, and say which one
names them.

### Fairness

`TaskTable`: each worker's next step is weakly fair (threads are scheduled; the
mutex is freed by a step that is itself fair, and with a bounded number of
requests a waiting thread is not overtaken for ever). Requests and crashes are
not fair. `Cron`: sequential code. `TaskRun`: each thread is weakly fair, a post
ends because httplib's timeouts are finite, and programs make progress, unless
they belong to `Stuck`, those the code waits on for ever: a program that reads
its standard input to the end (closed only after it has exited), one that leaves
a process holding its output, and one whose next run time is not found. A
background process need never end. `Supervisor`: a tick that runs goes on; the
reload, the stop and `main()` are strongly fair, since ticks interrupt them again
and again, and one a second leaves them the time between; listeners and request
handlers make progress, whether listening succeeds or not; a thread that is
about to use a deleted object does so. Each of these formulas names the variable
that its steps change, which says the same as `vars`. Signals, requests, failures
of `accept()` and the ends of runs are not fair.

Deadlock is checked except where the system stops: `task_run` (all runs have
ended or are stuck), `supervisor` (the process has ended) and `scheduler` (time
is bounded).

## 4. The proofs

Each theorem holds for every value of the constants that the named assumption
of the module allows (`ConstantsAssumption`, `ClockAssumption`,
`BoundsAssumption`); TLC evaluates the assumption on every run.

| module | theorems | statement |
|---|---|---|
| `TaskTableProofs` | `Invariance` | `Spec => []IInv` |
| | `TypeCorrect`, `AlwaysCoherent`, `RowsAlwaysReload` | its conjuncts `TypeOK`, `Coherent`, `RowsReload` |
| | `AckedDeletes`, `AckedSaves` | `Spec => AckedDeleteIsGone`, `Spec => AckedSaveIsStored` |
| `TaskStoreProofs` | `ImplementsStore` | under `SavesAndDeletes`, `Spec => StoreSpec` |
| `CronProofs` | `Invariance`, `TypeCorrect`, `AnnouncedMatches` | `Typed /\ MatchInv`, `TypeOK`, `NextMatchesClock` |
| | `AnnouncedIsEarliest` | `NextIsEarliest` |
| | `DaysInvertsDate` | `Days` of what `Date` shows for a day is that day |
| `TaskRunProofs` | `Invariance`, `TypeCorrect` | `IInv`, `TypeOK` |
| | `FinishTruthful`, `NotificationsExclude`, `RunningCorrect` | `FinishTellsTruth`, `NotificationsTakeTurns`, `RunningCountsChildren` |
| `SupervisorProofs` | `Invariance`, `TicksAreSafe`, `DeletedOnce` | `IInv`, `TicksSafe`, `NoDoubleDelete` |
| `SupervisorTypeProofs` | `NumbersInOrder`, `TypeCorrect` | `NumberInv`, `TypeOK` |
| `SchedulerProofs` | `Invariance`, `TypeCorrect` | `IInv`, `TypeOK` |
| | `CheckedOnce`, `NeverTwoInARow` | `OncePerSecond`, `NeverTwoMissed` |

None of the properties is inductive by itself. What the invariants add:

**TaskTable.** A thread in the middle of `set()` has a map and a database that
differ on purpose, so the invariant has to say who may be in the middle
(`MutexInv`: exactly the holder of the mutex, and there is one) and for what
request (`KindInv`); what the one in `set()` knows of its key, the choice between
UPDATE and INSERT included (`WriterInv`); and what the one in `remove()` knows
(`EraserInv`: only a `get()` can have put the entry back). Each conjunct has a
lemma with a case for each action that can disturb it. The two action theorems
follow from `IInv` in the state before the answer: `WriterInv` says that the row
is written when `SetRow` answers Normal, and for `Erase`, which answers Normal
without a DELETE when the entry is already gone, `Coherent` says that there is no
row either.

**The store.** When clients only save and delete and no statement fails,
`blamed` and `phantoms` stay empty (`StoreInv`), so `Coherent` and `WriterInv`
say without exception which rows there are. Then `SetRow` and `DeleteRow` commit,
an answer without a row is a refusal or a deletion of nothing, and every other
step stutters.

**Cron.** `MatchInv` is what each function has made true before it calls the
next: the minute fits when `calculateNextRunSecond()` is called, and both fit at
the end. That the carries keep it is arithmetic modulo 60, 3600 and 86400 on any
day and in any zone, which TLC can only sample.

`NextIsEarliest` needs `EarliestInv`: of the seconds between `now` and `time`,
none fits. The search starts one second after `now`. When a field has no value
from the current one on, the search moves to the start of the next minute or
hour, and the seconds it jumps over do not fit; otherwise it moves to the next
value of the field. The upper four functions must not move at all: their masks
are full, so the value of the date is in them, which is where the calendar comes
in: `Date` has months in 1..12 and days in 1..31 on every day (`DateRange`). That
the answer is within the hour follows at the end, because some second of the
next hour fits (`HourHasSecond`). `Hourly` asks for a value below 59 in both
fields, since the range the constructor gives them does not reach 59 from 0
(violation 4). `DaysInvertsDate` is the other fact about the calendar: going from
a day to its date and back moves nothing. Both are about quotients, and rest on
`DayLeftRange`: the year that `localtime()` finds for a day of an era of 400
years is the one the day lies in.

**TaskRun.** `MutexInv` follows `notifyMutex` and the two threads: the run thread
has it exactly while it posts, and it is gone exactly when that thread is, with
the other thread inside or outside. That thread can be in its critical section
after the mutex is gone, but then the run thread has posted already, and that is
why `NotificationsTakeTurns` survives. `ChildInv` and
`EndInv` say that once the readers are joined nothing is in a pipe and nobody can
write any more; `FlowInv` is conservation (what was read, is in the pipe and is
still to be written is what the program writes). Together they say that what
`FillResult` takes is everything. `CountInv` is the counter as the cardinality of
a set of runs.

**Supervisor.** The proof is about stacks of handlers, seen from the bottom
(`Frames`), so that a signal or a return changes no index but the last.
`StackInv` is their shape. While nothing that `overlap` names has happened,
`ReloadInv` says that a reload is the only one, that no tick is past its test,
that a stop can only be on top of it in the main thread, and that `main()` waits;
`StopInv` that a stop is the only one and that `main()` cleans up after it;
`ObjectInv` which of the globals dangles at which step of the reload or the
clean-up, and which objects were deleted; `TickInv` that a table being copied
exists. One lemma for each of these says what a push, a step or a return asks of
the places it leaves and reaches; then there is one lemma for each action.

`TypeOK` holds whatever overlaps, when `ReloadInv` and `ObjectInv` do not, so
the bound on the numbers of the objects needs an argument of its own.
`NumberInv` is it: the deleted objects of a kind are the first ones, and those
made and those that reloads in progress have yet to make (`Pending`) are one more
than the SIGHUPs at most. The step that makes an object takes one from `Pending`
and adds one to `ptr`. Two deletions of one object do not disturb it, because the
second is undefined behaviour and ends the process. That a thread has one
reload at a time to be counted is `StackInv`: a signal is blocked while its
handler runs, whatever else overlaps. TLC checked `NumberInv` with one SIGHUP,
two handlers and a run, and with two SIGHUPs, three handlers and no run, before
it was proved.

**Scheduler.** `ClockInv` ties the timer to the number of ticks: a tick reads the
second it was due in or the next one. `CheckInv` bounds how often a second is
checked by the ticks that are done: its own, and the one before.

Every invariant and every action property of a passing run is stated by a
theorem, and so is the refinement, for clients that only save and delete. Only
model-checked are liveness, fairness and termination, which are out of the
prover's reach: `EveryRequestAnswered`, `HourlyEnds`, `RunEnds`, `ReloadServes`,
`OldServersEnd`, `StopEnds`.

## 5. Not modelled

- The pid file's check against other instances (`main.cpp:32-45`): which
  processes exist with which ids is up to the system. Its presence over reload and
  stop is in `Supervisor`.
- Clock jumps and daylight saving: `Cron` has zones at a fixed offset and
  `Scheduler` a steady clock.
- What `std::map` does when it is changed under the iterator of `list()`: it has
  no defined outcome; `TaskTable` has its worst case, `Crash`.
- What a freed object does after its first use: `Supervisor` stops there.
- What follows a `listen()` that fails, beyond `ReloadServes`: nobody looks at its
  result (`httpThread.cpp:30`), nobody calls `watch()`, and the process lives on
  without an API until the next reload. No property says that a server listens
  in the end, since it is not so.
- Requests refused before they reach the table (no uuid, a body that does not
  parse), `GET /`, `watch()`, and the connection queue.
- `Process::write()` and `Process::kill()`, which nothing calls.
- Texts: messages, logs, formats of times, the configuration file, and the
  regular expressions of `parse()`.
- The vendored libraries (httplib, SQLite, date, spdlog, nlohmann, ada, cmdline,
  SimpleIni), beyond what their use by the code needs: the listening and
  accepting loop of httplib and `to_days()` of date are translated from their
  source. They are about 357,000 of the repository's lines of C and C++; the
  program's own are about 1,500, and these are what the models cover.

## 6. The plan, and what is left of it

Modelled in this order: `TaskTable` with `TaskStore`, for what clients store;
`Cron` and `TaskRun`, for what runs when and what is reported; `Supervisor`, which
owns the rest; `Scheduler`. Proved in this order: `TaskTable`, `TaskRun`, the
refinement, `Scheduler`, `Cron`, `Supervisor`. A module `PidFile` was planned and
dropped: its states would be about the system's process table, of which the code
says nothing but a call of `kill(pid, 0)`.

Left: `Supervisor` composed with `TaskTable` rather
than with the objects as wholes, so that a reload under a save is followed into
the database.

## 7. Running

In the directory of this file, for each run of the table in section 3 and each
proof module:

    tlc -workers 2 -config MCTaskTable.cfg MCTaskTable
    tlapm TaskTableProofs.tla

The longest run, `supervisor`, and the longest proof, `SupervisorProofs`, take
about three minutes each.
