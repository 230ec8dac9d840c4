-------------------------------- MODULE TaskRun --------------------------------
(***************************************************************************)
(* What TaskTable::run() starts (src/taskTable.cpp:87-132): for each run a *)
(* detached thread that counts the run, detaches the thread of the start   *)
(* notification, runs the program through class Process (src/process.cpp), *)
(* and posts the finish notification (src/notify.cpp).                     *)
(*                                                                         *)
(* Per run there are the run thread (pc), the notification thread (note),  *)
(* two reader threads, and the program, whose output goes through pipes of *)
(* bounded capacity.  The two notifications exclude each other by          *)
(* notifyMutex, a local of the run thread, which the notification thread   *)
(* holds by reference, like the task and the result.  The run thread       *)
(* unlocks it before it destroys them and waits for nobody, so the other   *)
(* thread may be at any place when its references dangle.                  *)
(***************************************************************************)
EXTENDS Integers, FiniteSets

CONSTANTS
  Run,       \* the calls of TaskTable::run()
  Program,   \* per run, what its task may execute
  Capacity,  \* what a pipe holds
  NotifyUrl  \* main.notify_url is not empty

Stream == {"out", "err"}

(***************************************************************************)
(* A program writes size[s] units to stream s; `fails` is an exit status   *)
(* other than 0; `reads` is a program that reads its standard input to the *)
(* end before it exits; `background` is one that leaves behind a process   *)
(* holding its output; `binary` is output that is not UTF-8; `endless` is  *)
(* a task whose cron expression getNextRunTime() does not return for.      *)
(***************************************************************************)
Programs == [size : [Stream -> Nat], fails : BOOLEAN, reads : BOOLEAN,
             background : BOOLEAN, binary : BOOLEAN, endless : BOOLEAN]

ASSUME ConstantsAssumption ==
  /\ IsFiniteSet(Run)
  /\ \A r \in Run : Program[r] \subseteq Programs
  /\ Capacity \in Nat \ {0}
  /\ NotifyUrl \in BOOLEAN

VARIABLES
  alive,    \* the service process has not been terminated
  running,  \* runCountAtomic
  pc,       \* where the run thread is
  note,     \* where the thread of the start notification is
  mutex,    \* who holds notifyMutex, or "gone" when it was destroyed
  program,  \* what this run executes
  child,    \* the process: none, running, zombie, reaped
  exit,     \* how it ended
  holders,  \* some process holds the write ends of the pipes
  left,     \* what is still to be written to each stream
  pipe,     \* what is in each pipe
  content,  \* stdoutContent and stderrContent
  reader,   \* the state of the reader threads
  result    \* message::notify::RunResult, once it is filled

vars == <<alive, running, pc, note, mutex, program, child, exit, holders, left,
          pipe, content, reader, result>>
process == <<child, exit, holders, left, pipe, content, reader>>
service == <<alive, running>>

Location == {"idle", "count", "notify", "open", "wait", "join", "fill",
             "lock", "post", "leave", "done"}
Note == {"none", "start", "compute", "post", "done", "lost"}

NoResult == [normal |-> FALSE, content |-> [s \in Stream |-> 0]]

Init ==
  /\ alive = TRUE
  /\ running = 0
  /\ pc = [r \in Run |-> "idle"]
  /\ note = [r \in Run |-> "none"]
  /\ mutex = [r \in Run |-> "free"]
  /\ program \in [Run -> UNION {Program[r] : r \in Run}]
  /\ \A r \in Run : program[r] \in Program[r]
  /\ child = [r \in Run |-> "none"]
  /\ exit = [r \in Run |-> "none"]
  /\ holders = [r \in Run |-> FALSE]
  /\ left = [r \in Run |-> program[r].size]
  /\ pipe = [r \in Run |-> [s \in Stream |-> 0]]
  /\ content = [r \in Run |-> [s \in Stream |-> 0]]
  /\ reader = [r \in Run |-> [s \in Stream |-> "none"]]
  /\ result = [r \in Run |-> NoResult]

At(r, l) == alive /\ pc[r] = l
Goto(r, l) == pc' = [pc EXCEPT ![r] = l]

-----------------------------------------------------------------------------
(* The run thread.                                                         *)

\* A tick or POST /task/run starts and detaches the thread.
Start(r) ==
  /\ At(r, "idle")
  /\ Goto(r, "count")
  /\ UNCHANGED <<service, note, mutex, program, process, result>>

Count(r) ==
  /\ At(r, "count")
  /\ running' = running + 1
  /\ Goto(r, "notify")
  /\ UNCHANGED <<alive, note, mutex, program, process, result>>

DetachNotification(r) ==
  /\ At(r, "notify")
  /\ note' = [note EXCEPT ![r] = "start"]
  /\ Goto(r, "open")
  /\ UNCHANGED <<service, mutex, program, process, result>>

\* Process::open() and asyncRead()
Open(r) ==
  /\ At(r, "open")
  /\ child' = [child EXCEPT ![r] = "running"]
  /\ holders' = [holders EXCEPT ![r] = TRUE]
  /\ reader' = [reader EXCEPT ![r] = [s \in Stream |-> "reading"]]
  /\ Goto(r, "wait")
  /\ UNCHANGED <<service, note, mutex, program, exit, left, pipe, content, result>>

\* Variant of OpenFails: the error path counts the run down itself.
OpenFailsUncounted(r) ==
  /\ At(r, "open")
  /\ running' = running - 1
  /\ Goto(r, "fill")
  /\ UNCHANGED <<alive, note, mutex, program, process, result>>

\* pipe() or fork() fails: the pid stays -1, no thread reads, and
\* getExitStatus() returns at once.
OpenFails(r) ==
  /\ At(r, "open")
  /\ Goto(r, "fill")
  /\ UNCHANGED <<service, note, mutex, program, process, result>>

\* waitpid()
WaitChild(r) ==
  /\ At(r, "wait")
  /\ child[r] = "zombie"
  /\ child' = [child EXCEPT ![r] = "reaped"]
  /\ Goto(r, "join")
  /\ UNCHANGED <<service, note, mutex, program, exit, holders, left, pipe, content,
                 reader, result>>

\* Variant of CloseFds: the readers are detached, not joined.
CloseFdsUnjoined(r) ==
  /\ At(r, "join")
  /\ Goto(r, "fill")
  /\ UNCHANGED <<service, note, mutex, program, process, result>>

\* closeFds() joins both readers; standard input is closed only now.
CloseFds(r) ==
  /\ At(r, "join")
  /\ \A s \in Stream : reader[r][s] = "ended"
  /\ Goto(r, "fill")
  /\ UNCHANGED <<service, note, mutex, program, process, result>>

\* Variant of FillResult: only a run that got a process is subtracted.
FillStarted(r) ==
  /\ At(r, "fill")
  /\ result' = [result EXCEPT ![r] =
                  [normal |-> exit[r] = "zero", content |-> content[r]]]
  /\ running' = IF child[r] = "reaped" THEN running - 1 ELSE running
  /\ Goto(r, "lock")
  /\ UNCHANGED <<alive, note, mutex, program, process>>

\* The result is local to the thread until it is posted.
FillResult(r) ==
  /\ At(r, "fill")
  /\ result' = [result EXCEPT ![r] =
                  [normal |-> exit[r] = "zero", content |-> content[r]]]
  /\ running' = running - 1
  /\ Goto(r, "lock")
  /\ UNCHANGED <<alive, note, mutex, program, process>>

\* Variant of Lock: the finish notification does not lock notifyMutex.
LockSkipped(r) ==
  /\ At(r, "lock")
  /\ Goto(r, "post")
  /\ UNCHANGED <<service, note, mutex, program, process, result>>

Lock(r) ==
  /\ At(r, "lock")
  /\ mutex[r] = "free"
  /\ mutex' = [mutex EXCEPT ![r] = "run"]
  /\ Goto(r, "post")
  /\ UNCHANGED <<service, note, program, process, result>>

\* taskFinish() returns, whether the notification arrived or not, and the
\* lock_guard, the last of the locals, unlocks notifyMutex.
PostFinish(r) ==
  /\ At(r, "post")
  /\ NotifyUrl => ~program[r].binary \/ content[r] = [s \in Stream |-> 0]
  /\ mutex' = [mutex EXCEPT ![r] = "free"]
  /\ Goto(r, "leave")
  /\ UNCHANGED <<service, note, program, process, result>>

\* The other locals and the captured task are destroyed, with whoever uses
\* them; the thread ends.
DestroyLocals(r) ==
  /\ At(r, "leave")
  /\ mutex' = [mutex EXCEPT ![r] = "gone"]
  /\ Goto(r, "done")
  /\ UNCHANGED <<service, note, program, process, result>>

\* json::dump() throws on what is not UTF-8; nothing catches it in a thread.
PostThrows(r) ==
  /\ At(r, "post")
  /\ NotifyUrl /\ program[r].binary /\ content[r] # [s \in Stream |-> 0]
  /\ alive' = FALSE
  /\ UNCHANGED <<running, pc, note, mutex, program, process, result>>

RunThread(r) ==
  \/ Count(r) \/ DetachNotification(r) \/ Open(r) \/ OpenFails(r) \/ WaitChild(r)
  \/ CloseFds(r) \/ FillResult(r) \/ Lock(r) \/ PostFinish(r)
  \/ PostThrows(r) \/ DestroyLocals(r)

-----------------------------------------------------------------------------
(* The thread of the start notification.                                   *)

\* The lock_guard is made, before the run thread has it or after.
NoteLock(r) ==
  /\ alive /\ note[r] = "start" /\ mutex[r] = "free"
  /\ mutex' = [mutex EXCEPT ![r] = "note"]
  /\ note' = [note EXCEPT ![r] = "compute"]
  /\ UNCHANGED <<service, pc, program, process, result>>

\* cron.getNextRunTime()
NoteCompute(r) ==
  /\ alive /\ note[r] = "compute" /\ mutex[r] = "note"
  /\ ~program[r].endless
  /\ note' = [note EXCEPT ![r] = "post"]
  /\ UNCHANGED <<service, pc, mutex, program, process, result>>

\* taskStart() returns, whether the notification arrived or not.
NotePost(r) ==
  /\ alive /\ note[r] = "post" /\ mutex[r] = "note"
  /\ note' = [note EXCEPT ![r] = "done"]
  /\ mutex' = [mutex EXCEPT ![r] = "free"]
  /\ UNCHANGED <<service, pc, program, process, result>>

\* Where a thread gets to when what it refers to is gone: it locks a mutex that
\* is garbage, or is kept out by it for ever; reads a task and a time that are
\* garbage, whose search may have no end; unlocks what is no mutex any more.
Astray == [start |-> {"compute", "lost"}, compute |-> {"post", "lost"},
           post |-> {"done"}]

\* The locals of the run thread are gone: the process dies, or the thread goes
\* on with whatever it finds there.
NoteDangles(r) ==
  /\ alive /\ note[r] \in DOMAIN Astray /\ mutex[r] = "gone"
  /\ \/ alive' = FALSE /\ UNCHANGED note
     \/ \E n \in Astray[note[r]] : note' = [note EXCEPT ![r] = n]
        /\ UNCHANGED alive
  /\ UNCHANGED <<running, pc, mutex, program, process, result>>

NoteThread(r) == NoteLock(r) \/ NoteCompute(r) \/ NotePost(r) \/ NoteDangles(r)

-----------------------------------------------------------------------------
(* The reader threads.                                                     *)

\* Variant of Read: one thread reads both, standard error last.
ReadInTurn(r, s) ==
  /\ alive /\ reader[r][s] = "reading" /\ pipe[r][s] > 0
  /\ s = "err" => reader[r]["out"] = "ended"
  /\ pipe' = [pipe EXCEPT ![r][s] = @ - 1]
  /\ content' = [content EXCEPT ![r][s] = @ + 1]
  /\ UNCHANGED <<service, pc, note, mutex, program, child, exit, holders, left,
                 reader, result>>

Read(r, s) ==
  /\ alive /\ reader[r][s] = "reading" /\ pipe[r][s] > 0
  /\ pipe' = [pipe EXCEPT ![r][s] = @ - 1]
  /\ content' = [content EXCEPT ![r][s] = @ + 1]
  /\ UNCHANGED <<service, pc, note, mutex, program, child, exit, holders, left,
                 reader, result>>

\* read() returns 0: the pipe is empty and nobody holds its write end.
ReadEnd(r, s) ==
  /\ alive /\ reader[r][s] = "reading" /\ pipe[r][s] = 0
  /\ ~holders[r]
  /\ reader' = [reader EXCEPT ![r][s] = "ended"]
  /\ UNCHANGED <<service, pc, note, mutex, program, child, exit, holders, left,
                 pipe, content, result>>

Reader(r, s) == Read(r, s) \/ ReadEnd(r, s)

-----------------------------------------------------------------------------
(* The program.                                                            *)

\* Written by the child, or by the process it left behind.
Write(r, s) ==
  /\ alive /\ holders[r]
  /\ left[r][s] > 0 /\ pipe[r][s] < Capacity
  /\ left' = [left EXCEPT ![r][s] = @ - 1]
  /\ pipe' = [pipe EXCEPT ![r][s] = @ + 1]
  /\ UNCHANGED <<service, pc, note, mutex, program, child, exit, holders,
                 content, reader, result>>

\* The service keeps standard input open until the child has ended: a program
\* that reads it to the end goes on only when the service dies.
Exit(r) ==
  /\ child[r] = "running"
  /\ program[r].background \/ left[r] = [s \in Stream |-> 0] \/ ~alive
  /\ program[r].reads => ~alive
  /\ child' = [child EXCEPT ![r] = "zombie"]
  /\ exit' = [exit EXCEPT ![r] = IF program[r].fails THEN "other" ELSE "zero"]
  /\ holders' = [holders EXCEPT ![r] = program[r].background]
  /\ UNCHANGED <<service, pc, note, mutex, program, left, pipe, content, reader,
                 result>>

\* A signal ends the child at any time.
Killed(r) ==
  /\ child[r] = "running"
  /\ child' = [child EXCEPT ![r] = "zombie"]
  /\ exit' = [exit EXCEPT ![r] = "other"]
  /\ \E h \in {FALSE, program[r].background} :
       holders' = [holders EXCEPT ![r] = h]
  /\ UNCHANGED <<service, pc, note, mutex, program, left, pipe, content, reader,
                 result>>

BackgroundEnds(r) ==
  /\ child[r] \in {"zombie", "reaped"} /\ holders[r]
  /\ holders' = [holders EXCEPT ![r] = FALSE]
  /\ UNCHANGED <<service, pc, note, mutex, program, child, exit, left, pipe,
                 content, reader, result>>

-----------------------------------------------------------------------------
Next ==
  \E r \in Run :
    \/ Start(r) \/ RunThread(r) \/ NoteThread(r)
    \/ \E s \in Stream : Reader(r, s) \/ Write(r, s)
    \/ Exit(r) \/ Killed(r) \/ BackgroundEnds(r)

Spec == Init /\ [][Next]_vars

\* Threads are scheduled, an HTTP request ends (httplib has timeouts), and
\* the program makes progress; a background process may stay for ever.
Fairness ==
  \A r \in Run :
    /\ WF_vars(RunThread(r)) /\ WF_vars(NoteThread(r))
    /\ \A s \in Stream : WF_vars(Reader(r, s)) /\ WF_vars(Write(r, s))
    /\ WF_vars(Exit(r))

FairSpec == Spec /\ Fairness

-----------------------------------------------------------------------------
(* Properties.                                                             *)

TypeOK ==
  /\ alive \in BOOLEAN
  /\ running \in 0..Cardinality(Run)
  /\ pc \in [Run -> Location]
  /\ note \in [Run -> Note]
  /\ mutex \in [Run -> {"free", "run", "note", "gone"}]
  /\ \A r \in Run : program[r] \in Program[r]
  /\ child \in [Run -> {"none", "running", "zombie", "reaped"}]
  /\ exit \in [Run -> {"none", "zero", "other"}]
  /\ holders \in [Run -> BOOLEAN]
  /\ left \in [Run -> [Stream -> Nat]]
  /\ pipe \in [Run -> [Stream -> 0..Capacity]]
  /\ content \in [Run -> [Stream -> Nat]]
  /\ reader \in [Run -> [Stream -> {"none", "reading", "ended"}]]
  /\ result \in [Run -> [normal : BOOLEAN, content : [Stream -> Nat]]]

(***************************************************************************)
(* The finish notification carries all that the run wrote, by whichever    *)
(* of its processes, and says `normal` exactly when the program ended by   *)
(* itself with status 0 (taskTable.cpp:116-124, process.cpp:105-138).      *)
(***************************************************************************)
FinishTellsTruth ==
  \A r \in Run : pc[r] \in {"lock", "post"} =>
    /\ result[r].normal = (exit[r] = "zero")
    /\ \A s \in Stream :
         result[r].content[s] = program[r].size[s] - left[r][s]

\* The two notifications of a run are never under way together, whether the
\* start comes first, second or when the run thread is gone (taskTable.cpp:101,
\* 128).
NotificationsTakeTurns ==
  \A r \in Run : note[r] \in {"compute", "post"} => pc[r] # "post"

\* What GET / reports as running_number counts every child process that is
\* not reaped, and comes back to 0 when every run has ended, whichever way
\* (taskTable.cpp:90, 127; README.md:88).
RunningCountsChildren ==
  /\ Cardinality({r \in Run : child[r] \in {"running", "zombie"}}) <= running
  /\ (\A r \in Run : pc[r] \in {"idle", "done"}) => running = 0

\* The programs whose runs the code cannot be expected to end.
Stuck(p) == p.reads \/ p.background \/ p.endless

\* A run ends, unless the service is gone: neither a full pipe nor the
\* notifications block it (process.cpp:84-103, taskTable.cpp:128).
RunEnds ==
  \A r \in Run : pc[r] = "count" /\ ~Stuck(program[r]) ~> pc[r] = "done" \/ ~alive

\* message.hpp:92 calls the start event the notification before the run: it is
\* not posted after the finish event of the same run.
StartReportedFirst ==
  \A r \in Run : alive /\ NotifyUrl /\ pc[r] = "post" => note[r] = "done"

-----------------------------------------------------------------------------
(* The inductive invariant behind FinishTellsTruth, NotificationsTakeTurns *)
(* and RunningCountsChildren.                                              *)

\* notifyMutex is there until the run thread is done, and a thread holds it
\* exactly while it is at its notification, unless that goes on without it; the
\* other thread begins after the run thread detached it.
MutexInv ==
  \A r \in Run :
    /\ pc[r] \in {"idle", "count", "notify"} => note[r] = "none"
    /\ mutex[r] = "gone" <=> pc[r] = "done"
    /\ mutex[r] = "run" <=> pc[r] = "post"
    /\ mutex[r] = "note" <=> note[r] \in {"compute", "post"} /\ pc[r] # "done"

\* What the place of the run thread says about the child and its pipes.
ChildInv ==
  \A r \in Run :
    /\ pc[r] \in {"idle", "count", "notify", "open"} => child[r] = "none"
    /\ pc[r] = "wait" => child[r] \in {"running", "zombie"}
    /\ pc[r] = "join" => child[r] = "reaped"
    /\ pc[r] \in {"fill", "lock", "post", "leave", "done"} => child[r] \in {"none", "reaped"}
    /\ child[r] = "none" => ~holders[r] /\ \A s \in Stream : pipe[r][s] = 0
    /\ child[r] = "running" => holders[r]

\* A reader has ended, or all of them have been joined: no more will come.
EndInv ==
  \A r \in Run, s \in Stream :
    \/ reader[r][s] = "ended"
    \/ pc[r] \in {"fill", "lock", "post"}
    => ~holders[r] /\ pipe[r][s] = 0

\* Nothing is lost between the program and what was read.
FlowInv ==
  \A r \in Run, s \in Stream :
    content[r][s] + pipe[r][s] + left[r][s] = program[r].size[s]

ResultInv ==
  \A r \in Run : pc[r] \in {"lock", "post"} =>
    result[r] = [normal |-> exit[r] = "zero", content |-> content[r]]

\* The runs that have been counted and not yet been subtracted.
Counted == {r \in Run : pc[r] \in {"notify", "open", "wait", "join", "fill"}}

CountInv == running = Cardinality(Counted)

IInv ==
  TypeOK /\ MutexInv /\ ChildInv /\ EndInv /\ FlowInv /\ ResultInv /\ CountInv

=============================================================================
