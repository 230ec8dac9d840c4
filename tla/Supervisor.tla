------------------------------ MODULE Supervisor ------------------------------
(***************************************************************************)
(* main() and its signal handlers (src/main.cpp): the pause loop, the tick *)
(* (SIGALRM), the reload (SIGHUP), the stop (SIGTERM), and the lifetimes   *)
(* of the Config, TaskTable and HttpThread objects behind the globals,     *)
(* which the HTTP threads and the threads of runs use as well.             *)
(*                                                                         *)
(* A signal interrupts the main thread, or another one, between any two    *)
(* steps, those of other handlers included: signal() blocks only the one   *)
(* that is handled.  Each thread has a stack of the places it is at, the   *)
(* innermost handler first and, in the main thread, main() last.  What a   *)
(* step dereferences is named by Uses; when that is deleted the behaviour  *)
(* is undefined, and the model stops there (Dangle).                       *)
(***************************************************************************)
EXTENDS Naturals, Sequences, FiniteSets

CONSTANTS
  MaxHups,      \* bound: SIGHUPs
  MaxHandlers,  \* bound: handlers that run, or are interrupted, at a time
  MaxRuns       \* bound: runs at a time

ASSUME BoundsAssumption == {MaxHups, MaxHandlers, MaxRuns} \subseteq Nat

Thread == {"main", "other"}
Signal == {"ALRM", "HUP", "TERM"}
Kind == {"config", "table", "http"}
Generation == 1..(MaxHups + 1)
Runs == 1..MaxRuns

\* The places of each handler, and of main().
Places ==
  [ALRM |-> {"start", "list", "copy", "run"},
   HUP |-> {"flag", "close", "deleteTable", "deleteConfig", "newConfig",
            "newTable", "newHttp", "clear"},
   TERM |-> {"stopClose", "disarm", "stop"},
   main |-> {"test", "pausing", "pause", "remove", "freeHttp", "freeTable",
             "freeConfig"}]

First == [ALRM |-> "start", HUP |-> "flag", TERM |-> "stopClose"]

VARIABLES
  stack,      \* per thread, where it is
  seen,       \* per thread, the table that a tick is copying
  timer,      \* the interval timer is armed
  isRunning, isReload,
  ptr,        \* the globals config, taskTable and httpThread
  deleted,    \* the objects deleted
  server,     \* per HttpThread, its listener
  owner,      \* per HttpThread, the objects it points to
  busy,       \* per HttpThread, a worker is in a request handler
  run,        \* the threads of runs
  pidFile,    \* the pid file exists
  outcome,    \* "alive", how the process ended, or what used a deleted object
  overlap,    \* history: a reload came on top of another handler, met a tick
              \* before isReload was set, or met a stop off the main thread,
              \* or a signal met the clean-up
  missed,     \* history: HttpThreads closed before they listened
  hups

vars == <<stack, seen, timer, isRunning, isReload, ptr, deleted, server, owner,
          busy, run, pidFile, outcome, overlap, missed, hups>>
flags == <<timer, isRunning, isReload, pidFile>>
objects == <<ptr, deleted>>
http == <<server, owner, busy, missed>>
history == <<overlap, hups>>

Idle == [running |-> FALSE, config |-> 1, table |-> 1]

Init ==
  /\ stack = [t \in Thread |-> IF t = "main" THEN <<"test">> ELSE << >>]
  /\ seen = [t \in Thread |-> 1]
  /\ timer = TRUE
  /\ isRunning = TRUE /\ isReload = FALSE
  /\ ptr = [k \in Kind |-> 1]
  /\ deleted = {}
  /\ server = [n \in Generation |-> IF n = 1 THEN "created" ELSE "none"]
  /\ owner = [n \in Generation |-> [k \in Kind |-> 1]]
  /\ busy = [n \in Generation |-> FALSE]
  /\ run = [r \in Runs |-> Idle]
  /\ pidFile = TRUE
  /\ outcome = "alive"
  /\ overlap = FALSE
  /\ missed = {}
  /\ hups = 0

\* Thread t is at one of the places L, or was interrupted there.
In(t, L) == \E i \in DOMAIN stack[t] : stack[t][i] \in L

Handling(s) == {t \in Thread : In(t, Places[s])}
Here(t) == IF stack[t] = << >> THEN "idle" ELSE Head(stack[t])
Interrupted == stack["main"][Len(stack["main"])]  \* where main() is
Current(k) == <<k, ptr[k]>>
Created(n) == server[n] # "none"
Members(n) == {<<"http", n>>, <<"table", owner[n]["table"]>>,
               <<"config", owner[n]["config"]>>}

-----------------------------------------------------------------------------
(* What each thread dereferences next, and what becomes of it.             *)

Uses(t) ==
  CASE Here(t) = "copy" -> {<<"table", seen[t]>>}
    [] Here(t) \in {"close", "stopClose", "freeHttp"} -> {Current("http")}
    [] Here(t) \in {"deleteTable", "freeTable"} -> {Current("table")}
    [] Here(t) \in {"deleteConfig", "newTable", "remove", "freeConfig"} ->
         {Current("config")}
    [] OTHER -> {}

ListenerUses(n) ==
  CASE server[n] = "created" -> {<<"http", n>>, <<"config", owner[n]["config"]>>}
    [] server[n] \in {"listening", "closed"} -> {<<"http", n>>}
    [] OTHER -> {}

WorkerUses(n) == IF busy[n] THEN Members(n) ELSE {}

RunUses(r) ==
  IF run[r].running THEN {<<"table", run[r].table>>, <<"config", run[r].config>>}
  ELSE {}

Intact(used) == outcome = "alive" /\ used \cap deleted = {}

\* SIGHUP allocates and logs on top of a tick that may hold the heap's lock.
HeapHeld(t) ==
  Len(stack[t]) > 1 /\ Here(t) = "flag" /\ stack[t][2] \in {"copy", "run"}

\* The process ends, with its threads.
End(how) ==
  /\ outcome = "alive" /\ outcome' = how
  /\ stack' = [t \in Thread |-> << >>]
  /\ seen' = [t \in Thread |-> 1]
  /\ server' = [n \in Generation |-> "none"]
  /\ owner' = [n \in Generation |-> [k \in Kind |-> 1]]
  /\ busy' = [n \in Generation |-> FALSE]
  /\ run' = [r \in Runs |-> Idle]
  /\ timer' = FALSE
  /\ UNCHANGED <<isRunning, isReload, pidFile, objects, missed, history>>

Dangle ==
  \/ \E t \in Thread :
       \/ HeapHeld(t) /\ End("heap")
       \/ \E h \in DOMAIN Places : /\ Here(t) \in Places[h]
                                   /\ ~Intact(Uses(t)) /\ End(h)
  \/ \E n \in Generation : \/ ~Intact(ListenerUses(n)) /\ End("listener")
                           \/ ~Intact(WorkerUses(n)) /\ End("worker")
  \/ \E r \in Runs : ~Intact(RunUses(r)) /\ End("run")

-----------------------------------------------------------------------------
(* Signals.                                                                *)

\* The handler of s starts on t.  pause() returns after the handler.
Interrupt(t, s) ==
  /\ stack' = [stack EXCEPT ![t] = <<First[s]>> \o
                 (IF Here(t) = "pause" THEN <<"test">> ELSE @)]
  /\ overlap' = \/ overlap
                \/ s = "HUP" /\ (~isRunning \/ \E h \in Signal : Handling(h) # {})
                \/ /\ s = "TERM" /\ Handling("HUP") \cup Handling("TERM") # {}
                   /\ "other" \in Handling("HUP") \cup Handling("TERM") \cup {t}
  /\ hups' = IF s = "HUP" THEN hups + 1 ELSE hups
  /\ UNCHANGED <<seen, flags, objects, http, run, outcome>>

\* The timer is armed.  Bounds: MaxHups, and no SIGTERM is sent to a service
\* that stopped.
Raised(s) ==
  /\ outcome = "alive"
  /\ s = "ALRM" => timer
  /\ s = "HUP" => hups < MaxHups
  /\ s = "TERM" => isRunning
  /\ Len(stack["main"]) + Len(stack["other"]) <= MaxHandlers

\* Variant: the signal is not blocked in the thread that handles it.
DeliverAgain(t, s) ==
  Raised(s) /\ (t = "other" => Len(stack["main"]) > 1) /\ Interrupt(t, s)

\* The main thread takes a signal, unless it is handling that very signal or
\* has another one to take.
Deliver(t, s) ==
  /\ Raised(s) /\ t \notin Handling(s)
  /\ t = "other" => Len(stack["main"]) > 1
  /\ Interrupt(t, s)

At(t, l) == Here(t) = l /\ Intact(Uses(t))
Go(t, l) == stack' = [stack EXCEPT ![t][1] = l]
Return(t) == stack' = [stack EXCEPT ![t] = Tail(@)]

-----------------------------------------------------------------------------
(* SIGALRM.                                                                *)

\* Variant: a tick does not look at isReload.
TickThroughReload(t) ==
  /\ At(t, "start") /\ Go(t, "list")
  /\ overlap' = (overlap \/ \E u \in Thread : In(u, {"flag"}))
  /\ UNCHANGED <<seen, flags, objects, http, run, outcome, hups>>

TickStart(t) ==
  /\ At(t, "start")
  /\ IF isReload THEN Return(t) ELSE Go(t, "list")
  /\ overlap' = (overlap \/ \E u \in Thread : In(u, {"flag"}))
  /\ UNCHANGED <<seen, flags, objects, http, run, outcome, hups>>

\* taskTable->list() is called ...
TickList(t) ==
  /\ At(t, "list") /\ Go(t, "copy")
  /\ seen' = [seen EXCEPT ![t] = ptr["table"]]
  /\ UNCHANGED <<flags, objects, http, run, outcome, history>>

\* ... and returns a copy.
TickCopy(t) ==
  /\ At(t, "copy") /\ Go(t, "run")
  /\ seen' = [seen EXCEPT ![t] = 1]
  /\ UNCHANGED <<flags, objects, http, run, outcome, history>>

\* TaskTable::run() hands the objects to a thread and dereferences neither.
StartRun(given) ==
  \E r \in Runs :
    /\ run[r] = Idle
    /\ run' = [run EXCEPT ![r] = [running |-> TRUE, config |-> given["config"],
                                  table |-> given["table"]]]

TickRun(t) ==
  /\ At(t, "run") /\ StartRun(ptr)
  /\ UNCHANGED <<stack, seen, flags, objects, http, outcome, history>>

TickEnd(t) ==
  /\ At(t, "run") /\ Return(t)
  /\ UNCHANGED <<seen, flags, objects, http, run, outcome, history>>

-----------------------------------------------------------------------------
(* SIGTERM and SIGHUP.                                                     *)

\* HttpThread::close(): Server::stop() does nothing to a server that does not
\* listen yet, and does not wait for one that does.  Of one that is closed it
\* does not matter any more whether it had failed.
Close(n) ==
  /\ server' = [server EXCEPT ![n] = CASE @ = "listening" -> "closed"
                                        [] @ = "failed" -> "ended"
                                        [] OTHER -> @]
  /\ missed' = missed \cup {m \in {n} : server[m] = "created"}
  /\ UNCHANGED <<owner, busy>>

StopClose(t) ==
  /\ At(t, "stopClose") /\ Go(t, "disarm")
  /\ Close(ptr["http"])
  /\ UNCHANGED <<seen, flags, objects, run, outcome, history>>

StopDisarm(t) ==
  /\ At(t, "disarm") /\ Go(t, "stop")
  /\ timer' = FALSE
  /\ UNCHANGED <<seen, isRunning, isReload, pidFile, objects, http, run, outcome,
                 history>>

\* Variant: the handler leaves isRunning as it is.
StopKeepsRunning(t) ==
  /\ At(t, "stop") /\ Return(t)
  /\ UNCHANGED <<seen, flags, objects, http, run, outcome, history>>

StopRunning(t) ==
  /\ At(t, "stop") /\ Return(t)
  /\ isRunning' = FALSE
  /\ UNCHANGED <<seen, timer, isReload, pidFile, objects, http, run, outcome,
                 history>>

ReloadFlag(t) ==
  /\ At(t, "flag") /\ Go(t, "close")
  /\ isReload' = TRUE
  /\ UNCHANGED <<seen, timer, isRunning, pidFile, objects, http, run, outcome,
                 history>>

\* Variant: the old server is not closed.
ReloadKeepsServer(t) ==
  /\ At(t, "close") /\ Go(t, "deleteTable")
  /\ UNCHANGED <<seen, flags, objects, http, run, outcome, history>>

ReloadClose(t) ==
  /\ At(t, "close") /\ Go(t, "deleteTable")
  /\ Close(ptr["http"])
  /\ UNCHANGED <<seen, flags, objects, run, outcome, history>>

Delete(k) == deleted' = deleted \cup {Current(k)} /\ UNCHANGED ptr

ReloadDeleteTable(t) ==
  /\ At(t, "deleteTable") /\ Go(t, "deleteConfig")
  /\ Delete("table")
  /\ UNCHANGED <<seen, flags, http, run, outcome, history>>

ReloadDeleteConfig(t) ==
  /\ At(t, "deleteConfig") /\ Go(t, "newConfig")
  /\ Delete("config")
  /\ UNCHANGED <<seen, flags, http, run, outcome, history>>

\* Objects are named by the order of their creation.
New(k) ==
  /\ ptr' = [ptr EXCEPT ![k] = 1 + Cardinality({n \in Generation : <<k, n>> \in deleted})]
  /\ UNCHANGED deleted

\* Variant: the new Config is not stored in the global.
ReloadKeepsConfig(t) ==
  /\ At(t, "newConfig") /\ Go(t, "newTable")
  /\ pidFile' = TRUE
  /\ UNCHANGED <<seen, timer, isRunning, isReload, objects, http, run, outcome,
                 history>>

\* The Config, the log and the pid file.
ReloadConfig(t) ==
  /\ At(t, "newConfig") /\ Go(t, "newTable")
  /\ New("config")
  /\ pidFile' = TRUE
  /\ UNCHANGED <<seen, timer, isRunning, isReload, http, run, outcome, history>>

ReloadTable(t) ==
  /\ At(t, "newTable") /\ Go(t, "newHttp")
  /\ New("table")
  /\ UNCHANGED <<seen, flags, http, run, outcome, history>>

\* exit(): the pid file cannot be written, or the database not be opened.
ReloadFail(t) == Here(t) \in {"newConfig", "newTable"} /\ End("failed")

\* The old HttpThread is not deleted.
ReloadHttp(t) ==
  /\ At(t, "newHttp") /\ Go(t, "clear")
  /\ \E n \in Generation :
       /\ ~Created(n) /\ \A m \in 1..(n - 1) : Created(m)
       /\ ptr' = [ptr EXCEPT !["http"] = n]
       /\ server' = [server EXCEPT ![n] = "created"]
       /\ owner' = [owner EXCEPT ![n] = ptr]
  /\ UNCHANGED <<seen, flags, deleted, busy, missed, run, outcome, history>>

\* Variant: isReload is not reset.
ReloadKeepsFlag(t) ==
  /\ At(t, "clear") /\ Return(t)
  /\ UNCHANGED <<seen, flags, objects, http, run, outcome, history>>

ReloadClear(t) ==
  /\ At(t, "clear") /\ Return(t)
  /\ isReload' = FALSE
  /\ UNCHANGED <<seen, timer, isRunning, pidFile, objects, http, run, outcome,
                 history>>

-----------------------------------------------------------------------------
(* main().                                                                 *)

\* while (isRunning) and pause() are two steps.
Test ==
  /\ At("main", "test") /\ Go("main", IF isRunning THEN "pausing" ELSE "remove")
  /\ UNCHANGED <<seen, flags, objects, http, run, outcome, history>>

Pause ==
  /\ At("main", "pausing") /\ Go("main", "pause")
  /\ UNCHANGED <<seen, flags, objects, http, run, outcome, history>>

RemovePidFile ==
  /\ At("main", "remove") /\ Go("main", "freeHttp")
  /\ pidFile' = FALSE
  /\ UNCHANGED <<seen, timer, isRunning, isReload, objects, http, run, outcome,
                 history>>

CleanUp(l, k, next) ==
  /\ At("main", l) /\ Go("main", next)
  /\ Delete(k)
  /\ UNCHANGED <<seen, flags, http, run, outcome, history>>

DeleteHttp == CleanUp("freeHttp", "http", "freeTable")
DeleteTable == CleanUp("freeTable", "table", "freeConfig")

\* main() returns, and the process ends.
DeleteConfig == At("main", "freeConfig") /\ End("exited")

-----------------------------------------------------------------------------
(* The HTTP threads and the runs.                                          *)

\* The listener reads the configuration, binds (SO_REUSEPORT) and listens.
Listen(n) ==
  /\ Intact(ListenerUses(n)) /\ server[n] = "created"
  /\ server' = [server EXCEPT ![n] = "listening"]
  /\ UNCHANGED <<stack, seen, flags, objects, owner, busy, missed, run, outcome,
                 history>>

\* The address cannot be bound: listen() returns false, which nobody looks at,
\* and the thread ends.
ListenFails(n) ==
  /\ Intact(ListenerUses(n)) /\ server[n] = "created"
  /\ server' = [server EXCEPT ![n] = "failed"]
  /\ UNCHANGED <<stack, seen, flags, objects, owner, busy, missed, run, outcome,
                 history>>

\* accept() fails for good: the loop is left, and the worker, if one was busy,
\* has been joined.
AcceptFails(n) ==
  /\ Intact(ListenerUses(n)) /\ server[n] = "listening" /\ ~busy[n]
  /\ server' = [server EXCEPT ![n] = "failed"]
  /\ UNCHANGED <<stack, seen, flags, objects, owner, busy, missed, run, outcome,
                 history>>

\* It leaves its loop once it was closed, and joins the workers.
ListenerEnds(n) ==
  /\ Intact(ListenerUses(n)) /\ server[n] = "closed" /\ ~busy[n]
  /\ server' = [server EXCEPT ![n] = "ended"]
  /\ UNCHANGED <<stack, seen, flags, objects, owner, busy, missed, run, outcome,
                 history>>

Request(n) ==
  /\ Intact(ListenerUses(n)) /\ server[n] = "listening" /\ ~busy[n]
  /\ busy' = [busy EXCEPT ![n] = TRUE]
  /\ UNCHANGED <<stack, seen, flags, objects, server, owner, missed, run, outcome,
                 history>>

\* The handler uses the objects of its HttpThread; POST /task/run starts a run.
Respond(n) ==
  /\ Intact(WorkerUses(n)) /\ busy[n]
  /\ busy' = [busy EXCEPT ![n] = FALSE]
  /\ StartRun(owner[n]) \/ UNCHANGED run
  /\ UNCHANGED <<stack, seen, flags, objects, server, owner, missed, outcome, history>>

\* A run uses the table and the configuration when it begins and when it ends.
RunEnds(r) ==
  /\ Intact(RunUses(r)) /\ run[r].running
  /\ run' = [run EXCEPT ![r] = Idle]
  /\ UNCHANGED <<stack, seen, flags, objects, http, outcome, history>>

-----------------------------------------------------------------------------
Tick(t) == TickStart(t) \/ TickList(t) \/ TickCopy(t) \/ TickEnd(t)
Stop(t) == StopClose(t) \/ StopDisarm(t) \/ StopRunning(t)
Reload(t) ==
  \/ ReloadFlag(t) \/ ReloadClose(t) \/ ReloadDeleteTable(t) \/ ReloadDeleteConfig(t)
  \/ ReloadConfig(t) \/ ReloadTable(t) \/ ReloadHttp(t) \/ ReloadClear(t)
Listener(n) == Listen(n) \/ ListenFails(n) \/ ListenerEnds(n)
MainLoop ==
  Test \/ Pause \/ RemovePidFile \/ DeleteHttp \/ DeleteTable \/ DeleteConfig

Next ==
  \/ \E t \in Thread : \/ \E s \in Signal : Deliver(t, s)
                       \/ Tick(t) \/ TickRun(t) \/ Stop(t) \/ Reload(t) \/ ReloadFail(t)
  \/ MainLoop
  \/ \E n \in Generation : Listener(n) \/ AcceptFails(n) \/ Request(n) \/ Respond(n)
  \/ \E r \in Runs : RunEnds(r)
  \/ Dangle

Spec == Init /\ [][Next]_vars

\* Threads are scheduled, and the ticks, one a second, leave what they
\* interrupt the time to go on.  Request handlers end.  Each of these steps
\* changes the variable that its fairness names.
Fairness ==
  /\ SF_stack(MainLoop)
  /\ \A t \in Thread : WF_stack(Tick(t)) /\ SF_stack(Stop(t) \/ Reload(t))
  /\ \A n \in Generation : WF_http(Listener(n) \/ Respond(n))
  /\ WF_outcome(Dangle)

FairSpec == Spec /\ Fairness

-----------------------------------------------------------------------------
(* Properties.                                                             *)

\* The frames of handlers
InHandler(t) == {i \in DOMAIN stack[t] : t = "main" => i < Len(stack[t])}

\* No thread handles a signal twice at a time, and only main() is at the bottom
\* of the main thread's stack.
StackOK ==
  /\ \A t \in Thread :
       /\ \A i \in InHandler(t) : \E s \in Signal : stack[t][i] \in Places[s]
       /\ \A s \in Signal :
            Cardinality({i \in InHandler(t) : stack[t][i] \in Places[s]}) <= 1
  /\ outcome = "alive" => Interrupted \in Places["main"]

\* The values of the other variables.
ValuesOK ==
  /\ seen \in [Thread -> Generation]
  /\ {timer, isRunning, isReload, pidFile, overlap} \subseteq BOOLEAN
  /\ ptr \in [Kind -> Generation]
  /\ deleted \subseteq Kind \X Generation
  /\ server \in [Generation -> {"none", "created", "listening", "closed", "ended",
                             "failed"}]
  /\ owner \in [Generation -> [Kind -> Generation]]
  /\ busy \in [Generation -> BOOLEAN]
  /\ run \in [Runs -> [running : BOOLEAN, config : Generation, table : Generation]]
  /\ outcome \in {"alive", "exited", "failed", "heap", "listener", "worker", "run",
                  "main"} \cup Signal
  /\ missed \subseteq Generation
  /\ hups \in 0..MaxHups

TypeOK == StackOK /\ ValuesOK

(***************************************************************************)
(* isReload does its work (main.cpp:64, 99, 129): a tick, on whichever     *)
(* thread, does not use a deleted table, unless a SIGHUP came on top of a  *)
(* tick, of another SIGHUP, or after the stop, or the service is stopping. *)
(***************************************************************************)
TicksSafe == outcome = "ALRM" => overlap \/ ~isRunning

\* A reload or a stop, by itself or one on top of the other, deletes each object
\* once and never uses what it deleted (main.cpp:87-130); neither does the
\* clean-up that follows (main.cpp:137-141).
NoDoubleDelete == outcome \in {"HUP", "TERM", "main"} => overlap

\* A reload ends, with ticks let through again, and with a server that has objects
\* that exist and listens, or could not: nobody notices when listen() fails, and
\* the service goes on without its API (main.cpp:127-129, httpThread.cpp:30).
\* All this unless the service was stopped.
ReloadServes ==
  Handling("HUP") # {} ~>
    \/ outcome # "alive" \/ ~isRunning
    \/ /\ ~isReload /\ server[ptr["http"]] \in {"listening", "failed"}
       /\ Members(ptr["http"]) \cap deleted = {}

\* A replaced server stops listening and its thread ends, unless it was closed
\* before it listened (main.cpp:102, httpThread.cpp:40-43).
OldServersEnd ==
  \A n \in 1..MaxHups :
    ptr["http"] > n ~>
      server[n] \in {"ended", "failed"} \/ n \in missed \/ outcome # "alive"

\* A SIGTERM that the main thread takes ends the process and removes the pid
\* file, unless it came between the test of isRunning and pause()
\* (main.cpp:87-94, 132-141).
StopEnds ==
  "main" \in Handling("TERM") /\ Interrupted # "pausing" ~>
    outcome # "alive" /\ (outcome = "exited" => ~pidFile \/ overlap)

\* main.cpp:101: the HTTP threads have been left before the table and the
\* configuration are deleted.
HttpExited ==
  \A n \in Generation :
    ListenerUses(n) # {} => Members(n) \cap deleted = {}

-----------------------------------------------------------------------------
(* The inductive invariant behind TicksSafe and NoDoubleDelete.            *)

Waiting == {"test", "pausing", "pause"}
Copying == {"list", "copy", "run"}

\* A stack from its bottom: main() is at 1.
Rev(s) == [k \in 1..Len(s) |-> s[Len(s) + 1 - k]]
Frames == [t \in Thread |-> Rev(stack[t])]

Gone(k) == Current(k) \in deleted

\* Where the reload is.
ReloadAt ==
  {l \in Places["HUP"] : \E t \in Thread : \E k \in DOMAIN Frames[t] : Frames[t][k] = l}

FlagInv ==
  /\ {isRunning, isReload, overlap} \subseteq BOOLEAN
  /\ ptr \in [Kind -> Nat] /\ seen \in [Thread -> Nat]
  /\ hups \in 0..MaxHups

\* main() is at the bottom of its thread's stack, and nowhere else; a thread
\* handles a signal once at a time.
StackInv ==
  /\ stack \in [Thread -> Seq(UNION {Places[h] : h \in DOMAIN Places})]
  /\ outcome = "alive" => stack["main"] # << >>
  /\ \A t \in Thread : \A k \in DOMAIN Frames[t] :
       Frames[t][k] \in Places["main"] <=> t = "main" /\ k = 1
  /\ \A t \in Thread : \A s \in Signal : \A j, k \in DOMAIN Frames[t] :
       Frames[t][j] \in Places[s] /\ Frames[t][k] \in Places[s] => j = k

\* A reload is the only one, no tick is past its test, and a stop that comes
\* meanwhile is on top of it.
ReloadInv ==
  \A t, u \in Thread : \A j \in DOMAIN Frames[t], k \in DOMAIN Frames[u] :
    Frames[t][j] \in Places["HUP"] =>
      /\ Frames[u][k] \in Places["HUP"] => t = u /\ j = k
      /\ Frames[u][k] \in Places["TERM"] => t = "main" /\ u = "main"
      /\ Frames[u][k] \notin Copying
      /\ ~isRunning => t = "main"
      /\ Frames[t][j] # "flag" => isReload
      /\ Interrupted \in Waiting

\* A stop is the only one, and main() cleans up after it.
StopInv ==
  /\ \A t, u \in Thread : \A j \in DOMAIN Frames[t], k \in DOMAIN Frames[u] :
       Frames[t][j] \in Places["TERM"] =>
         /\ Frames[u][k] \in Places["TERM"] => t = u /\ j = k
         /\ isRunning
  /\ Interrupted \notin Waiting => ~isRunning

\* Which globals dangle where, and how many objects of each kind there were.
ObjectInv ==
  /\ Gone("table") <=> \/ ReloadAt \cap {"deleteConfig", "newConfig", "newTable"} # {}
                        \/ Interrupted = "freeConfig"
  /\ Gone("config") <=> ReloadAt \cap {"newConfig"} # {}
  /\ ptr["table"] = IF ReloadAt \subseteq {"newHttp", "clear"} THEN hups + 1 ELSE hups
  /\ ptr["config"] = IF ReloadAt \subseteq {"newTable", "newHttp", "clear"}
                       THEN hups + 1 ELSE hups
  /\ \A k \in {"table", "config"} :
       {n \in Generation : <<k, n>> \in deleted} =
         1..(IF Gone(k) THEN ptr[k] ELSE ptr[k] - 1)
  /\ Gone("http") => Interrupted \in {"freeTable", "freeConfig"}
  /\ \A n \in Generation : <<"http", n>> \in deleted =>
       Interrupted \in {"freeTable", "freeConfig"}

\* The table that a tick copies exists.
TickInv ==
  isRunning =>
    \A t \in Thread : \A k \in DOMAIN Frames[t] :
      Frames[t][k] = "copy" => <<"table", seen[t]>> \notin deleted

(***************************************************************************)
(* The inductive invariant behind the types: whatever overlaps, the        *)
(* objects of a kind that are deleted are the first ones, and each reload  *)
(* makes one more of a kind at most, of which it is before or past.        *)
(***************************************************************************)
BeforeNew ==
  [config |-> {"flag", "close", "deleteTable", "deleteConfig", "newConfig"},
   table |-> {"flag", "close", "deleteTable", "deleteConfig", "newConfig", "newTable"}]

\* One when thread t is in a reload that has yet to make its object of kind k
Pending(k, t) == IF In(t, BeforeNew[k]) THEN 1 ELSE 0

Deleted(k) == {n \in Generation : <<k, n>> \in deleted}
Numbered(k) == Deleted(k) = 1..(IF Gone(k) THEN ptr[k] ELSE ptr[k] - 1)
Accounted(k) == ptr[k] + Pending(k, "main") + Pending(k, "other") <= hups + 1

NumberInv ==
  \A k \in {"config", "table"} : Numbered(k) /\ (outcome = "alive" => Accounted(k))

IInv ==
  /\ FlagInv /\ StackInv /\ TicksSafe /\ NoDoubleDelete
  /\ outcome = "alive" /\ ~overlap => ReloadInv /\ StopInv /\ ObjectInv /\ TickInv

=============================================================================
