------------------------------ MODULE TaskTable ------------------------------
(***************************************************************************)
(* The task table of the timer service: the in-memory std::map `table`,    *)
(* the SQLite table behind it, the mutex of class TaskTable, and the HTTP  *)
(* handlers that the two worker threads of the server run on it            *)
(* (src/taskTable.cpp, src/httpThread.cpp).                                *)
(*                                                                         *)
(* What the code does and the model keeps:                                 *)
(*  - set() and remove() hold the mutex; exist(), get() and list() do not, *)
(*    so a handler's exist / get / set sequence is not atomic;             *)
(*  - set() and remove() change the map first and the database second, and *)
(*    a statement that fails leaves the map changed;                       *)
(*  - set() chooses UPDATE or INSERT from the map, not from the database,  *)
(*    and an UPDATE that matches no row succeeds;                          *)
(*  - operator[] inserts a default Task whose loop and enable were never   *)
(*    initialised, and assigns its members one after the other;            *)
(*  - a crash loses the map; the constructor reloads it from the database. *)
(*                                                                         *)
(* A map operation that races with a writer is undefined behaviour: it may *)
(* return a half-assigned Task (the steps of an assignment are visible),   *)
(* or end the process (Crash is always possible).                          *)
(***************************************************************************)
EXTENDS Naturals

CONSTANTS
  Worker,       \* the threads of the HTTP pool
  Uuid,         \* the values of the request parameter `uuid`
  Payload,      \* the bodies of POST /task
  Kind,         \* the requests clients send, a subset of AllKinds
  Empty,        \* the empty std::string
  Absent,       \* no entry in the map, no row in the database
  MaxRequests,  \* bound: requests received
  MaxFaults,    \* bound: SQLite statements that fail
  MaxCrashes    \* bound: crashes of the process

AllKinds == {"save", "delete", "status", "run", "detail"}

Key == Uuid \cup {Empty}

(***************************************************************************)
(* `sched` stands for the pair (loop, cron): "once" is loop = false, when  *)
(* the expression is never parsed; "cron" is loop = true with an           *)
(* expression Cron::parse accepts; "bad" is loop = true with one it        *)
(* rejects, and "endless" with one it never gets to the end of (a step of  *)
(* 0, cron.cpp:122).  `cmd` stands for exec_file and args.                 *)
(***************************************************************************)
Sched == {"once", "cron", "bad", "endless"}
Loadable == {"once", "cron"}

Task == [uuid : Key, cmd : {p.cmd : p \in Payload} \cup {Empty},
         sched : Sched, enable : BOOLEAN]

\* Variant of Blank: a default Task that is no Task.
BlankUnset == [uuid : {Empty}, cmd : {Empty}, sched : {"unset"},
               enable : BOOLEAN]

\* Task(): empty strings, loop and enable uninitialised; "" does not parse.
Blank == [uuid : {Empty}, cmd : {Empty}, sched : {"once", "bad"},
          enable : BOOLEAN]

NoTask == [uuid |-> Empty, cmd |-> Empty, sched |-> "once", enable |-> FALSE]

ASSUME ConstantsAssumption ==
  /\ Empty \notin Uuid
  /\ Kind \subseteq AllKinds
  /\ \A p \in Payload : p.sched \in Sched /\ p.enable \in BOOLEAN
  /\ Absent \notin Task
  /\ MaxRequests \in Nat /\ MaxFaults \in Nat /\ MaxCrashes \in Nat

VARIABLES
  table,     \* TaskTable::table
  db,        \* the rows of the SQLite table `task`
  mutex,     \* the thread that holds TaskTable::mutex, as a set
  pc,        \* where each worker thread is in its handler
  req,       \* the request it handles
  task,      \* its local Task
  isExist,   \* the local isExist of set()
  status,    \* the last status it answered
  blamed,    \* history: keys of which a statement failed since the last start
  phantoms,  \* history: keys that get() inserted since the last start
  requests, faults, crashes

vars == <<table, db, mutex, pc, req, task, isExist, status, blamed, phantoms,
          requests, faults, crashes>>
counters == <<requests, faults, crashes>>
history == <<blamed, phantoms>>
store == <<table, db, mutex, history>>

Location == {"idle", "exist", "get", "run", "lockSet", "set", "head", "tail",
             "save", "lockRemove", "erase", "deleteRow"}
InSet == {"set", "head", "tail", "save"}
InRemove == {"erase", "deleteRow"}

Status == {"none", "Normal", "OperationFail", "TaskNotExit"}

Request == [kind : AllKinds, uuid : Key, enable : BOOLEAN]

NoRequest == [kind |-> "detail", uuid |-> Empty, enable |-> FALSE]

Init ==
  /\ table = [k \in Key |-> Absent]
  /\ db = [k \in Key |-> Absent]
  /\ mutex = {}
  /\ pc = [w \in Worker |-> "idle"]
  /\ req = [w \in Worker |-> NoRequest]
  /\ task = [w \in Worker |-> NoTask]
  /\ isExist = [w \in Worker |-> FALSE]
  /\ status = [w \in Worker |-> "none"]
  /\ blamed = {} /\ phantoms = {}
  /\ requests = 0 /\ faults = 0 /\ crashes = 0

-----------------------------------------------------------------------------
(* The handlers, up to the point where they lock the mutex.                *)

Goto(w, l) == pc' = [pc EXCEPT ![w] = l]

Answer(w, s) ==
  /\ Goto(w, "idle")
  /\ status' = [status EXCEPT ![w] = s]
  /\ req' = [req EXCEPT ![w] = NoRequest]
  /\ task' = [task EXCEPT ![w] = NoTask]

\* server.Post("/task"): the body is the Task to store, under the uuid.
ReceiveSave(w) ==
  \E u \in Uuid, p \in Payload :
    /\ req' = [req EXCEPT ![w] =
                 [kind |-> "save", uuid |-> u, enable |-> p.enable]]
    /\ task' = [task EXCEPT ![w] = [uuid |-> u, cmd |-> p.cmd,
                                    sched |-> p.sched, enable |-> p.enable]]
    /\ Goto(w, "lockSet")

\* The handlers that begin with exist(uuid); GET /task takes an empty one.
ReceiveOther(w) ==
  /\ \E k \in {"delete", "status", "run", "detail"} \cap Kind, u \in Key,
        e \in BOOLEAN :
       /\ u = Empty => k = "detail"
       /\ e => k = "status"
       /\ req' = [req EXCEPT ![w] = [kind |-> k, uuid |-> u, enable |-> e]]
  /\ Goto(w, "exist")
  /\ UNCHANGED task

Receive(w) ==
  /\ pc[w] = "idle"
  /\ requests < MaxRequests
  /\ requests' = requests + 1
  /\ \/ "save" \in Kind /\ ReceiveSave(w)
     \/ ReceiveOther(w)
  /\ status' = [status EXCEPT ![w] = "none"]
  /\ UNCHANGED <<store, isExist, faults, crashes>>

\* exist(), without the mutex
Exist(w) ==
  /\ pc[w] = "exist"
  /\ IF table[req[w].uuid] = Absent
       THEN Answer(w, "TaskNotExit")
       ELSE /\ Goto(w, IF req[w].kind = "delete" THEN "lockRemove" ELSE "get")
            /\ UNCHANGED <<status, req, task>>
  /\ UNCHANGED <<store, isExist, counters>>

\* get() is `return table[uuid]`: it inserts a default Task when the key left
\* the map after exist() saw it.
Get(w) ==
  /\ pc[w] = "get"
  /\ \E t \in (IF table[req[w].uuid] = Absent THEN Blank
                                              ELSE {table[req[w].uuid]}) :
       /\ table' = [table EXCEPT ![req[w].uuid] = t]
       /\ phantoms' = phantoms \cup {k \in {req[w].uuid} : table[k] = Absent}
       /\ CASE req[w].kind = "detail" -> Answer(w, "Normal")
            [] req[w].kind = "run" ->
                 /\ Goto(w, "run")
                 /\ task' = [task EXCEPT ![w] = t]
                 /\ UNCHANGED <<status, req>>
            [] OTHER ->
                 /\ Goto(w, "lockSet")
                 /\ task' = [task EXCEPT ![w] =
                               [t EXCEPT !.enable = req[w].enable]]
                 /\ UNCHANGED <<status, req>>
  /\ UNCHANGED <<db, mutex, blamed, isExist, counters>>

\* server.Post("/task/run"): hands its copy to TaskTable::run(), which starts
\* a thread that touches no task, and answers.
Run(w) ==
  /\ pc[w] = "run"
  /\ Answer(w, "Normal")
  /\ UNCHANGED <<store, isExist, counters>>

-----------------------------------------------------------------------------
(* set() and remove().                                                     *)

Lock(w) ==
  /\ pc[w] \in {"lockSet", "lockRemove"}
  /\ mutex = {}
  /\ mutex' = {w}
  /\ Goto(w, IF pc[w] = "lockSet" THEN "set" ELSE "erase")
  /\ UNCHANGED <<table, db, history, req, task, isExist, status,
                 counters>>

\* Variant of Leave: an exception leaves the mutex locked (no lock_guard).
LeaveLocked(w, s) ==
  /\ mutex' = IF s = "Normal" THEN mutex \ {w} ELSE mutex
  /\ isExist' = [isExist EXCEPT ![w] = FALSE]
  /\ Answer(w, s)

\* An exception or a return: the lock_guard releases, the handler answers.
Leave(w, s) ==
  /\ mutex' = mutex \ {w}
  /\ isExist' = [isExist EXCEPT ![w] = FALSE]
  /\ Answer(w, s)

\* A statement that cannot be prepared, or does not step to SQLITE_DONE.
Fault(w, k) ==
  /\ faults < MaxFaults
  /\ faults' = faults + 1
  /\ blamed' = blamed \cup {k}
  /\ Leave(w, "OperationFail")
  /\ UNCHANGED <<table, db, phantoms, requests, crashes>>

\* Cron::parse does not return; the mutex is held.
Hangs(w) == pc[w] = "set" /\ task[w].sched = "endless"

\* Variant of SetInsert: the exception of Cron::parse is swallowed, as the
\* constructor does.
SetInsertUnparsed(w) ==
  LET k == task[w].uuid IN
  /\ pc[w] = "set" /\ ~Hangs(w)
  /\ \E t \in (IF table[k] = Absent THEN Blank ELSE {table[k]}) :
       table' = [table EXCEPT ![k] = t]
  /\ isExist' = [isExist EXCEPT ![w] = table[k] # Absent]
  /\ Goto(w, "head")
  /\ UNCHANGED <<mutex, status, req, task, db, history, counters>>

\* isExist, Cron::parse, and the insertion that operator[] does before the
\* assignment.
SetInsert(w) ==
  LET k == task[w].uuid IN
  /\ pc[w] = "set" /\ ~Hangs(w)
  /\ IF task[w].sched = "bad"
       THEN /\ Leave(w, "OperationFail")
            /\ UNCHANGED table
       ELSE /\ \E t \in (IF table[k] = Absent THEN Blank ELSE {table[k]}) :
                 table' = [table EXCEPT ![k] = t]
            /\ isExist' = [isExist EXCEPT ![w] = table[k] # Absent]
            /\ Goto(w, "head")
            /\ UNCHANGED <<mutex, status, req, task>>
  /\ UNCHANGED <<db, history, counters>>

\* The memberwise assignment: uuid, execFile and args first ...
SetHead(w) ==
  LET k == task[w].uuid IN
  /\ pc[w] = "head"
  /\ table' = [table EXCEPT ![k] =
                 [uuid |-> task[w].uuid, cmd |-> task[w].cmd,
                  sched |-> table[k].sched, enable |-> table[k].enable]]
  /\ Goto(w, "tail")
  /\ UNCHANGED <<db, mutex, history, req, task, isExist, status,
                 counters>>

\* ... then loop, enable, cron and cronRange.
SetTail(w) ==
  /\ pc[w] = "tail"
  /\ table' = [table EXCEPT ![task[w].uuid] = task[w]]
  /\ Goto(w, "save")
  /\ UNCHANGED <<db, mutex, history, req, task, isExist, status,
                 counters>>

\* Variant of SetRow: always an UPDATE.
SetRowUpdates(w) ==
  LET k == task[w].uuid IN
  /\ pc[w] = "save"
  /\ db' = IF db[k] # Absent THEN [db EXCEPT ![k] = task[w]] ELSE db
  /\ Leave(w, "Normal")
  /\ UNCHANGED <<table, history, counters>>

\* UPDATE ... WHERE uuid=? is done even if it matches no row; INSERT fails on
\* the primary key.
SetRow(w) ==
  LET k == task[w].uuid IN
  /\ pc[w] = "save"
  /\ db' = IF isExist[w] = (db[k] # Absent)
             THEN [db EXCEPT ![k] = task[w]] ELSE db
  /\ Leave(w, IF ~isExist[w] /\ db[k] # Absent THEN "OperationFail"
                                               ELSE "Normal")
  /\ UNCHANGED <<table, history, counters>>

SetFault(w) == pc[w] = "save" /\ Fault(w, task[w].uuid)

\* Variant of Erase: the answer does not wait for the DELETE.
EraseOnly(w) ==
  /\ pc[w] = "erase"
  /\ table' = [table EXCEPT ![req[w].uuid] = Absent]
  /\ Leave(w, "Normal")
  /\ UNCHANGED <<db, history, counters>>

\* remove(): nothing to do for a key another thread erased meanwhile.
Erase(w) ==
  LET k == req[w].uuid IN
  /\ pc[w] = "erase"
  /\ IF table[k] = Absent
       THEN Leave(w, "Normal")
       ELSE Goto(w, "deleteRow") /\ UNCHANGED <<mutex, isExist, status, req, task>>
  /\ table' = [table EXCEPT ![k] = Absent]
  /\ UNCHANGED <<db, history, counters>>

\* Variant of DeleteRow: the DELETE matches another column and removes nothing.
DeleteNoRow(w) ==
  /\ pc[w] = "deleteRow"
  /\ Leave(w, "Normal")
  /\ UNCHANGED <<table, db, history, counters>>

DeleteRow(w) ==
  /\ pc[w] = "deleteRow"
  /\ db' = [db EXCEPT ![req[w].uuid] = Absent]
  /\ Leave(w, "Normal")
  /\ UNCHANGED <<table, history, counters>>

DeleteFault(w) == pc[w] = "deleteRow" /\ Fault(w, req[w].uuid)

-----------------------------------------------------------------------------
\* Variant of Crash: the constructor does not load the rows.
CrashUnloaded ==
  /\ crashes < MaxCrashes
  /\ crashes' = crashes + 1
  /\ table' = [k \in Key |-> Absent]
  /\ mutex' = {}
  /\ pc' = [w \in Worker |-> "idle"]
  /\ req' = [w \in Worker |-> NoRequest]
  /\ task' = [w \in Worker |-> NoTask]
  /\ isExist' = [w \in Worker |-> FALSE]
  /\ status' = [w \in Worker |-> "none"]
  /\ blamed' = {} /\ phantoms' = {}
  /\ UNCHANGED <<db, requests, faults>>

\* The process dies and is started again (README: Restart = always); the
\* constructor fills the map from the database before the server listens.
Crash ==
  /\ crashes < MaxCrashes
  /\ crashes' = crashes + 1
  /\ table' = db
  /\ mutex' = {}
  /\ pc' = [w \in Worker |-> "idle"]
  /\ req' = [w \in Worker |-> NoRequest]
  /\ task' = [w \in Worker |-> NoTask]
  /\ isExist' = [w \in Worker |-> FALSE]
  /\ status' = [w \in Worker |-> "none"]
  /\ blamed' = {} /\ phantoms' = {}
  /\ UNCHANGED <<db, requests, faults>>

Step(w) ==
  \/ Exist(w) \/ Get(w) \/ Run(w) \/ Lock(w)
  \/ SetInsert(w) \/ SetHead(w) \/ SetTail(w) \/ SetRow(w) \/ SetFault(w)
  \/ Erase(w) \/ DeleteRow(w) \/ DeleteFault(w)

\* Nothing left to do within the bounds: the server waits for a connection.  Or
\* a thread goes round in Cron::parse.
Wait ==
  /\ \/ requests = MaxRequests /\ \A w \in Worker : pc[w] = "idle"
     \/ \E w \in Worker : Hangs(w)
  /\ UNCHANGED vars

Next == (\E w \in Worker : Receive(w) \/ Step(w)) \/ Crash \/ Wait

Spec == Init /\ [][Next]_vars

\* A running thread is scheduled: every handler takes its next step.
FairSpec == Spec /\ \A w \in Worker : WF_vars(Step(w))

-----------------------------------------------------------------------------
(* Properties.                                                             *)

\* Types, and the uuid a stored row or a request carries.
TypeOK ==
  /\ table \in [Key -> Task \cup {Absent}]
  /\ db \in [Key -> Task \cup {Absent}]
  /\ mutex \in SUBSET Worker
  /\ pc \in [Worker -> Location]
  /\ req \in [Worker -> Request]
  /\ task \in [Worker -> Task]
  /\ isExist \in [Worker -> BOOLEAN]
  /\ status \in [Worker -> Status]
  /\ blamed \in SUBSET Key /\ phantoms \in SUBSET Key
  /\ requests \in Nat /\ faults \in Nat /\ crashes \in Nat

\* The thread that holds the mutex is between the map and the row of key k.
Busy(k) ==
  \E w \in Worker :
    \/ pc[w] \in {"head", "tail", "save"} /\ task[w].uuid = k
    \/ pc[w] = "deleteRow" /\ req[w].uuid = k

(***************************************************************************)
(* Between two operations on a key, the map and the database hold the same *)
(* task for it.  It is what lets list(), and so the scheduler, work from   *)
(* the map alone, and set() choose UPDATE or INSERT from the map           *)
(* (taskTable.cpp:142, 158).  Two events spoil it until the next start: a  *)
(* failed statement, which leaves the map changed, and a get() of a key    *)
(* another thread erased, which leaves an entry without a row.             *)
(***************************************************************************)
Coherent ==
  \A k \in Key : k \notin blamed /\ ~Busy(k) =>
    table[k] = db[k] \/ (k \in phantoms /\ db[k] = Absent)

\* A row never keeps the constructor from scheduling it again: it is stored
\* under its own uuid and its expression parses (taskTable.cpp:54-75).  One
\* that does not end would stop every start.
RowsReload ==
  \A k \in Key : db[k] # Absent => db[k].uuid = k /\ db[k].sched \in Loadable

Acks(w, kind) ==
  req[w].kind = kind /\ pc[w] # "idle" /\ pc'[w] = "idle"
  /\ status'[w] = "Normal"

\* A deletion answered Normal leaves no row to come back after a restart,
\* unless a statement on that key failed (remove(), taskTable.cpp:187-203).
AckedDeleteIsGone ==
  [][\A w \in Worker : Acks(w, "delete") =>
       db'[req[w].uuid] = Absent \/ req[w].uuid \in blamed]_vars

\* A save answered Normal is in the database, unless one of the two events
\* above happened to its key (POST /task, httpThread.cpp:113-122).
AckedSaveIsStored ==
  [][\A w \in Worker : Acks(w, "save") =>
       \/ db'[task[w].uuid] = task[w]
       \/ task[w].uuid \in blamed \cup phantoms]_vars

\* What README.md:92 says of POST /task: the task is modified if the uuid
\* exists and stored as a new one if it does not, whatever else happens.
SaveAlwaysStores ==
  [][\A w \in Worker : Acks(w, "save") => db'[task[w].uuid] = task[w]]_vars

\* POST /task/status, answered Normal for a stored task, leaves the rest of
\* the task as it was stored (httpThread.cpp:198-202).
StatusKeepsTask ==
  [][\A w \in Worker : Acks(w, "status") /\ db[req[w].uuid] # Absent =>
       /\ db'[req[w].uuid] # Absent
       /\ db'[req[w].uuid].cmd = db[req[w].uuid].cmd]_vars

\* Every request is answered: no path of set() or remove(), exceptions
\* included, keeps the mutex or waits for itself, unless some thread parses an
\* expression without end.
EveryRequestAnswered ==
  \A w \in Worker :
    pc[w] # "idle" ~> pc[w] = "idle" \/ \E v \in Worker : Hangs(v)

-----------------------------------------------------------------------------
(* The inductive invariant behind them.                                    *)

\* Exactly the threads inside set() or remove() hold the mutex: at most one.
MutexInv ==
  /\ \A w \in Worker : w \in mutex <=> pc[w] \in InSet \cup InRemove
  /\ \A v, w \in mutex : v = w

\* The request a thread serves is one that leads to where it is.
KindInv ==
  \A w \in Worker :
    /\ pc[w] \in InSet \cup {"lockSet"} => req[w].kind \in {"save", "status"}
    /\ pc[w] \in InRemove \cup {"lockRemove"} => req[w].kind = "delete"
    /\ pc[w] = "run" => req[w].kind = "run"
    /\ pc[w] = "get" => req[w].kind # "delete"

\* What set() knows of the key it writes: the entry exists once operator[]
\* ran, equals the task once it is assigned, and the choice of UPDATE or
\* INSERT is right unless one of the two events spoiled the key.
WriterInv ==
  \A w \in Worker : pc[w] \in {"head", "tail", "save"} =>
    /\ task[w].sched \in Loadable
    /\ table[task[w].uuid] # Absent
    /\ pc[w] = "save" => table[task[w].uuid] = task[w]
    /\ \/ isExist[w] = (db[task[w].uuid] # Absent)
       \/ task[w].uuid \in blamed
       \/ task[w].uuid \in phantoms /\ db[task[w].uuid] = Absent

\* What remove() knows of the key it deletes: only a get() can put it back.
EraserInv ==
  \A w \in Worker : pc[w] = "deleteRow" =>
    table[req[w].uuid] = Absent \/ req[w].uuid \in phantoms

IInv == TypeOK /\ MutexInv /\ KindInv /\ WriterInv /\ EraserInv
        /\ RowsReload /\ Coherent

=============================================================================
