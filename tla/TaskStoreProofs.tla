---------------------------- MODULE TaskStoreProofs ----------------------------
(***************************************************************************)
(* TaskTable implements TaskStore, for any number of threads, keys, bodies,*)
(* requests and crashes, when clients save and delete and no statement     *)
(* fails.                                                                  *)
(***************************************************************************)
EXTENDS TaskTableRefinement, TaskTableProofs

\* Leaving set() or remove() makes a thread idle and disturbs no other.
LEMMA LeaveStore ==
  ASSUME TypeOK, StoreInv, NEW w \in Worker, NEW s \in Status, Leave(w, s),
         UNCHANGED history
  PROVE  StoreInv'
BY DEF TypeOK, StoreInv, Leave, Answer, Goto, InSet, InRemove, history

\* Without failing statements and get(), nothing spoils a key.
LEMMA StoreStep == SavesAndDeletes /\ IInv /\ StoreInv /\ [Next]_vars => StoreInv'
<1> SUFFICES ASSUME SavesAndDeletes, IInv, StoreInv, [Next]_vars PROVE StoreInv'
  OBVIOUS
<1>a. TypeOK
  BY DEF IInv
<1>b. pc \in [Worker -> Location] /\ req \in [Worker -> Request]
      /\ task \in [Worker -> Task] /\ faults \in Nat /\ MaxFaults = 0
      /\ Kind \subseteq {"save", "delete"}
  BY <1>a DEF TypeOK, SavesAndDeletes
<1>c. {"Normal", "OperationFail"} \subseteq Status
  BY DEF Status
<1>1. ASSUME NEW w \in Worker, Receive(w) PROVE StoreInv'
  <2>1. CASE ReceiveSave(w)
    BY <1>1, <1>b, <2>1 DEF Receive, ReceiveSave, Goto, StoreInv, store, history,
       InSet, InRemove
  <2>2. CASE ReceiveOther(w)
    BY <1>1, <1>b, <2>2 DEF Receive, ReceiveOther, Goto, StoreInv, store, history,
       InSet, InRemove
  <2>3. QED
    BY <1>1, <2>1, <2>2 DEF Receive
<1>2. ASSUME NEW w \in Worker, Exist(w) PROVE StoreInv'
  BY <1>2, <1>b DEF Exist, Answer, Goto, StoreInv, store, history, InSet, InRemove
<1>3. ASSUME NEW w \in Worker, Lock(w) PROVE StoreInv'
  BY <1>3, <1>b DEF Lock, Goto, StoreInv, history, InSet, InRemove
<1>4. ASSUME NEW w \in Worker, SetInsert(w) PROVE StoreInv'
  <2>1. /\ pc[w] = "set" /\ UNCHANGED history
        /\ \/ Leave(w, "OperationFail")
           \/ Goto(w, "head") /\ UNCHANGED <<req, task>>
    BY <1>4, Zenon DEF SetInsert
  <2>2. CASE Goto(w, "head") /\ UNCHANGED <<req, task>>
    BY <1>b, <2>1, <2>2 DEF Goto, StoreInv, history, InSet, InRemove
  <2>3. QED
    BY <1>a, <1>c, <2>1, <2>2, LeaveStore
<1>5. ASSUME NEW w \in Worker, SetHead(w) \/ SetTail(w) PROVE StoreInv'
  <2>1. /\ pc[w] \in InSet /\ \E l \in InSet : Goto(w, l)
        /\ UNCHANGED <<req, task, history>>
    BY <1>5, Zenon DEF SetHead, SetTail, InSet
  <2>2. QED
    BY <1>b, <2>1 DEF Goto, StoreInv, history, InSet, InRemove
<1>6. ASSUME NEW w \in Worker, SetRow(w) PROVE StoreInv'
  <2>1. UNCHANGED history /\ \E s \in {"Normal", "OperationFail"} : Leave(w, s)
    BY <1>6, Zenon DEF SetRow
  <2>2. QED
    BY <1>a, <1>c, <2>1, LeaveStore
<1>7. ASSUME NEW w \in Worker, Erase(w) PROVE StoreInv'
  <2>1. /\ pc[w] = "erase" /\ UNCHANGED history
        /\ \/ Leave(w, "Normal")
           \/ Goto(w, "deleteRow") /\ UNCHANGED <<req, task>>
    BY <1>7, Zenon DEF Erase
  <2>2. CASE Goto(w, "deleteRow") /\ UNCHANGED <<req, task>>
    BY <1>b, <2>1, <2>2 DEF Goto, StoreInv, history, InSet, InRemove
  <2>3. QED
    BY <1>a, <1>c, <2>1, <2>2, LeaveStore
<1>8. ASSUME NEW w \in Worker, DeleteRow(w) PROVE StoreInv'
  BY <1>8, <1>a, <1>c, LeaveStore DEF DeleteRow
<1>9. ASSUME NEW w \in Worker
      PROVE  ~Get(w) /\ ~Run(w) /\ ~SetFault(w) /\ ~DeleteFault(w)
  BY <1>b DEF Get, Run, SetFault, DeleteFault, Fault, StoreInv
<1>10. CASE Crash
  BY <1>10 DEF Crash, StoreInv, InSet, InRemove
<1>11. CASE UNCHANGED vars
  BY <1>11 DEF vars, StoreInv
<1>12. QED
  BY <1>1, <1>2, <1>3, <1>4, <1>5, <1>6, <1>7, <1>8, <1>9, <1>10, <1>11, Zenon
     DEF Next, Step, Wait

-----------------------------------------------------------------------------
(* The refinement.                                                         *)

\* The writes pending in TaskStore.
Pending == [w \in Worker |-> PendingWrite(w)]

\* The three cases of a pending write.
LEMMA WriteCases ==
  ASSUME NEW l, NEW r, NEW t
  PROVE  /\ l = "idle" => Write(l, r, t) = [kind |-> "none"]
         /\ l # "idle" /\ r.kind = "save" =>
              Write(l, r, t) = [kind |-> "save", uuid |-> r.uuid, task |-> t]
         /\ l # "idle" /\ r.kind # "save" =>
              Write(l, r, t) = [kind |-> "delete", uuid |-> r.uuid]
BY Zenon DEF Write

\* A step that moves only thread w changes only what w has pending.
LEMMA PendingMoves ==
  ASSUME NEW w \in Worker,
         \A v \in Worker \ {w} : /\ pc'[v] = pc[v] /\ req'[v] = req[v]
                                 /\ task'[v] = task[v]
  PROVE  /\ Pending' = [Pending EXCEPT ![w] = PendingWrite(w)']
         /\ Pending[w] = PendingWrite(w)
BY DEF Pending, PendingWrite

\* An answer ends the pending write with the same status.
LEMMA LeaveFinishes ==
  ASSUME TypeOK, NEW w \in Worker, NEW s, Answer(w, s)
  PROVE  /\ Pending' = [Pending EXCEPT ![w] = [kind |-> "none"]]
         /\ status' = [status EXCEPT ![w] = s]
<1>1. pc' = [pc EXCEPT ![w] = "idle"] /\ status' = [status EXCEPT ![w] = s]
  BY DEF Answer, Goto
<1>2. PendingWrite(w)' = [kind |-> "none"]
  <2>1. pc'[w] = "idle"
    BY <1>1 DEF TypeOK
  <2>2. QED
    BY <2>1, WriteCases DEF PendingWrite
<1>3. \A v \in Worker \ {w} : /\ pc'[v] = pc[v] /\ req'[v] = req[v]
                              /\ task'[v] = task[v]
  BY DEF TypeOK, Answer, Goto
<1>4. QED
  BY <1>1, <1>2, <1>3, PendingMoves

\* A step within a handler leaves what is pending as it is.
LEMMA InnerSteps ==
  ASSUME TypeOK, NEW w \in Worker, NEW l \in Location, Goto(w, l),
         l # "idle", pc[w] # "idle", UNCHANGED <<req, task>>
  PROVE  Pending' = Pending
<1>1. /\ pc' = [pc EXCEPT ![w] = l] /\ pc \in [Worker -> Location]
      /\ req' = req /\ task' = task
  BY DEF TypeOK, Goto
<1>2. PendingWrite(w)' = PendingWrite(w)
  <2>1. pc'[w] # "idle" /\ req'[w] = req[w] /\ task'[w] = task[w]
    BY <1>1
  <2>2. QED
    BY <2>1, WriteCases DEF PendingWrite
<1>3. Pending' = [Pending EXCEPT ![w] = PendingWrite(w)] /\ Pending[w] = PendingWrite(w)
  BY <1>1, <1>2, PendingMoves
<1>4. QED
  BY <1>3 DEF Pending

\* The initial states of TaskTable are initial states of TaskStore.
LEMMA InitStore == Init => Store!Init /\ StoreInv
<1> SUFFICES ASSUME Init PROVE Store!Init /\ StoreInv
  OBVIOUS
<1>1. ASSUME NEW w \in Worker PROVE PendingWrite(w) = [kind |-> "none"]
  BY WriteCases DEF Init, PendingWrite
<1>2. Store!Init
  BY <1>1, Zenon DEF Init, Store!Init, Store!None
<1>3. QED
  BY <1>2 DEF Init, StoreInv, InSet, InRemove

\* A received request is a call.
LEMMA ReceiveCalls ==
  ASSUME SavesAndDeletes, TypeOK, NEW w \in Worker, Receive(w)
  PROVE  Store!Call(w)
<1>1. /\ pc[w] = "idle" /\ db' = db
      /\ status' = [status EXCEPT ![w] = "none"]
      /\ ReceiveSave(w) \/ ReceiveOther(w)
  BY DEF Receive, store
<1>2. \A v \in Worker \ {w} : /\ pc'[v] = pc[v] /\ req'[v] = req[v]
                              /\ task'[v] = task[v]
  BY <1>1 DEF TypeOK, ReceiveSave, ReceiveOther, Goto
<1>3. /\ Pending' = [Pending EXCEPT ![w] = PendingWrite(w)']
      /\ Pending[w] = [kind |-> "none"]
  <2>1. PendingWrite(w) = [kind |-> "none"]
    BY <1>1, WriteCases DEF PendingWrite
  <2>2. QED
    BY <1>2, <2>1, PendingMoves
<1>4. \/ \E u \in Key, t \in Task : PendingWrite(w)' = Store!Save(u, t)
      \/ \E u \in Key : PendingWrite(w)' = Store!Delete(u)
  <2>1. CASE ReceiveSave(w)
    <3>1. PICK u \in Uuid, p \in Payload :
            /\ req' = [req EXCEPT ![w] =
                         [kind |-> "save", uuid |-> u, enable |-> p.enable]]
            /\ task' = [task EXCEPT ![w] =
                          [uuid |-> u, cmd |-> p.cmd,
                           sched |-> p.sched, enable |-> p.enable]]
            /\ Goto(w, "lockSet")
      BY <2>1 DEF ReceiveSave
    <3>2. task'[w] \in Task /\ u \in Key
      BY <3>1, TaskFacts DEF TypeOK
    <3>3. PendingWrite(w)' = Store!Save(u, task'[w])
      <4>1. /\ pc'[w] = "lockSet" /\ req'[w].kind = "save" /\ req'[w].uuid = u
        BY <3>1 DEF TypeOK, Goto
      <4>2. QED
        BY <4>1, WriteCases DEF PendingWrite, Store!Save
    <3>4. QED
      BY <3>2, <3>3
  <2>2. CASE ReceiveOther(w)
    <3>1. PICK u \in Key, e \in BOOLEAN :
            /\ req' = [req EXCEPT ![w] =
                         [kind |-> "delete", uuid |-> u, enable |-> e]]
            /\ Goto(w, "exist")
      BY <2>2 DEF ReceiveOther, SavesAndDeletes
    <3>2. PendingWrite(w)' = Store!Delete(u)
      <4>1. /\ pc'[w] = "exist" /\ req'[w].kind = "delete" /\ req'[w].uuid = u
        BY <3>1 DEF TypeOK, Goto
      <4>2. QED
        BY <4>1, WriteCases DEF PendingWrite, Store!Delete
    <3>3. QED
      BY <3>2
  <2>3. QED
    BY <1>1, <2>1, <2>2
<1>5. QED
  BY <1>1, <1>3, <1>4 DEF Store!Call, Store!None, Pending

\* A thread serving a deletion is in one of the places of the handler, and its
\* write is pending.
LEMMA PendingDelete ==
  ASSUME NEW w \in Worker, pc[w] # "idle", req[w].kind = "delete"
  PROVE  Pending[w] = [kind |-> "delete", uuid |-> req[w].uuid]
BY WriteCases DEF Pending, PendingWrite

LEMMA PendingSave ==
  ASSUME StoreInv, NEW w \in Worker, pc[w] \in InSet
  PROVE  Pending[w] = [kind |-> "save", uuid |-> task[w].uuid, task |-> task[w]]
<1>1. /\ pc[w] # "idle" /\ req[w].kind = "save" /\ req[w].uuid = task[w].uuid
  BY DEF StoreInv, InSet
<1>2. QED
  BY <1>1, WriteCases DEF Pending, PendingWrite

\* Under the invariants a key that is not in the map has no row, unless the
\* thread that erased it has still to delete the row.
LEMMA GoneFromRows ==
  ASSUME IInv, StoreInv, NEW k \in Key, table[k] = Absent
  PROVE  \/ db[k] = Absent
         \/ \E v \in Worker : pc[v] = "deleteRow" /\ req[v].uuid = k
<1>1. CASE Busy(k)
  BY <1>1 DEF Busy, IInv, WriterInv
<1>2. CASE ~Busy(k)
  BY <1>2 DEF IInv, Coherent, StoreInv
<1>3. QED
  BY <1>1, <1>2

\* exist() answers TaskNotExit: there is no row, or another thread is about to
\* delete it for a request of its own.
LEMMA ExistRefines ==
  ASSUME IInv, StoreInv, NEW w \in Worker, Exist(w)
  PROVE  Store!Refuse(w) \/ UNCHANGED Store!vars
<1>a. TypeOK /\ req[w].uuid \in Key
  BY DEF IInv, TypeOK, Request
<1>b. pc[w] = "exist" /\ req[w].kind = "delete" /\ db' = db
  BY DEF Exist, StoreInv, store
<1>1. CASE table[req[w].uuid] = Absent
  <2>1. Answer(w, "TaskNotExit")
    BY <1>1 DEF Exist
  <2>2. /\ Pending' = [Pending EXCEPT ![w] = [kind |-> "none"]]
        /\ status' = [status EXCEPT ![w] = "TaskNotExit"]
    BY <1>a, <2>1, LeaveFinishes
  <2>3. Pending[w] = [kind |-> "delete", uuid |-> req[w].uuid]
    BY <1>b, PendingDelete
  <2>4. db[req[w].uuid] = Absent \/ \E v \in Worker \ {w} : Pending[v] = Pending[w]
    <3>1. ASSUME NEW v \in Worker, pc[v] = "deleteRow", req[v].uuid = req[w].uuid
          PROVE  v # w /\ Pending[v] = Pending[w]
      <4>1. pc[v] # "idle" /\ req[v].kind = "delete"
        BY <3>1 DEF StoreInv, InRemove
      <4>2. QED
        BY <1>b, <2>3, <3>1, <4>1, PendingDelete
    <3>2. QED
      BY <1>1, <1>a, <3>1, GoneFromRows
  <2>5. QED
    BY <1>b, <2>2, <2>3, <2>4 DEF Store!Refuse, Store!Finish, Store!None, Pending
<1>2. CASE table[req[w].uuid] # Absent
  <2>1. Goto(w, "lockRemove") /\ UNCHANGED <<status, req, task>>
    BY <1>2, <1>b DEF Exist
  <2>2. Pending' = Pending
    BY <1>a, <1>b, <2>1, InnerSteps DEF Location
  <2>3. QED
    BY <1>b, <2>1, <2>2 DEF Store!vars, Pending
<1>3. QED
  BY <1>1, <1>2

\* set() refuses what Cron::parse() refuses, and nothing else.
LEMMA SetInsertRefines ==
  ASSUME IInv, StoreInv, NEW w \in Worker, SetInsert(w)
  PROVE  Store!Refuse(w) \/ UNCHANGED Store!vars
<1>a. TypeOK /\ pc[w] = "set" /\ db' = db
  BY Zenon DEF SetInsert, IInv
<1>1. CASE task[w].sched = "bad"
  <2>1. Answer(w, "OperationFail")
    BY <1>1, Zenon DEF SetInsert, Leave
  <2>2. /\ Pending' = [Pending EXCEPT ![w] = [kind |-> "none"]]
        /\ status' = [status EXCEPT ![w] = "OperationFail"]
    BY <1>a, <2>1, LeaveFinishes
  <2>3. Pending[w].kind = "save" /\ Unschedulable(Pending[w].task)
    <3>1. Pending[w].kind = "save" /\ Pending[w].task = task[w]
      <4>1. pc[w] \in InSet
        BY <1>a DEF InSet
      <4>2. Pending[w] = [kind |-> "save", uuid |-> task[w].uuid, task |-> task[w]]
        BY <4>1, PendingSave
      <4>3. QED
        BY <4>2
    <3>2. Unschedulable(task[w])
      BY <1>1 DEF Unschedulable, Loadable
    <3>3. QED
      BY <3>1, <3>2, Zenon
  <2>4. QED
    BY <1>a, <2>2, <2>3 DEF Store!Refuse, Store!Finish, Store!None, Pending
<1>2. CASE task[w].sched # "bad"
  <2>1. Goto(w, "head") /\ UNCHANGED <<status, req, task>>
    BY <1>2, Zenon DEF SetInsert
  <2>2. Pending' = Pending
    BY <1>a, <2>1, InnerSteps DEF Location
  <2>3. QED
    BY <1>a, <2>1, <2>2 DEF Store!vars, Pending
<1>3. QED
  BY <1>1, <1>2

\* The statement that writes the row is where a save takes effect.
LEMMA SetRowRefines ==
  ASSUME IInv, StoreInv, NEW w \in Worker, SetRow(w)
  PROVE  Store!Commit(w)
<1>a. TypeOK /\ pc[w] = "save" /\ task[w] \in Task /\ task[w].uuid \in Key
  BY Zenon DEF SetRow, IInv, TypeOK, Task
<1>1. /\ isExist[w] = (db[task[w].uuid] # Absent) /\ isExist[w] \in BOOLEAN
      /\ task[w].sched \in Loadable
  BY <1>a DEF IInv, WriterInv, StoreInv, TypeOK
<1>2. /\ db' = [db EXCEPT ![task[w].uuid] = task[w]]
      /\ Answer(w, "Normal")
  BY <1>1, Zenon DEF SetRow, Leave
<1>3. /\ Pending' = [Pending EXCEPT ![w] = [kind |-> "none"]]
      /\ status' = [status EXCEPT ![w] = "Normal"]
  BY <1>a, <1>2, LeaveFinishes
<1>4. /\ Pending[w].kind = "save" /\ ~Unschedulable(Pending[w].task)
      /\ Pending[w].uuid = task[w].uuid /\ Pending[w].task = task[w]
  <2>1. /\ Pending[w].kind = "save" /\ Pending[w].uuid = task[w].uuid
        /\ Pending[w].task = task[w]
    <3>1. pc[w] \in InSet
      BY <1>a DEF InSet
    <3>2. Pending[w] = [kind |-> "save", uuid |-> task[w].uuid, task |-> task[w]]
      BY <3>1, PendingSave
    <3>3. QED
      BY <3>2
  <2>2. ~Unschedulable(task[w])
    BY <1>1 DEF Unschedulable
  <2>3. QED
    BY <2>1, <2>2, Zenon
<1>5. QED
  BY <1>2, <1>3, <1>4 DEF Store!Commit, Store!Finish, Store!None, Pending

\* remove() takes effect when it deletes the row, or finds the entry gone and
\* so, with the mutex, the row gone too.
LEMMA EraseRefines ==
  ASSUME IInv, StoreInv, NEW w \in Worker, Erase(w)
  PROVE  Store!Commit(w) \/ UNCHANGED Store!vars
<1>a. /\ TypeOK /\ pc[w] = "erase" /\ db' = db
      /\ req[w].kind = "delete" /\ req[w].uuid \in Key
      /\ db \in [Key -> Task \cup {Absent}]
  BY Zenon DEF Erase, IInv, TypeOK, StoreInv, InRemove, Request
<1>1. CASE table[req[w].uuid] = Absent
  <2>1. Answer(w, "Normal")
    BY <1>1, Zenon DEF Erase, Leave
  <2>2. /\ Pending' = [Pending EXCEPT ![w] = [kind |-> "none"]]
        /\ status' = [status EXCEPT ![w] = "Normal"]
    BY <1>a, <2>1, LeaveFinishes
  <2>3. Pending[w] = [kind |-> "delete", uuid |-> req[w].uuid]
    BY <1>a, PendingDelete
  <2>4. db[req[w].uuid] = Absent
    <3>1. ~Busy(req[w].uuid)
      BY <1>a, BusyKey DEF IInv, InRemove
    <3>2. QED
      BY <1>1, <1>a, <3>1 DEF IInv, Coherent, StoreInv
  <2>5. db' = [db EXCEPT ![req[w].uuid] = Absent]
    BY <1>a, <2>4
  <2>6. Pending[w].kind = "delete" /\ Pending[w].uuid = req[w].uuid
    BY <2>3
  <2>7. QED
    BY <2>2, <2>5, <2>6, Zenon DEF Store!Commit, Store!Finish, Store!None, Pending
<1>2. CASE table[req[w].uuid] # Absent
  <2>1. Goto(w, "deleteRow") /\ UNCHANGED <<status, req, task>>
    BY <1>2, Zenon DEF Erase
  <2>2. Pending' = Pending
    BY <1>a, <2>1, InnerSteps DEF Location
  <2>3. QED
    BY <1>a, <2>1, <2>2 DEF Store!vars, Pending
<1>3. QED
  BY <1>1, <1>2

LEMMA DeleteRowRefines ==
  ASSUME IInv, StoreInv, NEW w \in Worker, DeleteRow(w)
  PROVE  Store!Commit(w)
<1>1. /\ TypeOK /\ pc[w] = "deleteRow" /\ req[w].kind = "delete"
      /\ db' = [db EXCEPT ![req[w].uuid] = Absent] /\ Answer(w, "Normal")
  BY Zenon DEF DeleteRow, Leave, IInv, StoreInv, InRemove
<1>2. /\ Pending' = [Pending EXCEPT ![w] = [kind |-> "none"]]
      /\ status' = [status EXCEPT ![w] = "Normal"]
  BY <1>1, LeaveFinishes
<1>3. Pending[w] = [kind |-> "delete", uuid |-> req[w].uuid]
  BY <1>1, PendingDelete
<1>4. Pending[w].kind = "delete" /\ Pending[w].uuid = req[w].uuid
  BY <1>3
<1>5. QED
  BY <1>1, <1>2, <1>4, Zenon DEF Store!Commit, Store!Finish, Store!None, Pending

\* The other steps of set() and remove() change nothing that is stored,
\* pending or answered.
LEMMA OthersStutter ==
  ASSUME IInv, NEW w \in Worker, Lock(w) \/ SetHead(w) \/ SetTail(w)
  PROVE  UNCHANGED Store!vars
<1>1. /\ TypeOK /\ pc[w] # "idle"
      /\ \E l \in Location \ {"idle"} : Goto(w, l)
      /\ UNCHANGED <<db, status, req, task>>
  BY DEF Lock, SetHead, SetTail, IInv, Location
<1>2. Pending' = Pending
  BY <1>1, InnerSteps
<1>3. QED
  BY <1>1, <1>2 DEF Store!vars, Pending

\* A crash loses what is pending and keeps what is stored.
LEMMA CrashRefines == Crash => Store!Crash
<1> SUFFICES ASSUME Crash PROVE Store!Crash
  OBVIOUS
<1>1. ASSUME NEW w \in Worker PROVE PendingWrite(w)' = [kind |-> "none"]
  BY WriteCases DEF Crash, PendingWrite
<1>2. QED
  BY <1>1, Zenon DEF Crash, Store!Crash, Store!None

\* Every step is a step of TaskStore or leaves it alone.
LEMMA StepRefines ==
  SavesAndDeletes /\ IInv /\ StoreInv /\ [Next]_vars => [Store!Next]_(Store!vars)
<1> SUFFICES ASSUME SavesAndDeletes, IInv, StoreInv, [Next]_vars
             PROVE  Store!Next \/ UNCHANGED Store!vars
  OBVIOUS
<1>1. ASSUME NEW w \in Worker, Receive(w) PROVE Store!Call(w)
  BY <1>1, ReceiveCalls DEF IInv
<1>2. ASSUME NEW w \in Worker, Step(w)
      PROVE  Store!Commit(w) \/ Store!Refuse(w) \/ UNCHANGED Store!vars
  <2>1. ~Get(w) /\ ~Run(w) /\ ~SetFault(w) /\ ~DeleteFault(w)
    BY DEF Get, Run, SetFault, DeleteFault, Fault, StoreInv, SavesAndDeletes,
       IInv, TypeOK
  <2>2. QED
    BY <1>2, <2>1, ExistRefines, SetInsertRefines, SetRowRefines, EraseRefines,
       DeleteRowRefines, OthersStutter DEF Step
<1>3. CASE UNCHANGED vars
  BY <1>3 DEF vars, Store!vars, PendingWrite
<1>4. QED
  BY <1>1, <1>2, <1>3, CrashRefines, Zenon DEF Next, Wait, Store!Next

\* When clients only save and delete and no statement fails, the task API is
\* an atomic, durable map: each save or deletion answered Normal took effect
\* at one moment between its request and its answer, a refused one had no
\* effect, and a crash loses what was not answered and nothing else
\* (taskTable.cpp:135-203, httpThread.cpp:100-160).
THEOREM ImplementsStore ==
  ASSUME SavesAndDeletes
  PROVE  Spec => StoreSpec
<1>1. Init => Store!Init /\ StoreInv
  BY InitStore
<1>2. IInv /\ StoreInv /\ [Next]_vars => StoreInv' /\ [Store!Next]_(Store!vars)
  BY StoreStep, StepRefines
<1>3. QED
  BY Invariance, <1>1, <1>2, PTL DEF Spec, StoreSpec, Store!Spec

=============================================================================
