--------------------------- MODULE TaskTableProofs ---------------------------
(***************************************************************************)
(* Proofs about TaskTable, for any number of threads, keys and payloads    *)
(* and any bounds.                                                         *)
(***************************************************************************)
EXTENDS TaskTable, TLAPS

USE ConstantsAssumption

\* The default values are Tasks, and a body received under a uuid is one.
LEMMA TaskFacts ==
  /\ NoTask \in Task
  /\ Blank \subseteq Task
  /\ NoRequest \in Request
  /\ \A u \in Uuid, p \in Payload :
       [uuid |-> u, cmd |-> p.cmd, sched |-> p.sched, enable |-> p.enable]
         \in Task
  /\ Uuid \subseteq Key /\ Empty \in Key
<1>1. Uuid \subseteq Key /\ Empty \in Key
  BY DEF Key
<1>2. NoTask \in Task /\ Blank \subseteq Task
  BY <1>1 DEF NoTask, Blank, Task, Sched
<1>3. NoRequest \in Request
  BY <1>1 DEF NoRequest, Request, AllKinds
<1>4. ASSUME NEW u \in Uuid, NEW p \in Payload
      PROVE  [uuid |-> u, cmd |-> p.cmd, sched |-> p.sched,
              enable |-> p.enable] \in Task
  BY <1>1, <1>4 DEF Task
<1>5. QED
  BY <1>1, <1>2, <1>3, <1>4

\* A Task with some of its fields replaced is a Task.
LEMMA TaskUpdates ==
  ASSUME NEW t \in Task, NEW s \in Task, NEW e \in BOOLEAN
  PROVE  /\ [t EXCEPT !.enable = e] \in Task
         /\ [uuid |-> t.uuid, cmd |-> t.cmd,
             sched |-> s.sched, enable |-> s.enable] \in Task
         /\ t \in Task \cup {Absent} /\ t # Absent
BY DEF Task

-----------------------------------------------------------------------------
\* The initial state satisfies the inductive invariant.
LEMMA InitIInv == Init => IInv
<1> SUFFICES ASSUME Init PROVE IInv
  OBVIOUS
<1>1. TypeOK
  BY TaskFacts DEF Init, TypeOK, Location, Status
<1>2. MutexInv /\ KindInv /\ WriterInv /\ EraserInv /\ RowsReload /\ Coherent
  BY DEF Init, MutexInv, KindInv, WriterInv, EraserInv, RowsReload,
         Coherent, InSet, InRemove
<1>3. QED
  BY <1>1, <1>2 DEF IInv

\* Releasing the mutex and answering preserves the types of what it assigns.
LEMMA LeaveTypes ==
  ASSUME TypeOK, NEW w \in Worker, NEW s \in Status, Leave(w, s)
  PROVE  /\ mutex' \in SUBSET Worker
         /\ pc' \in [Worker -> Location]
         /\ req' \in [Worker -> Request]
         /\ task' \in [Worker -> Task]
         /\ isExist' \in [Worker -> BOOLEAN]
         /\ status' \in [Worker -> Status]
BY TaskFacts DEF TypeOK, Leave, Answer, Goto, Location

\* Every step preserves the types.
LEMMA TypeStep == TypeOK /\ WriterInv /\ [Next]_vars => TypeOK'
<1> SUFFICES ASSUME TypeOK, WriterInv, [Next]_vars PROVE TypeOK'
  OBVIOUS
<1> USE TaskFacts DEF TypeOK, Location, Status, history
<1>1. ASSUME NEW w \in Worker, Receive(w) PROVE TypeOK'
  <2>1. CASE ReceiveSave(w)
    <3>1. PICK u \in Uuid, p \in Payload :
            /\ req' = [req EXCEPT ![w] =
                         [kind |-> "save", uuid |-> u, enable |-> p.enable]]
            /\ task' = [task EXCEPT ![w] =
                          [uuid |-> u, cmd |-> p.cmd,
                           sched |-> p.sched, enable |-> p.enable]]
      BY <2>1 DEF ReceiveSave
    <3>2. req' \in [Worker -> Request] /\ task' \in [Worker -> Task]
      <4>1. [kind |-> "save", uuid |-> u, enable |-> p.enable] \in Request
        BY DEF Request, AllKinds
      <4>2. QED
        BY <3>1, <4>1
    <3>3. QED
      BY <1>1, <2>1, <3>2 DEF Receive, ReceiveSave, Goto, store
  <2>2. CASE ReceiveOther(w)
    <3>1. req' \in [Worker -> Request]
      BY <2>2 DEF ReceiveOther, Request, AllKinds, Goto
    <3>2. QED
      BY <1>1, <2>2, <3>1 DEF Receive, ReceiveOther, Goto, store
  <2>3. QED
    BY <1>1, <2>1, <2>2 DEF Receive
<1>2. ASSUME NEW w \in Worker, Exist(w) PROVE TypeOK'
  BY <1>2 DEF Exist, Answer, Goto, store, counters
<1>3. ASSUME NEW w \in Worker, Get(w) PROVE TypeOK'
  <2>1. PICK t \in (IF table[req[w].uuid] = Absent THEN Blank
                                       ELSE {table[req[w].uuid]}) :
          /\ table' = [table EXCEPT ![req[w].uuid] = t]
          /\ CASE req[w].kind = "detail" -> Answer(w, "Normal")
               [] req[w].kind = "run" ->
                    /\ Goto(w, "run")
                    /\ task' = [task EXCEPT ![w] = t]
                    /\ UNCHANGED <<status, req>>
               [] OTHER ->
                    /\ Goto(w, "lockSet")
                    /\ task' = [task EXCEPT ![w] =
                                  [t EXCEPT !.enable = req[w].enable]]
                    /\ UNCHANGED <<status, req>>
    BY <1>3 DEF Get
  <2>2. req[w] \in Request /\ req[w].uuid \in Key /\ req[w].enable \in BOOLEAN
    BY DEF Request
  <2>3. t \in Task
    BY <2>1, <2>2
  <2>4. [t EXCEPT !.enable = req[w].enable] \in Task
    BY <2>2, <2>3, TaskUpdates
  <2>5. table' \in [Key -> Task \cup {Absent}] /\ phantoms' \subseteq Key
    BY <1>3, <2>1, <2>2, <2>3 DEF Get
  <2>6. CASE req[w].kind = "detail"
    BY <1>3, <2>1, <2>5, <2>6 DEF Get, Answer, Goto, counters
  <2>7. CASE req[w].kind = "run"
    BY <1>3, <2>1, <2>3, <2>5, <2>7 DEF Get, Goto, counters
  <2>8. CASE req[w].kind \notin {"detail", "run"}
    BY <1>3, <2>1, <2>4, <2>5, <2>8 DEF Get, Goto, counters
  <2>9. QED
    BY <2>6, <2>7, <2>8
<1>4. ASSUME NEW w \in Worker, Run(w) PROVE TypeOK'
  BY <1>4 DEF Run, Answer, Goto, store, counters
<1>5. ASSUME NEW w \in Worker, Lock(w) PROVE TypeOK'
  BY <1>5 DEF Lock, Goto, counters
<1>6. ASSUME NEW w \in Worker, SetInsert(w) PROVE TypeOK'
  <2>1. task[w].uuid \in Key
    BY DEF Task
  <2>2. CASE task[w].sched = "bad"
    <3>1. Leave(w, "OperationFail") /\ UNCHANGED table
      BY <1>6, <2>2, Zenon DEF SetInsert
    <3>2. UNCHANGED <<db, history, counters>>
      BY <1>6, Zenon DEF SetInsert
    <3>3. QED
      BY <3>1, <3>2 DEF Leave, Answer, Goto, counters
  <2>3. CASE task[w].sched # "bad"
    <3>1. PICK t \in (IF table[task[w].uuid] = Absent
                        THEN Blank ELSE {table[task[w].uuid]}) :
            table' = [table EXCEPT ![task[w].uuid] = t]
      BY <1>6, <2>3 DEF SetInsert
    <3>2. table' \in [Key -> Task \cup {Absent}]
      BY <2>1, <3>1
    <3>3. QED
      BY <1>6, <2>3, <3>2 DEF SetInsert, Goto, counters
  <2>4. QED
    BY <2>2, <2>3
<1>7. ASSUME NEW w \in Worker, SetHead(w) PROVE TypeOK'
  <2>1. task[w] \in Task /\ task[w].uuid \in Key
    BY DEF Task
  <2>2. table[task[w].uuid] \in Task
    BY <1>7, <2>1 DEF SetHead, WriterInv
  <2>3. [uuid |-> task[w].uuid, cmd |-> task[w].cmd,
         sched |-> table[task[w].uuid].sched,
         enable |-> table[task[w].uuid].enable] \in Task
    BY <2>1, <2>2, TaskUpdates
  <2>4. table' \in [Key -> Task \cup {Absent}]
    BY <1>7, <2>1, <2>3 DEF SetHead
  <2>5. QED
    BY <1>7, <2>4 DEF SetHead, Goto, counters
<1>8. ASSUME NEW w \in Worker, SetTail(w) PROVE TypeOK'
  BY <1>8 DEF SetTail, Goto, counters
<1>9. ASSUME NEW w \in Worker, SetRow(w) PROVE TypeOK'
  <2>1. PICK s \in Status : Leave(w, s)
    BY <1>9 DEF SetRow
  <2>2. db' \in [Key -> Task \cup {Absent}]
    BY <1>9 DEF SetRow
  <2>3. UNCHANGED <<table, history, counters>>
    BY <1>9, Zenon DEF SetRow
  <2>4. QED
    BY <2>1, <2>2, <2>3 DEF Leave, Answer, Goto, counters
<1>10. ASSUME NEW w \in Worker, SetFault(w) PROVE TypeOK'
  <2>1. task[w].uuid \in Key
    BY DEF Task
  <2>2. QED
    BY <1>10, <2>1 DEF SetFault, Fault, Leave, Answer, Goto
<1>11. ASSUME NEW w \in Worker, Erase(w) PROVE TypeOK'
  <2>1. table' \in [Key -> Task \cup {Absent}]
    BY <1>11, Zenon DEF Erase
  <2>2. UNCHANGED <<db, history, counters>>
    BY <1>11, Zenon DEF Erase
  <2>3. CASE table[req[w].uuid] = Absent
    <3>1. Leave(w, "Normal")
      BY <1>11, <2>3, Zenon DEF Erase
    <3>2. QED
      BY <3>1, <2>1, <2>2, LeaveTypes DEF counters
  <2>4. CASE table[req[w].uuid] # Absent
    <3>1. Goto(w, "deleteRow") /\ UNCHANGED <<mutex, isExist, status, req, task>>
      BY <1>11, <2>4, Zenon DEF Erase
    <3>2. QED
      BY <3>1, <2>1, <2>2 DEF Goto, counters
  <2>5. QED
    BY <2>3, <2>4
<1>12. ASSUME NEW w \in Worker, DeleteRow(w) PROVE TypeOK'
  BY <1>12 DEF DeleteRow, Leave, Answer, Goto, counters
<1>13. ASSUME NEW w \in Worker, DeleteFault(w) PROVE TypeOK'
  <2>1. req[w].uuid \in Key
    BY DEF Request
  <2>2. QED
    BY <1>13, <2>1 DEF DeleteFault, Fault, Leave, Answer, Goto
<1>14. CASE Crash
  BY <1>14 DEF Crash
<1>15. CASE UNCHANGED vars
  BY <1>15 DEF vars
<1>16. QED
  BY <1>1, <1>2, <1>3, <1>4, <1>5, <1>6, <1>7, <1>8, <1>9, <1>10, <1>11,
     <1>12, <1>13, <1>14, <1>15 DEF Next, Step, Wait

-----------------------------------------------------------------------------
\* Only one thread at a time is inside set() or remove().
LEMMA Alone ==
  ASSUME MutexInv, NEW v \in Worker, NEW w \in Worker,
         pc[v] \in InSet \cup InRemove, pc[w] \in InSet \cup InRemove
  PROVE  v = w
BY DEF MutexInv

\* What each action does to the mutex and to the location of its thread.
LEMMA Moves ==
  ASSUME TypeOK, NEW w \in Worker, Receive(w) \/ Step(w)
  PROVE  \E l \in Location :
    /\ pc' = [pc EXCEPT ![w] = l]
    /\ \/ /\ pc[w] \notin InSet \cup InRemove
          /\ l \notin InSet \cup InRemove
          /\ mutex' = mutex
       \/ /\ pc[w] \notin InSet \cup InRemove
          /\ l \in InSet \cup InRemove
          /\ mutex = {} /\ mutex' = {w}
       \/ /\ pc[w] \in InSet \cup InRemove
          /\ l \in InSet \cup InRemove
          /\ mutex' = mutex
       \/ /\ pc[w] \in InSet \cup InRemove
          /\ l = "idle"
          /\ mutex' = mutex \ {w}
<1> USE DEF Location, InSet, InRemove
<1>1. CASE Receive(w)
  BY <1>1 DEF Receive, ReceiveSave, ReceiveOther, Goto, store
<1>2. CASE Exist(w)
  BY <1>2 DEF Exist, Answer, Goto, store
<1>3. CASE Get(w)
  BY <1>3 DEF Get, Answer, Goto
<1>4. CASE Run(w)
  BY <1>4 DEF Run, Answer, Goto, store
<1>5. CASE Lock(w)
  BY <1>5 DEF Lock, Goto
<1>6. CASE SetInsert(w)
  <2>1. \/ Leave(w, "OperationFail")
        \/ Goto(w, "head") /\ UNCHANGED mutex
    BY <1>6, Zenon DEF SetInsert
  <2>2. pc[w] = "set"
    BY <1>6, Zenon DEF SetInsert
  <2>3. QED
    BY <2>1, <2>2 DEF Leave, Answer, Goto
<1>7. CASE SetHead(w)
  BY <1>7 DEF SetHead, Goto
<1>8. CASE SetTail(w)
  BY <1>8 DEF SetTail, Goto
<1>9. CASE SetRow(w)
  <2>1. pc[w] = "save" /\ \E s \in Status : Leave(w, s)
    BY <1>9 DEF SetRow, Status
  <2>2. QED
    BY <2>1 DEF Leave, Answer, Goto
<1>10. CASE SetFault(w)
  BY <1>10 DEF SetFault, Fault, Leave, Answer, Goto
<1>11. CASE Erase(w)
  <2>1. \/ Leave(w, "Normal")
        \/ Goto(w, "deleteRow") /\ UNCHANGED mutex
    BY <1>11, Zenon DEF Erase
  <2>2. pc[w] = "erase"
    BY <1>11, Zenon DEF Erase
  <2>3. QED
    BY <2>1, <2>2 DEF Leave, Answer, Goto
<1>12. CASE DeleteRow(w)
  BY <1>12 DEF DeleteRow, Leave, Answer, Goto
<1>13. CASE DeleteFault(w)
  BY <1>13 DEF DeleteFault, Fault, Leave, Answer, Goto
<1>14. QED
  BY <1>1, <1>2, <1>3, <1>4, <1>5, <1>6, <1>7, <1>8, <1>9, <1>10, <1>11,
     <1>12, <1>13 DEF Step

\* Every step preserves mutual exclusion.
LEMMA MutexStep == TypeOK /\ MutexInv /\ [Next]_vars => MutexInv'
<1> SUFFICES ASSUME TypeOK, MutexInv, [Next]_vars PROVE MutexInv'
  OBVIOUS
<1>1. ASSUME NEW w \in Worker, Receive(w) \/ Step(w) PROVE MutexInv'
  <2>1. PICK l \in Location :
    /\ pc' = [pc EXCEPT ![w] = l]
    /\ \/ /\ pc[w] \notin InSet \cup InRemove
          /\ l \notin InSet \cup InRemove
          /\ mutex' = mutex
       \/ /\ pc[w] \notin InSet \cup InRemove
          /\ l \in InSet \cup InRemove
          /\ mutex = {} /\ mutex' = {w}
       \/ /\ pc[w] \in InSet \cup InRemove
          /\ l \in InSet \cup InRemove
          /\ mutex' = mutex
       \/ /\ pc[w] \in InSet \cup InRemove
          /\ l = "idle"
          /\ mutex' = mutex \ {w}
    BY <1>1, Moves
  <2>2. "idle" \notin InSet \cup InRemove
    BY DEF InSet, InRemove
  <2>3. pc \in [Worker -> Location] /\ mutex \subseteq Worker
    BY DEF TypeOK
  <2>4. QED
    BY <2>1, <2>2, <2>3 DEF MutexInv
<1>2. CASE Crash
  BY <1>2 DEF Crash, MutexInv, InSet, InRemove
<1>3. CASE UNCHANGED vars
  BY <1>3 DEF vars, MutexInv
<1>4. QED
  BY <1>1, <1>2, <1>3 DEF Next, Wait

\* A thread that leaves set() or remove() is idle and serves nothing.
LEMMA LeaveKind ==
  ASSUME TypeOK, KindInv, NEW w \in Worker, NEW s \in Status, Leave(w, s)
  PROVE  KindInv'
BY DEF TypeOK, KindInv, Leave, Answer, Goto, InSet, InRemove

\* Every step preserves the link between requests and locations.
LEMMA KindStep == TypeOK /\ KindInv /\ [Next]_vars => KindInv'
<1> SUFFICES ASSUME TypeOK, KindInv, [Next]_vars PROVE KindInv'
  OBVIOUS
<1>a. pc \in [Worker -> Location] /\ req \in [Worker -> Request]
  BY DEF TypeOK
<1>b. {"Normal", "OperationFail"} \subseteq Status
  BY DEF Status
<1> USE DEF InSet, InRemove
<1>1. ASSUME NEW w \in Worker, Receive(w) PROVE KindInv'
  <2>1. CASE ReceiveSave(w)
    BY <1>1, <2>1, <1>a DEF ReceiveSave, Goto, KindInv
  <2>2. CASE ReceiveOther(w)
    BY <1>1, <2>2, <1>a DEF ReceiveOther, Goto, KindInv
  <2>3. QED
    BY <1>1, <2>1, <2>2 DEF Receive
<1>2. ASSUME NEW w \in Worker, Exist(w) PROVE KindInv'
  BY <1>2, <1>a DEF Exist, Answer, Goto, KindInv
<1>3. ASSUME NEW w \in Worker, Get(w) PROVE KindInv'
  <2>1. CASE req[w].kind = "detail"
    BY <1>3, <2>1, <1>a DEF Get, Answer, Goto, KindInv
  <2>2. CASE req[w].kind = "run"
    BY <1>3, <2>2, <1>a DEF Get, Goto, KindInv
  <2>3. CASE req[w].kind \in {"save", "status"}
    BY <1>3, <2>3, <1>a DEF Get, Goto, KindInv
  <2>4. req[w].kind \in AllKinds \ {"delete"}
    BY <1>3, <1>a DEF Get, KindInv, Request
  <2>5. QED
    BY <2>1, <2>2, <2>3, <2>4 DEF AllKinds
<1>4. ASSUME NEW w \in Worker, Run(w) PROVE KindInv'
  BY <1>4, <1>a DEF Run, Answer, Goto, KindInv
<1>5. ASSUME NEW w \in Worker, Lock(w) PROVE KindInv'
  BY <1>5, <1>a DEF Lock, Goto, KindInv
<1>6. ASSUME NEW w \in Worker, SetInsert(w) PROVE KindInv'
  <2>1. \/ Leave(w, "OperationFail")
        \/ Goto(w, "head") /\ UNCHANGED req
    BY <1>6, Zenon DEF SetInsert
  <2>2. pc[w] = "set"
    BY <1>6, Zenon DEF SetInsert
  <2>3. CASE Goto(w, "head") /\ UNCHANGED req
    BY <2>2, <2>3, <1>a DEF Goto, KindInv
  <2>4. QED
    BY <2>1, <2>3, <1>b, LeaveKind
<1>7. ASSUME NEW w \in Worker, SetHead(w) PROVE KindInv'
  BY <1>7, <1>a DEF SetHead, Goto, KindInv
<1>8. ASSUME NEW w \in Worker, SetTail(w) PROVE KindInv'
  BY <1>8, <1>a DEF SetTail, Goto, KindInv
<1>9. ASSUME NEW w \in Worker, SetRow(w) PROVE KindInv'
  <2>1. \E s \in Status : Leave(w, s)
    BY <1>9, <1>b DEF SetRow
  <2>2. QED
    BY <2>1, LeaveKind
<1>10. ASSUME NEW w \in Worker, SetFault(w) PROVE KindInv'
  BY <1>10, <1>b, LeaveKind DEF SetFault, Fault
<1>11. ASSUME NEW w \in Worker, Erase(w) PROVE KindInv'
  <2>1. \/ Leave(w, "Normal")
        \/ Goto(w, "deleteRow") /\ UNCHANGED req
    BY <1>11, Zenon DEF Erase
  <2>2. pc[w] = "erase"
    BY <1>11, Zenon DEF Erase
  <2>3. CASE Goto(w, "deleteRow") /\ UNCHANGED req
    BY <2>2, <2>3, <1>a DEF Goto, KindInv
  <2>4. QED
    BY <2>1, <2>3, <1>b, LeaveKind
<1>12. ASSUME NEW w \in Worker, DeleteRow(w) PROVE KindInv'
  BY <1>12, <1>b, LeaveKind DEF DeleteRow
<1>13. ASSUME NEW w \in Worker, DeleteFault(w) PROVE KindInv'
  BY <1>13, <1>b, LeaveKind DEF DeleteFault, Fault
<1>14. CASE Crash
  BY <1>14 DEF Crash, KindInv
<1>15. CASE UNCHANGED vars
  BY <1>15 DEF vars, KindInv
<1>16. QED
  BY <1>1, <1>2, <1>3, <1>4, <1>5, <1>6, <1>7, <1>8, <1>9, <1>10, <1>11,
     <1>12, <1>13, <1>14, <1>15 DEF Next, Step, Wait

\* Every step preserves what a stored row needs to be scheduled again.
LEMMA ReloadStep == TypeOK /\ WriterInv /\ RowsReload /\ [Next]_vars => RowsReload'
<1> SUFFICES ASSUME TypeOK, WriterInv, RowsReload, [Next]_vars
             PROVE  RowsReload'
  OBVIOUS
<1>1. CASE db' = db
  BY <1>1 DEF RowsReload
<1>2. ASSUME NEW w \in Worker, SetRow(w) PROVE RowsReload'
  <2>1. \/ db' = db
        \/ db' = [db EXCEPT ![task[w].uuid] = task[w]]
    BY <1>2, Zenon DEF SetRow
  <2>2. task[w].sched \in Loadable
    BY <1>2 DEF SetRow, WriterInv
  <2>3. QED
    BY <1>1, <2>1, <2>2 DEF TypeOK, RowsReload
<1>3. ASSUME NEW w \in Worker, DeleteRow(w) PROVE RowsReload'
  BY <1>3 DEF DeleteRow, TypeOK, RowsReload
<1>4. db' = db \/ \E w \in Worker : SetRow(w) \/ DeleteRow(w)
  BY Zenon DEF Next, Step, Receive, Exist, Get, Run, Lock, SetInsert, SetHead,
     SetTail, SetFault, Erase, DeleteFault, Fault, Crash, Wait, vars, store
<1>5. QED
  BY <1>1, <1>2, <1>3, <1>4

-----------------------------------------------------------------------------
\* The steps taken without the mutex, and the one that takes it.
Outside(w) == Receive(w) \/ Exist(w) \/ Get(w) \/ Run(w) \/ Lock(w)

\* They leave the rows and every entry of the map alone, and no other thread
\* notices them: get() only adds an entry where there was none.
LEMMA OutsideEffect ==
  ASSUME TypeOK, NEW w \in Worker, Outside(w)
  PROVE  /\ UNCHANGED <<db, blamed, isExist>>
         /\ phantoms \subseteq phantoms'
         /\ \A k \in Key : \/ table'[k] = table[k]
                           \/ table[k] = Absent /\ k \in phantoms'
         /\ \A v \in Worker \ {w} :
              /\ pc'[v] = pc[v]
              /\ task'[v] = task[v]
              /\ req'[v] = req[v]
         /\ {pc[w], pc'[w]} \cap {"head", "tail", "save", "deleteRow"} = {}
<1> USE DEF TypeOK, history
<1>1. CASE Receive(w)
  BY <1>1 DEF Receive, ReceiveSave, ReceiveOther, Goto, store
<1>2. CASE Exist(w)
  BY <1>2 DEF Exist, Answer, Goto, store
<1>3. CASE Get(w)
  <2>1. req[w].uuid \in Key
    BY DEF Request
  <2>2. /\ phantoms \subseteq phantoms'
        /\ \A k \in Key : \/ table'[k] = table[k]
                          \/ table[k] = Absent /\ k \in phantoms'
    BY <1>3, <2>1 DEF Get
  <2>3. \/ Answer(w, "Normal")
        \/ /\ Goto(w, "run") \/ Goto(w, "lockSet")
           /\ \A v \in Worker \ {w} : task'[v] = task[v]
           /\ UNCHANGED req
    BY <1>3 DEF Get, Goto
  <2>4. pc[w] = "get" /\ UNCHANGED <<db, blamed, isExist>>
    BY <1>3 DEF Get
  <2>5. QED
    BY <2>2, <2>3, <2>4 DEF Answer, Goto
<1>4. CASE Run(w)
  BY <1>4 DEF Run, Answer, Goto, store
<1>5. CASE Lock(w)
  BY <1>5 DEF Lock, Goto
<1>6. QED
  BY <1>1, <1>2, <1>3, <1>4, <1>5 DEF Outside

\* The steps taken with the mutex.
Inside(w) ==
  \/ SetInsert(w) \/ SetHead(w) \/ SetTail(w) \/ SetRow(w) \/ SetFault(w)
  \/ Erase(w) \/ DeleteRow(w) \/ DeleteFault(w)

\* While one thread is inside set() or remove(), a busy key is its key.
LEMMA BusyKey ==
  ASSUME MutexInv, NEW w \in Worker, pc[w] \in InSet \cup InRemove,
         NEW k \in Key
  PROVE  Busy(k) <=> \/ pc[w] \in {"head", "tail", "save"} /\ task[w].uuid = k
                     \/ pc[w] = "deleteRow" /\ req[w].uuid = k
BY Alone DEF Busy, InSet, InRemove

\* A step with the mutex moves no other thread.
LEMMA InsideMoves ==
  ASSUME TypeOK, MutexInv, NEW w \in Worker, Inside(w)
  PROVE  /\ pc[w] \in InSet \cup InRemove
         /\ \A v \in Worker \ {w} :
              /\ pc'[v] = pc[v] /\ pc[v] \notin InSet \cup InRemove
              /\ task'[v] = task[v] /\ req'[v] = req[v]
<1>1. pc[w] \in InSet \cup InRemove
  BY Zenon DEF Inside, SetInsert, SetHead, SetTail, SetRow, SetFault, Erase,
     DeleteRow, DeleteFault, InSet, InRemove
<1>2. \/ \E s \in {"Normal", "OperationFail"} : Leave(w, s)
      \/ /\ \E l \in Location : Goto(w, l)
         /\ UNCHANGED <<task, req>>
  BY Zenon DEF Inside, SetInsert, SetHead, SetTail, SetRow, SetFault, Erase,
     DeleteRow, DeleteFault, Fault, Location
<1>3. \A v \in Worker \ {w} : pc'[v] = pc[v] /\ task'[v] = task[v]
                              /\ req'[v] = req[v]
  BY <1>2 DEF TypeOK, Leave, Answer, Goto
<1>4. QED
  BY <1>1, <1>3, Alone
\* Every step preserves what set() knows of the key it writes.
LEMMA WriterStep == IInv /\ [Next]_vars => WriterInv'
<1> SUFFICES ASSUME IInv, [Next]_vars PROVE WriterInv'
  OBVIOUS
<1> USE DEF IInv
<1>a. \A v \in Worker : task[v] \in Task /\ task[v].uuid \in Key
  BY DEF TypeOK, Task
<1>1. ASSUME NEW w \in Worker, Outside(w) PROVE WriterInv'
  <2>1. ASSUME NEW v \in Worker, pc'[v] \in {"head", "tail", "save"}
        PROVE  /\ v # w
               /\ pc[v] = pc'[v] /\ task'[v] = task[v] /\ isExist'[v] = isExist[v]
               /\ db' = db /\ blamed' = blamed /\ phantoms \subseteq phantoms'
               /\ table[task[v].uuid] # Absent
               /\ table'[task[v].uuid] = table[task[v].uuid]
    BY <1>1, <2>1, <1>a, OutsideEffect DEF WriterInv
  <2>2. QED
    BY <2>1 DEF WriterInv
<1>2. ASSUME NEW w \in Worker, Inside(w), pc'[w] \in {"head", "tail", "save"}
                => /\ task'[w].sched \in Loadable
                   /\ table'[task'[w].uuid] # Absent
                   /\ pc'[w] = "save" => table'[task'[w].uuid] = task'[w]
                   /\ \/ isExist'[w] = (db'[task'[w].uuid] # Absent)
                      \/ task'[w].uuid \in blamed'
                      \/ task'[w].uuid \in phantoms' /\ db'[task'[w].uuid] = Absent
      PROVE  WriterInv'
  BY <1>2, InsideMoves DEF WriterInv, InSet, InRemove
<1>3. ASSUME NEW w \in Worker, SetInsert(w) PROVE WriterInv'
  <2>1. CASE task[w].sched = "bad"
    <3>1. Leave(w, "OperationFail")
      BY <1>3, <2>1, Zenon DEF SetInsert
    <3>2. pc'[w] = "idle"
      BY <3>1 DEF Leave, Answer, Goto, TypeOK
    <3>3. QED
      BY <1>2, <1>3, <3>2 DEF Inside
  <2>2. CASE task[w].sched # "bad"
    <3>1. /\ table'[task[w].uuid] # Absent
          /\ pc'[w] = "head" /\ task' = task
          /\ isExist'[w] = (table[task[w].uuid] # Absent)
          /\ UNCHANGED <<db, blamed, phantoms>>
      BY <1>3, <2>2, <1>a, TaskFacts DEF SetInsert, Goto, TypeOK, history
    <3>2. pc[w] = "set" /\ ~Busy(task[w].uuid)
      BY <1>3, <1>a, BusyKey DEF SetInsert, InSet
    <3>3. \/ isExist'[w] = (db[task[w].uuid] # Absent)
          \/ task[w].uuid \in blamed
          \/ task[w].uuid \in phantoms /\ db[task[w].uuid] = Absent
      BY <3>1, <3>2, <1>a DEF Coherent
    <3>4. task[w].sched \in Loadable
      BY <1>3, <2>2, <1>a DEF SetInsert, Hangs, TypeOK, Task, Sched, Loadable
    <3>5. QED
      BY <1>2, <1>3, <3>1, <3>3, <3>4 DEF Inside
  <2>3. QED
    BY <2>1, <2>2
<1>4. ASSUME NEW w \in Worker, SetHead(w) PROVE WriterInv'
  <2>1. /\ pc[w] = "head" /\ pc'[w] = "tail"
        /\ UNCHANGED <<task, isExist, db, blamed, phantoms>>
    BY <1>4 DEF SetHead, Goto, TypeOK, history
  <2>2. table[task[w].uuid] \in Task
    BY <2>1, <1>a DEF WriterInv, TypeOK
  <2>3. table'[task[w].uuid] # Absent
    BY <1>4, <2>2, <1>a, TaskUpdates DEF SetHead, TypeOK
  <2>4. QED
    BY <1>2, <1>4, <2>1, <2>3 DEF Inside, WriterInv
<1>5. ASSUME NEW w \in Worker, SetTail(w) PROVE WriterInv'
  <2>1. /\ pc[w] = "tail" /\ pc'[w] = "save"
        /\ UNCHANGED <<task, isExist, db, blamed, phantoms>>
    BY <1>5 DEF SetTail, Goto, TypeOK, history
  <2>2. table'[task[w].uuid] = task[w] /\ task[w] # Absent
    BY <1>5, <1>a DEF SetTail, TypeOK
  <2>3. QED
    BY <1>2, <1>5, <2>1, <2>2 DEF Inside, WriterInv
<1>6. ASSUME NEW w \in Worker, SetRow(w) \/ SetFault(w) \/ Erase(w)
                               \/ DeleteRow(w) \/ DeleteFault(w)
      PROVE  WriterInv'
  <2>1. \/ \E s \in {"Normal", "OperationFail"} : Leave(w, s)
        \/ Goto(w, "deleteRow")
    BY <1>6, Zenon DEF SetRow, SetFault, Erase, DeleteRow, DeleteFault, Fault
  <2>2. pc'[w] \in {"idle", "deleteRow"}
    BY <2>1 DEF Leave, Answer, Goto, TypeOK
  <2>3. QED
    BY <1>2, <1>6, <2>2 DEF Inside
<1>7. CASE Crash
  BY <1>7 DEF Crash, WriterInv
<1>8. CASE UNCHANGED vars
  BY <1>8 DEF vars, WriterInv
<1>9. QED
  BY <1>1, <1>3, <1>4, <1>5, <1>6, <1>7, <1>8 DEF Next, Step, Wait, Outside
\* Every step preserves what remove() knows of the key it deletes.
LEMMA EraserStep == IInv /\ [Next]_vars => EraserInv'
<1> SUFFICES ASSUME IInv, [Next]_vars PROVE EraserInv'
  OBVIOUS
<1> USE DEF IInv
<1>a. \A v \in Worker : req[v].uuid \in Key
  BY DEF TypeOK, Request
<1>1. ASSUME NEW w \in Worker, Outside(w) PROVE EraserInv'
  <2>1. ASSUME NEW v \in Worker, pc'[v] = "deleteRow"
        PROVE  /\ pc[v] = "deleteRow" /\ req'[v] = req[v]
               /\ phantoms \subseteq phantoms'
               /\ \/ table'[req[v].uuid] = table[req[v].uuid]
                  \/ req[v].uuid \in phantoms'
    BY <1>1, <2>1, <1>a, OutsideEffect
  <2>2. QED
    BY <2>1 DEF EraserInv
<1>2. ASSUME NEW w \in Worker, Inside(w),
             pc'[w] = "deleteRow" => table'[req'[w].uuid] = Absent
      PROVE  EraserInv'
  BY <1>2, InsideMoves DEF EraserInv, InRemove
<1>3. ASSUME NEW w \in Worker, Erase(w) PROVE EraserInv'
  <2>1. table' = [table EXCEPT ![req[w].uuid] = Absent]
    BY <1>3, Zenon DEF Erase
  <2>2. pc'[w] = "deleteRow" => req' = req
    BY <1>3 DEF Erase, Leave, Answer, Goto, TypeOK
  <2>3. QED
    BY <1>2, <1>3, <1>a, <2>1, <2>2 DEF Inside, TypeOK
<1>4. ASSUME NEW w \in Worker, Inside(w), ~Erase(w) PROVE EraserInv'
  <2>1. \/ \E s \in {"Normal", "OperationFail"} : Leave(w, s)
        \/ \E l \in {"head", "tail", "save"} : Goto(w, l)
    BY <1>4, Zenon DEF Inside, SetInsert, SetHead, SetTail, SetRow, SetFault,
       DeleteRow, DeleteFault, Fault
  <2>2. pc'[w] # "deleteRow"
    BY <2>1 DEF Leave, Answer, Goto, TypeOK
  <2>3. QED
    BY <1>2, <1>4, <2>2
<1>5. CASE Crash
  BY <1>5 DEF Crash, EraserInv
<1>6. CASE UNCHANGED vars
  BY <1>6 DEF vars, EraserInv
<1>7. QED
  BY <1>1, <1>3, <1>4, <1>5, <1>6 DEF Next, Step, Wait, Outside, Inside

\* Every step preserves the agreement of the map and the database.
LEMMA CoherentStep == IInv /\ [Next]_vars => Coherent'
<1> SUFFICES ASSUME IInv, [Next]_vars PROVE Coherent'
  OBVIOUS
<1> USE DEF IInv
<1>a. \A v \in Worker : /\ task[v] \in Task /\ task[v].uuid \in Key
                        /\ req[v].uuid \in Key
  BY DEF TypeOK, Task, Request
<1>1. ASSUME NEW w \in Worker, Outside(w) PROVE Coherent'
  <2>1. ASSUME NEW k \in Key PROVE Busy(k)' <=> Busy(k)
    BY <1>1, OutsideEffect DEF Busy
  <2>2. QED
    BY <1>1, <2>1, OutsideEffect DEF Coherent
\* It is enough to look at the key of the thread that moves.
<1>2. ASSUME NEW w \in Worker, Inside(w), NEW key \in Key,
             \A k \in Key \ {key} :
               db'[k] = db[k] /\ table'[k] = table[k] /\ ~Busy(k),
             blamed \subseteq blamed',
             phantoms \subseteq phantoms',
             key \notin blamed' /\ ~Busy(key)' =>
               table'[key] = db'[key] \/ (key \in phantoms' /\ db'[key] = Absent)
      PROVE  Coherent'
  BY <1>2 DEF Coherent
<1>3. ASSUME NEW w \in Worker, SetInsert(w) PROVE Coherent'
  <2>1. pc[w] = "set" /\ pc[w] \in InSet /\ UNCHANGED <<db, blamed, phantoms>>
    BY <1>3 DEF SetInsert, InSet, history
  <2>2. \A k \in Key : ~Busy(k)
    BY <2>1, BusyKey
  <2>3. \A k \in Key \ {task[w].uuid} : table'[k] = table[k]
    BY <1>3, <1>a DEF SetInsert, TypeOK
  <2>4. \/ table' = table
        \/ pc'[w] = "head" /\ task' = task
    BY <1>3 DEF SetInsert, Goto, TypeOK
  <2>5. PICK key \in Key : key = task[w].uuid
    BY <1>a
  <2>6. table' = table \/ Busy(key)'
    BY <2>4, <2>5 DEF Busy
  <2>7. QED
    BY <1>2, <1>3, <2>1, <2>2, <2>3, <2>5, <2>6 DEF Inside, Coherent
<1>4. ASSUME NEW w \in Worker, SetHead(w) \/ SetTail(w) PROVE Coherent'
  <2>1. /\ pc[w] \in {"head", "tail"} /\ pc'[w] \in {"tail", "save"}
        /\ UNCHANGED <<db, blamed, phantoms, task>>
    BY <1>4 DEF SetHead, SetTail, Goto, TypeOK, history
  <2>2. \A k \in Key \ {task[w].uuid} : ~Busy(k) /\ table'[k] = table[k]
    BY <1>4, <1>a, <2>1, BusyKey DEF SetHead, SetTail, TypeOK, InSet
  <2>3. Busy(task[w].uuid)'
    BY <2>1 DEF Busy
  <2>4. QED
    BY <1>2, <1>4, <1>a, <2>1, <2>2, <2>3 DEF Inside
<1>5. ASSUME NEW w \in Worker, SetRow(w) PROVE Coherent'
  <2>1. /\ pc[w] = "save" /\ UNCHANGED <<table, blamed, phantoms>>
        /\ db' = IF isExist[w] = (db[task[w].uuid] # Absent)
                   THEN [db EXCEPT ![task[w].uuid] = task[w]] ELSE db
    BY <1>5 DEF SetRow, history
  <2>2. \A k \in Key \ {task[w].uuid} : ~Busy(k) /\ db'[k] = db[k]
    BY <1>a, <2>1, BusyKey DEF TypeOK, InSet
  <2>3. /\ table[task[w].uuid] = task[w]
        /\ \/ isExist[w] = (db[task[w].uuid] # Absent)
           \/ task[w].uuid \in blamed
           \/ task[w].uuid \in phantoms /\ db[task[w].uuid] = Absent
    BY <2>1 DEF WriterInv
  <2>4. \/ db'[task[w].uuid] = task[w]
        \/ task[w].uuid \in blamed
        \/ task[w].uuid \in phantoms /\ db'[task[w].uuid] = Absent
    BY <1>a, <2>1, <2>3 DEF TypeOK
  <2>5. QED
    BY <1>2, <1>5, <1>a, <2>1, <2>2, <2>3, <2>4 DEF Inside
<1>6. ASSUME NEW w \in Worker, SetFault(w) PROVE Coherent'
  <2>1. /\ pc[w] = "save" /\ UNCHANGED <<table, db, phantoms>>
        /\ blamed' = blamed \cup {task[w].uuid}
    BY <1>6 DEF SetFault, Fault
  <2>2. \A k \in Key \ {task[w].uuid} : ~Busy(k)
    BY <2>1, BusyKey DEF InSet
  <2>3. QED
    BY <1>2, <1>6, <1>a, <2>1, <2>2 DEF Inside
<1>7. ASSUME NEW w \in Worker, Erase(w) PROVE Coherent'
  <2>1. /\ pc[w] = "erase" /\ UNCHANGED <<db, blamed, phantoms>>
        /\ table' = [table EXCEPT ![req[w].uuid] = Absent]
    BY <1>7, Zenon DEF Erase, history
  <2>2. PICK key \in Key : key = req[w].uuid
    BY <1>a
  <2>3. \A k \in Key : ~Busy(k)
    BY <2>1, BusyKey DEF InRemove
  <2>4. table[key] # Absent => Busy(key)'
    <3>1. table[key] # Absent => pc'[w] = "deleteRow" /\ req' = req
      BY <1>7, <2>2 DEF Erase, Goto, TypeOK
    <3>2. QED
      BY <2>2, <3>1 DEF Busy
  <2>5. table[key] = Absent => db[key] = Absent \/ key \in blamed
    BY <2>3 DEF Coherent
  <2>6. \A k \in Key \ {key} : table'[k] = table[k]
    BY <2>1, <2>2 DEF TypeOK
  <2>7. QED
    BY <1>2, <1>7, <2>1, <2>3, <2>4, <2>5, <2>6 DEF Inside
<1>8. ASSUME NEW w \in Worker, DeleteRow(w) PROVE Coherent'
  <2>1. /\ pc[w] = "deleteRow" /\ UNCHANGED <<table, blamed, phantoms>>
        /\ db' = [db EXCEPT ![req[w].uuid] = Absent]
    BY <1>8 DEF DeleteRow, history
  <2>2. \A k \in Key \ {req[w].uuid} : ~Busy(k)
    BY <2>1, BusyKey DEF InRemove
  <2>3. table[req[w].uuid] = Absent \/ req[w].uuid \in phantoms
    BY <2>1 DEF EraserInv
  <2>4. QED
    BY <1>2, <1>8, <1>a, <2>1, <2>2, <2>3 DEF Inside, TypeOK
<1>9. ASSUME NEW w \in Worker, DeleteFault(w) PROVE Coherent'
  <2>1. /\ pc[w] = "deleteRow" /\ UNCHANGED <<table, db, phantoms>>
        /\ blamed' = blamed \cup {req[w].uuid}
    BY <1>9 DEF DeleteFault, Fault
  <2>2. \A k \in Key \ {req[w].uuid} : ~Busy(k)
    BY <2>1, BusyKey DEF InRemove
  <2>3. QED
    BY <1>2, <1>9, <1>a, <2>1, <2>2 DEF Inside
<1>10. CASE Crash
  BY <1>10 DEF Crash, Coherent
<1>11. CASE UNCHANGED vars
  BY <1>11 DEF vars, Coherent, Busy
<1>12. QED
  BY <1>1, <1>3, <1>4, <1>5, <1>6, <1>7, <1>8, <1>9, <1>10, <1>11
     DEF Next, Step, Wait, Outside

-----------------------------------------------------------------------------
\* The invariant is inductive.
LEMMA IInvStep == IInv /\ [Next]_vars => IInv'
BY TypeStep, MutexStep, KindStep, ReloadStep, WriterStep, EraserStep,
   CoherentStep DEF IInv

\* Every reachable state satisfies the inductive invariant.
THEOREM Invariance == Spec => []IInv
BY InitIInv, IInvStep, PTL DEF Spec

\* The state of the table is always well typed.
THEOREM TypeCorrect == Spec => []TypeOK
BY Invariance, PTL DEF IInv

\* The map and the database always agree between two operations, whatever the
\* threads, the requests, the failed statements and the crashes.
THEOREM AlwaysCoherent == Spec => []Coherent
BY Invariance, PTL DEF IInv

\* Every row the constructor may meet can be scheduled.
THEOREM RowsAlwaysReload == Spec => []RowsReload
BY Invariance, PTL DEF IInv

\* Under the invariant, a step that answers a deletion Normal leaves no row.
LEMMA AckedDeleteStep ==
  IInv /\ [Next]_vars =>
    [\A w \in Worker : Acks(w, "delete") =>
       db'[req[w].uuid] = Absent \/ req[w].uuid \in blamed]_vars
<1> SUFFICES ASSUME IInv, [Next]_vars, NEW w \in Worker, Acks(w, "delete")
             PROVE  db'[req[w].uuid] = Absent \/ req[w].uuid \in blamed
  OBVIOUS
<1> USE DEF IInv
<1>1. req[w].uuid \in Key
  BY DEF TypeOK, Request
<1>2. /\ req[w].kind = "delete"
      /\ pc[w] # "idle" /\ pc'[w] = "idle" /\ status'[w] = "Normal"
  BY DEF Acks
<1>3. pc[w] \notin InSet \cup {"lockSet", "run", "get"}
  BY <1>2 DEF KindInv, InSet
<1>4. PICK x \in Worker : Receive(x) \/ Step(x)
  BY <1>2 DEF Next, Crash, Wait, vars
<1>5. x = w
  BY <1>2, <1>4, Moves DEF TypeOK
<1>6. CASE Erase(w)
  <2>1. table[req[w].uuid] = Absent
    BY <1>2, <1>6 DEF Erase, Goto, TypeOK
  <2>2. pc[w] = "erase" /\ db' = db
    BY <1>6, Zenon DEF Erase
  <2>3. ~Busy(req[w].uuid)
    BY <1>1, <2>2, BusyKey DEF InRemove
  <2>4. QED
    BY <1>1, <2>1, <2>2, <2>3 DEF Coherent
<1>7. CASE DeleteRow(w)
  BY <1>1, <1>7 DEF DeleteRow, TypeOK
<1>8. CASE DeleteFault(w)
  BY <1>2, <1>8 DEF DeleteFault, Fault, Leave, Answer, TypeOK
<1>9. CASE Exist(w)
  BY <1>2, <1>9 DEF Exist, Answer, Goto, TypeOK
<1>10. CASE Lock(w)
  BY <1>2, <1>10 DEF Lock, Goto, TypeOK
<1>11. QED
  BY <1>2, <1>3, <1>4, <1>5, <1>6, <1>7, <1>8, <1>9, <1>10, Zenon
     DEF Step, Receive, Get, Run, SetInsert, SetHead, SetTail, SetRow,
         SetFault, InSet

\* A deletion answered Normal leaves no row behind, unless a statement on that
\* key failed: the early return of remove() for a key another thread erased
\* is safe because the map and the rows agree.
THEOREM AckedDeletes == Spec => AckedDeleteIsGone
BY Invariance, AckedDeleteStep, PTL DEF Spec, AckedDeleteIsGone
\* Under the invariant, a step that answers a save Normal has stored it.
LEMMA AckedSaveStep ==
  IInv /\ [Next]_vars =>
    [\A w \in Worker : Acks(w, "save") =>
       \/ db'[task[w].uuid] = task[w]
       \/ task[w].uuid \in blamed \cup phantoms]_vars
<1> SUFFICES ASSUME IInv, [Next]_vars, NEW w \in Worker, Acks(w, "save")
             PROVE  \/ db'[task[w].uuid] = task[w]
                    \/ task[w].uuid \in blamed \cup phantoms
  OBVIOUS
<1> USE DEF IInv
<1>1. task[w] \in Task /\ task[w].uuid \in Key
  BY DEF TypeOK, Task
<1>2. /\ req[w].kind = "save"
      /\ pc[w] # "idle" /\ pc'[w] = "idle" /\ status'[w] = "Normal"
  BY DEF Acks
<1>3. pc[w] \notin InRemove \cup {"lockRemove", "run"}
  BY <1>2 DEF KindInv, InRemove
<1>4. PICK x \in Worker : Receive(x) \/ Step(x)
  BY <1>2 DEF Next, Crash, Wait, vars
<1>5. x = w
  BY <1>2, <1>4, Moves DEF TypeOK
<1>6. CASE SetRow(w)
  <2>1. /\ pc[w] = "save"
        /\ db' = IF isExist[w] = (db[task[w].uuid] # Absent)
                   THEN [db EXCEPT ![task[w].uuid] = task[w]] ELSE db
    BY <1>6, Zenon DEF SetRow
  <2>2. QED
    BY <1>1, <2>1 DEF WriterInv, TypeOK
<1>7. pc'[w] = "idle" /\ status'[w] = "Normal" =>
        ~Exist(w) /\ ~Get(w) /\ ~Lock(w) /\ ~SetInsert(w) /\ ~SetHead(w)
        /\ ~SetTail(w) /\ ~SetFault(w)
  BY <1>2 DEF Exist, Get, Lock, SetInsert, SetHead, SetTail, SetFault, Fault,
     Leave, Answer, Goto, TypeOK
<1>8. QED
  BY <1>2, <1>3, <1>4, <1>5, <1>6, <1>7, Zenon
     DEF Step, Receive, Run, Erase, DeleteRow, DeleteFault, InRemove

\* A save answered Normal is in the database unless a statement on its key
\* failed or a get() inserted it since the start.
THEOREM AckedSaves == Spec => AckedSaveIsStored
BY Invariance, AckedSaveStep, PTL DEF Spec, AckedSaveIsStored

=============================================================================
