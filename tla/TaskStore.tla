------------------------------ MODULE TaskStore ------------------------------
(***************************************************************************)
(* What the task API promises about stored tasks, without saying how: a    *)
(* durable map from uuid to Task on which every save and every deletion    *)
(* answered Normal took effect exactly once, atomically, before its        *)
(* answer; a refused one had no effect; a crash loses requests that were   *)
(* not answered and nothing else.  TaskTable implements it (StoreSpec in   *)
(* TaskTableRefinement) for clients that save and delete.                  *)
(***************************************************************************)
CONSTANTS
  Worker,   \* the threads that serve requests
  Uuid,     \* the keys
  Task,     \* the values
  Absent,   \* no value
  Bad(_)    \* the values that must be refused

VARIABLES
  tasks,    \* the stored tasks
  pending,  \* the write each thread is serving
  status    \* the last answer each thread gave

vars == <<tasks, pending, status>>

None == [kind |-> "none"]

Save(u, t) == [kind |-> "save", uuid |-> u, task |-> t]
Delete(u) == [kind |-> "delete", uuid |-> u]

Init ==
  /\ tasks = [u \in Uuid |-> Absent]
  /\ pending = [w \in Worker |-> None]
  /\ status = [w \in Worker |-> "none"]

Call(w) ==
  /\ pending[w] = None
  /\ \E u \in Uuid : \/ pending' = [pending EXCEPT ![w] = Delete(u)]
                     \/ \E t \in Task :
                          pending' = [pending EXCEPT ![w] = Save(u, t)]
  /\ status' = [status EXCEPT ![w] = "none"]
  /\ UNCHANGED tasks

Finish(w, s) ==
  /\ pending' = [pending EXCEPT ![w] = None]
  /\ status' = [status EXCEPT ![w] = s]

\* The write takes effect and is answered Normal.
Commit(w) ==
  /\ \/ /\ pending[w].kind = "save"
        /\ ~Bad(pending[w].task)
        /\ tasks' = [tasks EXCEPT ![pending[w].uuid] = pending[w].task]
     \/ /\ pending[w].kind = "delete"
        /\ tasks' = [tasks EXCEPT ![pending[w].uuid] = Absent]
  /\ Finish(w, "Normal")

\* The write is refused: the task cannot be scheduled, or there is nothing to
\* delete (or another thread is deleting it).
Refuse(w) ==
  /\ \/ /\ pending[w].kind = "save"
        /\ Bad(pending[w].task)
        /\ Finish(w, "OperationFail")
     \/ /\ pending[w].kind = "delete"
        /\ \/ tasks[pending[w].uuid] = Absent
           \/ \E v \in Worker \ {w} : pending[v] = pending[w]
        /\ Finish(w, "TaskNotExit")
  /\ UNCHANGED tasks

Crash ==
  /\ pending' = [w \in Worker |-> None]
  /\ status' = [w \in Worker |-> "none"]
  /\ UNCHANGED tasks

Next == (\E w \in Worker : Call(w) \/ Commit(w) \/ Refuse(w)) \/ Crash

Spec == Init /\ [][Next]_vars

=============================================================================
