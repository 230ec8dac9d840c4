-------------------------- MODULE TaskTableRefinement --------------------------
(***************************************************************************)
(* TaskTable implements TaskStore, when clients only save and delete and   *)
(* no SQLite statement fails: the stored tasks are the rows, and a write   *)
(* is pending from the moment its handler receives it to its answer.       *)
(***************************************************************************)
EXTENDS TaskTable

\* The write of a thread at place l that serves request r with the Task t.
Write(l, r, t) ==
  CASE l = "idle" -> [kind |-> "none"]
    [] l # "idle" /\ r.kind = "save" ->
         [kind |-> "save", uuid |-> r.uuid, task |-> t]
    [] OTHER -> [kind |-> "delete", uuid |-> r.uuid]

PendingWrite(w) == Write(pc[w], req[w], task[w])

Unschedulable(t) == t.sched \notin Loadable

Store == INSTANCE TaskStore
           WITH Uuid <- Key, Bad <- Unschedulable, tasks <- db,
                pending <- [w \in Worker |-> PendingWrite(w)]

\* Saves and deletions answered Normal take effect atomically and durably;
\* nothing else, a crash included, changes what is stored.
StoreSpec == Store!Spec

-----------------------------------------------------------------------------
(* What the mapping rests on, beside the inductive invariant of TaskTable. *)

SavesAndDeletes == Kind \subseteq {"save", "delete"} /\ MaxFaults = 0

\* Nothing spoils a key, and each thread is on the path of its request.
StoreInv ==
  /\ blamed = {} /\ phantoms = {}
  /\ \A w \in Worker :
       /\ pc[w] \notin {"get", "run"}
       /\ pc[w] \in InSet \cup {"lockSet"} =>
            req[w].kind = "save" /\ req[w].uuid = task[w].uuid
       /\ pc[w] \in InRemove \cup {"lockRemove", "exist"} =>
            req[w].kind = "delete"

=============================================================================
