----------------------------- MODULE TaskRunProofs -----------------------------
(***************************************************************************)
(* Proofs about TaskRun, for any finite set of runs, any programs and any  *)
(* capacity of the pipes.                                                  *)
(***************************************************************************)
EXTENDS TaskRun, FiniteSetTheorems, TLAPS

USE ConstantsAssumption

\* What a run executes is one of the programs.
LEMMA ProgramFacts ==
  ASSUME TypeOK, NEW r \in Run
  PROVE  /\ program[r] \in Programs
         /\ program[r].size \in [Stream -> Nat]
         /\ program[r].background \in BOOLEAN
BY DEF TypeOK, Programs

\* The runs that count are finitely many, and no more than there are.
LEMMA CountedFinite ==
  /\ IsFiniteSet(Counted)
  /\ Cardinality(Counted) \in Nat
  /\ Cardinality(Run) \in Nat
  /\ Cardinality(Counted) <= Cardinality(Run)
<1>1. Counted \subseteq Run
  BY DEF Counted
<1>2. IsFiniteSet(Counted) /\ Cardinality(Counted) <= Cardinality(Run)
  BY <1>1, FS_Subset
<1>3. QED
  BY <1>2, FS_CardinalityType

-----------------------------------------------------------------------------
\* The initial state satisfies the inductive invariant.
LEMMA InitIInv == Init => IInv
<1> SUFFICES ASSUME Init PROVE IInv
  OBVIOUS
<1>1. \A r \in Run : program[r] \in Programs /\ program[r].size \in [Stream -> Nat]
  BY DEF Init, Programs
<1>2. Counted = {} /\ Cardinality(Counted) = 0
  BY FS_EmptySet DEF Init, Counted
<1>3. 0 \in 0..Cardinality(Run)
  BY CountedFinite
<1>4. TypeOK
  BY <1>1, <1>3 DEF Init, TypeOK, Location, Note, NoResult
<1>5. MutexInv /\ ChildInv /\ EndInv /\ ResultInv
  BY DEF Init, MutexInv, ChildInv, EndInv, ResultInv
<1>6. FlowInv
  BY <1>1 DEF Init, FlowInv
<1>7. QED
  BY <1>2, <1>4, <1>5, <1>6 DEF IInv, CountInv, Init

-----------------------------------------------------------------------------
\* Each of the actions that moves the counter moves one run into or out of the
\* runs that count; the others move none.
LEMMA CountStep == TypeOK /\ CountInv /\ [Next]_vars => CountInv'
<1> SUFFICES ASSUME TypeOK, CountInv, [Next]_vars PROVE CountInv'
  OBVIOUS
<1>a. pc \in [Run -> Location]
  BY DEF TypeOK
<1>1. ASSUME NEW r \in Run, Count(r) PROVE CountInv'
  <2>1. Counted' = Counted \cup {r} /\ r \notin Counted
    BY <1>a, <1>1 DEF Counted, Count, At, Goto
  <2>2. Cardinality(Counted') = Cardinality(Counted) + 1
    BY <2>1, CountedFinite, FS_AddElement
  <2>3. QED
    BY <1>1, <2>2 DEF CountInv, Count
<1>2. ASSUME NEW r \in Run, FillResult(r) PROVE CountInv'
  <2>1. Counted' = Counted \ {r} /\ r \in Counted
    BY <1>a, <1>2 DEF Counted, FillResult, At, Goto
  <2>2. Cardinality(Counted') = Cardinality(Counted) - 1
    BY <2>1, CountedFinite, FS_RemoveElement
  <2>3. QED
    BY <1>2, <2>2 DEF CountInv, FillResult
<1>3. ASSUME NEW r \in Run,
             \/ Start(r) \/ DetachNotification(r) \/ Open(r) \/ OpenFails(r)
             \/ WaitChild(r) \/ CloseFds(r) \/ Lock(r) \/ PostFinish(r)
             \/ DestroyLocals(r)
      PROVE  CountInv'
  <2>1. Counted' = Counted /\ running' = running
    BY <1>a, <1>3 DEF Counted, Start, DetachNotification, Open, OpenFails, WaitChild,
       CloseFds, Lock, PostFinish, DestroyLocals, At, Goto, service
  <2>2. QED
    BY <2>1 DEF CountInv
<1>4. ASSUME pc' = pc, running' = running PROVE CountInv'
  BY <1>4 DEF CountInv, Counted
<1>5. ASSUME NEW r \in Run,
             \/ PostThrows(r) \/ NoteThread(r) \/ Exit(r) \/ Killed(r)
             \/ BackgroundEnds(r)
             \/ \E s \in Stream : Reader(r, s) \/ Write(r, s)
      PROVE  pc' = pc /\ running' = running
  BY <1>5 DEF PostThrows, NoteThread, NoteLock, NoteCompute, NotePost, NoteDangles,
     Exit, Killed, BackgroundEnds, Reader, Read, ReadEnd, Write, service
<1>6. CASE UNCHANGED vars
  BY <1>4, <1>6 DEF vars
<1>7. QED
  BY <1>1, <1>2, <1>3, <1>4, <1>5, <1>6, Zenon DEF Next, RunThread

-----------------------------------------------------------------------------
\* Every step preserves the types; that the counter stays in its range is
\* what CountStep says of the next state.
LEMMA TypeStep == TypeOK /\ CountInv' /\ [Next]_vars => TypeOK'
<1> SUFFICES ASSUME TypeOK, CountInv', [Next]_vars PROVE TypeOK'
  OBVIOUS
<1>1. running' \in 0..Cardinality(Run)
  <2>1. Counted' \subseteq Run
    BY DEF Counted
  <2>2. IsFiniteSet(Counted') /\ Cardinality(Counted') <= Cardinality(Run)
    BY <2>1, FS_Subset
  <2>3. Cardinality(Counted') \in Nat /\ Cardinality(Run) \in Nat
    BY <2>2, FS_CardinalityType
  <2>4. QED
    BY <2>2, <2>3 DEF CountInv
<1> USE <1>1 DEF TypeOK, Location, Note, service, process, Goto
<1>2. ASSUME NEW r \in Run,
             \/ Start(r) \/ Count(r) \/ DetachNotification(r) \/ OpenFails(r)
             \/ CloseFds(r) \/ Lock(r) \/ PostFinish(r) \/ PostThrows(r)
             \/ DestroyLocals(r)
      PROVE  TypeOK'
  BY <1>2 DEF Start, Count, DetachNotification, OpenFails, CloseFds, Lock,
     PostFinish, PostThrows, DestroyLocals
<1>3. ASSUME NEW r \in Run, Open(r) PROVE TypeOK'
  BY <1>3 DEF Open
<1>4. ASSUME NEW r \in Run, WaitChild(r) PROVE TypeOK'
  BY <1>4 DEF WaitChild
<1>5. ASSUME NEW r \in Run, FillResult(r) PROVE TypeOK'
  BY <1>5 DEF FillResult
<1>6. ASSUME NEW r \in Run, NoteThread(r) PROVE TypeOK'
  <2>1. CASE NoteLock(r) \/ NoteCompute(r) \/ NotePost(r)
    BY <2>1 DEF NoteLock, NoteCompute, NotePost
  <2>2. CASE NoteDangles(r)
    <3>1. alive' \in BOOLEAN /\ note' \in [Run -> Note]
      <4>1. CASE alive' = FALSE /\ UNCHANGED note
        BY <4>1
      <4>2. CASE UNCHANGED alive /\ \E n \in Note : note' = [note EXCEPT ![r] = n]
        BY <4>2
      <4>3. note[r] \in DOMAIN Astray => Astray[note[r]] \subseteq Note
        BY DEF Astray
      <4>4. QED
        BY <2>2, <4>1, <4>2, <4>3 DEF NoteDangles
    <3>2. QED
      BY <2>2, <3>1 DEF NoteDangles
  <2>3. QED
    BY <1>6, <2>1, <2>2 DEF NoteThread
<1>7. ASSUME NEW r \in Run, NEW s \in Stream, Read(r, s) PROVE TypeOK'
  BY <1>7 DEF Read
<1>8. ASSUME NEW r \in Run, NEW s \in Stream, ReadEnd(r, s) PROVE TypeOK'
  BY <1>8 DEF ReadEnd
<1>9. ASSUME NEW r \in Run, NEW s \in Stream, Write(r, s) PROVE TypeOK'
  BY <1>9 DEF Write
<1>10. ASSUME NEW r \in Run, Exit(r) PROVE TypeOK'
  BY <1>10, ProgramFacts DEF Exit
<1>11. ASSUME NEW r \in Run, Killed(r) PROVE TypeOK'
  <2>1. holders' \in [Run -> BOOLEAN]
    BY <1>11, ProgramFacts DEF Killed
  <2>2. QED
    BY <1>11, <2>1 DEF Killed
<1>12. ASSUME NEW r \in Run, BackgroundEnds(r) PROVE TypeOK'
  BY <1>12 DEF BackgroundEnds
<1>13. CASE UNCHANGED vars
  BY <1>13 DEF vars
<1>14. QED
  BY <1>2, <1>3, <1>4, <1>5, <1>6, <1>7, <1>8, <1>9, <1>10, <1>11, <1>12,
     <1>13, Zenon DEF Next, RunThread, Reader

-----------------------------------------------------------------------------
\* The places of the two threads and the holder of notifyMutex move together.
LEMMA MutexStep == TypeOK /\ MutexInv /\ [Next]_vars => MutexInv'
<1> SUFFICES ASSUME TypeOK, MutexInv, [Next]_vars PROVE MutexInv'
  OBVIOUS
<1>a. /\ pc \in [Run -> Location] /\ note \in [Run -> Note]
      /\ mutex \in [Run -> {"free", "run", "note", "gone"}]
  BY DEF TypeOK
<1> USE <1>a DEF MutexInv, At, Goto
<1>1. ASSUME NEW r \in Run,
             \/ Start(r) \/ Count(r) \/ Open(r) \/ OpenFails(r)
             \/ WaitChild(r) \/ CloseFds(r) \/ FillResult(r)
      PROVE  MutexInv'
  BY <1>1 DEF Start, Count, Open, OpenFails, WaitChild, CloseFds, FillResult
<1>2. ASSUME NEW r \in Run, DetachNotification(r) PROVE MutexInv'
  BY <1>2 DEF DetachNotification
<1>3. ASSUME NEW r \in Run, Lock(r) PROVE MutexInv'
  BY <1>3 DEF Lock
<1>4. ASSUME NEW r \in Run, PostFinish(r) \/ DestroyLocals(r) PROVE MutexInv'
  BY <1>4 DEF PostFinish, DestroyLocals
<1>5. ASSUME NEW r \in Run, NoteLock(r) PROVE MutexInv'
  BY <1>5 DEF NoteLock
<1>6. ASSUME NEW r \in Run, NoteCompute(r) PROVE MutexInv'
  BY <1>6 DEF NoteCompute
<1>7. ASSUME NEW r \in Run, NotePost(r) PROVE MutexInv'
  BY <1>7 DEF NotePost
<1>8. ASSUME NEW r \in Run, NoteDangles(r) PROVE MutexInv'
  BY <1>8 DEF NoteDangles, Astray
<1>9. ASSUME UNCHANGED <<pc, note, mutex>> PROVE MutexInv'
  BY <1>9
<1>10. ASSUME NEW r \in Run,
              \/ PostThrows(r) \/ Exit(r) \/ Killed(r) \/ BackgroundEnds(r)
              \/ \E s \in Stream : Reader(r, s) \/ Write(r, s)
       PROVE  UNCHANGED <<pc, note, mutex>>
  BY <1>10 DEF PostThrows, Exit, Killed, BackgroundEnds, Reader, Read, ReadEnd,
     Write
<1>11. CASE UNCHANGED vars
  BY <1>9, <1>11 DEF vars
<1>12. QED
  BY <1>1, <1>2, <1>3, <1>4, <1>5, <1>6, <1>7, <1>8, <1>9, <1>10, <1>11, Zenon
     DEF Next, RunThread, NoteThread

-----------------------------------------------------------------------------
\* The child goes through its life at the places of the run thread.
LEMMA ChildStep == TypeOK /\ ChildInv /\ [Next]_vars => ChildInv'
<1> SUFFICES ASSUME TypeOK, ChildInv, [Next]_vars PROVE ChildInv'
  OBVIOUS
<1>a. /\ pc \in [Run -> Location]
      /\ child \in [Run -> {"none", "running", "zombie", "reaped"}]
      /\ holders \in [Run -> BOOLEAN]
      /\ pipe \in [Run -> [Stream -> 0..Capacity]]
  BY DEF TypeOK
<1> USE <1>a DEF ChildInv, At, Goto, process
<1>1. ASSUME NEW r \in Run,
             \/ Start(r) \/ Count(r) \/ DetachNotification(r) \/ OpenFails(r)
             \/ CloseFds(r) \/ FillResult(r) \/ Lock(r) \/ PostFinish(r)
             \/ DestroyLocals(r)
      PROVE  ChildInv'
  <2>1. UNCHANGED <<child, holders, pipe>>
    BY <1>1 DEF Start, Count, DetachNotification, OpenFails, CloseFds,
       FillResult, Lock, PostFinish, DestroyLocals
  <2>2. /\ \A q \in Run : q # r => pc'[q] = pc[q]
        /\ \/ pc[r] \in {"idle", "count", "notify"} /\ pc'[r] \in {"count", "notify", "open"}
           \/ pc[r] \in {"open", "join", "fill", "lock", "post", "leave"}
              /\ pc'[r] \in {"fill", "lock", "post", "leave", "done"}
    BY <1>1 DEF Start, Count, DetachNotification, OpenFails, CloseFds,
       FillResult, Lock, PostFinish, DestroyLocals
  <2>3. QED
    BY <2>1, <2>2
<1>2. ASSUME NEW r \in Run, Open(r) PROVE ChildInv'
  BY <1>2 DEF Open
<1>3. ASSUME NEW r \in Run, WaitChild(r) PROVE ChildInv'
  BY <1>3 DEF WaitChild
<1>4. ASSUME NEW r \in Run, NEW s \in Stream, Read(r, s) PROVE ChildInv'
  BY <1>4 DEF Read
<1>5. ASSUME NEW r \in Run, NEW s \in Stream, Write(r, s) PROVE ChildInv'
  BY <1>5 DEF Write
<1>6. ASSUME NEW r \in Run, Exit(r) \/ Killed(r) PROVE ChildInv'
  <2>1. /\ child[r] = "running" /\ child' = [child EXCEPT ![r] = "zombie"]
        /\ \A q \in Run : q # r => holders'[q] = holders[q]
        /\ UNCHANGED <<pc, pipe>>
    BY <1>6 DEF Exit, Killed
  <2>2. QED
    BY <2>1
<1>7. ASSUME NEW r \in Run, BackgroundEnds(r) PROVE ChildInv'
  BY <1>7 DEF BackgroundEnds
<1>8. ASSUME UNCHANGED <<pc, child, holders, pipe>> PROVE ChildInv'
  BY <1>8
<1>9. ASSUME NEW r \in Run,
             \/ PostThrows(r) \/ NoteThread(r)
             \/ \E s \in Stream : ReadEnd(r, s)
      PROVE  UNCHANGED <<pc, child, holders, pipe>>
  BY <1>9 DEF PostThrows, NoteThread, NoteLock, NoteCompute, NotePost,
     NoteDangles, ReadEnd
<1>10. CASE UNCHANGED vars
  BY <1>8, <1>10 DEF vars
<1>11. QED
  BY <1>1, <1>2, <1>3, <1>4, <1>5, <1>6, <1>7, <1>8, <1>9, <1>10, Zenon
     DEF Next, RunThread, Reader

-----------------------------------------------------------------------------
\* What has ended stays ended: only Open() gives a pipe a holder, and only a
\* holder writes.
LEMMA EndStep == TypeOK /\ ChildInv /\ EndInv /\ [Next]_vars => EndInv'
<1> SUFFICES ASSUME TypeOK, ChildInv, EndInv, [Next]_vars,
                    NEW q \in Run, NEW z \in Stream,
                    reader'[q][z] = "ended" \/ pc'[q] \in {"fill", "lock", "post"}
             PROVE  ~holders'[q] /\ pipe'[q][z] = 0
  BY DEF EndInv
<1>a. /\ pc \in [Run -> Location]
      /\ child \in [Run -> {"none", "running", "zombie", "reaped"}]
      /\ holders \in [Run -> BOOLEAN]
      /\ pipe \in [Run -> [Stream -> 0..Capacity]]
      /\ reader \in [Run -> [Stream -> {"none", "reading", "ended"}]]
  BY DEF TypeOK
<1>b. reader[q][z] = "ended" \/ pc[q] \in {"fill", "lock", "post"} =>
        ~holders[q] /\ pipe[q][z] = 0
  BY DEF EndInv
<1>c. /\ child[q] = "none" => ~holders[q] /\ pipe[q][z] = 0
      /\ child[q] = "running" => holders[q]
      /\ pc[q] = "open" => child[q] = "none"
  BY DEF ChildInv
<1> USE <1>a, <1>b, <1>c DEF At, Goto, process
<1>1. ASSUME NEW r \in Run, Start(r) \/ Count(r) \/ DetachNotification(r)
      PROVE  ~holders'[q] /\ pipe'[q][z] = 0
  BY <1>1 DEF Start, Count, DetachNotification
<1>2. ASSUME NEW r \in Run, OpenFails(r) \/ CloseFds(r)
      PROVE  ~holders'[q] /\ pipe'[q][z] = 0
  BY <1>2 DEF OpenFails, CloseFds
<1>3. ASSUME NEW r \in Run,
             FillResult(r) \/ Lock(r) \/ PostFinish(r) \/ DestroyLocals(r)
      PROVE  ~holders'[q] /\ pipe'[q][z] = 0
  BY <1>3 DEF FillResult, Lock, PostFinish, DestroyLocals
<1>4. ASSUME NEW r \in Run, Open(r) \/ WaitChild(r)
      PROVE  ~holders'[q] /\ pipe'[q][z] = 0
  BY <1>4 DEF Open, WaitChild
<1>5. ASSUME NEW r \in Run, NEW s \in Stream, Read(r, s) \/ ReadEnd(r, s)
      PROVE  ~holders'[q] /\ pipe'[q][z] = 0
  <2>1. CASE Read(r, s)
    <3>1. /\ UNCHANGED <<pc, reader, holders>>
          /\ reader[r][s] = "reading" /\ pipe[r][s] > 0
          /\ pipe' = [pipe EXCEPT ![r][s] = @ - 1]
      BY <2>1 DEF Read
    <3>2. <<r, s>> # <<q, z>> /\ pipe[q][z] = 0
      BY <3>1
    <3>3. pipe'[q][z] = pipe[q][z]
      BY <3>1, <3>2
    <3>4. QED
      BY <3>1, <3>2, <3>3
  <2>2. CASE ReadEnd(r, s)
    BY <2>2 DEF ReadEnd
  <2>3. QED
    BY <1>5, <2>1, <2>2
<1>6. ASSUME NEW r \in Run, NEW s \in Stream, Write(r, s)
      PROVE  ~holders'[q] /\ pipe'[q][z] = 0
  BY <1>6 DEF Write
<1>7. ASSUME NEW r \in Run, Exit(r) \/ Killed(r)
      PROVE  ~holders'[q] /\ pipe'[q][z] = 0
  <2>1. /\ child[r] = "running" /\ UNCHANGED <<pc, reader, pipe>>
        /\ r # q => holders'[q] = holders[q]
    BY <1>7 DEF Exit, Killed
  <2>2. QED
    BY <2>1
<1>8. ASSUME NEW r \in Run, BackgroundEnds(r)
      PROVE  ~holders'[q] /\ pipe'[q][z] = 0
  BY <1>8 DEF BackgroundEnds
<1>9. ASSUME NEW r \in Run, PostThrows(r) \/ NoteThread(r)
      PROVE  ~holders'[q] /\ pipe'[q][z] = 0
  BY <1>9 DEF PostThrows, NoteThread, NoteLock, NoteCompute, NotePost, NoteDangles
<1>10. CASE UNCHANGED vars
  BY <1>10 DEF vars
<1>11. QED
  BY <1>1, <1>2, <1>3, <1>4, <1>5, <1>6, <1>7, <1>8, <1>9, <1>10, Zenon
     DEF Next, RunThread, Reader

-----------------------------------------------------------------------------
\* A unit moves from the program to the pipe and from the pipe to the content.
LEMMA FlowStep == TypeOK /\ FlowInv /\ [Next]_vars => FlowInv'
<1> SUFFICES ASSUME TypeOK, FlowInv, [Next]_vars, NEW q \in Run, NEW z \in Stream
             PROVE  content'[q][z] + pipe'[q][z] + left'[q][z]
                      = program'[q].size[z]
  BY DEF FlowInv
<1>a. /\ left \in [Run -> [Stream -> Nat]]
      /\ pipe \in [Run -> [Stream -> 0..Capacity]]
      /\ content \in [Run -> [Stream -> Nat]]
      /\ program[q].size[z] \in Nat
  BY ProgramFacts DEF TypeOK
<1>b. content[q][z] + pipe[q][z] + left[q][z] = program[q].size[z]
  BY DEF FlowInv
<1>1. ASSUME NEW r \in Run, NEW s \in Stream, Read(r, s)
      PROVE  content'[q][z] + pipe'[q][z] + left'[q][z] = program'[q].size[z]
  BY <1>a, <1>b, <1>1 DEF Read
<1>2. ASSUME NEW r \in Run, NEW s \in Stream, Write(r, s)
      PROVE  content'[q][z] + pipe'[q][z] + left'[q][z] = program'[q].size[z]
  <2>1. /\ left[r][s] > 0 /\ UNCHANGED <<content, program>>
        /\ left' = [left EXCEPT ![r][s] = @ - 1]
        /\ pipe' = [pipe EXCEPT ![r][s] = @ + 1]
    BY <1>2 DEF Write
  <2>2. CASE r = q /\ s = z
    <3>1. left'[q][z] = left[q][z] - 1 /\ pipe'[q][z] = pipe[q][z] + 1
      BY <1>a, <2>1, <2>2
    <3>2. left[q][z] \in Nat /\ pipe[q][z] \in Nat /\ content[q][z] \in Nat
      BY <1>a
    <3>3. QED
      BY <1>a, <1>b, <2>1, <3>1, <3>2
  <2>3. CASE ~(r = q /\ s = z)
    <3>1. left'[q][z] = left[q][z] /\ pipe'[q][z] = pipe[q][z]
      BY <1>a, <2>1, <2>3
    <3>2. QED
      BY <1>b, <2>1, <3>1
  <2>4. QED
    BY <2>2, <2>3
<1>3. ASSUME UNCHANGED <<content, pipe, left, program>>
      PROVE  content'[q][z] + pipe'[q][z] + left'[q][z] = program'[q].size[z]
  BY <1>b, <1>3
<1>4. ASSUME NEW r \in Run,
             \/ Start(r) \/ RunThread(r) \/ Exit(r) \/ Killed(r)
             \/ BackgroundEnds(r) \/ \E s \in Stream : ReadEnd(r, s)
      PROVE  UNCHANGED <<content, pipe, left, program>>
  BY <1>4 DEF Start, RunThread, Count, DetachNotification, Open, OpenFails,
     WaitChild, CloseFds, FillResult, Lock, PostFinish, PostThrows,
     DestroyLocals, Exit, Killed, BackgroundEnds, ReadEnd, process
<1>5. ASSUME NEW r \in Run, NoteThread(r)
      PROVE  UNCHANGED <<content, pipe, left, program>>
  BY <1>5 DEF NoteThread, NoteLock, NoteCompute, NotePost, NoteDangles, process
<1>6. CASE UNCHANGED vars
  BY <1>3, <1>6 DEF vars
<1>7. QED
  BY <1>1, <1>2, <1>3, <1>4, <1>5, <1>6, Zenon DEF Next, Reader

-----------------------------------------------------------------------------
\* Once filled, the result agrees with the end of the program and with what
\* was read, which nobody adds to any more.
LEMMA ResultStep ==
  TypeOK /\ ChildInv /\ EndInv /\ ResultInv /\ [Next]_vars => ResultInv'
<1> SUFFICES ASSUME TypeOK, ChildInv, EndInv, ResultInv, [Next]_vars,
                    NEW q \in Run, pc'[q] \in {"lock", "post"}
             PROVE  result'[q] = [normal |-> exit'[q] = "zero", content |-> content'[q]]
  BY DEF ResultInv
<1>a. /\ pc \in [Run -> Location]
      /\ exit \in [Run -> {"none", "zero", "other"}]
      /\ content \in [Run -> [Stream -> Nat]]
      /\ result \in [Run -> [normal : BOOLEAN, content : [Stream -> Nat]]]
  BY DEF TypeOK
<1>b. /\ pc[q] \in {"lock", "post"} =>
           result[q] = [normal |-> exit[q] = "zero", content |-> content[q]]
      /\ pc[q] \in {"lock", "post"} =>
           child[q] # "running" /\ \A s \in Stream : pipe[q][s] = 0
  BY DEF ResultInv, ChildInv, EndInv
<1> DEFINE Agrees == result'[q] = [normal |-> exit'[q] = "zero", content |-> content'[q]]
<1>1. ASSUME NEW r \in Run,
             \/ Start(r) \/ Count(r) \/ DetachNotification(r) \/ Open(r)
             \/ OpenFails(r) \/ WaitChild(r) \/ CloseFds(r)
      PROVE  Agrees
  <2>1. /\ UNCHANGED <<result, exit, content>>
        /\ pc' = [pc EXCEPT ![r] = pc'[r]] /\ pc'[r] \notin {"lock", "post"}
    BY <1>a, <1>1 DEF Start, Count, DetachNotification, Open, OpenFails, WaitChild,
       CloseFds, Goto, process
  <2>2. pc[q] \in {"lock", "post"}
    BY <1>a, <2>1
  <2>3. QED
    BY <1>b, <2>1, <2>2
<1>2. ASSUME NEW r \in Run, FillResult(r) PROVE Agrees
  BY <1>a, <1>b, <1>2 DEF FillResult, At, Goto, process
<1>3. ASSUME NEW r \in Run, Lock(r) \/ PostFinish(r) \/ DestroyLocals(r) PROVE Agrees
  <2>1. UNCHANGED <<result, exit, content>> /\ pc[q] \in {"lock", "post"}
    BY <1>a, <1>3 DEF Lock, PostFinish, DestroyLocals, At, Goto, process
  <2>2. QED
    BY <1>b, <2>1
<1>4. ASSUME UNCHANGED <<pc, result, exit, content>> PROVE Agrees
  BY <1>b, <1>4
<1>5. ASSUME NEW r \in Run,
             \/ PostThrows(r) \/ NoteThread(r) \/ BackgroundEnds(r)
             \/ \E s \in Stream : ReadEnd(r, s) \/ Write(r, s)
      PROVE  UNCHANGED <<pc, result, exit, content>>
  BY <1>5 DEF PostThrows, NoteThread, NoteLock, NoteCompute, NotePost,
     NoteDangles, BackgroundEnds, ReadEnd, Write, process
<1>6. ASSUME NEW r \in Run, NEW s \in Stream, Read(r, s) PROVE Agrees
  <2>1. /\ UNCHANGED <<pc, result, exit>> /\ pipe[r][s] > 0
        /\ content' = [content EXCEPT ![r][s] = @ + 1]
    BY <1>6 DEF Read
  <2>2. r # q
    BY <1>b, <2>1
  <2>3. QED
    BY <1>a, <1>b, <2>1, <2>2
<1>7. ASSUME NEW r \in Run, Exit(r) \/ Killed(r) PROVE Agrees
  <2>1. /\ child[r] = "running" /\ UNCHANGED <<pc, result, content>>
        /\ r # q => exit'[q] = exit[q]
    BY <1>a, <1>7 DEF Exit, Killed
  <2>2. QED
    BY <1>b, <2>1
<1>8. CASE UNCHANGED vars
  BY <1>4, <1>8 DEF vars
<1>9. QED
  BY <1>1, <1>2, <1>3, <1>4, <1>5, <1>6, <1>7, <1>8, Zenon
     DEF Next, RunThread, Reader

-----------------------------------------------------------------------------
\* Whatever the programs, the sizes of the pipes and the order of the threads,
\* the inductive invariant holds in every state.
THEOREM Invariance == Spec => []IInv
<1>1. IInv /\ [Next]_vars => IInv'
  BY CountStep, TypeStep, MutexStep, ChildStep, EndStep, FlowStep, ResultStep
     DEF IInv
<1>2. QED
  BY InitIInv, <1>1, PTL DEF Spec

\* The variables keep their types; the counter of GET / is never negative and
\* never more than the number of runs.
THEOREM TypeCorrect == Spec => []TypeOK
BY Invariance, PTL DEF IInv

\* A finish notification carries all that the run wrote and says `normal`
\* exactly when the program ended by itself with status 0
\* (taskTable.cpp:116-124, process.cpp:105-138).
THEOREM FinishTruthful == Spec => []FinishTellsTruth
<1>1. IInv => FinishTellsTruth
  <2> SUFFICES ASSUME IInv, NEW r \in Run, pc[r] \in {"lock", "post"}
               PROVE  /\ result[r].normal = (exit[r] = "zero")
                      /\ \A s \in Stream :
                           result[r].content[s] = program[r].size[s] - left[r][s]
    BY DEF FinishTellsTruth
  <2>1. result[r] = [normal |-> exit[r] = "zero", content |-> content[r]]
    BY DEF IInv, ResultInv
  <2>2. ASSUME NEW s \in Stream
        PROVE  content[r][s] = program[r].size[s] - left[r][s]
    <3>1. content[r][s] + pipe[r][s] + left[r][s] = program[r].size[s]
      BY DEF IInv, FlowInv
    <3>2. pipe[r][s] = 0
      BY DEF IInv, EndInv
    <3>3. content[r][s] \in Nat /\ left[r][s] \in Nat
      BY DEF IInv, TypeOK
    <3>4. QED
      BY <3>1, <3>2, <3>3
  <2>3. QED
    BY <2>1, <2>2
<1>2. QED
  BY Invariance, <1>1, PTL

\* The two notifications of a run are never under way together, also when the
\* start is posted late and with what is left of the run thread's locals
\* (taskTable.cpp:101, 128).
THEOREM NotificationsExclude == Spec => []NotificationsTakeTurns
<1>1. IInv => NotificationsTakeTurns
  BY DEF IInv, MutexInv, NotificationsTakeTurns
<1>2. QED
  BY Invariance, <1>1, PTL

\* running_number counts every child that is not reaped and comes back to 0
\* when every run has ended, whichever way (taskTable.cpp:90, 127).
THEOREM RunningCorrect == Spec => []RunningCountsChildren
<1>1. IInv => RunningCountsChildren
  <2> SUFFICES ASSUME IInv PROVE RunningCountsChildren
    OBVIOUS
  <2> DEFINE Children == {r \in Run : child[r] \in {"running", "zombie"}}
  <2>1. running = Cardinality(Counted)
    BY DEF IInv, CountInv
  <2>2. Children \subseteq Counted
    BY DEF IInv, TypeOK, Location, ChildInv, Counted
  <2>3. Cardinality(Children) <= running
    BY <2>1, <2>2, CountedFinite, FS_Subset
  <2>4. ASSUME \A r \in Run : pc[r] \in {"idle", "done"} PROVE running = 0
    <3>1. Counted = {}
      BY <2>4 DEF Counted
    <3>2. QED
      BY <2>1, <3>1, FS_EmptySet
  <2>5. QED
    BY <2>3, <2>4 DEF RunningCountsChildren
<1>2. QED
  BY Invariance, <1>1, PTL

=============================================================================
