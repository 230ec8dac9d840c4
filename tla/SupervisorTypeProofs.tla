------------------------- MODULE SupervisorTypeProofs -------------------------
(***************************************************************************)
(* The type invariant of Supervisor, for any number of reloads, of         *)
(* handlers that run or are interrupted at a time, and of runs, whatever   *)
(* overlaps.  What is not obvious of it is that no thread handles a signal *)
(* twice at a time, which StackInv says, and that the objects of a kind    *)
(* are never more than the reloads account for, which NumberInv says.      *)
(***************************************************************************)
EXTENDS SupervisorProofs

USE BoundsAssumption DEF Thread

-----------------------------------------------------------------------------
(* The stacks, seen from the top.                                          *)

LEMMA StacksTyped ==
  ASSUME StackInv
  PROVE  StackOK
<1>1. Stacked
  BY StackFacts
<1>2. ASSUME NEW t \in Thread
      PROVE  /\ \A i \in InHandler(t) : \E s \in Signal : stack[t][i] \in Places[s]
             /\ \A s \in Signal :
                  Cardinality({i \in InHandler(t) : stack[t][i] \in Places[s]}) <= 1
  <2> DEFINE n == Len(stack[t])
  <2>1. stack[t] \in Seq(AllPlaces) /\ Frames[t] = Rev(stack[t])
    BY <1>1 DEF Stacked, Frames
  <2>2. /\ n \in Nat /\ DOMAIN stack[t] = 1..n /\ DOMAIN Frames[t] = 1..n
        /\ \A k \in 1..n : Frames[t][k] = stack[t][n + 1 - k] /\ Frames[t][k] \in AllPlaces
    BY <2>1, RevFacts, LenProperties
  <2>3. \A i \in InHandler(t) : i \in 1..n /\ (t = "main" => i < n)
    BY <2>2 DEF InHandler
  <2> HIDE DEF n
  <2>4. ASSUME NEW i \in InHandler(t)
        PROVE  \E k \in 1..n : /\ k = n + 1 - i /\ Frames[t][k] = stack[t][i]
                               /\ Frames[t][k] \notin Places["main"]
    <3>1. PICK k \in 1..n : k = n + 1 - i /\ n + 1 - k = i
      BY <2>2, <2>3
    <3>2. Frames[t][k] = stack[t][i]
      BY <2>2, <3>1
    <3>3. ~ (t = "main" /\ k = 1)
      BY <2>2, <2>3, <3>1
    <3>4. QED
      BY <2>2, <3>1, <3>2, <3>3, StackFacts
  <2>5. ASSUME NEW i \in InHandler(t) PROVE \E s \in Signal : stack[t][i] \in Places[s]
    BY <2>2, <2>4, Names DEF Signal
  <2>6. ASSUME NEW s \in Signal
        PROVE  Cardinality({i \in InHandler(t) : stack[t][i] \in Places[s]}) <= 1
    <3> DEFINE S == {i \in InHandler(t) : stack[t][i] \in Places[s]}
    <3>1. ASSUME NEW i \in S, NEW j \in S PROVE i = j
      <4>1. PICK k \in 1..n : k = n + 1 - i /\ Frames[t][k] = stack[t][i]
        BY <2>4
      <4>2. PICK l \in 1..n : l = n + 1 - j /\ Frames[t][l] = stack[t][j]
        BY <2>4
      <4>3. k = l
        BY <2>2, <4>1, <4>2, StackFacts
      <4>4. i \in 1..n /\ j \in 1..n
        BY <2>3
      <4>5. QED
        BY <2>2, <4>1, <4>2, <4>3, <4>4
    <3> HIDE DEF S
    <3>2. CASE S = {}
      BY <3>2, FS_EmptySet DEF S
    <3>3. CASE S # {}
      <4>1. PICK i : S = {i}
        BY <3>1, <3>3
      <4>2. Cardinality(S) = 1
        BY <4>1, FS_Singleton
      <4>3. QED
        BY <4>2 DEF S
    <3>4. QED
      BY <3>2, <3>3
  <2>7. QED
    BY <2>5, <2>6
<1>3. ASSUME outcome = "alive" PROVE Interrupted \in Places["main"]
  <2>a. stack["main"] # << >>
    BY <1>3 DEF StackInv
  <2>1. /\ Len(stack["main"]) \in Nat /\ Len(stack["main"]) >= 1
        /\ DOMAIN Frames["main"] = 1..Len(stack["main"])
        /\ Interrupted = Frames["main"][1]
    BY <1>1, <2>a, Tops
  <2>2. 1 \in DOMAIN Frames["main"]
    BY <2>1
  <2>3. \A t \in Thread : \A k \in DOMAIN Frames[t] :
          Frames[t][k] \in Places["main"] <=> t = "main" /\ k = 1
    BY StackFacts
  <2>4. Frames["main"][1] \in Places["main"]
    BY <2>2, <2>3, SMT
  <2>5. QED
    BY <2>1, <2>4
<1>4. \A t \in Thread :
        /\ \A i \in InHandler(t) : \E s \in Signal : stack[t][i] \in Places[s]
        /\ \A s \in Signal :
             Cardinality({i \in InHandler(t) : stack[t][i] \in Places[s]}) <= 1
  BY <1>2
<1>5. QED
  BY <1>3, <1>4, Zenon DEF StackOK

-----------------------------------------------------------------------------
(* Whether a thread is at one of the places L.                             *)

LEMMA InFramesNext ==
  ASSUME Stacked', NEW t \in Thread, NEW L
  PROVE  In(t, L)' <=> \E k \in DOMAIN Frames'[t] : Frames'[t][k] \in L
<1>1. stack'[t] \in Seq(AllPlaces) /\ Frames'[t] = Rev(stack'[t])
  BY DEF Stacked, Frames
<1>2. QED
  BY <1>1, RevIn DEF In

LEMMA InGo ==
  ASSUME StackInv, outcome = "alive", NEW t \in Thread, NEW h \in DOMAIN Places,
         Here(t) \in Places[h], NEW l \in Places[h], Go(t, l), NEW L
  PROVE  /\ \A u \in Thread : In(u, L)' => In(u, L) \/ (u = t /\ l \in L)
         /\ Here(t) \in L => In(t, L)
         /\ h \in Signal /\ L \subseteq Places[h] /\ l \notin L => ~In(t, L)'
<1> DEFINE n == Len(stack[t])
<1>1. Here(t) \in AllPlaces /\ l \in AllPlaces
  BY DEF AllPlaces
<1>2. /\ Stacked'
      /\ \A u \in Thread : DOMAIN Frames'[u] = DOMAIN Frames[u]
      /\ \A u \in Thread : \A k \in DOMAIN Frames[u] :
           Frames'[u][k] = IF u = t /\ k = n THEN l ELSE Frames[u][k]
  BY <1>1, FramesGo
<1>3. n \in DOMAIN Frames[t] /\ Frames[t][n] = Here(t)
  BY <1>1, Above
<1> HIDE DEF n
<1>4. /\ \A u \in Thread : In(u, L) <=> \E k \in DOMAIN Frames[u] : Frames[u][k] \in L
      /\ \A u \in Thread : In(u, L)' <=> \E k \in DOMAIN Frames'[u] : Frames'[u][k] \in L
  BY <1>2, StackFacts, InFrames, InFramesNext
<1>5. \A u \in Thread : In(u, L)' => In(u, L) \/ (u = t /\ l \in L)
  BY <1>2, <1>4
<1>6. Here(t) \in L => In(t, L)
  BY <1>3, <1>4
<1>7. ASSUME h \in Signal, L \subseteq Places[h], l \notin L PROVE ~In(t, L)'
  <2>1. \A k \in DOMAIN Frames[t] : k # n => Frames[t][k] \notin Places[h]
    BY <1>3, <1>7, StackFacts
  <2>2. QED
    BY <1>2, <1>4, <1>7, <2>1
<1>8. QED
  BY <1>5, <1>6, <1>7

LEMMA InReturn ==
  ASSUME StackInv, outcome = "alive", NEW t \in Thread,
         Here(t) \in AllPlaces \ Places["main"], Return(t), NEW L
  PROVE  \A u \in Thread : In(u, L)' => In(u, L)
<1>1. /\ Stacked'
      /\ \A u \in Thread : \A k \in DOMAIN Frames'[u] :
           k \in DOMAIN Frames[u] /\ Frames'[u][k] = Frames[u][k]
  BY FramesReturn
<1>2. QED
  BY <1>1, StackFacts, InFrames, InFramesNext

LEMMA InPush ==
  ASSUME StackInv, outcome = "alive", NEW t \in Thread, NEW s \in Signal, Interrupt(t, s),
         NEW L, "test" \notin L
  PROVE  \A u \in Thread : In(u, L)' => In(u, L) \/ (u = t /\ First[s] \in L)
<1> DEFINE n == Len(stack[t]) + 1
<1>1. /\ Stacked' /\ Frames'[t][n] = First[s]
      /\ \A u \in Thread : \A k \in DOMAIN Frames'[u] :
           k \in DOMAIN Frames[u] \/ (u = t /\ k = n)
      /\ \A u \in Thread : \A k \in DOMAIN Frames[u] :
           Frames'[u][k] = Frames[u][k] \/ Frames'[u][k] = "test"
  BY FramesPush
<1> HIDE DEF n
<1>2. QED
  BY <1>1, StackFacts, InFrames, InFramesNext

-----------------------------------------------------------------------------
(* How many objects there are.                                             *)

Counted == {"config", "table"}

LEMMA BeforeFacts ==
  ASSUME NEW k \in Counted
  PROVE  /\ k \in Kind /\ BeforeNew[k] \subseteq Places["HUP"] /\ "test" \notin BeforeNew[k]
         /\ \A h \in DOMAIN Places \ {"HUP"} : \A p \in Places[h] : p \notin BeforeNew[k]
<1>1. BeforeNew[k] \subseteq Places["HUP"] /\ "test" \notin BeforeNew[k]
  BY Names DEF Counted, BeforeNew
<1>2. QED
  BY <1>1, Names, Apart DEF Counted, Kind

\* What a thread may add to what the reloads account for
LEMMA PendingFacts ==
  ASSUME NEW k, NEW t
  PROVE  /\ Pending(k, t) \in 0..1 /\ (Pending(k, t) = 1 <=> In(t, BeforeNew[k]))
         /\ Pending(k, t)' \in 0..1 /\ (Pending(k, t)' = 1 <=> In(t, BeforeNew[k])')
BY DEF Pending

\* No object of a kind is made or deleted ...
LEMMA NumberedKept ==
  ASSUME NEW k \in Counted, Numbered(k), ptr'[k] = ptr[k],
         \A n : <<k, n>> \in deleted' <=> <<k, n>> \in deleted
  PROVE  Numbered(k)'
BY DEF Numbered, Deleted, Gone, Current

\* ... and no thread is before it anew.
LEMMA AccountedKept ==
  ASSUME FlagInv, NEW k \in Counted, Accounted(k), ptr'[k] = ptr[k], hups' = hups,
         \A u \in Thread : In(u, BeforeNew[k])' => In(u, BeforeNew[k])
  PROVE  Accounted(k)'
<1>1. \A u \in Thread : /\ Pending(k, u) \in Int /\ Pending(k, u)' \in Int
                        /\ Pending(k, u)' <= Pending(k, u)
  BY PendingFacts
<1>2. ptr[k] \in Int /\ hups \in Int
  BY BeforeFacts DEF FlagInv
<1>3. QED
  BY <1>1, <1>2 DEF Accounted

\* A step that makes and deletes no Config and no TaskTable
LEMMA NumberKept ==
  ASSUME FlagInv, NumberInv, \A k \in Counted : ptr'[k] = ptr[k],
         \A k \in Counted : \A n : <<k, n>> \in deleted' <=> <<k, n>> \in deleted,
         hups' = hups,
         outcome' = "alive" =>
           /\ outcome = "alive"
           /\ \A k \in Counted : \A u \in Thread : In(u, BeforeNew[k])' => In(u, BeforeNew[k])
  PROVE  NumberInv'
BY NumberedKept, AccountedKept DEF NumberInv, Counted

\* It goes on inside its handler ...
LEMMA NumberGo ==
  ASSUME StackInv, outcome = "alive", NEW t \in Thread, NEW h \in DOMAIN Places,
         Here(t) \in Places[h], NEW l \in Places[h], Go(t, l),
         NEW k \in Counted, l \in BeforeNew[k] => Here(t) \in BeforeNew[k]
  PROVE  \A u \in Thread : In(u, BeforeNew[k])' => In(u, BeforeNew[k])
<1>1. /\ \A u \in Thread : In(u, BeforeNew[k])' =>
              In(u, BeforeNew[k]) \/ (u = t /\ l \in BeforeNew[k])
      /\ Here(t) \in BeforeNew[k] => In(t, BeforeNew[k])
  BY InGo
<1>2. QED
  BY <1>1

\* ... or deletes an object ...
LEMMA NumberDelete ==
  ASSUME FlagInv, NEW k \in Counted, Numbered(k), Delete(k), ~Gone(k),
         ptr[k] \in Generation
  PROVE  Numbered(k)'
<1>1. ptr' = ptr /\ deleted' = deleted \cup {<<k, ptr[k]>>}
  BY DEF Delete, Current
<1>2. Gone(k)'
  BY <1>1 DEF Gone, Current
<1>3. Deleted(k)' = Deleted(k) \cup {ptr[k]}
  BY <1>1 DEF Deleted
<1>4. Deleted(k) = 1..(ptr[k] - 1) /\ ptr[k] \in Nat /\ ptr[k] >= 1
  BY DEF Numbered, Generation
<1>5. (1..(ptr[k] - 1)) \cup {ptr[k]} = 1..ptr[k]
  BY <1>4
<1>6. QED
  BY <1>1, <1>2, <1>3, <1>4, <1>5 DEF Numbered

\* ... or makes one, and is past it.
LEMMA NumberNew ==
  ASSUME FlagInv, NEW k \in Counted, Numbered(k), Accounted(k), New(k),
         ptr[k] \in Generation, deleted \subseteq Kind \X Generation, hups' = hups,
         NEW t \in Thread, In(t, BeforeNew[k]), ~In(t, BeforeNew[k])',
         \A u \in Thread : In(u, BeforeNew[k])' => In(u, BeforeNew[k])
  PROVE  Numbered(k)' /\ Accounted(k)'
<1>1. k \in Kind /\ ptr[k] \in Nat /\ ptr[k] >= 1 /\ hups \in Nat
  BY BeforeFacts DEF FlagInv, Generation
<1>2. PICK n \in Nat : n = IF Gone(k) THEN ptr[k] ELSE ptr[k] - 1
  BY <1>1
<1>3. Deleted(k) = 1..n
  BY <1>2 DEF Numbered
<1>4. ptr'[k] = n + 1 /\ deleted' = deleted
  BY <1>1, <1>3, NewName DEF Deleted
<1>5. n + 1 \notin Deleted(k)
  BY <1>3
<1>6. ~Gone(k)'
  BY <1>4, <1>5 DEF Gone, Current, Deleted
<1>7. Numbered(k)'
  <2>1. Deleted(k)' = 1..n /\ n + 1 - 1 = n
    BY <1>3, <1>4 DEF Deleted
  <2>2. QED
    BY <1>4, <1>6, <2>1 DEF Numbered
<1>8. Accounted(k)'
  <2>1. /\ Pending(k, t) = 1 /\ Pending(k, t)' = 0
        /\ \A u \in Thread : /\ Pending(k, u) \in Int /\ Pending(k, u)' \in Int
                             /\ Pending(k, u)' <= Pending(k, u)
    BY PendingFacts
  <2>2. ptr'[k] <= ptr[k] + 1 /\ ptr'[k] \in Int
    BY <1>1, <1>2, <1>4
  <2>3. QED
    BY <1>1, <2>1, <2>2 DEF Accounted
<1>9. QED
  BY <1>7, <1>8

-----------------------------------------------------------------------------
(* What each step does to the numbers of the objects and to the values.    *)

Typed == IInv /\ NumberInv /\ ValuesOK

\* A thread goes on inside a handler, or main() does, and the objects that are
\* counted stay.
LEMMA GoNumbers ==
  ASSUME Typed, NEW t \in Thread, NEW h \in DOMAIN Places, NEW p \in Places[h],
         NEW l \in Places[h], At(t, p), Go(t, l), hups' = hups, outcome' = outcome,
         h = "HUP" => \A k \in Counted : l \in BeforeNew[k] => p \in BeforeNew[k],
         \A k \in Counted : ptr'[k] = ptr[k],
         \A k \in Counted : \A n : <<k, n>> \in deleted' <=> <<k, n>> \in deleted
  PROVE  NumberInv'
<1>1. /\ Here(t) = p /\ outcome = "alive" /\ StackInv /\ FlagInv /\ NumberInv
  BY DEF At, Intact, Typed, IInv
<1>2. \A k \in Counted : l \in BeforeNew[k] => p \in BeforeNew[k]
  BY BeforeFacts
<1>3. \A k \in Counted : \A u \in Thread : In(u, BeforeNew[k])' => In(u, BeforeNew[k])
  BY <1>1, <1>2, NumberGo
<1>4. QED
  BY <1>1, <1>3, NumberKept

\* A handler returns.
LEMMA ReturnNumbers ==
  ASSUME Typed, NEW t \in Thread, NEW p \in AllPlaces \ Places["main"], At(t, p),
         Return(t), UNCHANGED <<ptr, deleted, hups, outcome>>
  PROVE  NumberInv'
<1>1. /\ Here(t) = p /\ outcome = "alive" /\ StackInv /\ FlagInv /\ NumberInv
  BY DEF At, Intact, Typed, IInv
<1>2. \A k \in Counted : \A u \in Thread : In(u, BeforeNew[k])' => In(u, BeforeNew[k])
  BY <1>1, InReturn
<1>3. QED
  BY <1>1, <1>2, NumberKept

\* No thread moves.
LEMMA StillNumbers ==
  ASSUME Typed, UNCHANGED <<stack, ptr, deleted, hups, outcome>>
  PROVE  NumberInv'
<1>1. \A k \in Counted : \A u \in Thread : In(u, BeforeNew[k])' => In(u, BeforeNew[k])
  BY DEF In
<1>2. QED
  BY <1>1, NumberKept DEF Typed, IInv

Booleans == {timer, pidFile} \subseteq BOOLEAN
SeenOK == seen \in [Thread -> Generation]
ObjectsOK == ptr \in [Kind -> Generation] /\ deleted \subseteq Kind \X Generation
HttpOK ==
  /\ server \in [Generation -> {"none", "created", "listening", "closed", "ended",
                             "failed"}]
  /\ owner \in [Generation -> [Kind -> Generation]]
  /\ busy \in [Generation -> BOOLEAN]
  /\ missed \subseteq Generation
RunsOK == run \in [Runs -> [running : BOOLEAN, config : Generation, table : Generation]]
OutcomeOK ==
  outcome \in {"alive", "exited", "failed", "heap", "listener", "worker", "run", "main"}
                \cup Signal

\* The rest is in FlagInv.
LEMMA Parts ==
  ASSUME FlagInv
  PROVE  ValuesOK <=>
           Booleans /\ SeenOK /\ ObjectsOK /\ HttpOK /\ RunsOK /\ OutcomeOK
BY DEF FlagInv, ValuesOK, Booleans, SeenOK, ObjectsOK, HttpOK, RunsOK, OutcomeOK

LEMMA PartsNext ==
  ASSUME FlagInv', Booleans', SeenOK', ObjectsOK', HttpOK', RunsOK', OutcomeOK'
  PROVE  ValuesOK'
BY DEF FlagInv, ValuesOK, Booleans, SeenOK, ObjectsOK, HttpOK, RunsOK, OutcomeOK

\* What a step leaves alone
LEMMA Same ==
  /\ Booleans /\ UNCHANGED flags => Booleans'
  /\ Booleans /\ UNCHANGED <<timer, pidFile>> => Booleans'
  /\ SeenOK /\ UNCHANGED seen => SeenOK'
  /\ ObjectsOK /\ UNCHANGED objects => ObjectsOK'
  /\ HttpOK /\ UNCHANGED http => HttpOK'
  /\ RunsOK /\ UNCHANGED run => RunsOK'
  /\ OutcomeOK /\ UNCHANGED outcome => OutcomeOK'
BY DEF flags, objects, http, Booleans, SeenOK, ObjectsOK, HttpOK, RunsOK, OutcomeOK

\* What a step may rely on
LEMMA TypedFacts ==
  ASSUME Typed
  PROVE  /\ FlagInv /\ StackInv /\ NumberInv
         /\ Booleans /\ SeenOK /\ ObjectsOK /\ HttpOK /\ RunsOK /\ OutcomeOK
BY Parts DEF Typed, IInv

\* A step that changes nothing but stacks, flags and history
LEMMA FlagStep ==
  ASSUME Typed, FlagInv', Booleans', UNCHANGED <<seen, objects, http, run, outcome>>
  PROVE  ValuesOK'
BY TypedFacts, Same, PartsNext

LEMMA One == 1 \in Generation
BY DEF Generation

\* The process ends.
LEMMA EndTypes ==
  ASSUME Typed, FlagInv', NEW how, how # "alive", End(how),
         how \in {"exited", "failed", "heap", "listener", "worker", "run"} \cup DOMAIN Places
  PROVE  NumberInv' /\ ValuesOK'
<1>1. outcome' = how /\ UNCHANGED <<ptr, deleted, hups>>
  BY DEF End, objects, history
<1>2. NumberInv'
  BY <1>1, TypedFacts, NumberKept
<1>3. Booleans' /\ ObjectsOK'
  BY <1>1, TypedFacts, Same DEF End, Booleans, objects
<1>4. SeenOK' /\ HttpOK' /\ RunsOK'
  BY TypedFacts, One DEF End, SeenOK, HttpOK, RunsOK, Idle
<1>5. OutcomeOK'
  BY <1>1, Names DEF OutcomeOK, Signal
<1>6. QED
  BY <1>2, <1>3, <1>4, <1>5, PartsNext

LEMMA DangleTypes ==
  ASSUME Typed, FlagInv', Dangle
  PROVE  NumberInv' /\ ValuesOK'
<1>1. \E how \in {"heap", "listener", "worker", "run"} \cup DOMAIN Places : End(how)
  BY DEF Dangle
<1>2. "alive" \notin {"heap", "listener", "worker", "run"} \cup DOMAIN Places
  BY Names
<1>3. QED
  BY <1>1, <1>2, EndTypes

\* A signal comes, a SIGHUP with one more object of a kind to be made.
LEMMA DeliverTypes ==
  ASSUME Typed, FlagInv', NEW t \in Thread, NEW s \in Signal, Deliver(t, s)
  PROVE  NumberInv' /\ ValuesOK'
<1>1. /\ outcome = "alive" /\ Interrupt(t, s) /\ UNCHANGED <<ptr, deleted, outcome>>
      /\ hups' = IF s = "HUP" THEN hups + 1 ELSE hups
  BY DEF Deliver, Raised, Interrupt, objects
<1>2. /\ First[s] \in BeforeNew["config"] \cup BeforeNew["table"] => s = "HUP"
      /\ \A k \in Counted : "test" \notin BeforeNew[k]
  BY BeforeFacts, Apart DEF Signal, Counted
<1>3. \A k \in Counted : \A u \in Thread :
        In(u, BeforeNew[k])' => In(u, BeforeNew[k]) \/ (u = t /\ s = "HUP")
  BY <1>1, <1>2, InPush, TypedFacts DEF Counted
<1>4. CASE s # "HUP"
  BY <1>1, <1>3, <1>4, NumberKept, TypedFacts, FlagStep, Same DEF Deliver, Interrupt
<1>5. CASE s = "HUP"
  <2>1. ASSUME NEW k \in Counted PROVE Numbered(k)' /\ Accounted(k)'
    <3>1. Numbered(k) /\ Accounted(k)
      BY <1>1, TypedFacts DEF NumberInv, Counted
    <3>2. \A u \in Thread : /\ Pending(k, u) \in 0..1 /\ Pending(k, u)' \in 0..1
                            /\ u # t => Pending(k, u)' <= Pending(k, u)
      BY <1>3, PendingFacts
    <3>3. ptr[k] \in Nat /\ hups \in Nat /\ ptr'[k] = ptr[k] /\ hups' = hups + 1
      BY <1>1, <1>5, TypedFacts, BeforeFacts DEF FlagInv
    <3>4. Accounted(k)'
      BY <3>1, <3>2, <3>3 DEF Accounted
    <3>5. QED
      BY <1>1, <3>1, <3>4, NumberedKept
  <2>2. NumberInv'
    BY <2>1 DEF NumberInv, Counted
  <2>3. QED
    BY <2>2, FlagStep, TypedFacts, Same DEF Deliver, Interrupt
<1>6. QED
  BY <1>4, <1>5

-----------------------------------------------------------------------------
(* Ticks.                                                                  *)

LEMMA TickTypes ==
  ASSUME Typed, FlagInv', NEW t \in Thread, Tick(t)
  PROVE  NumberInv' /\ ValuesOK'
<1>1. /\ {"start", "list", "copy", "run"} \subseteq Places["ALRM"]
      /\ "ALRM" \in DOMAIN Places \ {"HUP"}
      /\ Places["ALRM"] \subseteq AllPlaces \ Places["main"]
  BY Names, Apart DEF Copying
<1>2. CASE TickStart(t)
  <2>1. NumberInv'
    BY <1>1, <1>2, GoNumbers, ReturnNumbers DEF TickStart, objects
  <2>2. QED
    BY <1>2, <2>1, FlagStep, TypedFacts, Same DEF TickStart
<1>3. CASE TickList(t)
  <2>1. NumberInv'
    BY <1>1, <1>3, GoNumbers DEF TickList, objects, history
  <2>2. SeenOK'
    BY <1>3, TypedFacts DEF TickList, SeenOK, ObjectsOK, Kind
  <2>3. QED
    BY <1>3, <2>1, <2>2, TypedFacts, Same, PartsNext DEF TickList
<1>4. CASE TickCopy(t)
  <2>1. NumberInv'
    BY <1>1, <1>4, GoNumbers DEF TickCopy, objects, history
  <2>2. SeenOK'
    BY <1>4, TypedFacts, One DEF TickCopy, SeenOK
  <2>3. QED
    BY <1>4, <2>1, <2>2, TypedFacts, Same, PartsNext DEF TickCopy
<1>5. CASE TickEnd(t)
  <2>1. NumberInv'
    BY <1>1, <1>5, ReturnNumbers DEF TickEnd, objects, history
  <2>2. QED
    BY <1>5, <2>1, FlagStep, TypedFacts, Same DEF TickEnd
<1>6. QED
  BY <1>2, <1>3, <1>4, <1>5 DEF Tick

\* A run is given objects by their numbers.
LEMMA StartRunType ==
  ASSUME RunsOK, NEW given \in [Kind -> Generation], StartRun(given)
  PROVE  RunsOK'
<1>1. given["config"] \in Generation /\ given["table"] \in Generation
  BY DEF Kind
<1>2. QED
  BY <1>1 DEF StartRun, RunsOK

LEMMA TickRunTypes ==
  ASSUME Typed, FlagInv', NEW t \in Thread, TickRun(t)
  PROVE  NumberInv' /\ ValuesOK'
<1>1. NumberInv'
  BY StillNumbers DEF TickRun, objects, history
<1>2. RunsOK'
  BY TypedFacts, StartRunType DEF TickRun, ObjectsOK
<1>3. QED
  BY <1>1, <1>2, TypedFacts, Same, PartsNext DEF TickRun

-----------------------------------------------------------------------------
(* Stops and reloads.                                                      *)

LEMMA CloseType ==
  ASSUME HttpOK, NEW n \in Generation, Close(n)
  PROVE  HttpOK'
BY DEF Close, HttpOK

LEMMA StopTypes ==
  ASSUME Typed, FlagInv', NEW t \in Thread, Stop(t)
  PROVE  NumberInv' /\ ValuesOK'
<1>1. /\ {"stopClose", "disarm", "stop"} \subseteq Places["TERM"]
      /\ "TERM" \in DOMAIN Places \ {"HUP"}
      /\ Places["TERM"] \subseteq AllPlaces \ Places["main"]
  BY Names, Apart
<1>2. CASE StopClose(t)
  <2>1. NumberInv'
    BY <1>1, <1>2, GoNumbers DEF StopClose, objects, history
  <2>2. HttpOK'
    BY <1>2, TypedFacts, CloseType DEF StopClose, ObjectsOK, Kind
  <2>3. QED
    BY <1>2, <2>1, <2>2, TypedFacts, Same, PartsNext DEF StopClose
<1>3. CASE StopDisarm(t)
  <2>1. NumberInv'
    BY <1>1, <1>3, GoNumbers DEF StopDisarm, objects, history
  <2>2. Booleans'
    BY <1>3, TypedFacts, Zenon DEF StopDisarm, Booleans
  <2>3. QED
    BY <1>3, <2>1, <2>2, FlagStep DEF StopDisarm
<1>4. CASE StopRunning(t)
  <2>1. NumberInv'
    BY <1>1, <1>4, ReturnNumbers DEF StopRunning, objects, history
  <2>2. QED
    BY <1>4, <2>1, TypedFacts, Same, FlagStep DEF StopRunning
<1>5. QED
  BY <1>2, <1>3, <1>4 DEF Stop

\* Where a reload deletes an object it is there.
LEMMA NotGone ==
  ASSUME NEW t \in Thread, NEW p, At(t, p)
  PROVE  /\ p \in {"deleteTable", "freeTable"} => ~Gone("table")
         /\ p = "deleteConfig" => ~Gone("config")
<1>1. Here(t) = p /\ Uses(t) \cap deleted = {}
  BY DEF At, Intact
<1>2. p \in {"deleteTable", "freeTable"} => Current("table") \in Uses(t)
  BY <1>1 DEF Uses
<1>3. p = "deleteConfig" => Current("config") \in Uses(t)
  BY <1>1 DEF Uses
<1>4. QED
  BY <1>1, <1>2, <1>3 DEF Gone

\* A thread deletes an object.
LEMMA DeleteTypes ==
  ASSUME Typed, FlagInv', NEW t \in Thread, NEW h \in DOMAIN Places,
         NEW p \in Places[h], NEW l \in Places[h], At(t, p), Go(t, l),
         h = "HUP" => \A k \in Counted : l \in BeforeNew[k] => p \in BeforeNew[k],
         NEW d \in Kind, Delete(d), d \in Counted => ~Gone(d),
         UNCHANGED <<seen, flags, http, run, outcome, history>>
  PROVE  NumberInv' /\ ValuesOK'
<1>1. /\ Here(t) = p /\ outcome = "alive" /\ StackInv /\ FlagInv /\ NumberInv
      /\ ObjectsOK /\ ptr' = ptr /\ deleted' = deleted \cup {<<d, ptr[d]>>}
      /\ hups' = hups /\ outcome' = outcome
  BY TypedFacts DEF At, Intact, Delete, Current, history
<1>2. \A k \in Counted : l \in BeforeNew[k] => p \in BeforeNew[k]
  BY BeforeFacts
<1>3. \A k \in Counted : \A u \in Thread : In(u, BeforeNew[k])' => In(u, BeforeNew[k])
  BY <1>1, <1>2, NumberGo
<1>4. ASSUME NEW k \in Counted PROVE Numbered(k)' /\ Accounted(k)'
  <2>1. Numbered(k) /\ Accounted(k)
    BY <1>1 DEF NumberInv, Counted
  <2>2. Numbered(k)'
    <3>1. CASE k = d
      BY <1>1, <2>1, <3>1, NumberDelete DEF ObjectsOK
    <3>2. CASE k # d
      BY <1>1, <2>1, <3>2, NumberedKept
    <3>3. QED
      BY <3>1, <3>2
  <2>3. QED
    BY <1>1, <1>3, <2>1, <2>2, AccountedKept
<1>5. ObjectsOK'
  BY <1>1 DEF ObjectsOK
<1>6. QED
  BY <1>4, <1>5, TypedFacts, Same, PartsNext DEF NumberInv, Counted

\* A reload makes an object.
LEMMA NewTypes ==
  ASSUME Typed, FlagInv', NEW t \in Thread,
         NEW p \in Places["HUP"], NEW l \in Places["HUP"], At(t, p), Go(t, l),
         NEW d \in Counted, p \in BeforeNew[d], l \notin BeforeNew[d],
         \A k \in Counted : l \in BeforeNew[k] => p \in BeforeNew[k],
         New(d), Booleans', UNCHANGED <<seen, http, run, outcome, hups>>
  PROVE  NumberInv' /\ ValuesOK'
<1>1. /\ Here(t) = p /\ outcome = "alive" /\ StackInv /\ FlagInv /\ NumberInv
      /\ ObjectsOK /\ deleted' = deleted /\ \A k \in Kind \ {d} : ptr'[k] = ptr[k]
  BY TypedFacts DEF At, Intact, New, FlagInv
<1>2. \A k \in Counted : \A u \in Thread : In(u, BeforeNew[k])' => In(u, BeforeNew[k])
  BY <1>1, NumberGo, Names
<1>3. In(t, BeforeNew[d]) /\ ~In(t, BeforeNew[d])'
  BY <1>1, InGo, BeforeFacts, Names DEF Signal
<1>4. ASSUME NEW k \in Counted PROVE Numbered(k)' /\ Accounted(k)'
  <2>1. Numbered(k) /\ Accounted(k) /\ k \in Kind
    BY <1>1, BeforeFacts DEF NumberInv, Counted
  <2>2. CASE k = d
    BY <1>1, <1>2, <1>3, <2>1, <2>2, NumberNew DEF ObjectsOK
  <2>3. CASE k # d
    BY <1>1, <1>2, <2>1, <2>3, NumberedKept, AccountedKept
  <2>4. QED
    BY <2>2, <2>3
<1>5. ObjectsOK'
  <2>1. /\ Numbered(d) /\ Accounted(d)' /\ d \in Kind /\ ptr[d] \in Generation
        /\ deleted \subseteq Kind \X Generation
    BY <1>1, <1>4, BeforeFacts DEF NumberInv, ObjectsOK, Counted
  <2>2. PICK n \in Nat : n = IF Gone(d) THEN ptr[d] ELSE ptr[d] - 1
    BY <2>1 DEF Generation
  <2>3. ptr'[d] = n + 1
    BY <1>1, <2>1, <2>2, NewName DEF Numbered, Deleted
  <2>4. ptr'[d] <= hups' + 1
    <3>1. \A u \in Thread : Pending(d, u)' \in 0..1
      BY PendingFacts
    <3>2. hups' \in Nat
      BY DEF FlagInv
    <3>3. QED
      BY <2>1, <2>3, <3>1, <3>2 DEF Accounted
  <2>5. hups' \in 0..MaxHups
    BY DEF FlagInv
  <2>6. ptr'[d] \in Generation
    BY <2>3, <2>4, <2>5 DEF Generation
  <2>7. ptr' \in [Kind -> Nat]
    BY DEF FlagInv
  <2>8. \A k \in Kind : ptr'[k] \in Generation
    BY <1>1, <2>6 DEF ObjectsOK
  <2>9. ptr' \in [Kind -> Generation]
    BY <2>7, <2>8
  <2>10. QED
    BY <1>1, <2>9 DEF ObjectsOK
<1>6. QED
  BY <1>4, <1>5, TypedFacts, Same, PartsNext DEF NumberInv, Counted

\* A server is made for the objects that there are.
LEMMA ReloadHttpTypes ==
  ASSUME Typed, FlagInv', NEW t \in Thread, ReloadHttp(t)
  PROVE  NumberInv' /\ ValuesOK'
<1>1. PICK n \in Generation : /\ ptr' = [ptr EXCEPT !["http"] = n]
                              /\ server' = [server EXCEPT ![n] = "created"]
                              /\ owner' = [owner EXCEPT ![n] = ptr]
  BY DEF ReloadHttp
<1>2. At(t, "newHttp") /\ Go(t, "clear") /\ UNCHANGED <<deleted, hups, outcome, busy, missed>>
  BY DEF ReloadHttp, history
<1>3. ObjectsOK' /\ HttpOK'
  BY <1>1, <1>2, TypedFacts DEF ObjectsOK, HttpOK
<1>4. \A k \in Counted : ptr'[k] = ptr[k]
  BY <1>1, TypedFacts DEF ObjectsOK, Counted, Kind
<1>5. NumberInv'
  <2>1. /\ {"newHttp", "clear"} \subseteq Places["HUP"] /\ "HUP" \in DOMAIN Places
        /\ \A k \in Counted : "clear" \notin BeforeNew[k]
    BY Names DEF Counted, BeforeNew
  <2>2. QED
    BY <1>2, <1>4, <2>1, GoNumbers
<1>6. QED
  BY <1>3, <1>5, TypedFacts, Same, PartsNext DEF ReloadHttp

LEMMA ReloadTypes ==
  ASSUME Typed, FlagInv', NEW t \in Thread, Reload(t)
  PROVE  NumberInv' /\ ValuesOK'
<1>1. /\ Places["HUP"] = {"flag", "close", "deleteTable", "deleteConfig", "newConfig",
                          "newTable", "newHttp", "clear"}
      /\ "HUP" \in DOMAIN Places /\ Places["HUP"] \subseteq AllPlaces \ Places["main"]
  BY Names, Apart
<1>2. \A k \in Counted : /\ k \in Kind /\ k \in {"config", "table"}
                         /\ {"flag", "close", "deleteTable", "deleteConfig", "newConfig"}
                              \subseteq BeforeNew[k]
  BY BeforeFacts DEF Counted, BeforeNew
<1>3. CASE ReloadFlag(t)
  <2>1. NumberInv'
    BY <1>1, <1>2, <1>3, GoNumbers DEF ReloadFlag, objects, history
  <2>2. QED
    BY <1>3, <2>1, TypedFacts, Same, FlagStep DEF ReloadFlag
<1>4. CASE ReloadClose(t)
  <2>1. NumberInv'
    BY <1>1, <1>2, <1>4, GoNumbers DEF ReloadClose, objects, history
  <2>2. HttpOK'
    BY <1>4, TypedFacts, CloseType DEF ReloadClose, ObjectsOK, Kind
  <2>3. QED
    BY <1>4, <2>1, <2>2, TypedFacts, Same, PartsNext DEF ReloadClose
<1>5. CASE ReloadDeleteTable(t)
  BY <1>1, <1>2, <1>5, NotGone, DeleteTypes DEF ReloadDeleteTable, Kind
<1>6. CASE ReloadDeleteConfig(t)
  BY <1>1, <1>2, <1>6, NotGone, DeleteTypes DEF ReloadDeleteConfig, Kind
<1>7. CASE ReloadConfig(t)
  <2>1. Booleans'
    BY <1>7, TypedFacts, Zenon DEF ReloadConfig, Booleans
  <2>2. "config" \in Counted /\ "newTable" \notin BeforeNew["config"]
    BY DEF Counted, BeforeNew
  <2>3. QED
    BY <1>1, <1>2, <1>7, <2>1, <2>2, NewTypes DEF ReloadConfig, history
<1>8. CASE ReloadTable(t)
  <2>1. /\ "table" \in Counted /\ "newTable" \in BeforeNew["table"]
        /\ \A k \in Counted : "newHttp" \notin BeforeNew[k]
    BY DEF Counted, BeforeNew
  <2>2. QED
    BY <1>1, <1>8, <2>1, TypedFacts, Same, NewTypes DEF ReloadTable, history
<1>9. CASE ReloadHttp(t)
  BY <1>9, ReloadHttpTypes
<1>10. CASE ReloadClear(t)
  <2>1. NumberInv'
    BY <1>1, <1>10, ReturnNumbers DEF ReloadClear, objects, history
  <2>2. QED
    BY <1>10, <2>1, TypedFacts, Same, FlagStep DEF ReloadClear
<1>11. QED
  BY <1>3, <1>4, <1>5, <1>6, <1>7, <1>8, <1>9, <1>10 DEF Reload

-----------------------------------------------------------------------------
(* main(), the HTTP threads and the runs.                                  *)

LEMMA MainTypes ==
  ASSUME Typed, FlagInv', MainLoop
  PROVE  NumberInv' /\ ValuesOK'
<1>1. /\ Places["main"] = {"test", "pausing", "pause", "remove", "freeHttp", "freeTable",
                           "freeConfig"}
      /\ "main" \in DOMAIN Places \ {"HUP"} /\ "main" \in Thread
  BY Names DEF Waiting, Clean
<1>2. CASE Test
  <2>1. NumberInv'
    BY <1>1, <1>2, GoNumbers DEF Test, objects, history
  <2>2. QED
    BY <1>2, <2>1, TypedFacts, Same, FlagStep DEF Test
<1>3. CASE Pause
  <2>1. NumberInv'
    BY <1>1, <1>3, GoNumbers DEF Pause, objects, history
  <2>2. QED
    BY <1>3, <2>1, TypedFacts, Same, FlagStep DEF Pause
<1>4. CASE RemovePidFile
  <2>1. NumberInv'
    BY <1>1, <1>4, GoNumbers DEF RemovePidFile, objects, history
  <2>2. Booleans'
    BY <1>4, TypedFacts, Zenon DEF RemovePidFile, Booleans
  <2>3. QED
    BY <1>4, <2>1, <2>2, FlagStep DEF RemovePidFile
<1>5. CASE DeleteHttp
  <2>1. "http" \in Kind /\ "http" \notin Counted
    BY DEF Kind, Counted
  <2>2. QED
    BY <1>1, <1>5, <2>1, DeleteTypes DEF DeleteHttp, CleanUp
<1>6. CASE DeleteTable
  BY <1>1, <1>6, NotGone, DeleteTypes DEF DeleteTable, CleanUp, Kind
<1>7. CASE DeleteConfig
  BY <1>7, EndTypes DEF DeleteConfig
<1>8. QED
  BY <1>2, <1>3, <1>4, <1>5, <1>6, <1>7 DEF MainLoop

LEMMA HttpTypes ==
  ASSUME Typed, FlagInv', NEW n \in Generation,
         Listener(n) \/ AcceptFails(n) \/ Request(n) \/ Respond(n)
  PROVE  NumberInv' /\ ValuesOK'
<1>1. NumberInv'
  BY StillNumbers DEF Listener, Listen, ListenFails, ListenerEnds, AcceptFails,
     Request, Respond, objects, history
<1>2. HttpOK'
  BY TypedFacts DEF Listener, Listen, ListenFails, ListenerEnds, AcceptFails,
     Request, Respond, HttpOK
<1>3. RunsOK'
  <2>1. owner[n] \in [Kind -> Generation]
    BY TypedFacts DEF HttpOK
  <2>2. StartRun(owner[n]) \/ UNCHANGED run
    BY DEF Listener, Listen, ListenFails, ListenerEnds, AcceptFails, Request, Respond
  <2>3. QED
    BY <2>1, <2>2, TypedFacts, StartRunType, Same
<1>4. UNCHANGED <<flags, seen, objects, outcome>>
  BY DEF Listener, Listen, ListenFails, ListenerEnds, AcceptFails, Request, Respond
<1>5. QED
  BY <1>1, <1>2, <1>3, <1>4, TypedFacts, Same, PartsNext

LEMMA RunEndsTypes ==
  ASSUME Typed, FlagInv', NEW r \in Runs, RunEnds(r)
  PROVE  NumberInv' /\ ValuesOK'
<1>1. NumberInv'
  BY StillNumbers DEF RunEnds, objects, history
<1>2. RunsOK'
  BY TypedFacts, One DEF RunEnds, RunsOK, Idle
<1>3. QED
  BY <1>1, <1>2, TypedFacts, Same, PartsNext DEF RunEnds

-----------------------------------------------------------------------------
(* The invariant.                                                          *)

LEMMA InitTyped == Init => Typed
<1> SUFFICES ASSUME Init PROVE Typed
  OBVIOUS
<1>1. IInv /\ FlagInv /\ StackInv
  BY InitIInv DEF IInv
<1>2. /\ ptr = [k \in Kind |-> 1] /\ deleted = {} /\ hups = 0 /\ outcome = "alive"
      /\ stack = [t \in Thread |-> IF t = "main" THEN <<"test">> ELSE << >>]
  BY DEF Init
<1>3. NumberInv
  <2>1. ASSUME NEW k \in Counted, NEW t \in Thread PROVE Pending(k, t) = 0
    <3>1. ~In(t, BeforeNew[k])
      BY <1>2, BeforeFacts DEF In
    <3>2. QED
      BY <3>1 DEF Pending
  <2>2. ASSUME NEW k \in Counted PROVE Numbered(k) /\ Accounted(k)
    <3>1. ptr[k] = 1 /\ ~Gone(k) /\ Deleted(k) = {}
      BY <1>2, BeforeFacts DEF Gone, Current, Deleted
    <3>2. Numbered(k)
      BY <3>1 DEF Numbered
    <3>3. Pending(k, "main") = 0 /\ Pending(k, "other") = 0
      BY <2>1
    <3>4. Accounted(k)
      BY <1>2, <3>1, <3>3 DEF Accounted
    <3>5. QED
      BY <3>2, <3>4
  <2>3. QED
    BY <2>2 DEF NumberInv, Counted
<1>4. Booleans
  BY Zenon DEF Init, Booleans
<1>5. SeenOK /\ ObjectsOK /\ HttpOK /\ RunsOK /\ OutcomeOK
  BY One DEF Init, SeenOK, ObjectsOK, HttpOK, RunsOK, OutcomeOK, Idle
<1>6. QED
  BY <1>1, <1>3, <1>4, <1>5, Parts DEF Typed

LEMMA NextTyped == Typed /\ [Next]_vars => Typed'
<1> SUFFICES ASSUME Typed, [Next]_vars PROVE Typed'
  OBVIOUS
<1>1. IInv' /\ FlagInv'
  BY NextIInv DEF Typed, IInv
<1>2. ASSUME NEW t \in Thread, NEW s \in Signal, Deliver(t, s) PROVE NumberInv' /\ ValuesOK'
  BY <1>1, <1>2, DeliverTypes
<1>3. ASSUME NEW t \in Thread, Tick(t) PROVE NumberInv' /\ ValuesOK'
  BY <1>1, <1>3, TickTypes
<1>4. ASSUME NEW t \in Thread, TickRun(t) PROVE NumberInv' /\ ValuesOK'
  BY <1>1, <1>4, TickRunTypes
<1>5. ASSUME NEW t \in Thread, Stop(t) PROVE NumberInv' /\ ValuesOK'
  BY <1>1, <1>5, StopTypes
<1>6. ASSUME NEW t \in Thread, Reload(t) PROVE NumberInv' /\ ValuesOK'
  BY <1>1, <1>6, ReloadTypes
<1>7. ASSUME NEW t \in Thread, ReloadFail(t) PROVE NumberInv' /\ ValuesOK'
  BY <1>1, <1>7, EndTypes DEF ReloadFail
<1>8. ASSUME MainLoop PROVE NumberInv' /\ ValuesOK'
  BY <1>1, <1>8, MainTypes
<1>9. ASSUME NEW n \in Generation,
             Listener(n) \/ AcceptFails(n) \/ Request(n) \/ Respond(n)
      PROVE  NumberInv' /\ ValuesOK'
  BY <1>1, <1>9, HttpTypes
<1>10. ASSUME NEW r \in Runs, RunEnds(r) PROVE NumberInv' /\ ValuesOK'
  BY <1>1, <1>10, RunEndsTypes
<1>11. ASSUME Dangle PROVE NumberInv' /\ ValuesOK'
  BY <1>1, <1>11, DangleTypes
<1>12. ASSUME UNCHANGED vars PROVE NumberInv' /\ ValuesOK'
  BY <1>1, <1>12, StillNumbers, FlagStep, TypedFacts, Same DEF vars, objects, http, flags
<1>13. NumberInv' /\ ValuesOK'
  BY <1>2, <1>3, <1>4, <1>5, <1>6, <1>7, <1>8, <1>9, <1>10, <1>11, <1>12 DEF Next
<1>14. QED
  BY <1>1, <1>13 DEF Typed

(***************************************************************************)
(* Whatever signals come, and wherever, overlaps included: the objects of  *)
(* a kind that are deleted are the first ones, all but the last one made,  *)
(* or with it while its global dangles; and a Config or TaskTable is made  *)
(* by the reload that owes it, never twice for one SIGHUP (main.cpp:97 to  *)
(* 130).                                                                   *)
(***************************************************************************)
THEOREM NumbersInOrder == Spec => []NumberInv
<1>1. Typed => NumberInv
  BY DEF Typed
<1>2. QED
  BY <1>1, InitTyped, NextTyped, PTL DEF Spec

(***************************************************************************)
(* Whatever signals come, and wherever: no thread handles one twice at a   *)
(* time, main() is at the bottom of its thread's stack, and the objects    *)
(* that reloads make are numbered within the bound (main.cpp:57-132).      *)
(***************************************************************************)
THEOREM TypeCorrect == Spec => []TypeOK
<1>1. Typed => TypeOK
  BY StacksTyped, TypedFacts DEF Typed, TypeOK
<1>2. QED
  BY <1>1, InitTyped, NextTyped, PTL DEF Spec

=============================================================================
