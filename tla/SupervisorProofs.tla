--------------------------- MODULE SupervisorProofs ---------------------------
(***************************************************************************)
(* Proofs about Supervisor, for any number of reloads, of handlers that    *)
(* run or are interrupted at a time, and of runs.                          *)
(***************************************************************************)
EXTENDS Supervisor, FiniteSetTheorems, SequenceTheorems, TLAPS

USE BoundsAssumption DEF Thread

-----------------------------------------------------------------------------
(* Stacks, seen from the bottom.                                           *)

LEMMA RevFacts ==
  ASSUME NEW S, NEW s \in Seq(S)
  PROVE  /\ Len(s) \in Nat
         /\ DOMAIN Rev(s) = 1..Len(s)
         /\ \A k \in 1..Len(s) : Rev(s)[k] = s[Len(s) + 1 - k] /\ Rev(s)[k] \in S
         /\ s # << >> => /\ Len(s) >= 1 /\ Rev(s)[Len(s)] = Head(s)
                         /\ Rev(s)[1] = s[Len(s)]
<1>1. Len(s) \in Nat /\ \A k \in 1..Len(s) : Len(s) + 1 - k \in 1..Len(s)
  BY LenProperties
<1>2. s # << >> => Len(s) >= 1 /\ Head(s) = s[1]
  BY EmptySeq, HeadTailProperties, <1>1
<1>3. \A i \in 1..Len(s) : s[i] \in S
  BY ElementOfSeq
<1>4. QED
  BY <1>1, <1>2, <1>3 DEF Rev

\* A handler starts: a place on top.
LEMMA RevPush ==
  ASSUME NEW S, NEW s \in Seq(S), NEW x \in S
  PROVE  /\ <<x>> \o s \in Seq(S) /\ <<x>> \o s # << >>
         /\ Len(<<x>> \o s) = Len(s) + 1
         /\ Rev(<<x>> \o s)[Len(s) + 1] = x
         /\ \A k \in 1..Len(s) : Rev(<<x>> \o s)[k] = Rev(s)[k]
<1>1. <<x>> \in Seq(S) /\ Len(<<x>>) = 1 /\ <<x>>[1] = x
  OBVIOUS
<1>2. /\ <<x>> \o s \in Seq(S) /\ Len(<<x>> \o s) = Len(s) + 1
      /\ \A i \in 1..(Len(s) + 1) : (<<x>> \o s)[i] = IF i <= 1 THEN <<x>>[i] ELSE s[i - 1]
  BY <1>1, ConcatProperties, LenProperties
<1>3. Len(s) \in Nat
  BY LenProperties
<1>4. <<x>> \o s # << >>
  BY <1>2, <1>3, EmptySeq
<1>5. QED
  BY <1>1, <1>2, <1>3, <1>4 DEF Rev

\* A thread goes on: the place on top changes.
LEMMA RevGo ==
  ASSUME NEW S, NEW s \in Seq(S), s # << >>, NEW x \in S
  PROVE  /\ [s EXCEPT ![1] = x] \in Seq(S) /\ [s EXCEPT ![1] = x] # << >>
         /\ Len([s EXCEPT ![1] = x]) = Len(s)
         /\ \A k \in 1..Len(s) :
              Rev([s EXCEPT ![1] = x])[k] = IF k = Len(s) THEN x ELSE Rev(s)[k]
<1> DEFINE r == [s EXCEPT ![1] = x]
<1>1. Len(s) \in Nat /\ Len(s) >= 1
  BY RevFacts
<1>2. /\ r \in Seq(S) /\ Len(r) = Len(s)
      /\ \A i \in 1..Len(s) : r[i] = IF i = 1 THEN x ELSE s[i]
  BY <1>1, ExceptSeq
<1>3. r # << >>
  BY <1>1, <1>2, EmptySeq
<1> HIDE DEF r
<1>4. \A k \in 1..Len(s) : Rev(r)[k] = IF k = Len(s) THEN x ELSE Rev(s)[k]
  BY <1>1, <1>2 DEF Rev
<1>5. QED
  BY <1>2, <1>3, <1>4 DEF r

\* A handler returns: the place on top is gone.
LEMMA RevReturn ==
  ASSUME NEW S, NEW s \in Seq(S), s # << >>
  PROVE  /\ Tail(s) \in Seq(S) /\ Len(Tail(s)) = Len(s) - 1
         /\ \A k \in 1..(Len(s) - 1) : Rev(Tail(s))[k] = Rev(s)[k]
<1>1. Len(s) \in Nat /\ Len(s) >= 1
  BY RevFacts
<1>2. /\ Tail(s) \in Seq(S) /\ Len(Tail(s)) = Len(s) - 1
      /\ \A i \in 1..Len(Tail(s)) : Tail(s)[i] = s[i + 1]
  BY HeadTailProperties
<1>3. QED
  BY <1>1, <1>2 DEF Rev

\* It holds the same.
LEMMA RevIn ==
  ASSUME NEW S, NEW s \in Seq(S), NEW L
  PROVE  (\E i \in DOMAIN s : s[i] \in L) <=> \E k \in DOMAIN Rev(s) : Rev(s)[k] \in L
<1>1. /\ Len(s) \in Nat /\ DOMAIN s = 1..Len(s) /\ DOMAIN Rev(s) = 1..Len(s)
      /\ \A k \in 1..Len(s) : Rev(s)[k] = s[Len(s) + 1 - k]
  BY RevFacts, LenProperties
<1>2. ASSUME NEW i \in 1..Len(s) PROVE \E k \in 1..Len(s) : Rev(s)[k] = s[i]
  <2> DEFINE m == Len(s) + 1 - i
  <2>1. m \in 1..Len(s) /\ Len(s) + 1 - m = i
    BY <1>1
  <2> HIDE DEF m
  <2>2. Rev(s)[m] = s[Len(s) + 1 - m]
    BY <1>1, <2>1
  <2>3. QED
    BY <2>1, <2>2
<1>3. \A k \in 1..Len(s) : Len(s) + 1 - k \in 1..Len(s)
  BY <1>1
<1>4. QED
  BY <1>1, <1>2, <1>3

-----------------------------------------------------------------------------
(* Threads, seen from the bottom of their stacks.                          *)

AllPlaces == UNION {Places[h] : h \in DOMAIN Places}
Clean == {"remove", "freeHttp", "freeTable", "freeConfig"}

\* What the names say.
LEMMA Names ==
  /\ Places["HUP"] = {"flag", "close", "deleteTable", "deleteConfig", "newConfig",
                      "newTable", "newHttp", "clear"}
  /\ Places["TERM"] = {"stopClose", "disarm", "stop"}
  /\ Places["ALRM"] = Copying \cup {"start"}
  /\ Places["main"] = Waiting \cup Clean
  /\ AllPlaces = Places["HUP"] \cup Places["TERM"] \cup Places["ALRM"] \cup Places["main"]
  /\ "idle" \notin AllPlaces
  /\ DOMAIN Places = {"HUP", "TERM", "ALRM", "main"}
<1>1. DOMAIN Places = {"HUP", "TERM", "ALRM", "main"}
  BY DEF Places
<1>2. AllPlaces = Places["HUP"] \cup Places["TERM"] \cup Places["ALRM"] \cup Places["main"]
  BY <1>1 DEF AllPlaces
<1>3. QED
  BY <1>1, <1>2 DEF Places, Copying, Waiting, Clean

Stacked == stack \in [Thread -> Seq(AllPlaces)]

\* What a thread does next is on top of its stack.
LEMMA Tops ==
  ASSUME Stacked, NEW t \in Thread
  PROVE  /\ Len(stack[t]) \in Nat
         /\ DOMAIN Frames[t] = 1..Len(stack[t])
         /\ \A k \in 1..Len(stack[t]) : Frames[t][k] \in AllPlaces
         /\ stack[t] # << >> => Len(stack[t]) >= 1 /\ Here(t) = Frames[t][Len(stack[t])]
         /\ Here(t) # "idle" => stack[t] # << >>
         /\ stack["main"] # << >> => Interrupted = Frames["main"][1]
<1>1. \A u \in Thread : stack[u] \in Seq(AllPlaces) /\ Frames[u] = Rev(stack[u])
  BY DEF Stacked, Frames
<1>2. stack[t] # << >> => Here(t) = Head(stack[t])
  BY DEF Here
<1>3. Here(t) # "idle" => stack[t] # << >>
  BY DEF Here
<1>4. QED
  BY <1>1, <1>2, <1>3, RevFacts DEF Interrupted

\* The same in the next state.
LEMMA TopsNext ==
  ASSUME Stacked', NEW t \in Thread
  PROVE  /\ Len(stack'[t]) \in Nat
         /\ DOMAIN Frames'[t] = 1..Len(stack'[t])
         /\ stack'["main"] # << >> => Interrupted' = Frames'["main"][1]
<1>1. \A u \in Thread : stack'[u] \in Seq(AllPlaces) /\ Frames'[u] = Rev(stack'[u])
  BY DEF Stacked, Frames
<1>2. QED
  BY <1>1, RevFacts DEF Interrupted

\* A handler of s starts on t.  Where main() was in pause() it is not any more.
LEMMA Pushed ==
  ASSUME StackInv, outcome = "alive", NEW t \in Thread, NEW s \in Signal, Interrupt(t, s)
  PROVE  /\ Stacked' /\ stack'[t] # << >>
         /\ First[s] \in Places[s] /\ Frames'[t][Len(stack[t]) + 1] = First[s]
         /\ Len(stack'[t]) = Len(stack[t]) + 1
         /\ \A k \in 1..Len(stack[t]) :
              Frames'[t][k] = IF k = Len(stack[t]) /\ Frames[t][k] = "pause" THEN "test"
                              ELSE Frames[t][k]
         /\ \A u \in Thread \ {t} : Frames'[u] = Frames[u] /\ stack'[u] = stack[u]
<1>1. Stacked
  BY DEF StackInv, Stacked, AllPlaces
<1>2. First[s] \in Places[s] /\ First[s] \in AllPlaces /\ "test" \in AllPlaces
  BY Names DEF First, Signal, Waiting
<1>3. stack[t] \in Seq(AllPlaces)
  BY <1>1 DEF Stacked
<1> DEFINE base == IF Here(t) = "pause" THEN <<"test">> ELSE stack[t]
<1>4. /\ stack' = [stack EXCEPT ![t] = <<First[s]>> \o base]
      /\ stack'[t] = <<First[s]>> \o base
      /\ Rev(stack'[t]) = Frames'[t]
  BY <1>1 DEF Interrupt, Stacked, Frames
<1>5. /\ base \in Seq(AllPlaces) /\ Len(base) = Len(stack[t])
      /\ \A k \in 1..Len(stack[t]) :
           Rev(base)[k] = IF k = Len(stack[t]) /\ Frames[t][k] = "pause" THEN "test"
                          ELSE Frames[t][k]
  <2>1. CASE Here(t) # "pause"
    <3>1. \A k \in 1..Len(stack[t]) : k = Len(stack[t]) => Frames[t][k] # "pause"
      BY <1>1, <2>1, Tops
    <3>2. Rev(stack[t]) = Frames[t]
      BY DEF Frames
    <3>3. QED
      BY <1>3, <2>1, <3>1, <3>2
  <2>2. CASE Here(t) = "pause"
    <3>1. /\ DOMAIN Frames[t] = 1..Len(stack[t]) /\ Len(stack[t]) \in Nat
          /\ Len(stack[t]) >= 1 /\ Frames[t][Len(stack[t])] = "pause"
      BY <1>1, <2>2, Tops
    <3>2. "pause" \in Places["main"]
      BY Names DEF Waiting
    <3>3. Len(stack[t]) = 1 /\ Frames[t][1] = "pause"
      <4>1. \A k \in DOMAIN Frames[t] :
              Frames[t][k] \in Places["main"] <=> t = "main" /\ k = 1
        BY DEF StackInv
      <4>2. Len(stack[t]) \in DOMAIN Frames[t]
        BY <3>1
      <4>3. Len(stack[t]) = 1
        BY <3>1, <3>2, <4>1, <4>2
      <4>4. QED
        BY <3>1, <4>3
    <3>4. <<"test">> \in Seq(AllPlaces) /\ Len(<<"test">>) = 1 /\ Rev(<<"test">>)[1] = "test"
      BY <1>2 DEF Rev
    <3>5. QED
      BY <2>2, <3>3, <3>4
  <2>3. QED
    BY <2>1, <2>2
<1> HIDE DEF base
<1>6. /\ stack'[t] \in Seq(AllPlaces) /\ stack'[t] # << >>
      /\ Len(stack'[t]) = Len(stack[t]) + 1 /\ Frames'[t][Len(stack[t]) + 1] = First[s]
      /\ \A k \in 1..Len(stack[t]) : Frames'[t][k] = Rev(base)[k]
  BY <1>2, <1>4, <1>5, RevPush
<1>7. \A u \in Thread \ {t} : Frames'[u] = Frames[u] /\ stack'[u] = stack[u]
  BY <1>1, <1>4 DEF Stacked, Frames
<1>8. Stacked'
  BY <1>1, <1>4, <1>6 DEF Stacked
<1>9. QED
  BY <1>2, <1>5, <1>6, <1>7, <1>8

\* A thread goes on to l.
LEMMA WentOn ==
  ASSUME Stacked, NEW t \in Thread, stack[t] # << >>, NEW l \in AllPlaces, Go(t, l)
  PROVE  /\ Stacked' /\ stack'[t] # << >>
         /\ \A u \in Thread : Len(stack'[u]) = Len(stack[u])
         /\ \A k \in 1..Len(stack[t]) :
              Frames'[t][k] = IF k = Len(stack[t]) THEN l ELSE Frames[t][k]
         /\ \A u \in Thread \ {t} : Frames'[u] = Frames[u] /\ stack'[u] = stack[u]
<1>1. stack[t] \in Seq(AllPlaces) /\ stack'[t] = [stack[t] EXCEPT ![1] = l]
  BY DEF Stacked, Go
<1>2. Rev(stack'[t]) = Frames'[t] /\ Rev(stack[t]) = Frames[t]
  BY DEF Frames
<1>3. QED
  BY <1>1, <1>2, RevGo DEF Stacked, Go, Frames

\* A handler returns.
LEMMA Returned ==
  ASSUME Stacked, NEW t \in Thread, stack[t] # << >>, Return(t)
  PROVE  /\ Stacked' /\ Len(stack'[t]) = Len(stack[t]) - 1
         /\ \A k \in 1..(Len(stack[t]) - 1) : Frames'[t][k] = Frames[t][k]
         /\ \A u \in Thread \ {t} : Frames'[u] = Frames[u] /\ stack'[u] = stack[u]
<1>1. stack[t] \in Seq(AllPlaces) /\ stack'[t] = Tail(stack[t])
  BY DEF Stacked, Return
<1>2. Rev(stack'[t]) = Frames'[t] /\ Rev(stack[t]) = Frames[t]
  BY DEF Frames
<1>3. QED
  BY <1>1, <1>2, RevReturn DEF Stacked, Return, Frames

LEMMA InFrames ==
  ASSUME Stacked, NEW t \in Thread, NEW L
  PROVE  In(t, L) <=> \E k \in DOMAIN Frames[t] : Frames[t][k] \in L
<1>1. stack[t] \in Seq(AllPlaces) /\ Frames[t] = Rev(stack[t])
  BY DEF Stacked, Frames
<1>2. QED
  BY <1>1, RevIn DEF In

\* What the invariants of stacks say, place by place.
LEMMA StackFacts ==
  ASSUME StackInv
  PROVE  /\ Stacked
         /\ \A t \in Thread : \A k \in DOMAIN Frames[t] :
              Frames[t][k] \in Places["main"] <=> t = "main" /\ k = 1
         /\ \A t \in Thread : \A s \in Signal : \A j, k \in DOMAIN Frames[t] :
              Frames[t][j] \in Places[s] /\ Frames[t][k] \in Places[s] => j = k
BY DEF StackInv, Stacked, AllPlaces

\* A handler is above main().
LEMMA Above ==
  ASSUME StackInv, outcome = "alive", NEW t \in Thread, Here(t) \in AllPlaces
  PROVE  /\ stack[t] # << >> /\ Len(stack[t]) \in Nat /\ Len(stack[t]) >= 1
         /\ DOMAIN Frames[t] = 1..Len(stack[t]) /\ Len(stack[t]) \in DOMAIN Frames[t]
         /\ Frames[t][Len(stack[t])] = Here(t)
         /\ Here(t) \in Places["main"] <=> t = "main" /\ Len(stack[t]) = 1
         /\ stack["main"] # << >> /\ Interrupted = Frames["main"][1]
         /\ 1 \in DOMAIN Frames["main"] /\ Interrupted \in Places["main"]
<1>1. Stacked /\ Here(t) # "idle" /\ stack["main"] # << >>
  BY StackFacts, Names DEF StackInv
<1>2. /\ stack[t] # << >> /\ Len(stack[t]) \in Nat /\ Len(stack[t]) >= 1
      /\ DOMAIN Frames[t] = 1..Len(stack[t]) /\ Frames[t][Len(stack[t])] = Here(t)
  BY <1>1, Tops
<1>3. /\ Len(stack["main"]) \in Nat /\ Len(stack["main"]) >= 1
      /\ DOMAIN Frames["main"] = 1..Len(stack["main"])
      /\ Interrupted = Frames["main"][1]
  BY <1>1, Tops
<1>4. Len(stack[t]) \in DOMAIN Frames[t] /\ 1 \in DOMAIN Frames["main"]
  BY <1>2, <1>3
<1>5. /\ Here(t) \in Places["main"] <=> t = "main" /\ Len(stack[t]) = 1
      /\ Interrupted \in Places["main"]
  <2>1. \A u \in Thread : \A k \in DOMAIN Frames[u] :
          Frames[u][k] \in Places["main"] <=> u = "main" /\ k = 1
    BY StackFacts
  <2>2. QED
    BY <1>2, <1>3, <1>4, <2>1
<1>6. QED
  BY <1>1, <1>2, <1>3, <1>4, <1>5

-----------------------------------------------------------------------------
(* A thread goes on: what each part of the invariant asks of the places it *)
(* leaves and reaches.                                                     *)

LEMMA FramesGo ==
  ASSUME StackInv, outcome = "alive", NEW t \in Thread, Here(t) \in AllPlaces,
         NEW l \in AllPlaces, Go(t, l)
  PROVE  /\ Stacked' /\ stack'["main"] # << >>
         /\ \A u \in Thread : DOMAIN Frames'[u] = DOMAIN Frames[u]
         /\ \A u \in Thread : \A k \in DOMAIN Frames[u] :
              Frames'[u][k] = IF u = t /\ k = Len(stack[t]) THEN l ELSE Frames[u][k]
         /\ Interrupted' = IF Here(t) \in Places["main"] THEN l ELSE Interrupted
<1>1. Stacked /\ stack[t] # << >> /\ stack["main"] # << >>
  BY StackFacts, Above
<1>2. /\ Stacked' /\ stack'[t] # << >>
      /\ \A u \in Thread : Len(stack'[u]) = Len(stack[u])
      /\ \A k \in 1..Len(stack[t]) :
           Frames'[t][k] = IF k = Len(stack[t]) THEN l ELSE Frames[t][k]
      /\ \A u \in Thread \ {t} : Frames'[u] = Frames[u] /\ stack'[u] = stack[u]
  BY <1>1, WentOn
<1>3. \A u \in Thread : DOMAIN Frames[u] = 1..Len(stack[u])
  BY <1>1, Tops
<1>4. \A u \in Thread : DOMAIN Frames'[u] = 1..Len(stack'[u])
  BY <1>2, TopsNext
<1>5. stack'["main"] # << >>
  BY <1>1, <1>2
<1>6. Interrupted' = Frames'["main"][1] /\ Interrupted = Frames["main"][1]
  BY <1>1, <1>2, <1>5, Tops, TopsNext
<1>7. \A u \in Thread : \A k \in DOMAIN Frames[u] :
        Frames'[u][k] = IF u = t /\ k = Len(stack[t]) THEN l ELSE Frames[u][k]
  BY <1>2, <1>3
<1>8. /\ Here(t) \in Places["main"] <=> t = "main" /\ Len(stack[t]) = 1
      /\ 1 \in DOMAIN Frames["main"]
  BY Above
<1>9. Interrupted' = IF Here(t) \in Places["main"] THEN l ELSE Interrupted
  BY <1>6, <1>7, <1>8
<1>10. QED
  BY <1>2, <1>3, <1>4, <1>5, <1>7, <1>9

\* The handlers' places are their own.
LEMMA Apart ==
  /\ \A p \in Places["HUP"] : p \notin Places["TERM"] /\ p \notin Places["ALRM"]
                             /\ p \notin Places["main"] /\ p \notin Copying /\ p \in AllPlaces
  /\ \A p \in Places["TERM"] : p \notin Places["ALRM"] /\ p \notin Places["main"]
                              /\ p \notin Copying /\ p \in AllPlaces
  /\ \A p \in Places["ALRM"] : p \notin Places["main"] /\ p \in AllPlaces
  /\ \A p \in Copying : p \in Places["ALRM"]
  /\ First["HUP"] = "flag" /\ First["TERM"] = "stopClose" /\ First["ALRM"] = "start"
  /\ "flag" \in Places["HUP"] /\ "stopClose" \in Places["TERM"]
  /\ "start" \in Places["ALRM"] \ Copying
BY Names DEF First, Waiting, Clean, Copying

LEMMA StackGo ==
  ASSUME StackInv, outcome = "alive", NEW t \in Thread, NEW h \in DOMAIN Places,
         Here(t) \in Places[h], NEW l \in Places[h], Go(t, l)
  PROVE  StackInv'
<1> DEFINE n == Len(stack[t])
<1>0. /\ Here(t) \in AllPlaces /\ l \in AllPlaces
      /\ \A g \in DOMAIN Places : l \in Places[g] => Here(t) \in Places[g]
      /\ l \in Places["main"] <=> Here(t) \in Places["main"]
  BY Names, Apart
<1>1. /\ Stacked' /\ stack'["main"] # << >>
      /\ \A u \in Thread : DOMAIN Frames'[u] = DOMAIN Frames[u]
      /\ \A u \in Thread : \A k \in DOMAIN Frames[u] :
           Frames'[u][k] = IF u = t /\ k = n THEN l ELSE Frames[u][k]
  BY <1>0, FramesGo
<1>2. n \in DOMAIN Frames[t] /\ Frames[t][n] = Here(t)
  BY <1>0, Above
<1> HIDE DEF n
<1>3. \A u \in Thread : \A k \in DOMAIN Frames[u] :
        /\ Frames'[u][k] \in Places["main"] <=> Frames[u][k] \in Places["main"]
        /\ \A s \in Signal : Frames'[u][k] \in Places[s] => Frames[u][k] \in Places[s]
  BY <1>0, <1>1, <1>2, Names DEF Signal
<1>4. \A u \in Thread : \A k \in DOMAIN Frames'[u] :
        Frames'[u][k] \in Places["main"] <=> u = "main" /\ k = 1
  BY <1>1, <1>3, StackFacts
<1>5. \A u \in Thread : \A s \in Signal : \A j, k \in DOMAIN Frames'[u] :
        Frames'[u][j] \in Places[s] /\ Frames'[u][k] \in Places[s] => j = k
  BY <1>1, <1>3, StackFacts
<1>6. QED
  BY <1>1, <1>4, <1>5 DEF StackInv, Stacked, AllPlaces

\* No second reload, and no tick past its test while there is one.
LEMMA ReloadGo ==
  ASSUME StackInv, outcome = "alive", ReloadInv, NEW t \in Thread,
         Here(t) \in AllPlaces, NEW l \in AllPlaces, Go(t, l),
         isRunning' = isRunning, isReload => isReload',
         l \in Places["HUP"] => Here(t) \in Places["HUP"] /\ isReload',
         l \in Places["TERM"] => Here(t) \in Places["TERM"],
         l \in Copying => Here(t) \in Copying \/ ReloadAt = {},
         Here(t) \in Places["main"] => ReloadAt = {} \/ l \in Waiting
  PROVE  ReloadInv'
<1> SUFFICES ASSUME NEW v \in Thread, NEW u \in Thread,
                    NEW j \in DOMAIN Frames'[v], NEW k \in DOMAIN Frames'[u],
                    Frames'[v][j] \in Places["HUP"]
             PROVE  /\ Frames'[u][k] \in Places["HUP"] => v = u /\ j = k
                    /\ Frames'[u][k] \in Places["TERM"] => v = "main" /\ u = "main"
                    /\ Frames'[u][k] \notin Copying
                    /\ ~isRunning' => v = "main"
                    /\ Frames'[v][j] # "flag" => isReload'
                    /\ Interrupted' \in Waiting
  BY DEF ReloadInv
<1> DEFINE n == Len(stack[t])
<1>1. /\ \A w \in Thread : DOMAIN Frames'[w] = DOMAIN Frames[w]
      /\ \A w \in Thread : \A i \in DOMAIN Frames[w] :
           Frames'[w][i] = IF w = t /\ i = n THEN l ELSE Frames[w][i]
      /\ Interrupted' = IF Here(t) \in Places["main"] THEN l ELSE Interrupted
  BY FramesGo
<1>2. Frames[t][n] = Here(t)
  BY Above
<1> HIDE DEF n
<1>3. j \in DOMAIN Frames[v] /\ k \in DOMAIN Frames[u]
  BY <1>1
<1>4. Frames[v][j] \in Places["HUP"]
  BY <1>1, <1>2, <1>3
<1>5. ReloadAt # {}
  BY <1>3, <1>4 DEF ReloadAt
<1>6. /\ Frames[u][k] \in Places["HUP"] => v = u /\ j = k
      /\ Frames[u][k] \in Places["TERM"] => v = "main" /\ u = "main"
      /\ Frames[u][k] \notin Copying
      /\ ~isRunning => v = "main"
      /\ Frames[v][j] # "flag" => isReload
      /\ Interrupted \in Waiting
  BY <1>3, <1>4 DEF ReloadInv
<1>7. /\ Frames'[u][k] \in Places["HUP"] => Frames[u][k] \in Places["HUP"]
      /\ Frames'[u][k] \in Places["TERM"] => Frames[u][k] \in Places["TERM"]
      /\ Frames'[u][k] \in Copying => Frames[u][k] \in Copying
  BY <1>1, <1>2, <1>3, <1>5
<1>8. Frames'[v][j] # "flag" => isReload'
  BY <1>1, <1>2, <1>3, <1>6
<1>9. Interrupted' \in Waiting
  BY <1>1, <1>5, <1>6
<1>10. QED
  BY <1>6, <1>7, <1>8, <1>9

\* No second stop, and no clean-up before one.
LEMMA StopGo ==
  ASSUME StackInv, outcome = "alive", StopInv, NEW t \in Thread,
         Here(t) \in AllPlaces, NEW l \in AllPlaces, Go(t, l),
         isRunning' = isRunning,
         l \in Places["TERM"] => Here(t) \in Places["TERM"],
         Here(t) \in Places["main"] => l \in Waiting \/ ~isRunning
  PROVE  StopInv'
<1> DEFINE n == Len(stack[t])
<1>1. /\ \A w \in Thread : DOMAIN Frames'[w] = DOMAIN Frames[w]
      /\ \A w \in Thread : \A i \in DOMAIN Frames[w] :
           Frames'[w][i] = IF w = t /\ i = n THEN l ELSE Frames[w][i]
      /\ Interrupted' = IF Here(t) \in Places["main"] THEN l ELSE Interrupted
  BY FramesGo
<1>2. Frames[t][n] = Here(t)
  BY Above
<1> HIDE DEF n
<1>3. \A w \in Thread : \A i \in DOMAIN Frames[w] :
        Frames'[w][i] \in Places["TERM"] => Frames[w][i] \in Places["TERM"]
  BY <1>1, <1>2
<1>4. ASSUME NEW v \in Thread, NEW u \in Thread,
             NEW j \in DOMAIN Frames'[v], NEW k \in DOMAIN Frames'[u],
             Frames'[v][j] \in Places["TERM"]
      PROVE  /\ Frames'[u][k] \in Places["TERM"] => v = u /\ j = k
             /\ isRunning'
  <2>1. j \in DOMAIN Frames[v] /\ k \in DOMAIN Frames[u]
    BY <1>1
  <2>2. QED
    BY <1>3, <1>4, <2>1 DEF StopInv
<1>5. Interrupted' \notin Waiting => ~isRunning'
  BY <1>1 DEF StopInv
<1>6. QED
  BY <1>4, <1>5 DEF StopInv

\* Where the reload is.
LEMMA AtGo ==
  ASSUME StackInv, outcome = "alive", NEW t \in Thread, Here(t) \in AllPlaces,
         NEW l \in AllPlaces, Go(t, l)
  PROVE  /\ Here(t) \notin Places["HUP"] /\ l \notin Places["HUP"] => ReloadAt' = ReloadAt
         /\ ReloadInv /\ Here(t) \in Places["HUP"] /\ l \in Places["HUP"] =>
              ReloadAt = {Here(t)} /\ ReloadAt' = {l}
<1> DEFINE n == Len(stack[t])
<1>1. /\ \A w \in Thread : DOMAIN Frames'[w] = DOMAIN Frames[w]
      /\ \A w \in Thread : \A i \in DOMAIN Frames[w] :
           Frames'[w][i] = IF w = t /\ i = n THEN l ELSE Frames[w][i]
  BY FramesGo
<1>2. n \in DOMAIN Frames[t] /\ Frames[t][n] = Here(t)
  BY Above
<1> HIDE DEF n
<1>3. ASSUME Here(t) \notin Places["HUP"], l \notin Places["HUP"]
      PROVE  ReloadAt' = ReloadAt
  <2>1. \A w \in Thread : \A i \in DOMAIN Frames[w] :
          \A p \in Places["HUP"] : Frames'[w][i] = p <=> Frames[w][i] = p
    BY <1>1, <1>2, <1>3
  <2>2. QED
    BY <1>1, <2>1 DEF ReloadAt
<1>4. ASSUME ReloadInv, Here(t) \in Places["HUP"], l \in Places["HUP"]
      PROVE  ReloadAt = {Here(t)} /\ ReloadAt' = {l}
  <2>1. \A w \in Thread : \A i \in DOMAIN Frames[w] :
          Frames[w][i] \in Places["HUP"] => w = t /\ i = n
    BY <1>2, <1>4 DEF ReloadInv
  <2>2. ReloadAt = {Here(t)}
    BY <1>2, <1>4, <2>1 DEF ReloadAt
  <2>3. \A w \in Thread : \A i \in DOMAIN Frames'[w] :
          Frames'[w][i] \in Places["HUP"] => Frames'[w][i] = l
    BY <1>1, <2>1
  <2>4. n \in DOMAIN Frames'[t] /\ Frames'[t][n] = l
    BY <1>1, <1>2
  <2>5. ReloadAt' = {l}
    BY <1>4, <2>3, <2>4 DEF ReloadAt
  <2>6. QED
    BY <2>2, <2>5
<1>5. QED
  BY <1>3, <1>4

-----------------------------------------------------------------------------
(* A handler returns.                                                      *)

LEMMA FramesReturn ==
  ASSUME StackInv, outcome = "alive", NEW t \in Thread,
         Here(t) \in AllPlaces \ Places["main"], Return(t)
  PROVE  /\ Stacked' /\ stack'["main"] # << >> /\ Interrupted' = Interrupted
         /\ \A u \in Thread : \A k \in DOMAIN Frames'[u] :
              /\ k \in DOMAIN Frames[u] /\ Frames'[u][k] = Frames[u][k]
              /\ ~ (u = t /\ k = Len(stack[t]))
         /\ \A u \in Thread : \A k \in DOMAIN Frames[u] :
              k \in DOMAIN Frames'[u] \/ (u = t /\ k = Len(stack[t]))
<1>1. Stacked /\ stack[t] # << >> /\ stack["main"] # << >>
  BY StackFacts, Above
<1>2. /\ Stacked' /\ Len(stack'[t]) = Len(stack[t]) - 1
      /\ \A k \in 1..(Len(stack[t]) - 1) : Frames'[t][k] = Frames[t][k]
      /\ \A u \in Thread \ {t} : Frames'[u] = Frames[u] /\ stack'[u] = stack[u]
  BY <1>1, Returned
<1>3. \A u \in Thread : Len(stack[u]) \in Nat /\ DOMAIN Frames[u] = 1..Len(stack[u])
  BY <1>1, Tops
<1>4. \A u \in Thread : DOMAIN Frames'[u] = 1..Len(stack'[u])
  BY <1>2, TopsNext
<1>5. stack'["main"] # << >>
  <2>1. CASE t = "main"
    <3> DEFINE m == Len(stack["main"])
    <3>1. m # 1 /\ m \in Nat /\ m >= 1
      BY <2>1, Above
    <3>2. Len(stack'["main"]) = m - 1
      BY <1>2, <2>1
    <3> HIDE DEF m
    <3>4. m - 1 # 0
      BY <3>1
    <3>5. Len(stack'["main"]) # 0
      BY <3>2, <3>4
    <3>3. << >> \in Seq(AllPlaces) /\ Len(<< >>) = 0
      BY EmptySeq
    <3>6. QED
      BY <3>3, <3>5
  <2>2. CASE t # "main"
    BY <1>1, <1>2, <2>2
  <2>3. QED
    BY <2>1, <2>2
<1>6. Interrupted' = Frames'["main"][1] /\ Interrupted = Frames["main"][1]
  BY <1>1, <1>2, <1>5, Tops, TopsNext
<1> DEFINE n == Len(stack[t])
<1>a. /\ n \in Nat /\ n >= 1 /\ DOMAIN Frames[t] = 1..n /\ DOMAIN Frames'[t] = 1..(n - 1)
      /\ \A k \in 1..(n - 1) : Frames'[t][k] = Frames[t][k]
  BY <1>2, <1>4, Above
<1> HIDE DEF n
<1>b. /\ \A k \in 1..(n - 1) : k \in 1..n /\ k # n
      /\ \A k \in 1..n : k \in 1..(n - 1) \/ k = n
  BY <1>a
<1>7. \A u \in Thread : \A k \in DOMAIN Frames'[u] :
        k \in DOMAIN Frames[u] /\ Frames'[u][k] = Frames[u][k] /\ ~ (u = t /\ k = n)
  BY <1>2, <1>a, <1>b
<1>8. \A u \in Thread : \A k \in DOMAIN Frames[u] :
        k \in DOMAIN Frames'[u] \/ (u = t /\ k = n)
  BY <1>2, <1>a, <1>b
<1>9. 1 \in DOMAIN Frames["main"] /\ ~ (t = "main" /\ Len(stack[t]) = 1)
  BY Above
<1>10. Interrupted' = Interrupted
  BY <1>6, <1>7, <1>8, <1>9 DEF n
<1>11. QED
  BY <1>2, <1>5, <1>7, <1>8, <1>10 DEF n

LEMMA StackReturn ==
  ASSUME StackInv, outcome = "alive", NEW t \in Thread,
         Here(t) \in AllPlaces \ Places["main"], Return(t)
  PROVE  StackInv'
<1>1. /\ Stacked' /\ stack'["main"] # << >>
      /\ \A u \in Thread : \A k \in DOMAIN Frames'[u] :
           k \in DOMAIN Frames[u] /\ Frames'[u][k] = Frames[u][k]
  BY FramesReturn
<1>2. \A u \in Thread : \A k \in DOMAIN Frames'[u] :
        Frames'[u][k] \in Places["main"] <=> u = "main" /\ k = 1
  BY <1>1, StackFacts
<1>3. \A u \in Thread : \A s \in Signal : \A j, k \in DOMAIN Frames'[u] :
        Frames'[u][j] \in Places[s] /\ Frames'[u][k] \in Places[s] => j = k
  BY <1>1, StackFacts
<1>4. QED
  BY <1>1, <1>2, <1>3 DEF StackInv, Stacked, AllPlaces

\* A stop that returns on top of a reload was taken by the main thread.
LEMMA ReloadReturn ==
  ASSUME StackInv, outcome = "alive", ReloadInv, NEW t \in Thread,
         Here(t) \in AllPlaces \ Places["main"], Return(t),
         isRunning' = isRunning \/ Here(t) \in Places["TERM"],
         (isReload => isReload') \/ Here(t) \in Places["HUP"]
  PROVE  ReloadInv'
<1> SUFFICES ASSUME NEW v \in Thread, NEW u \in Thread,
                    NEW j \in DOMAIN Frames'[v], NEW k \in DOMAIN Frames'[u],
                    Frames'[v][j] \in Places["HUP"]
             PROVE  /\ Frames'[u][k] \in Places["HUP"] => v = u /\ j = k
                    /\ Frames'[u][k] \in Places["TERM"] => v = "main" /\ u = "main"
                    /\ Frames'[u][k] \notin Copying
                    /\ ~isRunning' => v = "main"
                    /\ Frames'[v][j] # "flag" => isReload'
                    /\ Interrupted' \in Waiting
  BY DEF ReloadInv
<1> DEFINE n == Len(stack[t])
<1>1. /\ Interrupted' = Interrupted
      /\ \A w \in Thread : \A i \in DOMAIN Frames'[w] :
           /\ i \in DOMAIN Frames[w] /\ Frames'[w][i] = Frames[w][i]
           /\ ~ (w = t /\ i = n)
  BY FramesReturn
<1>2. n \in DOMAIN Frames[t] /\ Frames[t][n] = Here(t)
  BY Above
<1> HIDE DEF n
<1>3. /\ j \in DOMAIN Frames[v] /\ k \in DOMAIN Frames[u]
      /\ Frames'[v][j] = Frames[v][j] /\ Frames'[u][k] = Frames[u][k]
      /\ ~ (v = t /\ j = n)
  BY <1>1
<1>4. /\ Frames[u][k] \in Places["HUP"] => v = u /\ j = k
      /\ Frames[u][k] \in Places["TERM"] => v = "main" /\ u = "main"
      /\ Frames[u][k] \notin Copying
      /\ ~isRunning => v = "main"
      /\ Frames[v][j] # "flag" => isReload
      /\ Interrupted \in Waiting
  BY <1>3 DEF ReloadInv
<1>5. Here(t) \in Places["TERM"] => v = "main"
  BY <1>2, <1>3 DEF ReloadInv
<1>6. Here(t) \notin Places["HUP"]
  BY <1>2, <1>3 DEF ReloadInv
<1>7. QED
  BY <1>1, <1>3, <1>4, <1>5, <1>6

LEMMA StopReturn ==
  ASSUME StackInv, outcome = "alive", StopInv, NEW t \in Thread,
         Here(t) \in AllPlaces \ Places["main"], Return(t),
         isRunning' = isRunning \/ (Here(t) \in Places["TERM"] /\ isRunning' = FALSE)
  PROVE  StopInv'
<1> DEFINE n == Len(stack[t])
<1>1. /\ Interrupted' = Interrupted
      /\ \A w \in Thread : \A i \in DOMAIN Frames'[w] :
           /\ i \in DOMAIN Frames[w] /\ Frames'[w][i] = Frames[w][i]
           /\ ~ (w = t /\ i = n)
  BY FramesReturn
<1>2. n \in DOMAIN Frames[t] /\ Frames[t][n] = Here(t)
  BY Above
<1> HIDE DEF n
<1>3. ASSUME NEW v \in Thread, NEW u \in Thread,
             NEW j \in DOMAIN Frames'[v], NEW k \in DOMAIN Frames'[u],
             Frames'[v][j] \in Places["TERM"]
      PROVE  /\ Frames'[u][k] \in Places["TERM"] => v = u /\ j = k
             /\ isRunning'
  <2>1. /\ j \in DOMAIN Frames[v] /\ k \in DOMAIN Frames[u]
        /\ Frames'[v][j] = Frames[v][j] /\ Frames'[u][k] = Frames[u][k]
        /\ ~ (v = t /\ j = n)
    BY <1>1
  <2>2. Here(t) \notin Places["TERM"]
    BY <1>2, <1>3, <2>1 DEF StopInv
  <2>3. QED
    BY <1>3, <2>1, <2>2 DEF StopInv
<1>4. Interrupted' \notin Waiting => ~isRunning'
  BY <1>1 DEF StopInv
<1>5. QED
  BY <1>3, <1>4 DEF StopInv

LEMMA AtReturn ==
  ASSUME StackInv, outcome = "alive", NEW t \in Thread,
         Here(t) \in AllPlaces \ Places["main"], Return(t)
  PROVE  /\ Here(t) \notin Places["HUP"] => ReloadAt' = ReloadAt
         /\ ReloadInv /\ Here(t) \in Places["HUP"] =>
              ReloadAt = {Here(t)} /\ ReloadAt' = {}
<1> DEFINE n == Len(stack[t])
<1>1. /\ \A u \in Thread : \A k \in DOMAIN Frames'[u] :
           /\ k \in DOMAIN Frames[u] /\ Frames'[u][k] = Frames[u][k]
           /\ ~ (u = t /\ k = n)
      /\ \A u \in Thread : \A k \in DOMAIN Frames[u] :
           k \in DOMAIN Frames'[u] \/ (u = t /\ k = n)
  BY FramesReturn
<1>2. n \in DOMAIN Frames[t] /\ Frames[t][n] = Here(t)
  BY Above
<1> HIDE DEF n
<1>3. ASSUME Here(t) \notin Places["HUP"] PROVE ReloadAt' = ReloadAt
  <2>1. ASSUME NEW p \in Places["HUP"]
        PROVE  (\E w \in Thread : \E i \in DOMAIN Frames'[w] : Frames'[w][i] = p)
                 <=> \E w \in Thread : \E i \in DOMAIN Frames[w] : Frames[w][i] = p
    BY <1>1, <1>2, <1>3
  <2>2. QED
    BY <2>1 DEF ReloadAt
<1>4. ASSUME ReloadInv, Here(t) \in Places["HUP"]
      PROVE  ReloadAt = {Here(t)} /\ ReloadAt' = {}
  <2>1. \A w \in Thread : \A i \in DOMAIN Frames[w] :
          Frames[w][i] \in Places["HUP"] => w = t /\ i = n
    BY <1>2, <1>4 DEF ReloadInv
  <2>2. ReloadAt = {Here(t)}
    BY <1>2, <1>4, <2>1 DEF ReloadAt
  <2>3. ReloadAt' = {}
    BY <1>1, <2>1 DEF ReloadAt
  <2>4. QED
    BY <2>2, <2>3
<1>5. QED
  BY <1>3, <1>4

-----------------------------------------------------------------------------
(* A signal interrupts a thread.                                           *)

LEMMA FramesPush ==
  ASSUME StackInv, outcome = "alive", NEW t \in Thread, NEW s \in Signal, Interrupt(t, s),
         NEW n, n = Len(stack[t]) + 1
  PROVE  /\ Stacked' /\ stack'["main"] # << >>
         /\ First[s] \in Places[s]
         /\ n \in DOMAIN Frames'[t] /\ Frames'[t][n] = First[s]
         /\ \A u \in Thread : \A k \in DOMAIN Frames'[u] :
              k \in DOMAIN Frames[u] \/ (u = t /\ k = n)
         /\ \A u \in Thread : \A k \in DOMAIN Frames[u] :
              /\ k \in DOMAIN Frames'[u] /\ ~ (u = t /\ k = n)
              /\ \/ Frames'[u][k] = Frames[u][k]
                 \/ Frames[u][k] = "pause" /\ Frames'[u][k] = "test"
         /\ Interrupted' = Interrupted \/ (Interrupted = "pause" /\ Interrupted' = "test")
<1>1. Stacked /\ stack["main"] # << >>
  BY StackFacts DEF StackInv
<1>2. /\ Stacked' /\ stack'[t] # << >> /\ First[s] \in Places[s]
      /\ Frames'[t][n] = First[s] /\ Len(stack'[t]) = n
      /\ \A k \in 1..Len(stack[t]) :
           Frames'[t][k] = IF k = Len(stack[t]) /\ Frames[t][k] = "pause" THEN "test"
                           ELSE Frames[t][k]
      /\ \A u \in Thread \ {t} : Frames'[u] = Frames[u] /\ stack'[u] = stack[u]
  BY Pushed
<1>3. stack'["main"] # << >>
  BY <1>1, <1>2
<1> DEFINE m == Len(stack[t])
<1>4. /\ m \in Nat /\ n = m + 1 /\ DOMAIN Frames[t] = 1..m /\ DOMAIN Frames'[t] = 1..n
  BY <1>1, <1>2, Tops, TopsNext
<1>5. /\ 1 \in DOMAIN Frames["main"]
      /\ Interrupted = Frames["main"][1] /\ Interrupted' = Frames'["main"][1]
  <2>1. Len(stack["main"]) \in Nat /\ Len(stack["main"]) >= 1
        /\ DOMAIN Frames["main"] = 1..Len(stack["main"])
    BY <1>1, Tops
  <2>2. Interrupted = Frames["main"][1] /\ Interrupted' = Frames'["main"][1]
    BY <1>1, <1>2, <1>3, Tops, TopsNext
  <2>3. QED
    BY <2>1, <2>2
<1>6. \A k \in 1..m : Frames'[t][k] = Frames[t][k]
                        \/ (Frames[t][k] = "pause" /\ Frames'[t][k] = "test")
  BY <1>2
<1> HIDE DEF m
<1>7. /\ \A k \in 1..n : k \in 1..m \/ k = n
      /\ \A k \in 1..m : k \in 1..n /\ k # n
      /\ n \in 1..n
  BY <1>4
<1>8. \A u \in Thread : \A k \in DOMAIN Frames'[u] :
        k \in DOMAIN Frames[u] \/ (u = t /\ k = n)
  BY <1>2, <1>4, <1>7
<1>9. \A u \in Thread : \A k \in DOMAIN Frames[u] :
        /\ k \in DOMAIN Frames'[u] /\ ~ (u = t /\ k = n)
        /\ \/ Frames'[u][k] = Frames[u][k]
           \/ Frames[u][k] = "pause" /\ Frames'[u][k] = "test"
  BY <1>2, <1>4, <1>6, <1>7
<1>10. Interrupted' = Interrupted \/ (Interrupted = "pause" /\ Interrupted' = "test")
  BY <1>5, <1>9
<1>11. QED
  BY <1>2, <1>3, <1>4, <1>7, <1>8, <1>9, <1>10

\* A frame keeps its handler.
LEMMA PushKeeps ==
  ASSUME StackInv, outcome = "alive", NEW t \in Thread, NEW s \in Signal, Interrupt(t, s)
  PROVE  \A u \in Thread : \A k \in DOMAIN Frames[u] :
           /\ Frames'[u][k] \in Places["main"] <=> Frames[u][k] \in Places["main"]
           /\ Frames[u][k] \notin Places["main"] => Frames'[u][k] = Frames[u][k]
<1>1. "pause" \in Places["main"] /\ "test" \in Places["main"]
  BY Names DEF Waiting
<1>2. QED
  BY <1>1, FramesPush

LEMMA Handled ==
  ASSUME Stacked, NEW t \in Thread, NEW h
  PROVE  t \in Handling(h) <=> \E k \in DOMAIN Frames[t] : Frames[t][k] \in Places[h]
BY InFrames DEF Handling

LEMMA StackPush ==
  ASSUME StackInv, outcome = "alive", NEW t \in Thread, NEW s \in Signal, Interrupt(t, s),
         t \notin Handling(s)
  PROVE  StackInv'
<1> DEFINE n == Len(stack[t]) + 1
<1>1. /\ Stacked' /\ stack'["main"] # << >> /\ First[s] \in Places[s]
      /\ Frames'[t][n] = First[s]
      /\ \A u \in Thread : \A k \in DOMAIN Frames'[u] :
           k \in DOMAIN Frames[u] \/ (u = t /\ k = n)
  BY FramesPush
<1>2. \A u \in Thread : \A k \in DOMAIN Frames[u] :
        /\ Frames'[u][k] \in Places["main"] <=> Frames[u][k] \in Places["main"]
        /\ Frames[u][k] \notin Places["main"] => Frames'[u][k] = Frames[u][k]
  BY PushKeeps
<1>3. (n \notin DOMAIN Frames[t] /\ n # 1) \/ t # "main"
  <2>1. Stacked /\ stack["main"] # << >>
    BY StackFacts DEF StackInv
  <2>2. Len(stack["main"]) \in Nat /\ Len(stack["main"]) >= 1
        /\ DOMAIN Frames["main"] = 1..Len(stack["main"])
    BY <2>1, Tops
  <2>3. QED
    BY <2>2
<1> HIDE DEF n
<1>4. /\ First[s] \notin Places["main"]
      /\ \A r \in Signal : First[s] \in Places[r] => r = s
      /\ \A r \in Signal : \A p \in Places[r] : p \notin Places["main"]
  BY Apart DEF Signal
<1>5. \A k \in DOMAIN Frames[t] : Frames[t][k] \notin Places[s]
  BY Handled, StackFacts
<1>6. \A u \in Thread : \A k \in DOMAIN Frames'[u] :
        Frames'[u][k] \in Places["main"] <=> u = "main" /\ k = 1
  BY <1>1, <1>2, <1>3, <1>4, StackFacts
<1>7. ASSUME NEW u \in Thread, NEW r \in Signal,
             NEW j \in DOMAIN Frames'[u], NEW k \in DOMAIN Frames'[u],
             Frames'[u][j] \in Places[r], Frames'[u][k] \in Places[r]
      PROVE  j = k
  <2>1. \A i \in DOMAIN Frames[u] :
          Frames'[u][i] \in Places[r] => Frames[u][i] \in Places[r]
    BY <1>2, <1>4
  <2>2. CASE j \in DOMAIN Frames[u] /\ k \in DOMAIN Frames[u]
    BY <1>7, <2>1, <2>2, StackFacts
  <2>3. CASE j \notin DOMAIN Frames[u] \/ k \notin DOMAIN Frames[u]
    <3>1. u = t /\ r = s
      BY <1>1, <1>4, <1>7, <2>3
    <3>2. \A i \in DOMAIN Frames[u] : Frames'[u][i] \notin Places[r]
      BY <1>5, <2>1, <3>1
    <3>3. QED
      BY <1>1, <1>7, <3>2
  <2>4. QED
    BY <2>2, <2>3
<1>8. QED
  BY <1>1, <1>6, <1>7 DEF StackInv, Stacked, AllPlaces

\* What `overlap` excludes, thread by thread.
LEMMA NotOverlapping ==
  ASSUME Stacked, FlagInv, NEW t \in Thread, NEW s \in Signal, Interrupt(t, s), ~overlap'
  PROVE  /\ ~overlap
         /\ s = "HUP" =>
              /\ isRunning
              /\ \A u \in Thread : \A k \in DOMAIN Frames[u] : \A h \in Signal :
                   Frames[u][k] \notin Places[h]
         /\ s = "TERM" =>
              \A u \in Thread : \A k \in DOMAIN Frames[u] :
                Frames[u][k] \in Places["HUP"] \cup Places["TERM"] => u = "main" /\ t = "main"
<1>1. /\ ~overlap
      /\ s = "HUP" => isRunning /\ \A h \in Signal : Handling(h) = {}
      /\ s = "TERM" => \/ Handling("HUP") \cup Handling("TERM") = {}
                       \/ "other" \notin Handling("HUP") \cup Handling("TERM") \cup {t}
  BY DEF Interrupt, FlagInv
<1>2. \A u \in Thread : \A h \in Signal :
        u \notin Handling(h) => \A k \in DOMAIN Frames[u] : Frames[u][k] \notin Places[h]
  BY Handled
<1>3. "HUP" \in Signal /\ "TERM" \in Signal
  BY DEF Signal
<1>4. QED
  BY <1>1, <1>2, <1>3

LEMMA ReloadPush ==
  ASSUME StackInv, FlagInv, outcome = "alive", ReloadInv, StopInv,
         NEW t \in Thread, NEW s \in Signal, Interrupt(t, s), ~overlap',
         UNCHANGED <<isRunning, isReload>>
  PROVE  ReloadInv'
<1> SUFFICES ASSUME NEW v \in Thread, NEW u \in Thread,
                    NEW j \in DOMAIN Frames'[v], NEW k \in DOMAIN Frames'[u],
                    Frames'[v][j] \in Places["HUP"]
             PROVE  /\ Frames'[u][k] \in Places["HUP"] => v = u /\ j = k
                    /\ Frames'[u][k] \in Places["TERM"] => v = "main" /\ u = "main"
                    /\ Frames'[u][k] \notin Copying
                    /\ ~isRunning' => v = "main"
                    /\ Frames'[v][j] # "flag" => isReload'
                    /\ Interrupted' \in Waiting
  BY DEF ReloadInv
<1> DEFINE n == Len(stack[t]) + 1
<1>1. /\ Frames'[t][n] = First[s]
      /\ \A w \in Thread : \A i \in DOMAIN Frames'[w] :
           i \in DOMAIN Frames[w] \/ (w = t /\ i = n)
      /\ Interrupted' = Interrupted \/ (Interrupted = "pause" /\ Interrupted' = "test")
  BY FramesPush
<1>2. \A w \in Thread : \A i \in DOMAIN Frames[w] :
        /\ Frames'[w][i] \in Places["main"] <=> Frames[w][i] \in Places["main"]
        /\ Frames[w][i] \notin Places["main"] => Frames'[w][i] = Frames[w][i]
  BY PushKeeps
<1> HIDE DEF n
<1>3. "test" \in Waiting /\ "pause" \in Waiting
  BY DEF Waiting
<1>4. CASE s = "HUP"
  <2>1. isRunning /\ \A w \in Thread : \A i \in DOMAIN Frames[w] : \A h \in Signal :
          Frames[w][i] \notin Places[h]
    BY <1>4, NotOverlapping, StackFacts
  <2>2. \A w \in Thread : \A i \in DOMAIN Frames[w] :
          /\ Frames'[w][i] \notin Places["HUP"] /\ Frames'[w][i] \notin Places["TERM"]
          /\ Frames'[w][i] \notin Copying
    BY <1>2, <2>1, Apart DEF Signal
  <2>3. v = t /\ j = n /\ Frames'[v][j] = "flag"
    BY <1>1, <1>4, <2>2, Apart
  <2>4. Interrupted' \in Waiting
    BY <1>1, <1>3, <2>1 DEF StopInv
  <2>5. (u = t /\ k = n) \/ k \in DOMAIN Frames[u]
    BY <1>1
  <2>6. QED
    BY <2>1, <2>2, <2>3, <2>4, <2>5, Apart
<1>5. CASE s # "HUP"
  <2>1. First[s] \notin Places["HUP"] /\ First[s] \notin Copying
        /\ (s # "TERM" => First[s] \notin Places["TERM"])
    BY <1>5, Apart DEF Signal
  <2>2. j \in DOMAIN Frames[v] /\ Frames[v][j] = Frames'[v][j]
    BY <1>1, <1>2, <2>1, Apart
  <2>3. Interrupted' \in Waiting
    <3>1. Interrupted \in Waiting
      BY <1>1, <2>2 DEF ReloadInv
    <3>2. QED
      BY <1>1, <1>3, <3>1
  <2>4. CASE k \in DOMAIN Frames[u]
    <3>1. /\ Frames[u][k] \in Places["HUP"] => v = u /\ j = k
          /\ Frames[u][k] \in Places["TERM"] => v = "main" /\ u = "main"
          /\ Frames[u][k] \notin Copying
          /\ ~isRunning => v = "main"
          /\ Frames[v][j] # "flag" => isReload
      BY <2>2, <2>4 DEF ReloadInv
    <3>2. /\ Frames'[u][k] \in Places["HUP"] => Frames[u][k] \in Places["HUP"]
          /\ Frames'[u][k] \in Places["TERM"] => Frames[u][k] \in Places["TERM"]
          /\ Frames'[u][k] \in Copying => Frames[u][k] \in Copying
      BY <1>2, <2>4, Apart
    <3>3. QED
      BY <2>2, <2>3, <3>1, <3>2
  <2>5. CASE k \notin DOMAIN Frames[u]
    <3>1. u = t /\ Frames'[u][k] = First[s]
      BY <1>1, <2>5
    <3>2. (~isRunning => v = "main") /\ (Frames[v][j] # "flag" => isReload)
      BY <2>2 DEF ReloadInv
    <3>3. s = "TERM" => v = "main" /\ t = "main"
      BY <2>2, NotOverlapping, StackFacts
    <3>4. QED
      BY <2>1, <2>2, <2>3, <3>1, <3>2, <3>3
  <2>6. QED
    BY <2>4, <2>5
<1>6. QED
  BY <1>4, <1>5

LEMMA StopPush ==
  ASSUME StackInv, FlagInv, outcome = "alive", StopInv,
         NEW t \in Thread, NEW s \in Signal, Interrupt(t, s), ~overlap',
         t \notin Handling(s), s = "TERM" => isRunning, isRunning' = isRunning
  PROVE  StopInv'
<1> DEFINE n == Len(stack[t]) + 1
<1>1. /\ Frames'[t][n] = First[s]
      /\ \A w \in Thread : \A i \in DOMAIN Frames'[w] :
           i \in DOMAIN Frames[w] \/ (w = t /\ i = n)
      /\ Interrupted' = Interrupted \/ (Interrupted = "pause" /\ Interrupted' = "test")
  BY FramesPush
<1>2. \A w \in Thread : \A i \in DOMAIN Frames[w] :
        Frames'[w][i] \in Places["TERM"] => Frames[w][i] \in Places["TERM"]
  BY PushKeeps, Apart
<1> HIDE DEF n
<1>3. s # "TERM" => First[s] \notin Places["TERM"]
  BY Apart DEF Signal
<1>4. s = "TERM" => \A w \in Thread : \A i \in DOMAIN Frames[w] :
                       Frames[w][i] \notin Places["TERM"]
  <2>1. s = "TERM" => \A w \in Thread : \A i \in DOMAIN Frames[w] :
                         Frames[w][i] \in Places["TERM"] => w = t
    BY NotOverlapping, StackFacts
  <2>2. s = "TERM" => \A i \in DOMAIN Frames[t] : Frames[t][i] \notin Places["TERM"]
    BY Handled, StackFacts
  <2>3. QED
    BY <2>1, <2>2
<1>5. ASSUME NEW v \in Thread, NEW u \in Thread,
             NEW j \in DOMAIN Frames'[v], NEW k \in DOMAIN Frames'[u],
             Frames'[v][j] \in Places["TERM"]
      PROVE  /\ Frames'[u][k] \in Places["TERM"] => v = u /\ j = k
             /\ isRunning'
  <2>1. CASE s = "TERM"
    BY <1>1, <1>2, <1>4, <1>5, <2>1
  <2>2. CASE s # "TERM"
    <3>1. j \in DOMAIN Frames[v] /\ Frames[v][j] \in Places["TERM"]
      BY <1>1, <1>2, <1>3, <1>5, <2>2
    <3>2. Frames'[u][k] \in Places["TERM"] =>
            k \in DOMAIN Frames[u] /\ Frames[u][k] \in Places["TERM"]
      BY <1>1, <1>2, <1>3, <2>2
    <3>3. isRunning
      BY <3>1 DEF StopInv
    <3>4. QED
      BY <3>1, <3>2, <3>3 DEF StopInv
  <2>3. QED
    BY <2>1, <2>2
<1>6. Interrupted' \notin Waiting => ~isRunning'
  BY <1>1 DEF StopInv, Waiting
<1>7. QED
  BY <1>5, <1>6 DEF StopInv

LEMMA AtPush ==
  ASSUME StackInv, FlagInv, outcome = "alive", NEW t \in Thread, NEW s \in Signal,
         Interrupt(t, s), ~overlap'
  PROVE  /\ s # "HUP" => ReloadAt' = ReloadAt
         /\ s = "HUP" => ReloadAt = {} /\ ReloadAt' = {"flag"}
<1> DEFINE n == Len(stack[t]) + 1
<1>1. /\ n \in DOMAIN Frames'[t] /\ Frames'[t][n] = First[s]
      /\ \A w \in Thread : \A i \in DOMAIN Frames'[w] :
           i \in DOMAIN Frames[w] \/ (w = t /\ i = n)
      /\ \A w \in Thread : \A i \in DOMAIN Frames[w] : i \in DOMAIN Frames'[w]
  BY FramesPush
<1>2. \A w \in Thread : \A i \in DOMAIN Frames[w] : \A p \in Places["HUP"] :
        Frames'[w][i] = p <=> Frames[w][i] = p
  BY PushKeeps, Apart
<1> HIDE DEF n
<1>3. CASE s # "HUP"
  <2>1. First[s] \notin Places["HUP"]
    BY <1>3, Apart DEF Signal
  <2>2. ASSUME NEW p \in Places["HUP"]
        PROVE  (\E w \in Thread : \E i \in DOMAIN Frames'[w] : Frames'[w][i] = p)
                 <=> \E w \in Thread : \E i \in DOMAIN Frames[w] : Frames[w][i] = p
    BY <1>1, <1>2, <2>1
  <2>3. QED
    BY <1>3, <2>2 DEF ReloadAt
<1>4. CASE s = "HUP"
  <2>1. \A w \in Thread : \A i \in DOMAIN Frames[w] : Frames[w][i] \notin Places["HUP"]
    BY <1>4, NotOverlapping, StackFacts DEF Signal
  <2>2. ReloadAt = {}
    BY <2>1 DEF ReloadAt
  <2>3. ReloadAt' = {"flag"}
    BY <1>1, <1>2, <1>4, <2>1, Apart DEF ReloadAt
  <2>4. QED
    BY <1>4, <2>2, <2>3
<1>5. QED
  BY <1>3, <1>4

-----------------------------------------------------------------------------
(* What the objects depend on.                                             *)

Good == ReloadInv /\ StopInv /\ ObjectInv /\ TickInv

\* A thread in the reload is the reload, and main() waits below.
LEMMA AtHere ==
  ASSUME StackInv, outcome = "alive", ReloadInv, NEW t \in Thread, Here(t) \in Places["HUP"]
  PROVE  /\ ReloadAt = {Here(t)} /\ Interrupted \in Waiting
         /\ \A u \in Thread : \A k \in DOMAIN Frames[u] : Frames[u][k] \notin Copying
<1> DEFINE n == Len(stack[t])
<1>1. n \in DOMAIN Frames[t] /\ Frames[t][n] = Here(t)
  BY Above, Apart
<1> HIDE DEF n
<1>2. \A u \in Thread : \A k \in DOMAIN Frames[u] :
        /\ Frames[u][k] \in Places["HUP"] => Frames[u][k] = Here(t)
        /\ Frames[u][k] \notin Copying
        /\ Interrupted \in Waiting
  BY <1>1 DEF ReloadInv
<1>3. ReloadAt = {Here(t)}
  BY <1>1, <1>2 DEF ReloadAt
<1>4. QED
  BY <1>1, <1>2, <1>3

\* There is no reload while main() cleans up.
LEMMA CleanAlone ==
  ASSUME ReloadInv, Interrupted \notin Waiting
  PROVE  ReloadAt = {}
BY DEF ReloadInv, ReloadAt

\* The objects stay, and so do the reload and main(), as far as it matters.
LEMMA ObjectKept ==
  ASSUME ObjectInv, UNCHANGED <<ptr, deleted, hups>>, ReloadAt' = ReloadAt,
         Interrupted' = Interrupted
           \/ {Interrupted, Interrupted'} \cap {"freeTable", "freeConfig"} = {}
  PROVE  ObjectInv'
<1>1. \A k \in Kind : Gone(k)' = Gone(k)
  BY DEF Gone, Current
<1>2. {"table", "config", "http"} \subseteq Kind
  BY DEF Kind
<1>3. /\ Interrupted' \in {"freeTable", "freeConfig"} <=>
             Interrupted \in {"freeTable", "freeConfig"}
      /\ Interrupted' = "freeConfig" <=> Interrupted = "freeConfig"
  OBVIOUS
<1>4. QED
  BY <1>1, <1>2, <1>3 DEF ObjectInv

\* No tick begins to copy, and those that do keep their table.
LEMMA TickKept ==
  ASSUME TickInv, UNCHANGED <<seen, deleted>>, isRunning' => isRunning,
         \A u \in Thread : \A k \in DOMAIN Frames'[u] :
           Frames'[u][k] = "copy" => k \in DOMAIN Frames[u] /\ Frames[u][k] = "copy"
  PROVE  TickInv'
BY DEF TickInv

\* A step that moves no thread through its places.
LEMMA Quiet ==
  ASSUME IInv, UNCHANGED <<stack, seen, isRunning, isReload, ptr, deleted, outcome,
                           overlap, hups>>
  PROVE  IInv'
<1>1. Frames' = Frames /\ Interrupted' = Interrupted
  BY DEF Frames, Interrupted
<1>2. ReloadAt' = ReloadAt
  BY <1>1 DEF ReloadAt
<1>3. FlagInv' /\ StackInv' /\ TicksSafe' /\ NoDoubleDelete'
  BY <1>1 DEF IInv, FlagInv, StackInv, TicksSafe, NoDoubleDelete
<1>4. ASSUME Good PROVE Good'
  <2>1. ReloadInv' /\ StopInv' /\ TickInv'
    BY <1>1, <1>4 DEF Good, ReloadInv, StopInv, TickInv
  <2>2. ObjectInv'
    BY <1>1, <1>2, <1>4, ObjectKept DEF Good
  <2>3. QED
    BY <2>1, <2>2 DEF Good
<1>5. QED
  BY <1>3, <1>4 DEF IInv, Good

\* The process ends.
LEMMA EndStep ==
  ASSUME IInv, NEW how, how # "alive", End(how),
         how = "ALRM" => overlap \/ ~isRunning,
         how \in {"HUP", "TERM", "main"} => overlap
  PROVE  IInv'
<1>1. FlagInv'
  BY DEF IInv, FlagInv, End, objects, history
<1>2. stack' = [t \in Thread |-> << >>] /\ << >> \in Seq(AllPlaces) /\ Len(<< >>) = 0
  BY EmptySeq DEF End
<1>3. \A t \in Thread : Frames'[t] = Rev(<< >>)
  BY <1>2 DEF Frames
<1>4. DOMAIN Rev(<< >>) = {}
  BY <1>2 DEF Rev
<1>5. outcome' = how /\ isRunning' = isRunning /\ overlap' = overlap
  BY DEF End, history
<1>6. StackInv'
  BY <1>2, <1>3, <1>4, <1>5 DEF StackInv, AllPlaces
<1>7. TicksSafe' /\ NoDoubleDelete'
  BY <1>5 DEF TicksSafe, NoDoubleDelete
<1>8. QED
  BY <1>1, <1>5, <1>6, <1>7 DEF IInv

\* Nothing that has been deleted is used by a handler or by main(), but for what
\* the properties except.
LEMMA DangleStep == IInv /\ Dangle => IInv'
<1> SUFFICES ASSUME IInv, Dangle PROVE IInv'
  OBVIOUS
<1>1. ASSUME NEW how \in {"heap", "listener", "worker", "run"}, End(how) PROVE IInv'
  BY <1>1, EndStep
<1>2. ASSUME NEW t \in Thread, NEW h \in DOMAIN Places, Here(t) \in Places[h],
             ~Intact(Uses(t)), End(h)
      PROVE  IInv'
  <2>1. outcome = "alive" /\ Uses(t) \cap deleted # {}
    BY <1>2 DEF End, Intact
  <2>2. h \in {"HUP", "TERM", "ALRM", "main"} /\ StackInv
    BY Names DEF IInv
  <2>3. Here(t) \in AllPlaces
    BY <1>2 DEF AllPlaces
  <2>4. ~overlap => Good
    BY <2>1 DEF IInv, Good
  <2>5. CASE h = "ALRM"
    <3>1. Uses(t) \subseteq {<<"table", seen[t]>>} /\ (Uses(t) # {} => Here(t) = "copy")
      BY <1>2, <2>5, Names DEF Uses, Copying
    <3>2. Here(t) = "copy" /\ <<"table", seen[t]>> \in deleted
      BY <2>1, <3>1
    <3>3. overlap \/ ~isRunning
      BY <2>1, <2>2, <2>3, <2>4, <3>2, Above DEF Good, TickInv
    <3>4. QED
      BY <1>2, <2>5, <3>3, EndStep
  <2>6. ASSUME h # "ALRM", Good PROVE FALSE
    <3>1. /\ Here(t) \in {"close", "stopClose", "freeHttp"} => Gone("http")
          /\ Here(t) \in {"deleteTable", "freeTable"} => Gone("table")
          /\ Here(t) \in {"deleteConfig", "newTable", "remove", "freeConfig"} => Gone("config")
          /\ Here(t) \in {"close", "stopClose", "freeHttp", "deleteTable", "freeTable",
                          "deleteConfig", "newTable", "remove", "freeConfig"}
      <4>1. Here(t) # "copy"
        BY <1>2, <2>2, <2>6, Names DEF Waiting, Clean
      <4>2. QED
        BY <2>1, <4>1 DEF Uses, Gone
    <3>2. CASE h = "HUP"
      <4>1. ReloadAt = {Here(t)} /\ Interrupted \in Waiting
        BY <1>2, <2>1, <2>2, <2>6, <3>2, AtHere DEF Good
      <4>2. QED
        BY <1>2, <2>6, <3>1, <3>2, <4>1, Names DEF Good, ObjectInv, Waiting
    <3>3. CASE h = "TERM"
      <4>1. isRunning
        BY <1>2, <2>1, <2>2, <2>3, <2>6, <3>3, Above DEF Good, StopInv
      <4>2. Gone("http")
        BY <1>2, <3>1, <3>3, Names
      <4>3. QED
        BY <2>6, <4>1, <4>2 DEF Good, ObjectInv, StopInv, Waiting
    <3>4. CASE h = "main"
      <4>1. Here(t) = Interrupted
        BY <1>2, <2>1, <2>2, <2>3, <3>4, Above
      <4>2. Here(t) \in Clean
        BY <1>2, <3>1, <3>4, Names DEF Waiting, Clean
      <4>3. ReloadAt = {}
        BY <2>6, <4>1, <4>2, CleanAlone DEF Good, Clean, Waiting
      <4>4. QED
        BY <2>6, <3>1, <4>1, <4>2, <4>3 DEF Good, ObjectInv, Clean
    <3>5. QED
      BY <2>2, <2>6, <3>2, <3>3, <3>4
  <2>7. CASE h # "ALRM"
    BY <1>2, <2>2, <2>4, <2>6, <2>7, EndStep
  <2>8. QED
    BY <2>5, <2>7
<1>3. QED
  BY <1>1, <1>2 DEF Dangle

-----------------------------------------------------------------------------
(* Ticks.                                                                  *)

\* What a step of a handler at place l may rely on.
LEMMA Step ==
  ASSUME IInv, NEW t \in Thread, NEW l \in AllPlaces, At(t, l)
  PROVE  /\ Here(t) = l /\ outcome = "alive" /\ FlagInv /\ StackInv
         /\ ~overlap => Good
         /\ Uses(t) \cap deleted = {}
BY DEF At, Intact, IInv, Good

\* While the process lives, the parts are the whole.
LEMMA Whole ==
  ASSUME outcome' = "alive", FlagInv', StackInv', ~overlap' => Good'
  PROVE  IInv'
BY DEF IInv, Good, TicksSafe, NoDoubleDelete

LEMMA TickStartStep ==
  ASSUME IInv, NEW t \in Thread, TickStart(t)
  PROVE  IInv'
<1>1. "start" \in AllPlaces \ Places["main"] /\ "list" \in AllPlaces
      /\ {"start", "list"} \subseteq Places["ALRM"] /\ "list" # "copy"
  BY Names DEF Copying, Waiting, Clean
<1>2. /\ Here(t) = "start" /\ outcome = "alive" /\ FlagInv /\ StackInv
      /\ ~overlap => Good
  BY <1>1, Step DEF TickStart
<1>3. FlagInv'
  BY <1>2 DEF TickStart, FlagInv, flags, objects
<1>4. outcome' = "alive" /\ UNCHANGED <<isRunning, isReload, seen, deleted, ptr, hups>>
  BY <1>2 DEF TickStart, flags, objects
<1>5. overlap' = (overlap \/ \E u \in Thread : In(u, {"flag"}))
  BY DEF TickStart
<1>6. CASE isReload
  <2>1. Return(t)
    BY <1>6 DEF TickStart
  <2>2. StackInv'
    BY <1>1, <1>2, <2>1, StackReturn
  <2>3. ASSUME Good PROVE Good'
    <3>1. ReloadInv' /\ StopInv'
      BY <1>1, <1>2, <1>4, <2>1, <2>3, ReloadReturn, StopReturn DEF Good
    <3>2. ReloadAt' = ReloadAt /\ Interrupted' = Interrupted
      BY <1>1, <1>2, <2>1, AtReturn, FramesReturn, Apart
    <3>3. ObjectInv'
      BY <1>4, <2>3, <3>2, ObjectKept DEF Good
    <3>4. TickInv'
      BY <1>1, <1>2, <1>4, <2>1, <2>3, FramesReturn, TickKept DEF Good
    <3>5. QED
      BY <3>1, <3>3, <3>4 DEF Good
  <2>4. QED
    BY <1>2, <1>3, <1>4, <1>5, <2>2, <2>3, Whole DEF FlagInv
<1>7. CASE ~isReload
  <2>1. Go(t, "list")
    BY <1>7 DEF TickStart
  <2>2. StackInv'
    BY <1>1, <1>2, <2>1, StackGo, Names
  <2>3. ASSUME Good, ~overlap' PROVE Good'
    <3>1. ReloadAt = {}
      <4>1. \A u \in Thread : \A k \in DOMAIN Frames[u] : Frames[u][k] # "flag"
        BY <1>2, <1>5, <2>3, InFrames, StackFacts
      <4>2. QED
        BY <1>7, <2>3, <4>1 DEF Good, ReloadInv, ReloadAt
    <3>2. ReloadInv' /\ StopInv'
      BY <1>1, <1>2, <1>4, <2>1, <2>3, <3>1, ReloadGo, StopGo, Apart DEF Good
    <3>3. ReloadAt' = ReloadAt /\ Interrupted' = Interrupted
      BY <1>1, <1>2, <2>1, AtGo, FramesGo, Apart
    <3>4. ObjectInv'
      BY <1>4, <2>3, <3>3, ObjectKept DEF Good
    <3>5. TickInv'
      BY <1>1, <1>2, <1>4, <2>1, <2>3, FramesGo, TickKept DEF Good
    <3>6. QED
      BY <3>2, <3>4, <3>5 DEF Good
  <2>4. QED
    BY <1>2, <1>3, <1>4, <1>5, <2>2, <2>3, Whole DEF FlagInv
<1>8. QED
  BY <1>6, <1>7

LEMMA TickListStep ==
  ASSUME IInv, NEW t \in Thread, TickList(t)
  PROVE  IInv'
<1>1. /\ {"list", "copy"} \subseteq AllPlaces /\ "list" \notin Places["main"]
      /\ {"list", "copy"} \subseteq Places["ALRM"] /\ {"list", "copy"} \subseteq Copying
  BY Names DEF Copying, Waiting, Clean
<1>2. /\ Here(t) = "list" /\ outcome = "alive" /\ FlagInv /\ StackInv
      /\ ~overlap => Good
  BY <1>1, Step DEF TickList
<1>3. /\ outcome' = "alive" /\ UNCHANGED <<isRunning, isReload, deleted, ptr, hups, overlap>>
      /\ seen' = [seen EXCEPT ![t] = ptr["table"]] /\ Go(t, "copy")
  BY <1>2 DEF TickList, flags, objects, history
<1>4. FlagInv'
  BY <1>2, <1>3 DEF FlagInv, Kind
<1>5. StackInv'
  BY <1>1, <1>2, <1>3, StackGo, Names
<1>6. ASSUME Good PROVE Good'
  <2>1. ReloadInv' /\ StopInv'
    BY <1>1, <1>2, <1>3, <1>6, ReloadGo, StopGo, Apart DEF Good
  <2>2. ReloadAt' = ReloadAt /\ Interrupted' = Interrupted
    BY <1>1, <1>2, <1>3, AtGo, FramesGo, Apart
  <2>3. ObjectInv'
    BY <1>3, <1>6, <2>2, ObjectKept DEF Good
  <2>4. TickInv'
    <3> DEFINE n == Len(stack[t])
    <3>1. /\ \A u \in Thread : DOMAIN Frames'[u] = DOMAIN Frames[u]
          /\ \A u \in Thread : \A k \in DOMAIN Frames[u] :
               Frames'[u][k] = IF u = t /\ k = n THEN "copy" ELSE Frames[u][k]
      BY <1>1, <1>2, <1>3, FramesGo
    <3>2. n \in DOMAIN Frames[t] /\ Frames[t][n] = "list"
      BY <1>1, <1>2, Above
    <3> HIDE DEF n
    <3>3. ReloadAt = {}
      BY <1>1, <1>6, <3>2 DEF Good, ReloadInv, ReloadAt
    <3>4. isRunning => <<"table", ptr["table"]>> \notin deleted
      BY <1>6, <3>3 DEF Good, ObjectInv, StopInv, Gone, Current, Waiting
    <3>5. seen'[t] = ptr["table"] /\ \A u \in Thread \ {t} : seen'[u] = seen[u]
      BY <1>2, <1>3 DEF FlagInv
    <3>6. \A u \in Thread \ {t} : \A k \in DOMAIN Frames'[u] :
            Frames'[u][k] = "copy" => k \in DOMAIN Frames[u] /\ Frames[u][k] = "copy"
      BY <3>1
    <3>7. QED
      BY <1>3, <1>6, <3>4, <3>5, <3>6 DEF Good, TickInv
  <2>5. QED
    BY <2>1, <2>3, <2>4 DEF Good
<1>7. QED
  BY <1>2, <1>3, <1>4, <1>5, <1>6, Whole

LEMMA TickCopyStep ==
  ASSUME IInv, NEW t \in Thread, TickCopy(t)
  PROVE  IInv'
<1>1. /\ {"run", "copy"} \subseteq AllPlaces /\ "copy" \notin Places["main"]
      /\ {"run", "copy"} \subseteq Places["ALRM"] /\ {"run", "copy"} \subseteq Copying
  BY Names DEF Copying, Waiting, Clean
<1>2. /\ Here(t) = "copy" /\ outcome = "alive" /\ FlagInv /\ StackInv
      /\ ~overlap => Good
  BY <1>1, Step DEF TickCopy
<1>3. /\ outcome' = "alive" /\ UNCHANGED <<isRunning, isReload, deleted, ptr, hups, overlap>>
      /\ seen' = [seen EXCEPT ![t] = 1] /\ Go(t, "run")
  BY <1>2 DEF TickCopy, flags, objects, history
<1>4. FlagInv'
  BY <1>2, <1>3 DEF FlagInv
<1>5. StackInv'
  BY <1>1, <1>2, <1>3, StackGo, Names
<1>6. ASSUME Good PROVE Good'
  <2>1. ReloadInv' /\ StopInv'
    BY <1>1, <1>2, <1>3, <1>6, ReloadGo, StopGo, Apart DEF Good
  <2>2. ReloadAt' = ReloadAt /\ Interrupted' = Interrupted
    BY <1>1, <1>2, <1>3, AtGo, FramesGo, Apart
  <2>3. ObjectInv'
    BY <1>3, <1>6, <2>2, ObjectKept DEF Good
  <2>4. TickInv'
    <3> DEFINE n == Len(stack[t])
    <3>1. /\ \A u \in Thread : DOMAIN Frames'[u] = DOMAIN Frames[u]
          /\ \A u \in Thread : \A k \in DOMAIN Frames[u] :
               Frames'[u][k] = IF u = t /\ k = n THEN "run" ELSE Frames[u][k]
      BY <1>1, <1>2, <1>3, FramesGo
    <3>2. n \in DOMAIN Frames[t] /\ Frames[t][n] = "copy"
      BY <1>1, <1>2, Above
    <3> HIDE DEF n
    <3>3. \A k \in DOMAIN Frames'[t] : Frames'[t][k] # "copy"
      <4>1. \A k \in DOMAIN Frames[t] : Frames[t][k] = "copy" => k = n
        BY <1>1, <1>2, <3>2, StackFacts DEF Signal
      <4>2. QED
        BY <3>1, <4>1
    <3>4. \A u \in Thread \ {t} : seen'[u] = seen[u]
      BY <1>2, <1>3 DEF FlagInv
    <3>5. \A u \in Thread \ {t} : \A k \in DOMAIN Frames'[u] :
            Frames'[u][k] = "copy" => k \in DOMAIN Frames[u] /\ Frames[u][k] = "copy"
      BY <3>1
    <3>6. QED
      BY <1>3, <1>6, <3>3, <3>4, <3>5 DEF Good, TickInv
  <2>5. QED
    BY <2>1, <2>3, <2>4 DEF Good
<1>7. QED
  BY <1>2, <1>3, <1>4, <1>5, <1>6, Whole

LEMMA TickEndStep ==
  ASSUME IInv, NEW t \in Thread, TickEnd(t)
  PROVE  IInv'
<1>1. "run" \in AllPlaces \ Places["main"] /\ "run" \in Places["ALRM"]
  BY Names DEF Copying, Waiting, Clean
<1>2. /\ Here(t) = "run" /\ outcome = "alive" /\ FlagInv /\ StackInv
      /\ ~overlap => Good
  BY <1>1, Step DEF TickEnd
<1>3. /\ outcome' = "alive" /\ Return(t)
      /\ UNCHANGED <<seen, isRunning, isReload, deleted, ptr, hups, overlap>>
  BY <1>2 DEF TickEnd, flags, objects, history
<1>4. FlagInv' /\ StackInv'
  BY <1>1, <1>2, <1>3, StackReturn DEF FlagInv
<1>5. ASSUME Good PROVE Good'
  <2>1. ReloadInv' /\ StopInv'
    BY <1>1, <1>2, <1>3, <1>5, ReloadReturn, StopReturn DEF Good
  <2>2. ReloadAt' = ReloadAt /\ Interrupted' = Interrupted
    BY <1>1, <1>2, <1>3, AtReturn, FramesReturn, Apart
  <2>3. ObjectInv'
    BY <1>3, <1>5, <2>2, ObjectKept DEF Good
  <2>4. TickInv'
    BY <1>1, <1>2, <1>3, <1>5, FramesReturn, TickKept DEF Good
  <2>5. QED
    BY <2>1, <2>3, <2>4 DEF Good
<1>6. QED
  BY <1>2, <1>3, <1>4, <1>5, Whole

LEMMA TickRunStep ==
  ASSUME IInv, NEW t \in Thread, TickRun(t)
  PROVE  IInv'
BY Quiet DEF TickRun, flags, objects, history

-----------------------------------------------------------------------------
(* Stops and reloads.                                                      *)

\* A step inside a stop or a reload.
LEMMA HandlerGo ==
  ASSUME StackInv, outcome = "alive", NEW s \in {"HUP", "TERM"}, NEW t \in Thread,
         NEW l \in Places[s], Here(t) \in Places[s], Go(t, l),
         UNCHANGED <<isRunning, seen>>, s = "HUP" \/ UNCHANGED deleted,
         IF s = "HUP" THEN isReload' ELSE isReload' = isReload
  PROVE  /\ StackInv' /\ Interrupted' = Interrupted
         /\ s = "TERM" => ReloadAt' = ReloadAt
         /\ Good => /\ ReloadInv' /\ StopInv' /\ TickInv'
                    /\ s = "HUP" => /\ ReloadAt = {Here(t)} /\ ReloadAt' = {l}
                                    /\ Interrupted \in Waiting
<1>1. /\ l \in AllPlaces \ Places["main"] /\ Here(t) \in AllPlaces \ Places["main"]
      /\ l \notin Places["ALRM"] /\ l \notin Copying
      /\ s = "TERM" => l \notin Places["HUP"] /\ Here(t) \notin Places["HUP"]
      /\ s = "HUP" => l \notin Places["TERM"]
  BY Apart
<1>2. /\ \A u \in Thread : DOMAIN Frames'[u] = DOMAIN Frames[u]
      /\ \A u \in Thread : \A k \in DOMAIN Frames[u] :
           Frames'[u][k] = IF u = t /\ k = Len(stack[t]) THEN l ELSE Frames[u][k]
      /\ Interrupted' = Interrupted
  BY <1>1, FramesGo
<1>3. StackInv'
  BY StackGo, Names
<1>4. s = "TERM" => ReloadAt' = ReloadAt
  BY <1>1, AtGo
<1>5. "copy" \in Copying
  BY DEF Copying
<1>6. \A u \in Thread : \A k \in DOMAIN Frames'[u] :
        Frames'[u][k] = "copy" => k \in DOMAIN Frames[u] /\ Frames[u][k] = "copy"
  BY <1>1, <1>2, <1>5
<1>7. ASSUME Good PROVE ReloadInv' /\ StopInv'
  BY <1>1, <1>7, ReloadGo, StopGo DEF Good
<1>8. ASSUME Good, s = "HUP"
      PROVE  /\ ReloadAt = {Here(t)} /\ ReloadAt' = {l} /\ Interrupted \in Waiting
             /\ TickInv'
  <2>1. ReloadAt = {Here(t)} /\ ReloadAt' = {l}
    BY <1>1, <1>8, AtGo DEF Good
  <2>2. /\ Interrupted \in Waiting
        /\ \A u \in Thread : \A k \in DOMAIN Frames[u] : Frames[u][k] \notin Copying
    BY <1>8, AtHere DEF Good
  <2>3. TickInv'
    BY <1>5, <1>6, <2>2 DEF TickInv
  <2>4. QED
    BY <2>1, <2>2, <2>3
<1>9. ASSUME Good, s = "TERM" PROVE TickInv'
  BY <1>6, <1>9, TickKept DEF Good
<1>10. QED
  BY <1>2, <1>3, <1>4, <1>7, <1>8, <1>9

\* A step of a stop that leaves the objects alone.
LEMMA StopStep ==
  ASSUME IInv, NEW t \in Thread, NEW p \in Places["TERM"], NEW l \in Places["TERM"],
         At(t, p), Go(t, l),
         UNCHANGED <<isRunning, isReload, seen, objects, outcome, history>>
  PROVE  IInv'
<1>1. p \in AllPlaces
  BY Apart
<1>2. /\ Here(t) = p /\ outcome = "alive" /\ FlagInv /\ StackInv
      /\ ~overlap => Good
  BY <1>1, Step
<1>3. UNCHANGED <<ptr, deleted, hups, overlap>>
  BY DEF objects, history
<1>4. FlagInv'
  BY <1>2, <1>3 DEF FlagInv
<1>5. /\ StackInv' /\ Interrupted' = Interrupted /\ ReloadAt' = ReloadAt
      /\ Good => ReloadInv' /\ StopInv' /\ TickInv'
  BY <1>2, <1>3, HandlerGo
<1>6. Good => ObjectInv'
  BY <1>3, <1>5, ObjectKept DEF Good
<1>7. QED
  BY <1>2, <1>3, <1>4, <1>5, <1>6, Whole DEF Good

LEMMA StopCloseStep ==
  ASSUME IInv, NEW t \in Thread, StopClose(t)
  PROVE  IInv'
BY StopStep, Names DEF StopClose, flags

LEMMA StopDisarmStep ==
  ASSUME IInv, NEW t \in Thread, StopDisarm(t)
  PROVE  IInv'
BY StopStep, Names DEF StopDisarm

LEMMA StopRunningStep ==
  ASSUME IInv, NEW t \in Thread, StopRunning(t)
  PROVE  IInv'
<1>1. "stop" \in AllPlaces \ Places["main"] /\ "stop" \in Places["TERM"]
  BY Names, Apart
<1>2. /\ Here(t) = "stop" /\ outcome = "alive" /\ FlagInv /\ StackInv
      /\ ~overlap => Good
  BY <1>1, Step DEF StopRunning
<1>3. /\ outcome' = "alive" /\ Return(t) /\ isRunning' = FALSE
      /\ UNCHANGED <<seen, isReload, deleted, ptr, hups, overlap>>
  BY <1>2 DEF StopRunning, objects, history
<1>4. FlagInv' /\ StackInv'
  BY <1>1, <1>2, <1>3, StackReturn DEF FlagInv
<1>5. ASSUME Good PROVE Good'
  <2>1. ReloadInv' /\ StopInv'
    BY <1>1, <1>2, <1>3, <1>5, ReloadReturn, StopReturn DEF Good
  <2>2. ReloadAt' = ReloadAt /\ Interrupted' = Interrupted
    BY <1>1, <1>2, <1>3, AtReturn, FramesReturn, Apart
  <2>3. ObjectInv'
    BY <1>3, <1>5, <2>2, ObjectKept DEF Good
  <2>4. TickInv'
    BY <1>3 DEF TickInv
  <2>5. QED
    BY <2>1, <2>3, <2>4 DEF Good
<1>6. QED
  BY <1>2, <1>3, <1>4, <1>5, Whole

\* What a step inside a reload, from p to l, owes to the objects.
ObjectsFollow(p, l) ==
  FlagInv /\ ObjectInv /\ Interrupted \in Waiting /\ Interrupted' = Interrupted
    /\ ReloadAt = {p} /\ ReloadAt' = {l}
  => ObjectInv'

\* A step inside a reload, but for the objects.
LEMMA ReloadStep ==
  ASSUME IInv, NEW t \in Thread, NEW p \in Places["HUP"], NEW l \in Places["HUP"],
         At(t, p), Go(t, l), isRunning' = isRunning, seen' = seen,
         outcome' = outcome, overlap' = overlap, hups' = hups,
         \/ isReload' = TRUE
         \/ isReload' = isReload /\ p # "flag",
         ptr' \in [Kind -> Nat], ObjectsFollow(p, l)
  PROVE  IInv'
<1>1. p \in AllPlaces /\ l \in AllPlaces
  BY Apart
<1>2. /\ Here(t) = p /\ outcome = "alive" /\ FlagInv /\ StackInv
      /\ ~overlap => Good
  BY <1>1, Step
<1>3. FlagInv'
  BY <1>2 DEF FlagInv
<1>4. StackInv'
  BY <1>1, <1>2, StackGo, Names
<1>5. ASSUME Good PROVE Good'
  <2>1. isReload'
    <3>1. Len(stack[t]) \in DOMAIN Frames[t] /\ Frames[t][Len(stack[t])] = p
      BY <1>1, <1>2, Above
    <3>2. p # "flag" => isReload
      BY <1>5, <3>1 DEF Good, ReloadInv
    <3>3. QED
      BY <3>2
  <2>2. /\ Interrupted' = Interrupted
        /\ ReloadInv' /\ StopInv' /\ TickInv'
        /\ ReloadAt = {p} /\ ReloadAt' = {l} /\ Interrupted \in Waiting
    BY <1>2, <1>5, <2>1, HandlerGo
  <2>3. ObjectInv'
    BY <1>2, <1>5, <2>2 DEF Good, ObjectsFollow
  <2>4. QED
    BY <2>2, <2>3 DEF Good
<1>6. QED
  BY <1>2, <1>3, <1>4, <1>5, Whole

Entering == {"flag", "close", "deleteTable"}
Rebuilt == {"newHttp", "clear"}

\* The objects stay, and the reload is as far with them as it was.
LEMMA SameObjects ==
  ASSUME ObjectInv, UNCHANGED <<ptr, deleted, hups>>, Interrupted' = Interrupted,
         \/ ReloadAt' \subseteq Rebuilt /\ ReloadAt \subseteq Rebuilt
         \/ \E p, l \in Entering : ReloadAt = {p} /\ ReloadAt' = {l}
  PROVE  ObjectInv'
<1>1. \A k \in {"table", "config", "http"} : Gone(k)' = Gone(k)
  BY DEF Gone, Current
<1>2. /\ ReloadAt' \cap {"deleteConfig", "newConfig", "newTable"} = {}
      /\ ReloadAt \cap {"deleteConfig", "newConfig", "newTable"} = {}
      /\ ReloadAt' \cap {"newConfig"} = {} /\ ReloadAt \cap {"newConfig"} = {}
  BY DEF Entering, Rebuilt
<1>3. /\ ReloadAt' \subseteq {"newHttp", "clear"} <=> ReloadAt \subseteq {"newHttp", "clear"}
      /\ ReloadAt' \subseteq {"newTable", "newHttp", "clear"} <=>
           ReloadAt \subseteq {"newTable", "newHttp", "clear"}
  BY DEF Entering, Rebuilt
<1>4. QED
  BY <1>1, <1>2, <1>3 DEF ObjectInv

LEMMA ReloadFlagStep ==
  ASSUME IInv, NEW t \in Thread, ReloadFlag(t)
  PROVE  IInv'
<1>1. /\ {"flag", "close"} \subseteq Places["HUP"] /\ At(t, "flag") /\ Go(t, "close")
      /\ UNCHANGED <<isRunning, seen, outcome, overlap, hups>> /\ isReload' = TRUE
      /\ UNCHANGED <<ptr, deleted>>
  BY Names DEF ReloadFlag, history, objects
<1>2. ptr' \in [Kind -> Nat] /\ hups' = hups
  BY <1>1 DEF IInv, FlagInv
<1>3. ObjectsFollow("flag", "close")
  BY <1>1, <1>2, SameObjects DEF Entering, ObjectsFollow
<1>4. QED
  BY <1>1, <1>2, <1>3, ReloadStep

LEMMA ReloadCloseStep ==
  ASSUME IInv, NEW t \in Thread, ReloadClose(t)
  PROVE  IInv'
<1>1. /\ {"close", "deleteTable"} \subseteq Places["HUP"]
      /\ At(t, "close") /\ Go(t, "deleteTable")
      /\ UNCHANGED <<isRunning, seen, outcome, overlap, hups>> /\ isReload' = isReload
      /\ UNCHANGED <<ptr, deleted>>
  BY Names DEF ReloadClose, history, objects, flags
<1>2. ptr' \in [Kind -> Nat] /\ hups' = hups
  BY <1>1 DEF IInv, FlagInv
<1>3. ObjectsFollow("close", "deleteTable")
  BY <1>1, <1>2, SameObjects DEF Entering, ObjectsFollow
<1>4. QED
  BY <1>1, <1>2, <1>3, ReloadStep

LEMMA ReloadDeleteTableStep ==
  ASSUME IInv, NEW t \in Thread, ReloadDeleteTable(t)
  PROVE  IInv'
<1>1. /\ {"deleteTable", "deleteConfig"} \subseteq Places["HUP"]
      /\ At(t, "deleteTable") /\ Go(t, "deleteConfig")
      /\ UNCHANGED <<isRunning, seen, outcome, overlap, hups>> /\ isReload' = isReload
      /\ deleted' = deleted \cup {<<"table", ptr["table"]>>} /\ ptr' = ptr
  BY Names DEF ReloadDeleteTable, history, flags, Delete, Current
<1>2. ptr' \in [Kind -> Nat] /\ hups' = hups
  BY <1>1 DEF IInv, FlagInv
<1>3. ASSUME FlagInv, ObjectInv, Interrupted \in Waiting, Interrupted' = Interrupted,
             ReloadAt = {"deleteTable"}, ReloadAt' = {"deleteConfig"}
      PROVE  ObjectInv'
  <2>1. Interrupted \notin {"freeTable", "freeConfig"}
    BY <1>3 DEF Waiting
  <2>2. /\ ptr["table"] = hups /\ ptr["config"] = hups /\ hups \in Nat /\ hups <= MaxHups
        /\ ~Gone("table") /\ ~Gone("config") /\ ~Gone("http")
    BY <1>3, <2>1 DEF ObjectInv, FlagInv
  <2>3. Gone("table")' /\ ~Gone("config")' /\ ~Gone("http")'
    BY <1>1, <2>2 DEF Gone, Current
  <2>4. {n \in Generation : <<"table", n>> \in deleted'} = 1..hups
    <3>1. {n \in Generation : <<"table", n>> \in deleted} = 1..(hups - 1)
      BY <1>3, <2>2 DEF ObjectInv
    <3>2. {n \in Generation : <<"table", n>> \in deleted'} =
            {n \in Generation : <<"table", n>> \in deleted} \cup (Generation \cap {hups})
      BY <1>1, <2>2
    <3>3. QED
      BY <2>2, <3>1, <3>2 DEF Generation
  <2>5. {n \in Generation : <<"config", n>> \in deleted'} = 1..(hups - 1)
    <3>1. {n \in Generation : <<"config", n>> \in deleted} = 1..(hups - 1)
      BY <1>3, <2>2 DEF ObjectInv
    <3>2. QED
      BY <1>1, <3>1
  <2>6. \A n \in Generation : <<"http", n>> \notin deleted'
    BY <1>1, <1>3, <2>1 DEF ObjectInv
  <2>7. QED
    BY <1>1, <1>2, <1>3, <2>1, <2>2, <2>3, <2>4, <2>5, <2>6 DEF ObjectInv
<1>4. ObjectsFollow("deleteTable", "deleteConfig")
  BY <1>3 DEF ObjectsFollow
<1>5. QED
  BY <1>1, <1>2, <1>4, ReloadStep

LEMMA ReloadDeleteConfigStep ==
  ASSUME IInv, NEW t \in Thread, ReloadDeleteConfig(t)
  PROVE  IInv'
<1>1. /\ {"deleteConfig", "newConfig"} \subseteq Places["HUP"]
      /\ At(t, "deleteConfig") /\ Go(t, "newConfig")
      /\ UNCHANGED <<isRunning, seen, outcome, overlap, hups>> /\ isReload' = isReload
      /\ deleted' = deleted \cup {<<"config", ptr["config"]>>} /\ ptr' = ptr
  BY Names DEF ReloadDeleteConfig, history, flags, Delete, Current
<1>2. ptr' \in [Kind -> Nat] /\ hups' = hups
  BY <1>1 DEF IInv, FlagInv
<1>3. ASSUME FlagInv, ObjectInv, Interrupted \in Waiting, Interrupted' = Interrupted,
             ReloadAt = {"deleteConfig"}, ReloadAt' = {"newConfig"}
      PROVE  ObjectInv'
  <2>1. Interrupted \notin {"freeTable", "freeConfig"}
    BY <1>3 DEF Waiting
  <2>2. /\ ptr["table"] = hups /\ ptr["config"] = hups /\ hups \in Nat /\ hups <= MaxHups
        /\ Gone("table") /\ ~Gone("config") /\ ~Gone("http")
    BY <1>3, <2>1 DEF ObjectInv, FlagInv
  <2>3. Gone("table")' /\ Gone("config")' /\ ~Gone("http")'
    BY <1>1, <2>2 DEF Gone, Current
  <2>4. {n \in Generation : <<"config", n>> \in deleted'} = 1..hups
    <3>1. {n \in Generation : <<"config", n>> \in deleted} = 1..(hups - 1)
      BY <1>3, <2>2 DEF ObjectInv
    <3>2. {n \in Generation : <<"config", n>> \in deleted'} =
            {n \in Generation : <<"config", n>> \in deleted} \cup (Generation \cap {hups})
      BY <1>1, <2>2
    <3>3. QED
      BY <2>2, <3>1, <3>2 DEF Generation
  <2>5. {n \in Generation : <<"table", n>> \in deleted'} = 1..hups
    <3>1. {n \in Generation : <<"table", n>> \in deleted} = 1..hups
      BY <1>3, <2>2 DEF ObjectInv
    <3>2. QED
      BY <1>1, <3>1
  <2>6. \A n \in Generation : <<"http", n>> \notin deleted'
    BY <1>1, <1>3, <2>1 DEF ObjectInv
  <2>7. QED
    BY <1>1, <1>2, <1>3, <2>1, <2>2, <2>3, <2>4, <2>5, <2>6 DEF ObjectInv
<1>4. ObjectsFollow("deleteConfig", "newConfig")
  BY <1>3 DEF ObjectsFollow
<1>5. QED
  BY <1>1, <1>2, <1>4, ReloadStep

\* The name of a new object.
LEMMA NewName ==
  ASSUME NEW k \in Kind, NEW n \in Nat,
         {m \in Generation : <<k, m>> \in deleted} = 1..n, FlagInv, New(k)
  PROVE  /\ ptr'[k] = n + 1 /\ \A o \in Kind \ {k} : ptr'[o] = ptr[o]
         /\ deleted' = deleted
<1>1. Cardinality(1..n) = n
  BY FS_Interval
<1>2. ptr' = [ptr EXCEPT ![k] = 1 + Cardinality(1..n)]
  BY DEF New
<1>3. QED
  BY <1>1, <1>2 DEF FlagInv, New

\* A new object has a number.
LEMMA NewType ==
  ASSUME FlagInv, NEW k, New(k)
  PROVE  ptr' \in [Kind -> Nat]
<1>1. IsFiniteSet(Generation)
  BY FS_Interval DEF Generation
<1> DEFINE D == {n \in Generation : <<k, n>> \in deleted}
<1>2. Cardinality(D) \in Nat
  BY <1>1, FS_Subset, FS_CardinalityType
<1> DEFINE c == 1 + Cardinality(D)
<1>3. c \in Nat /\ ptr \in [Kind -> Nat] /\ ptr' = [ptr EXCEPT ![k] = c]
  BY <1>2 DEF FlagInv, New
<1> HIDE DEF c
<1>4. QED
  BY <1>3

LEMMA ReloadConfigStep ==
  ASSUME IInv, NEW t \in Thread, ReloadConfig(t)
  PROVE  IInv'
<1>1. /\ {"newConfig", "newTable"} \subseteq Places["HUP"] /\ New("config")
      /\ At(t, "newConfig") /\ Go(t, "newTable")
      /\ UNCHANGED <<isRunning, seen, outcome, overlap, hups>> /\ isReload' = isReload
  BY Names DEF ReloadConfig, history
<1>2. ptr' \in [Kind -> Nat]
  BY <1>1, NewType DEF IInv
<1>3. ASSUME FlagInv, ObjectInv, Interrupted \in Waiting, Interrupted' = Interrupted,
             ReloadAt = {"newConfig"}, ReloadAt' = {"newTable"}
      PROVE  ObjectInv'
  <2>1. Interrupted \notin {"freeTable", "freeConfig"}
    BY <1>3 DEF Waiting
  <2>2. /\ ptr["table"] = hups /\ ptr["config"] = hups /\ hups \in Nat /\ hups <= MaxHups
        /\ Gone("table") /\ Gone("config") /\ ~Gone("http")
    BY <1>3, <2>1 DEF ObjectInv, FlagInv
  <2>3. /\ {n \in Generation : <<"table", n>> \in deleted} = 1..hups
        /\ {n \in Generation : <<"config", n>> \in deleted} = 1..hups
        /\ \A n \in Generation : <<"http", n>> \notin deleted
    BY <1>3, <2>1, <2>2 DEF ObjectInv
  <2>4. /\ ptr'["config"] = hups + 1 /\ ptr'["table"] = hups /\ ptr'["http"] = ptr["http"]
        /\ deleted' = deleted
    BY <1>1, <1>3, <2>2, <2>3, NewName DEF Kind
  <2>5. <<"config", hups + 1>> \notin deleted
    BY <2>2, <2>3 DEF Generation
  <2>6. Gone("table")' /\ ~Gone("config")' /\ ~Gone("http")'
    BY <2>2, <2>4, <2>5 DEF Gone, Current
  <2>7. QED
    BY <1>1, <1>3, <2>1, <2>2, <2>3, <2>4, <2>6 DEF ObjectInv
<1>4. ObjectsFollow("newConfig", "newTable")
  BY <1>3 DEF ObjectsFollow
<1>5. QED
  BY <1>1, <1>2, <1>4, ReloadStep

LEMMA ReloadTableStep ==
  ASSUME IInv, NEW t \in Thread, ReloadTable(t)
  PROVE  IInv'
<1>1. /\ {"newTable", "newHttp"} \subseteq Places["HUP"] /\ New("table")
      /\ At(t, "newTable") /\ Go(t, "newHttp")
      /\ UNCHANGED <<isRunning, seen, outcome, overlap, hups>> /\ isReload' = isReload
  BY Names DEF ReloadTable, history, flags
<1>2. ptr' \in [Kind -> Nat]
  BY <1>1, NewType DEF IInv
<1>3. ASSUME FlagInv, ObjectInv, Interrupted \in Waiting, Interrupted' = Interrupted,
             ReloadAt = {"newTable"}, ReloadAt' = {"newHttp"}
      PROVE  ObjectInv'
  <2>1. Interrupted \notin {"freeTable", "freeConfig"}
    BY <1>3 DEF Waiting
  <2>2. /\ ptr["table"] = hups /\ ptr["config"] = hups + 1 /\ hups \in Nat /\ hups <= MaxHups
        /\ Gone("table") /\ ~Gone("config") /\ ~Gone("http")
    BY <1>3, <2>1 DEF ObjectInv, FlagInv
  <2>3. /\ {n \in Generation : <<"table", n>> \in deleted} = 1..hups
        /\ {n \in Generation : <<"config", n>> \in deleted} = 1..hups
        /\ \A n \in Generation : <<"http", n>> \notin deleted
    BY <1>3, <2>1, <2>2 DEF ObjectInv
  <2>4. /\ ptr'["config"] = hups + 1 /\ ptr'["table"] = hups + 1 /\ ptr'["http"] = ptr["http"]
        /\ deleted' = deleted
    BY <1>1, <1>3, <2>2, <2>3, NewName DEF Kind
  <2>5. <<"table", hups + 1>> \notin deleted
    BY <2>2, <2>3 DEF Generation
  <2>6. ~Gone("table")' /\ ~Gone("config")' /\ ~Gone("http")'
    BY <2>2, <2>4, <2>5 DEF Gone, Current
  <2>7. QED
    BY <1>1, <1>3, <2>1, <2>2, <2>3, <2>4, <2>6 DEF ObjectInv
<1>4. ObjectsFollow("newTable", "newHttp")
  BY <1>3 DEF ObjectsFollow
<1>5. QED
  BY <1>1, <1>2, <1>4, ReloadStep

LEMMA ReloadHttpStep ==
  ASSUME IInv, NEW t \in Thread, ReloadHttp(t)
  PROVE  IInv'
<1>1. /\ {"newHttp", "clear"} \subseteq Places["HUP"]
      /\ At(t, "newHttp") /\ Go(t, "clear") /\ deleted' = deleted
      /\ UNCHANGED <<isRunning, seen, outcome, overlap, hups>> /\ isReload' = isReload
  BY Names DEF ReloadHttp, history, flags
<1>2. PICK n \in Generation : ptr' = [ptr EXCEPT !["http"] = n]
  BY DEF ReloadHttp
<1>3. ptr' \in [Kind -> Nat]
  <2>1. n \in Nat /\ ptr \in [Kind -> Nat]
    BY DEF IInv, FlagInv, Generation
  <2>2. QED
    BY <1>2, <2>1
<1>4. ASSUME FlagInv, ObjectInv, Interrupted \in Waiting, Interrupted' = Interrupted,
             ReloadAt = {"newHttp"}, ReloadAt' = {"clear"}
      PROVE  ObjectInv'
  <2>1. Interrupted \notin {"freeTable", "freeConfig"}
    BY <1>4 DEF Waiting
  <2>2. ptr'["table"] = ptr["table"] /\ ptr'["config"] = ptr["config"] /\ ptr'["http"] = n
    BY <1>2, <1>4 DEF FlagInv, Kind
  <2>3. Gone("table")' = Gone("table") /\ Gone("config")' = Gone("config")
    BY <1>1, <2>2 DEF Gone, Current
  <2>4. ~Gone("http")'
    BY <1>1, <1>4, <2>1, <2>2 DEF Gone, Current, ObjectInv
  <2>5. QED
    BY <1>1, <1>4, <2>1, <2>2, <2>3, <2>4 DEF ObjectInv
<1>5. ObjectsFollow("newHttp", "clear")
  BY <1>4 DEF ObjectsFollow
<1>6. QED
  BY <1>1, <1>3, <1>5, ReloadStep

LEMMA ReloadClearStep ==
  ASSUME IInv, NEW t \in Thread, ReloadClear(t)
  PROVE  IInv'
<1>1. "clear" \in AllPlaces \ Places["main"] /\ "clear" \in Places["HUP"]
  BY Names, Apart
<1>2. /\ Here(t) = "clear" /\ outcome = "alive" /\ FlagInv /\ StackInv
      /\ ~overlap => Good
  BY <1>1, Step DEF ReloadClear
<1>3. /\ outcome' = "alive" /\ Return(t) /\ isReload' = FALSE
      /\ UNCHANGED <<seen, isRunning, deleted, ptr, hups, overlap>>
  BY <1>2 DEF ReloadClear, objects, history
<1>4. FlagInv' /\ StackInv'
  BY <1>1, <1>2, <1>3, StackReturn DEF FlagInv
<1>5. ASSUME Good PROVE Good'
  <2>1. ReloadInv' /\ StopInv'
    BY <1>1, <1>2, <1>3, <1>5, ReloadReturn, StopReturn DEF Good
  <2>2. /\ ReloadAt = {"clear"} /\ ReloadAt' = {} /\ Interrupted' = Interrupted
    BY <1>1, <1>2, <1>3, <1>5, AtReturn, FramesReturn DEF Good
  <2>3. ObjectInv'
    BY <1>3, <1>5, <2>2, SameObjects DEF Good, Rebuilt
  <2>4. TickInv'
    BY <1>1, <1>2, <1>3, <1>5, FramesReturn, TickKept DEF Good
  <2>5. QED
    BY <2>1, <2>3, <2>4 DEF Good
<1>6. QED
  BY <1>2, <1>3, <1>4, <1>5, Whole

LEMMA ReloadFailStep ==
  ASSUME IInv, NEW t \in Thread, ReloadFail(t)
  PROVE  IInv'
BY EndStep DEF ReloadFail

-----------------------------------------------------------------------------
(* main().                                                                 *)

\* Once the service stops, main() goes on only when there is no reload.
LEMMA MainAlone ==
  ASSUME StackInv, outcome = "alive", ReloadInv, Here("main") \in Places["main"],
         ~isRunning
  PROVE  ReloadAt = {}
<1>1. Here("main") \in AllPlaces
  BY Names
<1>2. DOMAIN Frames["main"] = 1..1 /\ Frames["main"][1] = Here("main")
  BY <1>1, Above
<1>3. \A t \in Thread : \A j \in DOMAIN Frames[t] : Frames[t][j] \in Places["HUP"] => t = "main"
  BY DEF ReloadInv
<1>4. \A j \in DOMAIN Frames["main"] : Frames["main"][j] \notin Places["HUP"]
  BY <1>2, Apart
<1>5. QED
  BY <1>3, <1>4 DEF ReloadAt

\* A step of main(), but for the objects.
LEMMA MainGo ==
  ASSUME IInv, NEW p \in Places["main"], NEW l \in Places["main"],
         At("main", p), Go("main", l), isRunning' = isRunning, isReload' = isReload,
         seen' = seen, outcome' = outcome, overlap' = overlap, hups' = hups, ptr' = ptr,
         overlap \/ ~isRunning \/ (l \in Waiting /\ UNCHANGED deleted),
         Good /\ StackInv /\ FlagInv /\ Interrupted = p /\ Interrupted' = l
           /\ ReloadAt' = ReloadAt /\ (~isRunning => ReloadAt = {})
         => ObjectInv'
  PROVE  IInv'
<1>1. /\ p \in AllPlaces /\ l \in AllPlaces /\ l \notin Places["HUP"] /\ p \notin Places["HUP"]
      /\ l \notin Places["TERM"] /\ l \notin Places["ALRM"] /\ l \notin Copying
  BY Names, Apart
<1>2. /\ Here("main") = p /\ outcome = "alive" /\ FlagInv /\ StackInv
      /\ ~overlap => Good
  BY <1>1, Step
<1>3. FlagInv' /\ StackInv'
  BY <1>1, <1>2, StackGo, Names DEF FlagInv
<1>4. ASSUME Good, ~overlap PROVE Good'
  <2>1. Interrupted = p /\ Interrupted' = l /\ ReloadAt' = ReloadAt
    BY <1>1, <1>2, Above, FramesGo, AtGo
  <2>2. ~isRunning => ReloadAt = {}
    BY <1>2, <1>4, MainAlone DEF Good
  <2>3. ObjectInv'
    BY <1>2, <1>4, <2>1, <2>2
  <2>4. ReloadInv' /\ StopInv'
    BY <1>1, <1>2, <1>4, <2>2, ReloadGo, StopGo DEF Good
  <2>5. TickInv'
    <3>1. CASE isRunning
      <4>1. \A u \in Thread : \A k \in DOMAIN Frames'[u] :
              Frames'[u][k] = "copy" => k \in DOMAIN Frames[u] /\ Frames[u][k] = "copy"
        BY <1>1, <1>2, FramesGo DEF Copying
      <4>2. QED
        BY <1>4, <3>1, <4>1, TickKept DEF Good
    <3>2. CASE ~isRunning
      BY <3>2 DEF TickInv
    <3>3. QED
      BY <3>1, <3>2
  <2>6. QED
    BY <2>3, <2>4, <2>5 DEF Good
<1>5. QED
  BY <1>2, <1>3, <1>4, Whole

\* The tests before the clean-up, and its first step, leave the objects alone.
LEMMA MainWaits ==
  ASSUME IInv, NEW p \in Waiting \cup {"remove"}, NEW l \in Waiting \cup {"remove", "freeHttp"},
         At("main", p), Go("main", l), isRunning' = isRunning, isReload' = isReload,
         seen' = seen, outcome' = outcome, overlap' = overlap, hups' = hups, ptr' = ptr,
         deleted' = deleted, overlap \/ ~isRunning \/ l \in Waiting
  PROVE  IInv'
<1>1. p \in Places["main"] /\ l \in Places["main"]
  BY Names DEF Clean
<1>2. {p, l} \cap {"freeTable", "freeConfig"} = {}
  BY DEF Waiting
<1>3. ASSUME Good, Interrupted = p, Interrupted' = l, ReloadAt' = ReloadAt
      PROVE  ObjectInv'
  BY <1>2, <1>3, ObjectKept DEF Good
<1>4. QED
  BY <1>1, <1>3, MainGo

\* main() cleans up after a stop.
LEMMA Stopped ==
  ASSUME IInv, NEW p \in Clean, At("main", p)
  PROVE  overlap \/ ~isRunning
<1>1. p \in AllPlaces /\ p \in Places["main"] /\ p \notin Waiting
  BY Names DEF Clean, Waiting
<1>2. /\ Here("main") = p /\ outcome = "alive" /\ StackInv
      /\ ~overlap => Good
  BY <1>1, Step
<1>3. Interrupted = p
  BY <1>1, <1>2, Above
<1>4. QED
  BY <1>1, <1>2, <1>3 DEF Good, StopInv

LEMMA TestStep == IInv /\ Test => IInv'
<1> SUFFICES ASSUME IInv, Test PROVE IInv'
  OBVIOUS
<1>1. At("main", "test") /\ Go("main", IF isRunning THEN "pausing" ELSE "remove")
  BY DEF Test
<1>2. UNCHANGED <<isRunning, isReload, seen, outcome, overlap, hups, ptr, deleted>>
  BY DEF Test, flags, objects, history
<1>3. CASE isRunning
  BY <1>1, <1>2, <1>3, MainWaits DEF Waiting
<1>4. CASE ~isRunning
  BY <1>1, <1>2, <1>4, MainWaits DEF Waiting
<1>5. QED
  BY <1>3, <1>4

LEMMA PauseStep == IInv /\ Pause => IInv'
<1> SUFFICES ASSUME IInv, Pause PROVE IInv'
  OBVIOUS
<1>1. At("main", "pausing") /\ Go("main", "pause")
  BY DEF Pause
<1>2. UNCHANGED <<isRunning, isReload, seen, outcome, overlap, hups, ptr, deleted>>
  BY DEF Pause, flags, objects, history
<1>3. QED
  BY <1>1, <1>2, MainWaits DEF Waiting

LEMMA RemovePidFileStep == IInv /\ RemovePidFile => IInv'
<1> SUFFICES ASSUME IInv, RemovePidFile PROVE IInv'
  OBVIOUS
<1>1. At("main", "remove") /\ Go("main", "freeHttp")
  BY DEF RemovePidFile
<1>2. UNCHANGED <<isRunning, isReload, seen, outcome, overlap, hups, ptr, deleted>>
  BY DEF RemovePidFile, objects, history
<1>3. overlap \/ ~isRunning
  BY <1>1, Stopped DEF Clean
<1>4. QED
  BY <1>1, <1>2, <1>3, MainWaits

LEMMA DeleteHttpStep == IInv /\ DeleteHttp => IInv'
<1> SUFFICES ASSUME IInv, DeleteHttp PROVE IInv'
  OBVIOUS
<1>1. /\ At("main", "freeHttp") /\ Go("main", "freeTable")
      /\ {"freeHttp", "freeTable"} \subseteq Places["main"]
  BY Names DEF DeleteHttp, CleanUp, Clean
<1>2. /\ UNCHANGED <<isRunning, isReload, seen, outcome, overlap, hups, ptr>>
      /\ deleted' = deleted \cup {<<"http", ptr["http"]>>}
  BY DEF DeleteHttp, CleanUp, flags, history, Delete, Current
<1>3. overlap \/ ~isRunning
  BY <1>1, Stopped DEF Clean
<1>4. ASSUME Good, Interrupted = "freeHttp", Interrupted' = "freeTable",
             ReloadAt' = ReloadAt
      PROVE  ObjectInv'
  <2>1. /\ Gone("table")' <=> Gone("table")
        /\ Gone("config")' <=> Gone("config")
    BY <1>2 DEF Gone, Current
  <2>2. \A k \in {"table", "config"} : \A n \in Generation :
          <<k, n>> \in deleted' <=> <<k, n>> \in deleted
    BY <1>2
  <2>3. \A k \in {"table", "config"} :
          {n \in Generation : <<k, n>> \in deleted'} = {n \in Generation : <<k, n>> \in deleted}
    BY <2>2
  <2>4. QED
    BY <1>2, <1>4, <2>1, <2>3 DEF Good, ObjectInv
<1>5. QED
  BY <1>1, <1>2, <1>3, <1>4, MainGo

LEMMA DeleteTableStep == IInv /\ DeleteTable => IInv'
<1> SUFFICES ASSUME IInv, DeleteTable PROVE IInv'
  OBVIOUS
<1>1. /\ At("main", "freeTable") /\ Go("main", "freeConfig")
      /\ {"freeTable", "freeConfig"} \subseteq Places["main"]
  BY Names DEF DeleteTable, CleanUp, Clean
<1>2. /\ UNCHANGED <<isRunning, isReload, seen, outcome, overlap, hups, ptr>>
      /\ deleted' = deleted \cup {<<"table", ptr["table"]>>}
  BY DEF DeleteTable, CleanUp, flags, history, Delete, Current
<1>3. overlap \/ ~isRunning
  BY <1>1, Stopped DEF Clean
<1>4. ASSUME Good, FlagInv, Interrupted = "freeTable", Interrupted' = "freeConfig",
             ReloadAt' = ReloadAt
      PROVE  ObjectInv'
  <2>1. ReloadAt = {}
    BY <1>4, CleanAlone DEF Good, Waiting
  <2>2. /\ ptr["table"] = hups + 1 /\ ptr["config"] = hups + 1
        /\ hups \in Nat /\ hups <= MaxHups /\ ~Gone("table") /\ ~Gone("config")
    BY <1>4, <2>1 DEF Good, ObjectInv, FlagInv
  <2>3. Gone("table")' /\ ~Gone("config")'
    BY <1>2, <2>2 DEF Gone, Current
  <2>4. {n \in Generation : <<"table", n>> \in deleted'} = 1..(hups + 1)
    <3>1. {n \in Generation : <<"table", n>> \in deleted} = 1..(hups + 1 - 1)
      BY <1>4, <2>2 DEF Good, ObjectInv
    <3>2. {n \in Generation : <<"table", n>> \in deleted'} =
            {n \in Generation : <<"table", n>> \in deleted} \cup (Generation \cap {hups + 1})
      BY <1>2, <2>2
    <3>3. QED
      BY <2>2, <3>1, <3>2 DEF Generation
  <2>5. {n \in Generation : <<"config", n>> \in deleted'} = 1..(hups + 1 - 1)
    <3>1. {n \in Generation : <<"config", n>> \in deleted} = 1..(hups + 1 - 1)
      BY <1>4, <2>2 DEF Good, ObjectInv
    <3>2. QED
      BY <1>2, <3>1
  <2>6. QED
    BY <1>2, <1>4, <2>1, <2>2, <2>3, <2>4, <2>5 DEF ObjectInv
<1>5. QED
  BY <1>1, <1>2, <1>3, <1>4, MainGo

LEMMA DeleteConfigStep == IInv /\ DeleteConfig => IInv'
BY EndStep DEF DeleteConfig

-----------------------------------------------------------------------------
(* Signals.                                                                *)

LEMMA DeliverStep ==
  ASSUME IInv, NEW t \in Thread, NEW s \in Signal, Deliver(t, s)
  PROVE  IInv'
<1>1. /\ Interrupt(t, s) /\ t \notin Handling(s) /\ outcome = "alive"
      /\ s = "HUP" => hups < MaxHups
      /\ s = "TERM" => isRunning
  BY DEF Deliver, Raised
<1>2. /\ UNCHANGED <<seen, isRunning, isReload, ptr, deleted, outcome>>
      /\ hups' = IF s = "HUP" THEN hups + 1 ELSE hups
      /\ overlap' \in BOOLEAN
  BY DEF IInv, FlagInv, Deliver, Interrupt, flags, objects
<1>3. FlagInv /\ StackInv
  BY DEF IInv
<1>4. FlagInv' /\ StackInv'
  BY <1>1, <1>2, <1>3, StackPush DEF FlagInv
<1>5. ASSUME ~overlap' PROVE Good'
  <2>1. Good
    BY <1>1, <1>3, <1>5, NotOverlapping, StackFacts DEF IInv, Good
  <2>2. ReloadInv' /\ StopInv'
    BY <1>1, <1>2, <1>3, <1>5, <2>1, ReloadPush, StopPush DEF Good
  <2>3. Interrupted' = Interrupted \/ (Interrupted = "pause" /\ Interrupted' = "test")
    BY <1>1, <1>3, FramesPush
  <2>4. /\ s # "HUP" => ReloadAt' = ReloadAt
        /\ s = "HUP" => ReloadAt = {} /\ ReloadAt' = {"flag"}
    BY <1>1, <1>3, <1>5, AtPush
  <2>5. ASSUME s # "HUP" PROVE ObjectInv'
    <3>1. hups' = hups /\ ReloadAt' = ReloadAt
      BY <1>2, <2>4, <2>5
    <3>2. QED
      BY <1>2, <2>1, <2>3, <3>1, ObjectKept DEF Good
  <2>6. ASSUME s = "HUP" PROVE ObjectInv'
    <3>1. isRunning
      BY <1>1, <1>3, <1>5, <2>6, NotOverlapping, StackFacts
    <3>2. Interrupted \in Waiting /\ Interrupted' \in Waiting
      BY <2>1, <2>3, <3>1 DEF Good, StopInv, Waiting
    <3>3. \A k \in {"table", "config", "http"} : Gone(k)' = Gone(k)
      BY <1>2 DEF Gone, Current
    <3>4. Interrupted \notin {"freeTable", "freeConfig"}
          /\ Interrupted' \notin {"freeTable", "freeConfig"}
      BY <3>2 DEF Waiting
    <3>5. /\ ~Gone("table") /\ ~Gone("config") /\ ~Gone("http") /\ hups' = hups + 1
          /\ ptr["table"] = hups + 1 /\ ptr["config"] = hups + 1
      BY <1>2, <2>1, <2>4, <2>6, <3>4 DEF Good, ObjectInv
    <3>6. QED
      BY <1>2, <2>1, <2>4, <2>6, <3>3, <3>4, <3>5 DEF Good, ObjectInv
  <2>7. TickInv'
    <3>1. "copy" \in Places["ALRM"] /\ "copy" # First[s]
      BY Names, Apart DEF Copying, Signal
    <3>2. \A u \in Thread : \A k \in DOMAIN Frames'[u] :
            Frames'[u][k] = "copy" => k \in DOMAIN Frames[u] /\ Frames[u][k] = "copy"
      BY <1>1, <1>3, <3>1, FramesPush
    <3>3. QED
      BY <1>2, <2>1, <3>2, TickKept DEF Good
  <2>8. QED
    BY <2>2, <2>5, <2>6, <2>7 DEF Good
<1>6. QED
  BY <1>1, <1>2, <1>4, <1>5, Whole

-----------------------------------------------------------------------------
(* The invariant.                                                          *)

LEMMA InitIInv == Init => IInv
<1> SUFFICES ASSUME Init PROVE IInv
  OBVIOUS
<1>1. /\ stack = [t \in Thread |-> IF t = "main" THEN <<"test">> ELSE << >>]
      /\ "test" \in Places["main"] /\ "test" \in AllPlaces
      /\ \A s \in Signal : "test" \notin Places[s]
  BY Names, Apart DEF Init, Waiting, Signal
<1>2. Stacked
  <2>1. <<"test">> \in Seq(AllPlaces) /\ << >> \in Seq(AllPlaces)
    BY <1>1
  <2>2. QED
    BY <1>1, <2>1 DEF Stacked
<1>3. /\ DOMAIN Frames["main"] = 1..1 /\ Frames["main"][1] = "test"
      /\ DOMAIN Frames["other"] = {} /\ Interrupted = "test"
  BY <1>1 DEF Frames, Rev, Interrupted
<1>4. \A t \in Thread : \A k \in DOMAIN Frames[t] : t = "main" /\ k = 1 /\ Frames[t][k] = "test"
  BY <1>3
<1>5. ReloadAt = {}
  BY <1>1, <1>4 DEF ReloadAt, Signal
<1>6. outcome = "alive" /\ stack["main"] # << >>
  BY <1>1 DEF Init
<1>7. StackInv
  BY <1>1, <1>2, <1>3, <1>4, <1>6 DEF StackInv, Stacked, AllPlaces, Signal
<1>8. FlagInv
  <2>1. hups = 0 /\ isRunning = TRUE /\ isReload = FALSE /\ overlap = FALSE
    BY DEF Init
  <2>2. ptr \in [Kind -> Nat] /\ seen \in [Thread -> Nat]
    BY DEF Init
  <2>3. 0 \in 0..MaxHups
    OBVIOUS
  <2>4. {isRunning, isReload, overlap} \subseteq BOOLEAN
    BY <2>1, Zenon
  <2>5. QED
    BY <2>1, <2>2, <2>3, <2>4 DEF FlagInv
<1>9. ReloadInv /\ StopInv
  BY <1>1, <1>3, <1>4 DEF ReloadInv, StopInv, Waiting, Signal
<1>10. ObjectInv
  BY <1>3, <1>5 DEF ObjectInv, Init, Gone, Current, Kind
<1>11. TickInv
  BY <1>4 DEF TickInv
<1>12. QED
  BY <1>6, <1>7, <1>8, <1>9, <1>10, <1>11 DEF IInv, TicksSafe, NoDoubleDelete

LEMMA NextIInv == IInv /\ [Next]_vars => IInv'
<1> SUFFICES ASSUME IInv, [Next]_vars PROVE IInv'
  OBVIOUS
<1>1. ASSUME NEW t \in Thread, NEW s \in Signal, Deliver(t, s) PROVE IInv'
  BY <1>1, DeliverStep
<1>2. ASSUME NEW t \in Thread, Tick(t) PROVE IInv'
  BY <1>2, TickStartStep, TickListStep, TickCopyStep, TickEndStep DEF Tick
<1>3. ASSUME NEW t \in Thread, TickRun(t) PROVE IInv'
  BY <1>3, TickRunStep
<1>4. ASSUME NEW t \in Thread, Stop(t) PROVE IInv'
  BY <1>4, StopCloseStep, StopDisarmStep, StopRunningStep DEF Stop
<1>5. ASSUME NEW t \in Thread, Reload(t) PROVE IInv'
  BY <1>5, ReloadFlagStep, ReloadCloseStep, ReloadDeleteTableStep,
     ReloadDeleteConfigStep, ReloadConfigStep, ReloadTableStep, ReloadHttpStep,
     ReloadClearStep DEF Reload
<1>6. ASSUME NEW t \in Thread, ReloadFail(t) PROVE IInv'
  BY <1>6, ReloadFailStep
<1>7. CASE MainLoop
  BY <1>7, TestStep, PauseStep, RemovePidFileStep, DeleteHttpStep, DeleteTableStep,
     DeleteConfigStep DEF MainLoop
<1>8. ASSUME NEW n \in Generation, Listener(n) \/ AcceptFails(n) \/ Request(n) PROVE IInv'
  BY <1>8, Quiet DEF Listener, Listen, ListenFails, ListenerEnds, AcceptFails,
     Request, flags, objects, history
<1>9. ASSUME NEW n \in Generation, Respond(n) PROVE IInv'
  BY <1>9, Quiet DEF Respond, flags, objects, history
<1>10. ASSUME NEW r \in Runs, RunEnds(r) PROVE IInv'
  BY <1>10, Quiet DEF RunEnds, flags, objects, history
<1>11. CASE Dangle
  BY <1>11, DangleStep
<1>12. CASE UNCHANGED vars
  BY <1>12, Quiet DEF vars, flags
<1>13. QED
  BY <1>1, <1>2, <1>3, <1>4, <1>5, <1>6, <1>7, <1>8, <1>9, <1>10, <1>11, <1>12 DEF Next

\* IInv is inductive, for every value of the bounds.
THEOREM Invariance == Spec => []IInv
BY InitIInv, NextIInv, PTL DEF Spec

(***************************************************************************)
(* A tick never uses a table that a reload deleted: what isReload is for   *)
(* (main.cpp:64, 99, 129), with what the property excepts.                 *)
(***************************************************************************)
THEOREM TicksAreSafe == Spec => []TicksSafe
<1>1. IInv => TicksSafe
  BY DEF IInv
<1>2. QED
  BY <1>1, Invariance, PTL

(***************************************************************************)
(* Reloads, the stop and the clean-up delete each object once, and never   *)
(* use it afterwards (main.cpp:87-141), with what the property excepts.    *)
(***************************************************************************)
THEOREM DeletedOnce == Spec => []NoDoubleDelete
<1>1. IInv => NoDoubleDelete
  BY DEF IInv
<1>2. QED
  BY <1>1, Invariance, PTL

=============================================================================
