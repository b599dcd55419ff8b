-------------------------- MODULE ZeroGravity_proofs --------------------------
(***************************************************************************)
(* Proofs about ZeroGravity, for any number of threads and any bounds.     *)
(*                                                                         *)
(* What a session owes - an off frame, a report of a lost keepalive - is   *)
(* owed by its thread while zg_thread_ is joinable, and by the zero_g_stop *)
(* under way once it has joined it.  Told, Blamed, LastWord and Kept say so; they  *)
(* are not about the time after std::terminate.                            *)
(***************************************************************************)
EXTENDS ZeroGravity, TLAPS

At(t, where) == pc[t] \in where

\* A handle is joinable exactly while there is a thread behind it.
Handled == joinable <=> keeper # "none"

\* While the lock is free, the guard is up only over a working keepalive.
Kept ==
  /\ zgActive => \/ \E t \in Threads : At(t, {"spawn", "deactivate"})
                 \/ ~zgStop /\ keeper \in {"loop", "asleep", "write", "lost"}
  /\ \A t \in Threads : At(t, {"publish", "spawn"}) /\ ~joinable => ~zgStop
  /\ \A t \in Threads : At(t, {"on", "ack", "reset", "publish", "join", "takeError", "off", "return"}) => ~zgActive

\* After a keepalive frame comes an off: the thread's stop owes it.
LastWord ==
  /\ \A t \in Threads : At(t, {"deactivate", "join"}) /\ joinable => wasSession[t]
  /\ wire = "keep" /\ ~joinable
       => \E t \in Threads : At(t, {"takeError", "off"}) /\ wasSession[t]

\* An error, stored or taken by a stop, is this session's and untold.
Blamed ==
  /\ zgError => untold /\ (joinable \/ \E t \in Threads : At(t, {"takeError"}))
  /\ \A t \in Threads : taken[t] => untold /\ At(t, {"off", "return"})

\* A loss not told yet is in zg_error_, or in the hands of a stop, or about to
\* end the program in a start that has wiped it, or dropped by the stop that
\* has ended its session, which no later stop can find.
Told ==
  /\ \A t \in Threads : At(t, {"takeError", "off", "return"}) => ~joinable
  /\ untold => \/ zgError
               \/ \E t \in Threads : At(t, {"off", "return"}) /\ taken[t]
               \/ joinable /\ \E t \in Threads : At(t, {"publish", "spawn"})
               \/ ~joinable /\ \A t \in Threads : At(t, Stopping) => ~wasSession[t]

Inv == TypeOK /\ (~terminated => Handled /\ Kept /\ LastWord /\ Blamed /\ Told)

LEMMA InitInv == Init => Inv
<1> SUFFICES ASSUME Init PROVE Inv
    OBVIOUS
<1>1. LinkTyped BY ZeroGAssumption DEF Init, LinkTyped
<1>2. TypeOK BY <1>1, ZeroGAssumption DEF Init, TypeOK, Starting, Stopping
<1>3. Handled /\ Kept /\ LastWord /\ Blamed /\ Told
    BY DEF Init, Handled, Kept, LastWord, Blamed, Told, At
<1>4. QED BY <1>2, <1>3 DEF Inv

\* What travels keeps its type, whoever sends or takes it.
LEMMA SendTyped ==
  ASSUME LinkTyped, NEW kind \in Frames, Send(kind)
  PROVE  LinkTyped'
  BY ZeroGAssumption DEF LinkTyped, Send

LEMMA SendFailsTyped ==
  ASSUME LinkTyped, SendFails
  PROVE  LinkTyped'
  BY ZeroGAssumption DEF LinkTyped, SendFails

LEMMA TakeTyped ==
  ASSUME LinkTyped, mail # <<>>, mail' = Tail(mail), UNCHANGED <<down, up>>
  PROVE  LinkTyped'
  BY ZeroGAssumption DEF LinkTyped

LEMMA DeliverTyped ==
  ASSUME LinkTyped, Deliver
  PROVE  LinkTyped'
<1>1. Head(up) \in Answers /\ Tail(up) \in Seq(Answers) /\ Len(Tail(up)) = Len(up) - 1
    BY DEF LinkTyped, Deliver
<1>2. CASE mail' = Append(mail, Head(up))
    BY <1>1, <1>2, ZeroGAssumption DEF LinkTyped, Deliver
<1>3. CASE UNCHANGED mail
    BY <1>1, <1>3, ZeroGAssumption DEF LinkTyped, Deliver
<1>4. QED BY <1>2, <1>3 DEF Deliver

LEMMA FwAnswersTyped ==
  ASSUME LinkTyped, FwAnswers
  PROVE  LinkTyped'
<1>1. Head(down) \in Frames /\ Tail(down) \in Seq(Frames) /\ Len(Tail(down)) = Len(down) - 1
    BY DEF LinkTyped, FwAnswers
<1>2. PICK ok \in BOOLEAN : up' = Append(up, [ok |-> ok, to |-> Head(down)])
    BY DEF FwAnswers
<1>3. [ok |-> ok, to |-> Head(down)] \in Answers
    BY <1>1 DEF Answers
<1>4. up' \in Seq(Answers) /\ Len(up') = Len(up) + 1
    BY <1>2, <1>3 DEF LinkTyped
<1>5. QED BY <1>1, <1>4, ZeroGAssumption DEF LinkTyped, FwAnswers

LEMMA StillTyped ==
  ASSUME LinkTyped, UNCHANGED linkVars
  PROVE  LinkTyped'
  BY DEF LinkTyped, linkVars

Places == {"idle", "enter"} \cup Starting \cup Stopping
Inside == \A u \in Threads : pc[u] \in Starting \cup Stopping <=> zgLock = u
CallsTyped ==
  /\ raising \in [Threads -> BOOLEAN] /\ wasSession \in [Threads -> BOOLEAN]
  /\ taken \in [Threads -> BOOLEAN]
  /\ zgLock \in Threads \cup {Nobody}
FlagsTyped ==
  /\ zgActive \in BOOLEAN /\ zgStop \in BOOLEAN /\ zgError \in BOOLEAN
  /\ joinable \in BOOLEAN /\ terminated \in BOOLEAN
  /\ keeper \in {"none", "loop", "asleep", "write", "lost", "yielded", "done"}
  /\ wire \in {"none", "entry", "keep", "off", "failed"}
  /\ granted \in BOOLEAN /\ untold \in BOOLEAN

LEMMA TypeInParts ==
  /\ TypeOK => CallsTyped /\ FlagsTyped
  /\ pc' \in [Threads -> Places] /\ Inside' /\ LinkTyped' /\ CallsTyped' /\ FlagsTyped' => TypeOK'
  BY DEF TypeOK, Places, Inside, CallsTyped, FlagsTyped

\* The holder of zg_lock_ goes on, or is over and gives it back.
LEMMA StepInside ==
  ASSUME TypeOK, NEW t \in Threads, NEW from, NEW to \in Starting \cup Stopping,
         from \in Starting \cup Stopping, Step(t, from, to), UNCHANGED zgLock
  PROVE  pc' \in [Threads -> Places] /\ Inside'
  BY DEF TypeOK, Step, Places, Inside

LEMMA LeaveInside ==
  ASSUME TypeOK, NEW t \in Threads, NEW from \in Starting \cup Stopping, Leave(t, from)
  PROVE  pc' \in [Threads -> Places] /\ Inside' /\ zgLock' = Nobody
<1>1. pc' = [pc EXCEPT ![t] = "idle"] /\ pc[t] = from /\ zgLock' = Nobody /\ zgLock = t
  BY DEF TypeOK, Leave, Step
<1>2. "idle" \notin Starting \cup Stopping
  BY DEF Starting, Stopping
<1>3. pc' \in [Threads -> Places]
  BY <1>1 DEF TypeOK, Places
<1>4. ASSUME NEW u \in Threads PROVE pc'[u] \notin Starting \cup Stopping
  BY <1>1, <1>2 DEF TypeOK
<1>5. QED BY <1>1, <1>3, <1>4, ZeroGAssumption DEF Inside

LEMMA SpawnTyped == ASSUME TypeOK, NEW t \in Threads, StartSpawns(t) PROVE TypeOK'
<1>1. pc' \in [Threads -> Places] /\ Inside' /\ zgLock' = Nobody
  BY LeaveInside DEF StartSpawns, Starting
<1>2. LinkTyped'
  BY StillTyped DEF TypeOK, StartSpawns
<1>3. CallsTyped /\ FlagsTyped
  BY TypeInParts
<1>4. CallsTyped'
  BY <1>1, <1>3 DEF CallsTyped, FlagsTyped, StartSpawns
<1>5. FlagsTyped'
  BY <1>3 DEF FlagsTyped, StartSpawns
<1>6. QED BY <1>1, <1>2, <1>4, <1>5, TypeInParts

LEMMA DeactivateTyped == ASSUME TypeOK, NEW t \in Threads, StopDeactivates(t) PROVE TypeOK'
<1>1. pc' \in [Threads -> Places] /\ Inside'
  BY StepInside DEF StopDeactivates, Stopping
<1>2. LinkTyped'
  BY StillTyped DEF TypeOK, StopDeactivates
<1>3. CallsTyped /\ FlagsTyped
  BY TypeInParts
<1>4. CallsTyped'
  BY <1>3 DEF CallsTyped, FlagsTyped, StopDeactivates
<1>5. FlagsTyped'
  BY <1>3 DEF FlagsTyped, StopDeactivates
<1>6. QED BY <1>1, <1>2, <1>4, <1>5, TypeInParts

LEMMA TakeErrorTyped == ASSUME TypeOK, NEW t \in Threads, StopTakesError(t) PROVE TypeOK'
<1>1. pc' \in [Threads -> Places] /\ Inside'
  BY StepInside DEF StopTakesError, Stopping
<1>2. LinkTyped'
  BY StillTyped DEF TypeOK, StopTakesError
<1>3. CallsTyped /\ FlagsTyped
  BY TypeInParts
<1>4. CallsTyped'
  BY <1>3 DEF CallsTyped, FlagsTyped, StopTakesError
<1>5. FlagsTyped'
  BY <1>3 DEF FlagsTyped, StopTakesError
<1>6. QED BY <1>1, <1>2, <1>4, <1>5, TypeInParts

LEMMA StartStep ==
  ASSUME Inv, ~terminated, NEW t \in Threads,
         StartAsks(t) \/ StartAgain(t) \/ StartOpens(t) \/ Start(t)
  PROVE  Inv'
<1> USE ZeroGAssumption DEF Inv, TypeOK, Handled, Kept, LastWord, Blamed, Told, At, Starting, Stopping,
        vars, callVars, flagVars, linkVars, Step, Leave
<1>1. CASE StartAsks(t) BY <1>1, StillTyped DEF StartAsks
<1>2. CASE StartAgain(t) BY <1>2, StillTyped DEF StartAgain
<1>3. CASE StartOpens(t) BY <1>3, StillTyped DEF StartOpens
<1>4. CASE StartWrites(t) BY <1>4, SendTyped DEF StartWrites, Send, Frames
<1>5. CASE StartWriteFails(t) BY <1>5, SendFailsTyped DEF StartWriteFails, SendFails
<1>6. CASE StartConfirmed(t) BY <1>6, TakeTyped DEF StartConfirmed
<1>7. CASE StartRefused(t) BY <1>7, TakeTyped DEF StartRefused
<1>8. CASE StartTimesOut(t) BY <1>8, StillTyped DEF StartTimesOut
<1>9. CASE StartResets(t) BY <1>9, StillTyped, ZenonT(40) DEF StartResets
<1>10. CASE StartPublishes(t) BY <1>10, StillTyped DEF StartPublishes
<1>11. CASE StartSpawns(t)
  <2>1. TypeOK' BY <1>11, SpawnTyped
  <2>2. ~terminated' => Handled' BY <1>11 DEF StartSpawns
  <2>3. ~terminated' => Kept' BY <1>11 DEF StartSpawns
  <2>4. ~terminated' => LastWord' BY <1>11 DEF StartSpawns
  <2>5. ~terminated' => Blamed' BY <1>11 DEF StartSpawns
  <2>6. ~terminated' => Told' BY <1>11 DEF StartSpawns
  <2>7. QED BY <2>1, <2>2, <2>3, <2>4, <2>5, <2>6
<1>12. QED BY <1>1, <1>2, <1>3, <1>4, <1>5, <1>6, <1>7, <1>8, <1>9, <1>10, <1>11 DEF Start

LEMMA KeepaliveStep ==
  ASSUME Inv, ~terminated, Keepalive
  PROVE  Inv'
<1> USE ZeroGAssumption DEF Inv, TypeOK, Handled, Kept, LastWord, Blamed, Told, At, Starting, Stopping,
        vars, callVars, flagVars, linkVars
<1>1. CASE KeepLoops BY <1>1, StillTyped DEF KeepLoops
<1>2. CASE KeepWakes BY <1>2, StillTyped DEF KeepWakes
<1>3. CASE KeepWrites BY <1>3, SendTyped DEF KeepWrites, Send, Frames
<1>4. CASE KeepFails BY <1>4, SendFailsTyped DEF KeepFails, SendFails
<1>5. CASE KeepYields BY <1>5, StillTyped DEF KeepYields
<1>6. CASE KeepEnds BY <1>6, StillTyped DEF KeepEnds
<1>7. QED BY <1>1, <1>2, <1>3, <1>4, <1>5, <1>6 DEF Keepalive

LEMMA StopStep ==
  ASSUME Inv, ~terminated, NEW t \in Threads, StopBegins(t) \/ Stop(t)
  PROVE  Inv'
<1> USE ZeroGAssumption DEF Inv, TypeOK, Handled, Kept, LastWord, Blamed, Told, At, Starting, Stopping,
        vars, callVars, flagVars, linkVars, Step, Leave
<1>1. CASE StopBegins(t) BY <1>1, StillTyped DEF StopBegins
<1>2. CASE StopDeactivates(t)
  <2>1. TypeOK' BY <1>2, DeactivateTyped
  <2>2. ~terminated' => Handled' BY <1>2 DEF StopDeactivates
  <2>3. ~terminated' => Kept' BY <1>2 DEF StopDeactivates
  <2>4. ~terminated' => LastWord' BY <1>2 DEF StopDeactivates
  <2>5. ~terminated' => Blamed' BY <1>2 DEF StopDeactivates
  <2>6. ~terminated' => Told' BY <1>2 DEF StopDeactivates
  <2>7. QED BY <2>1, <2>2, <2>3, <2>4, <2>5, <2>6
<1>3. CASE StopJoins(t) BY <1>3, StillTyped, ZenonT(40) DEF StopJoins
<1>4. CASE StopTakesError(t)
  <2>1. TypeOK' BY <1>4, TakeErrorTyped
  <2>2. ~terminated' => Handled' BY <1>4 DEF StopTakesError
  <2>3. ~terminated' => Kept' BY <1>4 DEF StopTakesError
  <2>4. ~terminated' => LastWord' BY <1>4 DEF StopTakesError
  <2>5. ~terminated' => Blamed' BY <1>4 DEF StopTakesError
  <2>6. ~terminated' => Told' BY <1>4 DEF StopTakesError
  <2>7. QED BY <2>1, <2>2, <2>3, <2>4, <2>5, <2>6
<1>5. CASE StopWrites(t) BY <1>5, SendTyped, SendFailsTyped, StillTyped DEF StopWrites, Send, SendFails, Frames
<1>6. CASE StopReturns(t) BY <1>6, StillTyped DEF StopReturns
<1>7. QED BY <1>1, <1>2, <1>3, <1>4, <1>5, <1>6 DEF Stop

LEMMA LinkStep ==
  ASSUME Inv, ~terminated, Deliver \/ FwAnswers
  PROVE  Inv'
<1> USE ZeroGAssumption DEF Inv, TypeOK, Handled, Kept, LastWord, Blamed, Told, At, Starting, Stopping,
        vars, callVars, flagVars, linkVars
<1>1. CASE Deliver BY <1>1, DeliverTyped DEF Deliver
<1>2. CASE FwAnswers
  <2>1. granted' \in BOOLEAN
      BY <1>2 DEF FwAnswers
  <2>2. QED BY <1>2, <2>1, FwAnswersTyped DEF FwAnswers
<1>3. QED BY <1>1, <1>2

LEMMA NextInv == Inv /\ [Next]_vars => Inv'
<1> SUFFICES ASSUME Inv, [Next]_vars PROVE Inv'
    OBVIOUS
<1>1. CASE UNCHANGED vars
    BY <1>1, StillTyped DEF Inv, TypeOK, Handled, Kept, LastWord, Blamed, Told, At, vars, callVars, flagVars, linkVars
<1>2. CASE Next
    BY <1>2, StartStep, KeepaliveStep, StopStep, LinkStep DEF Next
<1>3. QED BY <1>1, <1>2

LEMMA Invariance == Spec => []Inv
  BY InitInv, NextInv, PTL DEF Spec

(* Every variable keeps its type, and one thread at a time is between       *)
(* taking and releasing zg_lock_.                                           *)
THEOREM TypeCorrect == Spec => []TypeOK
<1>1. Inv => TypeOK BY DEF Inv
<1>2. QED BY <1>1, Invariance, PTL

(* Once a session is over, the last 0x06 frame written is not a keepalive's. *)
THEOREM TheLastWordIsOff == Spec => []LastWordIsOff
<1>1. Inv => LastWordIsOff
    BY ZeroGAssumption DEF Inv, TypeOK, LastWord, At, LastWordIsOff, Over, Starting, Stopping
<1>2. QED BY <1>1, Invariance, PTL

(* With the lock free, the guard is up only over a keepalive that works or  *)
(* has just failed.                                                         *)
THEOREM TheGuardIsKept == Spec => []ActiveIsKept
<1>1. Inv => ActiveIsKept
    BY ZeroGAssumption DEF Inv, TypeOK, Handled, Kept, At, ActiveIsKept, Starting, Stopping
<1>2. QED BY <1>1, Invariance, PTL

\* Only a zero_g_stop goes from its return to idle; no step jumps there.
LEMMA OnlyStopsReturn ==
  ASSUME Inv, Next, NEW t \in Threads, pc[t] = "return", pc'[t] = "idle"
  PROVE  ~terminated /\ StopReturns(t)
<1> USE DEF Inv, TypeOK, Step, Leave, callVars
<1>1. CASE \E u \in Threads : StartAsks(u) \/ StartAgain(u) \/ StartOpens(u) \/ Start(u)
    BY <1>1 DEF StartAsks, StartAgain, StartOpens, Start, StartWrites, StartWriteFails, StartConfirmed,
       StartRefused, StartTimesOut, StartResets, StartPublishes, StartSpawns
<1>2. CASE \E u \in Threads : StopBegins(u) \/ Stop(u)
    BY <1>2 DEF StopBegins, Stop, StopDeactivates, StopJoins, StopTakesError, StopWrites, StopReturns, Next
<1>3. CASE Keepalive
    BY <1>3 DEF Keepalive, KeepLoops, KeepWakes, KeepWrites, KeepFails, KeepYields, KeepEnds
<1>4. CASE Deliver \/ FwAnswers
    BY <1>4 DEF Deliver, FwAnswers
<1>5. QED BY <1>1, <1>2, <1>3, <1>4 DEF Next

(* A zero_g_stop that ends a session and is asked to raise throws the loss  *)
(* of its keepalive if there was one, and none of another session; no stop  *)
(* leaves an error stored.                                                  *)
THEOREM ALossIsTold == Spec => LossIsTold
<1>1. ASSUME Inv, Next, NEW t \in Threads, pc[t] = "return", pc'[t] = "idle"
      PROVE  ~zgError' /\ (raising[t] => (taken[t] => untold) /\ (wasSession[t] => ~untold'))
  <2>1. ~terminated /\ StopReturns(t)
      BY <1>1, OnlyStopsReturn
  <2>2. Blamed /\ Told /\ ~joinable /\ \A u \in Threads \ {t} : pc[u] \notin Starting \cup Stopping
      BY <1>1, <2>1, ZeroGAssumption DEF Inv, TypeOK, Told, At, Stopping
  <2>3. ~zgError'
      BY <1>1, <2>1, <2>2 DEF Blamed, At, StopReturns, flagVars, Stopping
  <2>4. taken[t] => untold
      BY <2>2 DEF Blamed
  <2>5. raising[t] /\ wasSession[t] => ~untold'
      BY <1>1, <2>1, <2>2, <2>3 DEF Told, At, StopReturns, flagVars, Stopping
  <2>6. QED BY <2>3, <2>4, <2>5
<1>2. ASSUME Inv, [Next]_vars
      PROVE  [\A t \in Threads : pc[t] = "return" /\ pc'[t] = "idle" =>
                /\ ~zgError'
                /\ raising[t] => (taken[t] => untold) /\ (wasSession[t] => ~untold')]_vars
    BY <1>1, <1>2
<1>3. QED BY <1>2, Invariance, PTL DEF Spec, LossIsTold
=============================================================================
