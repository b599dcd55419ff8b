--------------------------- MODULE AckQueues_proofs ---------------------------
(***************************************************************************)
(* Proofs about AckQueues, for any number of threads, commands and frames: *)
(* no wake-up is lost, a close is never reported as a lost link, a call    *)
(* that is alone with its command gets, and keeps, its own answer, and no  *)
(* queue outgrows its bound.                                               *)
(***************************************************************************)
EXTENDS AckQueues, SequenceTheorems, FiniteSetTheorems, TLAPS

-----------------------------------------------------------------------------
(* Sequences of frames                                                     *)

LEMMA AppendElems ==
  ASSUME NEW S, NEW s \in Seq(S), NEW e \in S
  PROVE  Append(s, e) \in Seq(S) /\ Elems(Append(s, e)) = Elems(s) \cup {e}
<1>1. /\ Append(s, e) \in Seq(S)
      /\ Len(Append(s, e)) = Len(s) + 1
      /\ \A i \in 1..Len(s) : Append(s, e)[i] = s[i]
      /\ Append(s, e)[Len(s) + 1] = e
  BY AppendProperties
<1>. QED  BY <1>1 DEF Elems

LEMMA TailElems ==
  ASSUME NEW S, NEW s \in Seq(S), s # <<>>
  PROVE  /\ Head(s) \in Elems(s) /\ Head(s) \in S
         /\ Tail(s) \in Seq(S) /\ Elems(Tail(s)) \subseteq Elems(s)
<1>1. /\ Head(s) \in S /\ Tail(s) \in Seq(S)
      /\ Len(Tail(s)) = Len(s) - 1 /\ Len(s) \in Nat \ {0}
      /\ Head(s) = s[1]
      /\ \A i \in 1..(Len(s) - 1) : Tail(s)[i] = s[i + 1]
  BY HeadTailProperties, EmptySeq, LenProperties
<1>. QED  BY <1>1 DEF Elems

LEMMA RemoveAtElems ==
  ASSUME NEW S, NEW s \in Seq(S), NEW i \in 1..Len(s)
  PROVE  RemoveAt(s, i) \in Seq(S) /\ Elems(RemoveAt(s, i)) \subseteq Elems(s)
<1>. DEFINE a == SubSeq(s, 1, i - 1)
            b == SubSeq(s, i + 1, Len(s))
<1>1. Len(s) \in Nat
  BY LenProperties
<1>2. /\ a \in Seq(S) /\ Len(a) = i - 1
      /\ \A j \in 1..(i - 1) : a[j] = s[j]
  BY <1>1, SubSeqProperties
<1>3. /\ b \in Seq(S) /\ Len(b) = Len(s) - i
      /\ \A j \in 1..(Len(s) - i) : b[j] = s[i + j]
  BY <1>1, SubSeqProperties
<1>. HIDE DEF a, b
<1>4. /\ a \o b \in Seq(S) /\ Len(a \o b) = Len(s) - 1
      /\ \A j \in 1..(Len(s) - 1) :
           (a \o b)[j] = IF j <= i - 1 THEN a[j] ELSE b[j - (i - 1)]
  <2>1. /\ a \o b \in Seq(S)
        /\ Len(a \o b) = Len(a) + Len(b)
        /\ \A j \in 1..(Len(a) + Len(b)) :
             (a \o b)[j] = IF j <= Len(a) THEN a[j] ELSE b[j - Len(a)]
    BY <1>2, <1>3, ConcatProperties
  <2>2. Len(a) + Len(b) = Len(s) - 1
    BY <1>1, <1>2, <1>3
  <2>. QED  BY <1>2, <2>1, <2>2
<1>5. ASSUME NEW j \in 1..(Len(s) - 1)
      PROVE  (a \o b)[j] \in Elems(s)
  <2>1. CASE j <= i - 1
    BY <1>1, <1>2, <1>4, <2>1 DEF Elems
  <2>2. CASE j > i - 1
    <3>1. j - (i - 1) \in 1..(Len(s) - i) /\ i + (j - (i - 1)) \in 1..Len(s)
      BY <1>1, <2>2
    <3>. QED  BY <1>1, <1>3, <1>4, <2>2, <3>1 DEF Elems
  <2>3. j <= i - 1 \/ j > i - 1
    BY <1>1
  <2>. QED  BY ONLY <2>1, <2>2, <2>3
<1>6. RemoveAt(s, i) = a \o b
  BY DEF RemoveAt, a, b
<1>. QED  BY <1>4, <1>5, <1>6 DEF Elems

-----------------------------------------------------------------------------
(* Types                                                                   *)

Kinds == {"cmd", "rsp", "err", "status", "bad", "plan"}
Frames == [kind : Kinds, cmd : Mail, by : Threads \cup {NoThread}]

\* The part of TypeOK that the other proofs need, and the links.
Typed ==
  /\ pc \in [Threads -> {"idle"} \cup Inside]
  /\ call \in [Threads -> Commands \cup {"now", "refresh", "linklost"}]
  /\ asleep \in [Threads -> BOOLEAN]
  /\ seen \in [Threads -> {"none", "bad", "good"}]
  /\ mail \in [Mail -> Seq(Frames)]
  /\ down \in Seq(Frames) /\ up \in Seq(Frames)
  /\ muddled \subseteq Threads /\ misled \subseteq Threads /\ robbed \subseteq Threads

LEMMA FrameType ==
  ASSUME NEW k \in Kinds, NEW c \in Mail, NEW t \in Threads \cup {NoThread}
  PROVE  Frame(k, c, t) \in Frames
BY DEF Frame, Frames

LEMMA CommandType ==
  ASSUME NEW o PROVE CommandOf(o) \in Mail
BY DEF CommandOf, Mail

LEMMA OrphanElems ==
  ASSUME NEW s \in Seq(Frames), NEW t \in Threads
  PROVE  /\ Orphan(s, t) \in Seq(Frames)
         /\ Len(Orphan(s, t)) = Len(s)
         /\ \A f \in Elems(Orphan(s, t)) : \E g \in Elems(s) :
              /\ f.kind = g.kind /\ f.cmd = g.cmd
              /\ f.by = IF g.by = t THEN NoThread ELSE g.by
<1>. DEFINE o(i) == IF s[i].by = t THEN [s[i] EXCEPT !.by = NoThread] ELSE s[i]
<1>1. Len(s) \in Nat /\ \A i \in 1..Len(s) : s[i] \in Frames
  BY LenProperties, ElementOfSeq
<1>2. \A i \in 1..Len(s) :
        /\ o(i) \in Frames
        /\ o(i).kind = s[i].kind /\ o(i).cmd = s[i].cmd
        /\ o(i).by = IF s[i].by = t THEN NoThread ELSE s[i].by
  BY <1>1 DEF Frames
<1>3. Orphan(s, t) = [i \in 1..Len(s) |-> o(i)]
  BY DEF Orphan
<1>. HIDE DEF o
<1>4. /\ Orphan(s, t) \in Seq(Frames) /\ Len(Orphan(s, t)) = Len(s)
      /\ \A i \in 1..Len(s) : Orphan(s, t)[i] = o(i)
  BY <1>1, <1>2, <1>3, IsASeq, LenProperties
<1>. QED  BY <1>2, <1>4 DEF Elems

LEMMA LosersType ==
  ASSUME Typed, NEW c \in Mail, NEW m
  PROVE  Losers(c, m) \subseteq Threads
<1>1. mail[c] \in Seq(Frames)
  BY DEF Typed
<1>2. \A f \in Elems(mail[c]) : f \in Frames
  BY <1>1, ElementOfSeq DEF Elems
<1>3. \A f \in Elems(mail[c]) : f.by \in Threads \cup {NoThread}
  BY <1>2 DEF Frames
<1>. QED  BY <1>3 DEF Losers

LEMMA EndTyped ==
  ASSUME Typed, NEW t \in Threads, NEW m \in [Mail -> Seq(Frames)], End(t, m)
  PROVE  /\ pc' \in [Threads -> {"idle"} \cup Inside]
         /\ call' \in [Threads -> Commands \cup {"now", "refresh", "linklost"}]
         /\ asleep' \in [Threads -> BOOLEAN]
         /\ seen' \in [Threads -> {"none", "bad", "good"}]
         /\ mail' \in [Mail -> Seq(Frames)]
         /\ down' \in Seq(Frames) /\ up' \in Seq(Frames)
<1>1. \A c \in Mail : m[c] \in Seq(Frames)
  OBVIOUS
<1>2. \A c \in Mail : Orphan(m[c], t) \in Seq(Frames)
  BY <1>1, OrphanElems
<1>3. Orphan(down, t) \in Seq(Frames) /\ Orphan(up, t) \in Seq(Frames)
  BY OrphanElems DEF Typed
<1>. QED  BY <1>2, <1>3 DEF End, Typed

LEMMA RaiseTyped ==
  ASSUME Typed, NEW t \in Threads, Raise(t)
  PROVE  Typed'
<1>1. mail \in [Mail -> Seq(Frames)] /\ End(t, mail)
  BY DEF Typed, Raise
<1>. QED  BY <1>1, EndTyped DEF Typed, Raise

\* What is taken, and what is left.
LEMMA TakeMail ==
  ASSUME Typed, NEW t \in Threads, Mine(t) # <<>>
  PROVE  LET c == Cmd(t)
             m == [mail EXCEPT ![c] = Tail(@)]
         IN  /\ c \in Mail /\ m \in [Mail -> Seq(Frames)]
             /\ Head(mail[c]) \in Elems(mail[c]) /\ Head(mail[c]) \in Frames
             /\ \A d \in Mail : Elems(m[d]) \subseteq Elems(mail[d])
<1>1. Cmd(t) \in Mail /\ mail[Cmd(t)] \in Seq(Frames) /\ mail[Cmd(t)] # <<>>
  BY CommandType DEF Cmd, Mine, Typed
<1>2. /\ Head(mail[Cmd(t)]) \in Elems(mail[Cmd(t)]) /\ Head(mail[Cmd(t)]) \in Frames
      /\ Tail(mail[Cmd(t)]) \in Seq(Frames)
      /\ Elems(Tail(mail[Cmd(t)])) \subseteq Elems(mail[Cmd(t)])
  BY <1>1, TailElems
<1>. QED  BY <1>1, <1>2 DEF Typed

LEMMA TakeTyped ==
  ASSUME Typed, NEW t \in Threads, Mine(t) # <<>>, Take(t)
  PROVE  Typed'
<1>. DEFINE m == [mail EXCEPT ![Cmd(t)] = Tail(@)]
<1>1. Cmd(t) \in Mail /\ m \in [Mail -> Seq(Frames)]
  BY TakeMail
<1>2. End(t, m)
  BY DEF Take
<1>3. Losers(Cmd(t), Tail(mail[Cmd(t)])) \subseteq Threads
  BY <1>1, LosersType
<1>4. muddled' \subseteq Threads /\ misled' \subseteq Threads /\ robbed' \subseteq Threads
  BY <1>3 DEF Take, Typed
<1>. HIDE DEF m
<1>. QED  BY <1>1, <1>2, <1>4, EndTyped DEF Typed

\* What deliver does to the queues of a command.
LEMMA DeliverElems ==
  ASSUME Typed, NEW f \in Frames, NEW m \in DeliverAnswer(f)
  PROVE  /\ m \in Seq(Frames) /\ f \in Elems(m)
         /\ Elems(m) \subseteq Elems(mail[f.cmd]) \cup {f}
<1>. DEFINE s == mail[f.cmd]
<1>1. s \in Seq(Frames)
  BY DEF Typed, Frames
<1>2. m = Append(s, f) \/ \E i \in 1..Len(s) : m = Append(RemoveAt(s, i), f)
  BY DEF DeliverAnswer, Queue
<1>. HIDE DEF s
<1>3. CASE m = Append(s, f)
  BY <1>1, <1>3, AppendElems DEF s
<1>4. CASE \E i \in 1..Len(s) : m = Append(RemoveAt(s, i), f)
  <2>1. PICK i \in 1..Len(s) : m = Append(RemoveAt(s, i), f)
    BY <1>4
  <2>2. RemoveAt(s, i) \in Seq(Frames) /\ Elems(RemoveAt(s, i)) \subseteq Elems(s)
    BY <1>1, RemoveAtElems
  <2>3. m \in Seq(Frames) /\ Elems(m) = Elems(RemoveAt(s, i)) \cup {f}
    BY <2>1, <2>2, AppendElems
  <2>. QED  BY <2>2, <2>3 DEF s
<1>. QED  BY <1>2, <1>3, <1>4

LEMMA TakenOffType ==
  ASSUME Typed, NEW K, TakenOff(K)
  PROVE  /\ Head(up) \in Elems(up) /\ Head(up) \in Frames
         /\ Head(up).cmd \in Mail /\ Head(up).kind \in K
         /\ up' \in Seq(Frames) /\ Elems(up') \subseteq Elems(up)
<1>1. up \in Seq(Frames) /\ up # <<>> /\ Head(up).kind \in K /\ up' = Tail(up)
  BY DEF Typed, TakenOff
<1>2. /\ Head(up) \in Elems(up) /\ Head(up) \in Frames
      /\ Tail(up) \in Seq(Frames) /\ Elems(Tail(up)) \subseteq Elems(up)
  BY <1>1, TailElems
<1>3. Head(up).cmd \in Mail
  BY <1>2 DEF Frames
<1>. QED  BY <1>1, <1>2, <1>3

\* A call begins.
Entered(t) == Ask(t) \/ AskStatus(t)

LEMMA EnteredBegin ==
  ASSUME NEW t \in Threads, Entered(t)
  PROVE  \E o \in Commands \cup {"now"} : Begin(t, o)
BY DEF Entered, Ask, AskStatus

\* How a call ends.
LEMMA CallEnds ==
  ASSUME NEW t \in Threads, Call(t)
  PROVE  \/ Write(t) \/ Await(t) \/ Pumped(t) \/ Sleep(t)
         \/ Raise(t) /\ UNCHANGED <<state, runVars>>
         \/ /\ Mine(t) # <<>> /\ Take(t) /\ Busy(t) /\ call[t] \in Commands \cup {"now"}
            /\ UNCHANGED <<state, errors, readerError, runVars>>
<1>1. ASSUME NEW K, Looks(t, K) PROVE Busy(t) /\ call[t] \in K
  BY <1>1 DEF Looks, Busy, Inside
<1>2. CASE TakeAnswer(t)
  BY <1>1, <1>2 DEF TakeAnswer
<1>3. CASE Judge(t)
  BY <1>3 DEF Judge, Busy, Inside
<1>4. CASE WriteFails(t) \/ RaiseError(t) \/ LinkLost(t) \/ TimeOut(t)
  BY <1>4 DEF WriteFails, RaiseError, LinkLost, TimeOut
<1>. QED  BY <1>2, <1>3, <1>4 DEF Call

LEMMA TypedInit == Init => Typed
<1>. SUFFICES ASSUME Init PROVE Typed
  OBVIOUS
<1>1. <<>> \in Seq(Frames)
  BY EmptySeq
<1>. QED  BY <1>1 DEF Init, Typed

LEMMA TypedStep == Typed /\ [Next]_vars => Typed'
<1>. SUFFICES ASSUME Typed, [Next]_vars PROVE Typed'
  OBVIOUS
<1>. USE DEF callVars, ackVars, runVars, linkVars, ghosts
<1>1. ASSUME NEW t \in Threads, Entered(t)
      PROVE  Typed'
  <2>1. PICK o \in Commands \cup {"now"} : Begin(t, o)
    BY <1>1, EnteredBegin
  <2>2. CommandOf(o) \in Mail /\ <<>> \in Seq(Frames)
    BY CommandType, EmptySeq
  <2>3. Losers(CommandOf(o), <<>>) \subseteq Threads
    BY <2>2, LosersType
  <2>4. Users(CommandOf(o)) \subseteq Threads
    BY DEF Users
  <2>5. muddled' \subseteq Threads /\ misled' \subseteq Threads /\ robbed' \subseteq Threads
    BY <2>1, <2>3, <2>4 DEF Begin, Share, Typed
  <2>6. /\ pc' = [pc EXCEPT ![t] = "drained"] /\ call' = [call EXCEPT ![t] = o]
        /\ mail' = [mail EXCEPT ![CommandOf(o)] = <<>>]
        /\ UNCHANGED <<asleep, seen, down, up>>
    BY <2>1 DEF Begin, Enter
  <2>. QED  BY <2>2, <2>5, <2>6 DEF Typed, Inside
<1>2. ASSUME NEW t \in Threads, Watch(t)
      PROVE  Typed'
  BY <1>2 DEF Watch, Enter, Typed, Inside, Silent
<1>3. ASSUME NEW t \in Threads, Call(t)
      PROVE  Typed'
  <2>1. CASE Write(t)
    <3>1. Frame("cmd", Cmd(t), t) \in Frames
      BY CommandType, FrameType DEF Kinds, Cmd
    <3>2. down' \in Seq(Frames)
      BY <2>1, <3>1, AppendElems DEF Write, Typed
    <3>. QED  BY <2>1, <3>2 DEF Write, Typed, Inside
  <2>2. CASE Await(t) \/ Pumped(t) \/ Sleep(t)
    BY <2>2 DEF Await, Pumped, Sleep, Typed, Inside
  <2>. QED  BY <1>3, <2>1, <2>2, CallEnds, RaiseTyped, TakeTyped
<1>4. ASSUME NEW t \in Threads, Expire(t)
      PROVE  Typed'
  BY <1>4 DEF Expire, Typed
<1>5. CASE ReadAnswer
  <2>. DEFINE f == Head(up)
  <2>1. f \in Frames /\ f.cmd \in Mail /\ up' \in Seq(Frames)
    BY <1>5, TakenOffType DEF ReadAnswer
  <2>2. PICK m \in DeliverAnswer(f) :
           mail' = [mail EXCEPT ![f.cmd] = m] /\ robbed' = robbed \cup Losers(f.cmd, m)
    BY <1>5 DEF ReadAnswer
  <2>3. m \in Seq(Frames)
    BY <2>1, DeliverElems
  <2>4. Losers(f.cmd, m) \subseteq Threads
    BY <2>1, LosersType
  <2>5. asleep' \in [Threads -> BOOLEAN]
    BY <1>5 DEF ReadAnswer, WakeAll
  <2>. HIDE DEF f
  <2>. QED  BY <1>5, <2>1, <2>2, <2>3, <2>4, <2>5 DEF ReadAnswer, Typed
<1>6. CASE ReadStatus \/ ReadPlan
  <2>1. up' \in Seq(Frames)
    BY <1>6, TakenOffType DEF ReadStatus, ReadPlan
  <2>. QED  BY <1>6, <2>1 DEF ReadStatus, ReadPlan, WakeAll, Typed
<1>7. CASE PostPlan \/ ReaderDies \/ ReaderStops
  BY <1>7 DEF PostPlan, ReaderDies, ReaderStops, WakeAll, Typed
<1>8. CASE StopReader \/ ClosePort
  BY <1>8 DEF StopReader, ClosePort, Typed
<1>9. CASE Reconnect
  <2>1. <<>> \in Seq(Frames)
    BY EmptySeq
  <2>. QED  BY <1>9, <2>1 DEF Reconnect, Typed
<1>10. CASE FwAnswer
  <2>1. /\ Head(down) \in Frames /\ down' \in Seq(Frames)
    BY <1>10, TailElems DEF FwAnswer, Typed
  <2>2. PICK g \in Frames : up' = Append(up, g)
    <3>1. StatusCmd \in Mail /\ NoThread \in Threads \cup {NoThread}
      BY DEF Mail
    <3>2. Head(down).cmd \in Mail /\ Head(down).by \in Threads \cup {NoThread}
      BY <2>1 DEF Frames
    <3>3. /\ Frame("err", Head(down).cmd, Head(down).by) \in Frames
          /\ Frame("rsp", Head(down).cmd, Head(down).by) \in Frames
          /\ Frame("status", StatusCmd, NoThread) \in Frames
      BY <3>1, <3>2, FrameType DEF Kinds
    <3>. QED  BY <1>10, <3>3 DEF FwAnswer
  <2>3. up' \in Seq(Frames)
    BY <2>2, AppendElems DEF Typed
  <2>. QED  BY <1>10, <2>1, <2>3 DEF FwAnswer, Typed
<1>11. CASE FwStream
  <2>1. PICK k \in {"status", "bad", "plan"} : up' = Append(up, Frame(k, StatusCmd, NoThread))
    BY <1>11 DEF FwStream
  <2>2. Frame(k, StatusCmd, NoThread) \in Frames
    BY FrameType DEF Kinds, Mail
  <2>3. up' \in Seq(Frames)
    BY <2>1, <2>2, AppendElems DEF Typed
  <2>. QED  BY <1>11, <2>3 DEF FwStream, Typed
<1>12. CASE LoseFrame \/ Unplug
  <2>1. up' \in Seq(Frames) /\ down' \in Seq(Frames)
    BY <1>12, TailElems, EmptySeq DEF LoseFrame, Unplug, Typed
  <2>. QED  BY <1>12, <2>1 DEF LoseFrame, Unplug, Typed
<1>13. CASE UNCHANGED vars
  BY <1>13 DEF vars, Typed
<1>. QED
  BY <1>1, <1>2, <1>3, <1>4, <1>5, <1>6, <1>7, <1>8, <1>9, <1>10, <1>11, <1>12, <1>13
  DEF Next, Entered, Reader

-----------------------------------------------------------------------------
(* No wake-up is lost                                                      *)

LEMMA OrphanEmpty ==
  ASSUME NEW t \in Threads
  PROVE  Orphan(<<>>, t) = <<>>
<1>1. <<>> \in Seq(Frames) /\ Len(<<>>) = 0
  BY EmptySeq
<1>2. Orphan(<<>>, t) \in Seq(Frames) /\ Len(Orphan(<<>>, t)) = 0
  BY <1>1, OrphanElems
<1>. QED  BY <1>2, EmptySeq

\* What another thread must not do to one that sleeps.
Undisturbed(t) ==
  /\ asleep'[t] = asleep[t] /\ pc'[t] = pc[t] /\ call'[t] = call[t]
  /\ seen'[t] = seen[t]
  /\ readerError' => readerError
  /\ errors' > 0 => errors > 0
  /\ Mine(t) = <<>> => Mine(t)' = <<>>

LEMMA StaysAsleep ==
  ASSUME NEW t \in Threads, Undisturbed(t), asleep[t] => pc[t] = "wait" /\ ~News(t)
  PROVE  asleep'[t] => pc'[t] = "wait" /\ ~News(t)'
BY DEF Undisturbed, News, Moved

\* A call that ends disturbs no other thread.
LEMMA EndUndisturbed ==
  ASSUME Typed, NEW u \in Threads, NEW m \in [Mail -> Seq(Frames)], End(u, m),
         \A c \in Mail : mail[c] = <<>> => m[c] = <<>>,
         readerError' => readerError, errors' > 0 => errors > 0,
         NEW t \in Threads \ {u}
  PROVE  Undisturbed(t)
<1>1. call'[t] = call[t] /\ pc'[t] = pc[t] /\ asleep'[t] = asleep[t]
  BY DEF End, Typed
<1>2. seen'[t] = seen[t]
  BY DEF End, Typed
<1>3. Cmd(t)' = Cmd(t) /\ Cmd(t) \in Mail
  BY <1>1, CommandType DEF Cmd, CommandOf
<1>4. Mine(t) = <<>> => Mine(t)' = <<>>
  BY <1>3, OrphanEmpty DEF Mine, End
<1>. QED  BY <1>1, <1>2, <1>4 DEF Undisturbed

LEMMA WakeStep ==
  Typed /\ NoLostWakeup /\ [Next]_vars => NoLostWakeup'
<1>. SUFFICES ASSUME Typed, [Next]_vars, NEW t \in Threads,
                     asleep[t] => pc[t] = "wait" /\ ~News(t)
              PROVE  asleep'[t] => pc'[t] = "wait" /\ ~News(t)'
  BY DEF NoLostWakeup
<1>. USE DEF callVars, ackVars, runVars, linkVars, ghosts
<1>. SUFFICES ASSUME asleep'[t] PROVE pc'[t] = "wait" /\ ~News(t)'
  OBVIOUS
<1>w. ~WakeAll
  BY DEF WakeAll
<1>1. ASSUME NEW u \in Threads, Entered(u)
      PROVE  Undisturbed(t)
  <2>1. PICK o \in Commands \cup {"now"} : Begin(u, o)
    BY <1>1, EnteredBegin
  <2>2. t # u
    BY <2>1 DEF Begin, Enter
  <2>3. /\ call'[t] = call[t] /\ pc'[t] = pc[t]
        /\ UNCHANGED <<asleep, seen, readerError, errors>>
    BY <2>1, <2>2 DEF Begin, Enter, Typed
  <2>4. mail' = [mail EXCEPT ![CommandOf(o)] = <<>>] /\ Cmd(t)' = Cmd(t) /\ Cmd(t) \in Mail
    BY <2>1, <2>3, CommandType DEF Begin, Cmd, CommandOf
  <2>5. Mine(t) = <<>> => Mine(t)' = <<>>
    BY <2>4 DEF Mine, Typed
  <2>. QED  BY <2>3, <2>5 DEF Undisturbed
<1>2. ASSUME NEW u \in Threads, Watch(u)
      PROVE  Undisturbed(t)
  <2>1. t # u
    BY <1>2 DEF Watch, Enter
  <2>. QED  BY <1>2, <2>1 DEF Watch, Enter, Undisturbed, Typed, Mine, Cmd, CommandOf
<1>3. ASSUME NEW u \in Threads, Call(u), ~Sleep(u) \/ u # t
      PROVE  Undisturbed(t)
  <2>1. CASE Write(u) \/ Await(u) \/ Pumped(u)
    <3>1. u # t
      BY <2>1 DEF Write, Await, Pumped, Looks
    <3>2. pc'[t] = pc[t] /\ UNCHANGED <<call, asleep, seen, mail, errors, readerError>>
      BY <2>1, <3>1 DEF Write, Await, Pumped, Typed
    <3>. QED  BY <3>2 DEF Undisturbed, Mine, Cmd, CommandOf
  <2>2. CASE Sleep(u) /\ u # t
    BY <2>2 DEF Sleep, Undisturbed, Typed, Mine, Cmd, CommandOf
  <2>3. CASE WriteFails(u) \/ RaiseError(u) \/ LinkLost(u) \/ TimeOut(u)
    <3>1. /\ readerError' => readerError
          /\ errors' > 0 => errors > 0
      BY <2>3 DEF WriteFails, RaiseError, LinkLost, TimeOut
    <3>2. u # t
      BY <2>3 DEF WriteFails, RaiseError, LinkLost, TimeOut, Looks, Raise, End
    <3>3. End(u, mail) /\ mail \in [Mail -> Seq(Frames)]
      BY <2>3 DEF WriteFails, RaiseError, LinkLost, TimeOut, Raise, Typed
    <3>. QED  BY <3>1, <3>2, <3>3, EndUndisturbed
  <2>4. CASE TakeAnswer(u) \/ Judge(u)
    <3>1. /\ readerError' => readerError
          /\ errors' > 0 => errors > 0
      BY <2>4 DEF TakeAnswer, Judge
    <3>2. u # t
      BY <2>4 DEF TakeAnswer, Judge, Looks, Take, Raise, End
    <3>3. CASE Raise(u)
      <4>1. End(u, mail) /\ mail \in [Mail -> Seq(Frames)]
        BY <3>3 DEF Raise, Typed
      <4>. QED  BY <3>1, <3>2, <4>1, EndUndisturbed
    <3>4. CASE Mine(u) # <<>> /\ Take(u)
      <4>. DEFINE m == [mail EXCEPT ![Cmd(u)] = Tail(@)]
      <4>1. End(u, m) /\ m \in [Mail -> Seq(Frames)] /\ Cmd(u) \in Mail
        BY <3>4, TakeMail DEF Take
      <4>2. \A c \in Mail : mail[c] = <<>> => m[c] = <<>>
        BY <3>4, <4>1 DEF Mine, Typed
      <4>. HIDE DEF m
      <4>. QED  BY <3>1, <3>2, <4>1, <4>2, EndUndisturbed
    <3>. QED  BY <2>4, <3>3, <3>4 DEF TakeAnswer, Judge
  <2>. QED  BY <1>3, <2>1, <2>2, <2>3, <2>4 DEF Call
<1>4. CASE Sleep(t)
  BY <1>4 DEF Sleep, News, Moved, Mine, Cmd, CommandOf
<1>5. ASSUME NEW u \in Threads, Expire(u)
      PROVE  Undisturbed(t)
  <2>1. u # t
    BY <1>5 DEF Expire, Typed
  <2>. QED  BY <1>5, <2>1 DEF Expire, Undisturbed, Typed, Mine, Cmd, CommandOf
<1>6. CASE Reader
  <2>1. ASSUME PostPlan PROVE Undisturbed(t)
    BY <1>w, <2>1 DEF PostPlan, Undisturbed, Mine, Cmd, CommandOf
  <2>2. ASSUME ReaderStops PROVE Undisturbed(t)
    BY <2>2 DEF ReaderStops, Undisturbed, Mine, Cmd, CommandOf
  <2>3. PostPlan \/ ReaderStops
    BY <1>6, <1>w DEF Reader, ReadAnswer, ReadStatus, ReadPlan, ReaderDies
  <2>4. Undisturbed(t)
    BY <2>1, <2>2, <2>3
  <2>. QED  BY <2>4, StaysAsleep
<1>7. CASE StopReader \/ ClosePort \/ FwAnswer \/ FwStream \/ LoseFrame \/ Unplug
           \/ UNCHANGED vars
  <2>1. UNCHANGED <<callVars, ackVars>>
    BY <1>7 DEF StopReader, ClosePort, FwAnswer, FwStream, LoseFrame, Unplug, vars
  <2>2. Undisturbed(t)
    BY <2>1 DEF Undisturbed, Mine, Cmd, CommandOf
  <2>. QED  BY <2>2, StaysAsleep
<1>8. CASE Reconnect
  <2>1. Cmd(t) \in Mail
    BY CommandType DEF Cmd
  <2>2. mail' = [c \in Mail |-> <<>>] /\ readerError' = FALSE /\ errors' = 0
        /\ UNCHANGED <<pc, call, asleep, seen>>
    BY <1>8 DEF Reconnect
  <2>3. Mine(t)' = <<>>
    BY <2>1, <2>2 DEF Mine, Cmd, CommandOf
  <2>4. Undisturbed(t)
    <3>1. ~readerError' /\ ~(errors' > 0)
      BY <2>2
    <3>. QED  BY <2>2, <2>3, <3>1 DEF Undisturbed
  <2>. QED  BY <2>4, StaysAsleep
<1>9. ASSUME NEW u \in Threads, Entered(u) \/ Watch(u) \/ Call(u) \/ Expire(u)
      PROVE  pc'[t] = "wait" /\ ~News(t)'
  BY <1>1, <1>2, <1>3, <1>4, <1>5, <1>9, StaysAsleep
<1>. QED  BY <1>6, <1>7, <1>8, <1>9 DEF Next, Entered

(* No wake-up is lost, whatever the number of threads and commands: no      *)
(* thread is left asleep on Ack::cv with an answer, a status frame, a       *)
(* stored error or a dead reader to see (deliver, die, reader_loop).        *)
THEOREM NoWakeupIsLost == Spec => []NoLostWakeup
<1>1. Init => Typed /\ NoLostWakeup
  BY TypedInit DEF Init, NoLostWakeup
<1>2. Typed /\ NoLostWakeup /\ [Next]_vars => Typed' /\ NoLostWakeup'
  BY TypedStep, WakeStep
<1>. QED  BY <1>1, <1>2, PTL DEF Spec

-----------------------------------------------------------------------------
(* A close is not a lost link                                              *)

\* The transport is closed only after the reader thread has ended.
PortHeld == CleanClose /\ (reader # "ended" => portOpen)

LEMMA CleanStep == PortHeld /\ [Next]_vars => PortHeld'
<1>. SUFFICES ASSUME PortHeld, [Next]_vars PROVE PortHeld'
  OBVIOUS
<1>. USE DEF PortHeld, CleanClose, callVars, ackVars, runVars, linkVars, ghosts
<1>1. ASSUME NEW t \in Threads, Entered(t) \/ Watch(t) \/ Call(t) \/ Expire(t)
      PROVE  UNCHANGED <<readerError, runVars>>
  <2>1. ASSUME Entered(t) PROVE UNCHANGED <<readerError, runVars>>
    BY <2>1, EnteredBegin DEF Begin, Enter
  <2>. QED
    BY <1>1, <2>1 DEF Watch, Enter, Expire, Call, Write, WriteFails, Await, TakeAnswer,
       RaiseError, LinkLost, TimeOut, Pumped, Judge, Sleep
<1>2. CASE Reader
  BY <1>2 DEF Reader, ReadAnswer, ReadStatus, ReadPlan, PostPlan, ReaderDies, ReaderStops,
     TakenOff, Loop
<1>3. CASE StopReader \/ ClosePort \/ Reconnect
  BY <1>3 DEF StopReader, ClosePort, Reconnect
<1>4. CASE FwAnswer \/ FwStream \/ LoseFrame \/ Unplug \/ UNCHANGED vars
  BY <1>4 DEF FwAnswer, FwStream, LoseFrame, Unplug, vars
<1>. QED  BY <1>1, <1>2, <1>3, <1>4 DEF Next, Entered

(* Closing a session is never recorded as the loss of the device, however   *)
(* the reader thread and close() interleave (stop_reader before close).     *)
THEOREM CloseIsClean == Spec => []CleanClose
<1>1. Init => PortHeld
  BY DEF Init, PortHeld, CleanClose
<1>2. PortHeld => CleanClose
  BY DEF PortHeld
<1>. QED  BY <1>1, <1>2, CleanStep, PTL DEF Spec

-----------------------------------------------------------------------------
(* Answers reach the call they belong to                                   *)

\* A thread between its drain and its answer asks; only status calls judge.
Asks ==
  \A t \in Threads :
    /\ pc[t] \in {"drained", "written"} => call[t] \notin Silent
    /\ pc[t] = "judge" => call[t] \in {"now", "refresh"}

\* A frame with an owner belongs to a call in progress that sent its command.
Owned ==
  /\ \A c \in Mail : \A f \in Elems(mail[c]) : f.by # NoThread => f.by \in Users(c)
  /\ \A f \in Elems(down) \cup Elems(up) : f.by # NoThread => f.by \in Users(f.cmd)

\* A call that is not muddled is the only user of its command, and whatever
\* can still answer that command answers this call.
Alone(t) ==
  /\ Users(Cmd(t)) = {t}
  /\ \A f \in Elems(mail[Cmd(t)]) : f.by = t
  /\ \A f \in Elems(down) : f.cmd = Cmd(t) => f.by = t
  /\ \A f \in Elems(up) : f.cmd = Cmd(t) /\ f.kind \in {"rsp", "err"} => f.by = t

Separate == \A t \in Threads \ muddled : Busy(t) /\ call[t] \notin Silent => Alone(t)

AnswerInv == Typed /\ Owned /\ Separate /\ OwnAnswer /\ NothingStolen

LEMMA UserFacts ==
  ASSUME NEW c, NEW t
  PROVE  t \in Users(c) <=> t \in Threads /\ Busy(t) /\ call[t] \notin Silent /\ Cmd(t) = c
BY DEF Users

\* Nobody but a call that shares its command loses an answer.
LEMMA LosersAreUsers ==
  ASSUME Typed, Owned, NEW c \in Mail, NEW m, NEW w \in Losers(c, m)
  PROVE  /\ w \in Users(c) /\ w \in Threads
         /\ \E f \in Elems(mail[c]) : f.by = w
         /\ \A f \in Elems(m) : f.by # w
<1>1. /\ w # NoThread
      /\ \E f \in Elems(mail[c]) : f.by = w
      /\ \A f \in Elems(m) : f.by # w
  BY DEF Losers
<1>2. w \in Users(c)
  BY <1>1 DEF Owned
<1>. QED  BY <1>1, <1>2 DEF Users

\* The calls that ask are the same ones, with the same commands.
SameUsers ==
  /\ \A c : Users(c)' = Users(c)
  /\ \A t \in Threads :
       Busy(t)' /\ call'[t] \notin Silent => /\ Busy(t) /\ call[t] \notin Silent
                                           /\ Cmd(t)' = Cmd(t)

\* Frames move on: into their queue, or from down to up as an answer; new ones
\* are of no call, or of a caller of their command.
FramesMove ==
  /\ \A c \in Mail : \A f \in Elems(mail[c])' :
       f \in Elems(mail[c]) \/ (f \in Elems(up) /\ f.cmd = c /\ f.kind \in {"rsp", "err"})
  /\ \A f \in Elems(down)' : f \in Elems(down) \/ f.by \in Users(f.cmd)
  /\ \A f \in Elems(up)' :
       \/ f \in Elems(up)
       \/ f.by = NoThread /\ f.kind \notin {"rsp", "err"}
       \/ \E g \in Elems(down) : f.by = g.by /\ f.cmd = g.cmd

LEMMA MoveStep ==
  ASSUME AnswerInv, SameUsers, FramesMove, UNCHANGED muddled
  PROVE  Owned' /\ Separate'
<1>2. \A c : Users(c)' = Users(c)
  BY DEF SameUsers
<1>3. Owned'
  <2>1. ASSUME NEW c \in Mail, NEW f \in Elems(mail[c])', f.by # NoThread
        PROVE  f.by \in Users(c)'
    BY <1>2, <2>1 DEF AnswerInv, Owned, FramesMove
  <2>2. ASSUME NEW f \in Elems(down)' \cup Elems(up)', f.by # NoThread
        PROVE  f.by \in Users(f.cmd)'
    BY <1>2, <2>2 DEF AnswerInv, Owned, FramesMove
  <2>. QED  BY <2>1, <2>2 DEF Owned
<1>4. ASSUME NEW t \in Threads \ muddled', Busy(t)', call'[t] \notin Silent'
      PROVE  Alone(t)'
  <2>0. Cmd(t)' = Cmd(t)
    BY <1>4 DEF SameUsers, Silent
  <2>1. Alone(t)
    BY <1>4 DEF AnswerInv, Separate, Silent, SameUsers
  <2>2. Cmd(t) \in Mail
    BY CommandType DEF Cmd
  <2>3. Users(Cmd(t))' = {t}
    BY <1>2, <2>0, <2>1 DEF Alone
  <2>4. \A f \in Elems(mail[Cmd(t)])' : f.by = t
    BY <2>0, <2>1, <2>2 DEF Alone, FramesMove
  <2>5. \A f \in Elems(down)' : f.cmd = Cmd(t)' => f.by = t
    BY <2>0, <2>1 DEF Alone, FramesMove
  <2>6. \A f \in Elems(up)' : f.cmd = Cmd(t)' /\ f.kind \in {"rsp", "err"} => f.by = t
    BY <2>0, <2>1 DEF Alone, FramesMove
  <2>. QED  BY <2>3, <2>4, <2>5, <2>6 DEF Alone
<1>. QED  BY <1>3, <1>4 DEF Separate

\* A call that ends leaves the frames and the privacy of the others alone.
LEMMA EndStep ==
  ASSUME AnswerInv, NEW t \in Threads, NEW m \in [Mail -> Seq(Frames)], End(t, m),
         \A c \in Mail : Elems(m[c]) \subseteq Elems(mail[c]),
         muddled \ {t} \subseteq muddled'
  PROVE  Owned' /\ Separate'
<1>1. /\ ~Busy(t)'
      /\ \A u \in Threads \ {t} : Busy(u)' = Busy(u) /\ call'[u] = call[u] /\ Cmd(u)' = Cmd(u)
  BY DEF End, AnswerInv, Typed, Busy, Inside, Cmd, CommandOf
<1>2. \A c : Users(c)' = Users(c) \ {t}
  <2>. SUFFICES ASSUME NEW c, NEW u \in Threads
                PROVE  u \in Users(c)' <=> u \in Users(c) /\ u # t
    BY DEF Users
  <2>. QED  BY <1>1 DEF Users, Silent
<1>3. \A c \in Mail : mail'[c] = Orphan(m[c], t) /\ m[c] \in Seq(Frames)
  BY DEF End
<1>4. \A c \in Mail : \A f \in Elems(mail'[c]) : \E g \in Elems(mail[c]) :
         f.by = IF g.by = t THEN NoThread ELSE g.by
  BY <1>3, OrphanElems
<1>5. /\ \A f \in Elems(down') : \E g \in Elems(down) :
           f.cmd = g.cmd /\ f.by = IF g.by = t THEN NoThread ELSE g.by
      /\ \A f \in Elems(up') : \E g \in Elems(up) :
           /\ f.cmd = g.cmd /\ f.kind = g.kind
           /\ f.by = IF g.by = t THEN NoThread ELSE g.by
  <2>1. down' = Orphan(down, t) /\ up' = Orphan(up, t)
    BY DEF End
  <2>. QED  BY <2>1, OrphanElems DEF AnswerInv, Typed
<1>6. Owned'
  <2>1. ASSUME NEW c \in Mail, NEW f \in Elems(mail'[c]), f.by # NoThread
        PROVE  f.by \in Users(c)'
    BY <1>2, <1>4, <2>1 DEF AnswerInv, Owned
  <2>2. ASSUME NEW f \in Elems(down') \cup Elems(up'), f.by # NoThread
        PROVE  f.by \in Users(f.cmd)'
    BY <1>2, <1>5, <2>2 DEF AnswerInv, Owned
  <2>. QED  BY <2>1, <2>2 DEF Owned
<1>7. ASSUME NEW u \in Threads \ muddled', Busy(u)', call'[u] \notin Silent'
      PROVE  Alone(u)'
  <2>1. u # t /\ Busy(u) /\ call[u] \notin Silent /\ u \notin muddled /\ Cmd(u)' = Cmd(u)
    BY <1>1, <1>7 DEF Silent
  <2>2. Alone(u) /\ Cmd(u) \in Mail
    BY <2>1, CommandType DEF AnswerInv, Separate, Cmd
  <2>3. Users(Cmd(u))' = {u}
    BY <1>2, <2>1, <2>2 DEF Alone
  <2>4. \A f \in Elems(mail'[Cmd(u)]) : f.by = u
    BY <1>4, <2>1, <2>2 DEF Alone
  <2>5. \A f \in Elems(down') : f.cmd = Cmd(u) => f.by = u
    BY <1>5, <2>1, <2>2 DEF Alone
  <2>6. \A f \in Elems(up') : f.cmd = Cmd(u) /\ f.kind \in {"rsp", "err"} => f.by = u
    BY <1>5, <2>1, <2>2 DEF Alone
  <2>. QED  BY <2>1, <2>3, <2>4, <2>5, <2>6 DEF Alone
<1>. QED  BY <1>6, <1>7 DEF Separate

\* A call that begins: if anybody uses its command, all of them are muddled.
LEMMA BeginStep ==
  ASSUME AnswerInv, NEW t \in Threads, NEW o \in Commands \cup {"now"}, Begin(t, o)
  PROVE  Owned' /\ Separate' /\ OwnAnswer' /\ NothingStolen'
<1>. DEFINE c == CommandOf(o)
<1>1. c \in Mail /\ o \notin Silent
  BY CommandType, AckAssumption DEF Silent
<1>2. /\ pc[t] = "idle" /\ pc' = [pc EXCEPT ![t] = "drained"]
      /\ call' = [call EXCEPT ![t] = o] /\ UNCHANGED <<down, up>>
      /\ mail' = [mail EXCEPT ![c] = <<>>]
      /\ robbed' = (robbed \ {t}) \cup Losers(c, <<>>)
      /\ muddled' = (muddled \ {t}) \cup (IF Quiet(c) THEN {} ELSE Users(c) \cup {t})
      /\ misled' = misled \ {t}
  BY DEF Begin, Enter, Share, linkVars
<1>. HIDE DEF c
<1>3. /\ ~Busy(t) /\ Busy(t)' /\ call'[t] = o /\ Cmd(t)' = c
      /\ \A u \in Threads \ {t} : Busy(u)' = Busy(u) /\ call'[u] = call[u] /\ Cmd(u)' = Cmd(u)
  BY <1>2 DEF AnswerInv, Typed, Busy, Inside, Cmd, CommandOf, c
<1>4. \A d : Users(d)' = Users(d) \cup (IF d = c THEN {t} ELSE {})
  <2>. SUFFICES ASSUME NEW d, NEW u \in Threads
                PROVE  u \in Users(d)' <=> u \in Users(d) \/ (u = t /\ d = c)
    BY DEF Users
  <2>. QED  BY <1>1, <1>3 DEF Users, Silent
<1>5. /\ \A d \in Mail : Elems(mail'[d]) \subseteq Elems(mail[d])
      /\ Elems(mail'[c]) = {}
  <2>1. Elems(<<>>) = {}
    BY EmptySeq DEF Elems
  <2>. QED  BY <1>1, <1>2, <2>1 DEF AnswerInv, Typed
<1>6. Owned'
  <2>1. ASSUME NEW d \in Mail, NEW f \in Elems(mail'[d]), f.by # NoThread
        PROVE  f.by \in Users(d)'
    BY <1>4, <1>5, <2>1 DEF AnswerInv, Owned
  <2>2. ASSUME NEW f \in Elems(down') \cup Elems(up'), f.by # NoThread
        PROVE  f.by \in Users(f.cmd)'
    BY <1>2, <1>4, <2>2 DEF AnswerInv, Owned
  <2>. QED  BY <2>1, <2>2 DEF Owned
<1>7. ASSUME NEW u \in Threads \ muddled', Busy(u)', call'[u] \notin Silent'
      PROVE  Alone(u)'
  <2>1. CASE u = t
    <3>1. Quiet(c)
      BY <1>2, <1>7, <2>1
    <3>2. Users(c)' = {t}
      BY <1>4, <3>1 DEF Quiet
    <3>. QED  BY <1>2, <1>3, <1>5, <2>1, <3>1, <3>2 DEF Alone, Quiet
  <2>2. CASE u # t
    <3>1. Busy(u) /\ call[u] \notin Silent /\ u \notin muddled /\ Cmd(u)' = Cmd(u)
      BY <1>2, <1>3, <1>7, <2>2 DEF Silent
    <3>2. Alone(u) /\ Cmd(u) \in Mail
      BY <3>1, CommandType DEF AnswerInv, Separate, Cmd
    <3>3. Cmd(u) # c
      <4>1. ASSUME Cmd(u) = c PROVE FALSE
        <5>1. u \in Users(c)
          BY <3>1, <4>1 DEF Users
        <5>2. u \in muddled'
          BY <1>2, <5>1 DEF Quiet
        <5>. QED  BY <1>7, <5>2
      <4>. QED  BY <4>1
    <3>4. Users(Cmd(u))' = {u}
      BY <1>4, <3>1, <3>2, <3>3 DEF Alone
    <3>. QED  BY <1>2, <1>5, <3>1, <3>2, <3>4 DEF Alone
  <2>. QED  BY <2>1, <2>2
<1>8. OwnAnswer'
  BY <1>2 DEF AnswerInv, OwnAnswer
<1>9. NothingStolen'
  <2>1. ASSUME NEW w \in Losers(c, <<>>) PROVE w \in muddled'
    <3>1. w \in Users(c)
      BY <1>1, LosersAreUsers DEF AnswerInv
    <3>. QED  BY <1>2, <3>1 DEF Quiet
  <2>. QED  BY <1>2, <2>1 DEF AnswerInv, NothingStolen
<1>. QED  BY <1>6, <1>7, <1>8, <1>9 DEF Separate

\* A call takes an answer: its own, unless it shares its command; and it takes
\* another call's answer only if that one shares its command too.
LEMMA TakeStep ==
  ASSUME AnswerInv, NEW t \in Threads, Take(t), Mine(t) # <<>>, Busy(t), call[t] \notin Silent
  PROVE  Owned' /\ Separate' /\ OwnAnswer' /\ NothingStolen'
<1>. DEFINE c == Cmd(t)
            m == [mail EXCEPT ![c] = Tail(@)]
            own == Head(mail[c]).by = t
<1>1. /\ c \in Mail /\ m \in [Mail -> Seq(Frames)]
      /\ Head(mail[c]) \in Elems(mail[c])
      /\ \A d \in Mail : Elems(m[d]) \subseteq Elems(mail[d])
  BY TakeMail DEF AnswerInv
<1>2. /\ misled' = IF own THEN misled \ {t} ELSE misled \cup {t}
      /\ muddled' = IF own THEN muddled \ {t} ELSE muddled
      /\ robbed' = (robbed \cup Losers(c, Tail(mail[c]))) \ {t}
      /\ End(t, m)
  BY DEF Take
<1>3. Owned' /\ Separate'
  <2>1. muddled \ {t} \subseteq muddled'
    BY <1>2
  <2>. HIDE DEF m
  <2>. QED  BY <1>1, <1>2, <2>1, EndStep
<1>4. t \in Users(c)
  BY DEF Users
<1>5. OwnAnswer'
  <2>1. CASE t \in muddled
    BY <1>2, <2>1 DEF AnswerInv, OwnAnswer
  <2>2. CASE t \notin muddled
    <3>1. Alone(t)
      BY <2>2 DEF AnswerInv, Separate
    <3>2. own
      BY <1>1, <3>1 DEF Alone
    <3>. QED  BY <1>2, <3>2 DEF AnswerInv, OwnAnswer
  <2>. QED  BY <2>1, <2>2
<1>6. ASSUME NEW w \in Losers(c, Tail(mail[c])), w # t
      PROVE  w \in muddled
  <2>1. w \in Users(c) /\ w \in Threads
    BY <1>1, LosersAreUsers DEF AnswerInv
  <2>2. ~Alone(w)
    BY <1>4, <1>6, <2>1, UserFacts DEF Alone
  <2>. QED  BY <2>1, <2>2, UserFacts DEF AnswerInv, Separate
<1>. HIDE DEF c, m, own
<1>7. NothingStolen'
  BY <1>2, <1>6 DEF AnswerInv, NothingStolen
<1>. QED  BY <1>3, <1>5, <1>7

\* A queue that is full gives up an entry of a call that shares its command.
LEMMA DeliverStep ==
  ASSUME AnswerInv, ReadAnswer
  PROVE  Owned' /\ Separate' /\ OwnAnswer' /\ NothingStolen'
<1>. DEFINE f == Head(up)
            c == f.cmd
<1>1. /\ f \in Elems(up) /\ f \in Frames /\ c \in Mail /\ f.kind \in {"rsp", "err"}
      /\ Elems(up') \subseteq Elems(up)
  BY TakenOffType DEF AnswerInv, ReadAnswer
<1>2. PICK m \in DeliverAnswer(f) :
         mail' = [mail EXCEPT ![c] = m] /\ robbed' = robbed \cup Losers(c, m)
  BY DEF ReadAnswer
<1>3. UNCHANGED <<pc, call, muddled, misled, down>>
  BY DEF ReadAnswer
<1>. HIDE DEF f
<1>4. f \in Elems(m) /\ Elems(m) \subseteq Elems(mail[c]) \cup {f}
  BY <1>1, <1>2, DeliverElems DEF AnswerInv
<1>. HIDE DEF c
<1>5. SameUsers
  BY <1>3 DEF SameUsers, Users, Busy, Cmd, CommandOf, Silent
<1>6. FramesMove
  <2>1. \A d \in Mail : \A g \in Elems(mail[d])' :
          g \in Elems(mail[d]) \/ (g \in Elems(up) /\ g.cmd = d /\ g.kind \in {"rsp", "err"})
    <3>. SUFFICES ASSUME NEW d \in Mail, NEW g \in Elems(mail'[d])
                  PROVE  g \in Elems(mail[d])
                           \/ (g \in Elems(up) /\ g.cmd = d /\ g.kind \in {"rsp", "err"})
      OBVIOUS
    <3>1. CASE d = c
      BY <1>1, <1>2, <1>4, <3>1 DEF AnswerInv, Typed, c
    <3>2. CASE d # c
      BY <1>2, <3>2 DEF AnswerInv, Typed
    <3>. QED  BY <3>1, <3>2
  <2>. QED  BY <1>1, <1>3, <2>1 DEF FramesMove
<1>7. Owned' /\ Separate'
  BY <1>3, <1>5, <1>6, MoveStep
<1>8. ASSUME NEW w \in Losers(c, m) PROVE w \in muddled
  <2>1. /\ w \in Users(c) /\ w \in Threads
        /\ \A g \in Elems(m) : g.by # w
    BY <1>1, LosersAreUsers DEF AnswerInv
  <2>2. ~Alone(w)
    BY <1>1, <1>4, <2>1, UserFacts DEF Alone, c
  <2>. QED  BY <2>1, <2>2, UserFacts DEF AnswerInv, Separate
<1>9. OwnAnswer' /\ NothingStolen'
  BY <1>2, <1>3, <1>8 DEF AnswerInv, OwnAnswer, NothingStolen
<1>. QED  BY <1>7, <1>9

AnswerAll == AnswerInv /\ Asks

LEMMA AsksStep == Typed /\ Asks /\ [Next]_vars => Asks'
<1>. SUFFICES ASSUME Typed, Asks, [Next]_vars PROVE Asks'
  OBVIOUS
<1>. USE DEF callVars, ackVars, runVars, linkVars, ghosts
<1>1. ASSUME NEW u \in Threads, Entered(u)
      PROVE  Asks'
  <2>1. PICK o \in Commands \cup {"now"} : Begin(u, o)
    BY <1>1, EnteredBegin
  <2>2. pc' = [pc EXCEPT ![u] = "drained"] /\ call' = [call EXCEPT ![u] = o]
    BY <2>1 DEF Begin, Enter
  <2>3. o \notin Silent
    BY AckAssumption DEF Silent
  <2>. QED  BY <2>2, <2>3 DEF Asks, Typed, Silent
<1>2. ASSUME NEW u \in Threads, Watch(u)
      PROVE  Asks'
  BY <1>2 DEF Watch, Enter, Asks, Typed, Silent
<1>3. ASSUME NEW u \in Threads, Call(u)
      PROVE  Asks'
  <2>1. CASE Write(u) \/ Await(u) \/ Sleep(u)
    BY <2>1 DEF Write, Await, Sleep, Asks, Typed, Silent
  <2>2. CASE Pumped(u)
    BY <2>2 DEF Pumped, Looks, Asks, Typed, Silent
  <2>3. ASSUME NEW m, End(u, m) PROVE Asks'
    BY <2>3 DEF End, Asks, Typed, Silent
  <2>. QED  BY <1>3, <2>1, <2>2, <2>3, CallEnds DEF Raise, Take
<1>4. ASSUME UNCHANGED <<pc, call>> PROVE Asks'
  BY <1>4 DEF Asks, Silent
<1>5. ASSUME NEW u \in Threads, Expire(u) PROVE UNCHANGED <<pc, call>>
  BY <1>5 DEF Expire
<1>6. CASE Reader
  <2>1. UNCHANGED <<pc, call>>
    BY <1>6 DEF Reader, ReadAnswer, ReadStatus, ReadPlan, PostPlan, ReaderDies, ReaderStops
  <2>. QED  BY <2>1, <1>4
<1>7. CASE StopReader \/ ClosePort \/ Reconnect \/ FwAnswer \/ FwStream \/ LoseFrame
           \/ Unplug \/ UNCHANGED vars
  <2>1. UNCHANGED <<pc, call>>
    BY <1>7 DEF StopReader, ClosePort, Reconnect, FwAnswer, FwStream, LoseFrame, Unplug, vars
  <2>. QED  BY <2>1, <1>4
<1>. QED  BY <1>1, <1>2, <1>3, <1>4, <1>5, <1>6, <1>7 DEF Next, Entered

\* Frames that stay where they are.
LEMMA FramesStay ==
  ASSUME UNCHANGED <<mail, down, up>>
  PROVE  FramesMove
BY DEF FramesMove

LEMMA SameCalls ==
  ASSUME UNCHANGED <<pc, call>>
  PROVE  SameUsers
BY DEF SameUsers, Users, Busy, Cmd, CommandOf, Silent

LEMMA GhostsStay ==
  ASSUME AnswerInv, UNCHANGED ghosts
  PROVE  OwnAnswer' /\ NothingStolen'
BY DEF AnswerInv, OwnAnswer, NothingStolen, ghosts

LEMMA AnswerStep ==
  AnswerInv /\ Asks /\ [Next]_vars => Owned' /\ Separate' /\ OwnAnswer' /\ NothingStolen'
<1>. SUFFICES ASSUME AnswerInv, Asks, [Next]_vars
              PROVE  Owned' /\ Separate' /\ OwnAnswer' /\ NothingStolen'
  OBVIOUS
<1>. USE DEF callVars, ackVars, runVars, linkVars
<1>1. ASSUME SameUsers, FramesMove, UNCHANGED ghosts
      PROVE  Owned' /\ Separate' /\ OwnAnswer' /\ NothingStolen'
  BY <1>1, MoveStep, GhostsStay DEF ghosts
<1>2. ASSUME NEW t \in Threads, Entered(t)
      PROVE  Owned' /\ Separate' /\ OwnAnswer' /\ NothingStolen'
  BY <1>2, EnteredBegin, BeginStep
<1>3. ASSUME NEW t \in Threads, Watch(t)
      PROVE  SameUsers /\ FramesMove /\ UNCHANGED ghosts
  <2>1. PICK o \in Silent : Enter(t, o, "wait")
    BY <1>3 DEF Watch
  <2>2. /\ call'[t] = o /\ ~Busy(t)
        /\ \A u \in Threads \ {t} : Busy(u)' = Busy(u) /\ call'[u] = call[u] /\ Cmd(u)' = Cmd(u)
    BY <2>1 DEF Enter, AnswerInv, Typed, Busy, Inside, Cmd, CommandOf
  <2>3. \A c : Users(c)' = Users(c)
    <3>. SUFFICES ASSUME NEW c, NEW u \in Threads
                  PROVE  u \in Users(c)' <=> u \in Users(c)
      BY DEF Users
    <3>. QED  BY <2>2 DEF Users, Silent
  <2>4. SameUsers
    BY <2>2, <2>3 DEF SameUsers, Silent
  <2>. QED  BY <1>3, <2>1, <2>4, FramesStay DEF Watch, Enter
<1>4. ASSUME NEW t \in Threads, Write(t)
      PROVE  SameUsers /\ FramesMove /\ UNCHANGED ghosts
  <2>1. /\ Busy(t) /\ Busy(t)' /\ call[t] \notin Silent /\ UNCHANGED <<call, mail, up, ghosts>>
        /\ \A u \in Threads \ {t} : Busy(u)' = Busy(u)
    BY <1>4 DEF Write, AnswerInv, Typed, Busy, Inside, Asks
  <2>2. \A u : Cmd(u)' = Cmd(u)
    BY <2>1 DEF Cmd, CommandOf
  <2>3. SameUsers
    BY <2>1, <2>2 DEF SameUsers, Users, Silent
  <2>4. Frame("cmd", Cmd(t), t) \in Frames
    BY CommandType, FrameType DEF Kinds, Cmd
  <2>5. Elems(down') = Elems(down) \cup {Frame("cmd", Cmd(t), t)}
    BY <1>4, <2>4, AppendElems DEF Write, AnswerInv, Typed
  <2>6. t \in Users(Frame("cmd", Cmd(t), t).cmd) /\ Frame("cmd", Cmd(t), t).by = t
    BY <2>1 DEF Users, Frame
  <2>. QED  BY <2>1, <2>3, <2>5, <2>6 DEF FramesMove
<1>5. ASSUME NEW t \in Threads, Await(t) \/ Pumped(t) \/ Sleep(t)
      PROVE  SameUsers /\ FramesMove /\ UNCHANGED ghosts
  <2>1. /\ UNCHANGED <<call, mail, down, up, ghosts>>
        /\ \A u \in Threads : Busy(u)' = Busy(u)
    BY <1>5 DEF Await, Pumped, Sleep, Looks, AnswerInv, Typed, Busy, Inside
  <2>2. \A u : Cmd(u)' = Cmd(u)
    BY <2>1 DEF Cmd, CommandOf
  <2>. QED  BY <2>1, <2>2, FramesStay DEF SameUsers, Users, Silent
<1>6. ASSUME NEW t \in Threads, Raise(t)
      PROVE  Owned' /\ Separate' /\ OwnAnswer' /\ NothingStolen'
  <2>1. /\ End(t, mail) /\ mail \in [Mail -> Seq(Frames)]
        /\ muddled' = muddled \ {t} /\ misled' = misled \ {t} /\ robbed' = robbed \ {t}
    BY <1>6 DEF Raise, AnswerInv, Typed
  <2>2. Owned' /\ Separate'
    BY <2>1, EndStep
  <2>. QED  BY <2>1, <2>2 DEF AnswerInv, OwnAnswer, NothingStolen
<1>7. ASSUME NEW t \in Threads, Call(t)
      PROVE  Owned' /\ Separate' /\ OwnAnswer' /\ NothingStolen'
  <2>1. \A o \in Commands \cup {"now"} : o \notin Silent
    BY AckAssumption DEF Silent
  <2>. QED  BY <1>1, <1>4, <1>5, <1>6, <1>7, <2>1, CallEnds, TakeStep
<1>8. ASSUME NEW t \in Threads, Expire(t)
      PROVE  SameUsers /\ FramesMove /\ UNCHANGED ghosts
  BY <1>8, FramesStay, SameCalls DEF Expire
<1>9. CASE ReadAnswer
  BY <1>9, DeliverStep
<1>10. ASSUME ReadStatus \/ ReadPlan
       PROVE  SameUsers /\ FramesMove /\ UNCHANGED ghosts
  <2>1. Elems(up') \subseteq Elems(up)
    BY <1>10, TakenOffType DEF ReadStatus, ReadPlan, AnswerInv
  <2>2. UNCHANGED <<pc, call, mail, down, ghosts>>
    BY <1>10 DEF ReadStatus, ReadPlan
  <2>. QED  BY <2>1, <2>2, SameCalls DEF FramesMove
<1>11. ASSUME PostPlan \/ ReaderDies \/ ReaderStops \/ StopReader \/ ClosePort \/ UNCHANGED vars
       PROVE  SameUsers /\ FramesMove /\ UNCHANGED ghosts
  BY <1>11, FramesStay, SameCalls
  DEF PostPlan, ReaderDies, ReaderStops, StopReader, ClosePort, vars
<1>12. ASSUME Reconnect
       PROVE  SameUsers /\ FramesMove /\ UNCHANGED ghosts
  <2>1. Elems(<<>>) = {}
    BY EmptySeq DEF Elems
  <2>2. \A c \in Mail : Elems(mail'[c]) = {}
    BY <1>12, <2>1 DEF Reconnect
  <2>. QED  BY <1>12, <2>2, SameCalls DEF Reconnect, FramesMove
<1>13. ASSUME FwAnswer
       PROVE  SameUsers /\ FramesMove /\ UNCHANGED ghosts
  <2>. DEFINE h == Head(down)
  <2>1. /\ h \in Elems(down) /\ h \in Frames /\ Elems(down') \subseteq Elems(down)
    BY <1>13, TailElems DEF FwAnswer, AnswerInv, Typed
  <2>2. PICK g \in {Frame("err", h.cmd, h.by), Frame("rsp", h.cmd, h.by),
                     Frame("status", StatusCmd, NoThread)} : up' = Append(up, g)
    BY <1>13 DEF FwAnswer
  <2>. HIDE DEF h
  <2>3. g \in Frames
    <3>1. h.cmd \in Mail /\ h.by \in Threads \cup {NoThread} /\ StatusCmd \in Mail
      BY <2>1 DEF Frames, Mail
    <3>. QED  BY <2>2, <3>1, FrameType DEF Kinds
  <2>4. Elems(up') = Elems(up) \cup {g}
    BY <2>2, <2>3, AppendElems DEF AnswerInv, Typed
  <2>5. \/ g.by = NoThread /\ g.kind \notin {"rsp", "err"}
        \/ g.by = h.by /\ g.cmd = h.cmd
    BY <2>2 DEF Frame
  <2>6. FramesMove
    BY <1>13, <2>1, <2>4, <2>5 DEF FwAnswer, FramesMove
  <2>. QED  BY <1>13, <2>6, SameCalls DEF FwAnswer
<1>14. ASSUME FwStream
       PROVE  SameUsers /\ FramesMove /\ UNCHANGED ghosts
  <2>1. PICK k \in {"status", "bad", "plan"} : up' = Append(up, Frame(k, StatusCmd, NoThread))
    BY <1>14 DEF FwStream
  <2>2. Frame(k, StatusCmd, NoThread) \in Frames
    BY FrameType DEF Kinds, Mail
  <2>3. Elems(up') = Elems(up) \cup {Frame(k, StatusCmd, NoThread)}
    BY <2>1, <2>2, AppendElems DEF AnswerInv, Typed
  <2>4. /\ Frame(k, StatusCmd, NoThread).by = NoThread
        /\ Frame(k, StatusCmd, NoThread).kind \notin {"rsp", "err"}
    BY DEF Frame
  <2>5. FramesMove
    BY <1>14, <2>3, <2>4 DEF FwStream, FramesMove
  <2>. QED  BY <1>14, <2>5, SameCalls DEF FwStream
<1>15. ASSUME LoseFrame \/ Unplug
       PROVE  SameUsers /\ FramesMove /\ UNCHANGED ghosts
  <2>1. Elems(<<>>) = {}
    BY EmptySeq DEF Elems
  <2>2. Elems(up') \subseteq Elems(up) /\ Elems(down') \subseteq Elems(down)
    BY <1>15, <2>1, TailElems DEF LoseFrame, Unplug, AnswerInv, Typed
  <2>. QED  BY <1>15, <2>2, SameCalls DEF LoseFrame, Unplug, FramesMove
<1>. QED
  BY <1>1, <1>2, <1>3, <1>7, <1>8, <1>9, <1>10, <1>11, <1>12, <1>13, <1>14, <1>15
  DEF Next, Entered, Reader

LEMMA AnswerInductive ==
  /\ Init => AnswerAll
  /\ AnswerAll /\ [Next]_vars => AnswerAll'
<1>1. Init => AnswerAll
  <2>. SUFFICES ASSUME Init PROVE AnswerAll
    OBVIOUS
  <2>1. Elems(<<>>) = {}
    BY EmptySeq DEF Elems
  <2>2. \A t \in Threads : ~Busy(t)
    BY DEF Init, Busy, Inside
  <2>3. Owned /\ Separate /\ OwnAnswer /\ NothingStolen /\ Asks
    BY <2>1, <2>2 DEF Init, Owned, Separate, OwnAnswer, NothingStolen, Asks
  <2>. QED  BY <2>3, TypedInit DEF AnswerAll, AnswerInv
<1>2. AnswerAll /\ [Next]_vars => AnswerAll'
  BY TypedStep, AsksStep, AnswerStep DEF AnswerAll, AnswerInv
<1>. QED  BY <1>1, <1>2

(* A call whose command no other exchange uses gets the answer to its own   *)
(* frame, for any number of threads and commands, whatever is late, lost or *)
(* evicted (drain_for before the write, the queue names of read_key).       *)
THEOREM AnswersAreOwn == Spec => []OwnAnswer
<1>1. AnswerAll => OwnAnswer
  BY DEF AnswerAll, AnswerInv
<1>. QED  BY <1>1, AnswerInductive, PTL DEF Spec

(* ... and what has been delivered for it is not drained, evicted or taken  *)
(* by another call.                                                         *)
THEOREM NothingIsStolen == Spec => []NothingStolen
<1>1. AnswerAll => NothingStolen
  BY DEF AnswerAll, AnswerInv
<1>. QED  BY <1>1, AnswerInductive, PTL DEF Spec
-----------------------------------------------------------------------------
(* The bound of the queues.  Removing entries of a queue shortens it: the   *)
(* positions that are left come, in order, from other positions.            *)

LEMMA QueueFinite ==
  ASSUME NEW S, NEW s \in Seq(S), NEW k
  PROVE  IsFiniteSet(Queue(s, k)) /\ Cardinality(Queue(s, k)) \in Nat
<1>1. Len(s) \in Nat /\ Queue(s, k) \in SUBSET (1..Len(s))
  BY LenProperties DEF Queue
<1>2. IsFiniteSet(1..Len(s))
  BY <1>1, FS_Interval
<1>3. IsFiniteSet(Queue(s, k))
  BY <1>1, <1>2, FS_Subset
<1>. QED  BY <1>3, FS_CardinalityType

\* r is s without some of its positions; D are positions that are gone.
LEMMA ShorterQueue ==
  ASSUME NEW S, NEW r \in Seq(S), NEW s \in Seq(S), NEW k, NEW D,
         NEW from \in [1..Len(r) -> 1..Len(s)],
         \A i, j \in 1..Len(r) : from[i] = from[j] => i = j,
         \A j \in 1..Len(r) : r[j] = s[from[j]] /\ from[j] \notin D
  PROVE  Cardinality(Queue(r, k)) <= Cardinality(Queue(s, k) \ D)
<1>. DEFINE g == [j \in Queue(r, k) |-> from[j]]
<1>1. \A j \in Queue(r, k) : j \in 1..Len(r) /\ r[j].kind = k
  BY DEF Queue
<1>2. \A j \in Queue(r, k) : from[j] \in Queue(s, k) \ D
  BY <1>1 DEF Queue
<1>3. g \in [Queue(r, k) -> Queue(s, k) \ D]
  BY <1>2
<1>4. \A i, j \in Queue(r, k) : g[i] = g[j] => i = j
  BY <1>1
<1>5. g \in Injection(Queue(r, k), Queue(s, k) \ D)
  <2>. HIDE DEF g
  <2>1. DOMAIN g = Queue(r, k)
    BY <1>3
  <2>. QED  BY <1>3, <1>4, <2>1, Zenon DEF Injection, IsInjective
<1>6. IsFiniteSet(Queue(s, k) \ D)
  BY QueueFinite, FS_Subset
<1>. QED  BY <1>5, <1>6, FS_Injection

LEMMA TailQueue ==
  ASSUME NEW S, NEW s \in Seq(S), s # <<>>, NEW k
  PROVE  Cardinality(Queue(Tail(s), k)) <= Cardinality(Queue(s, k))
<1>1. /\ Tail(s) \in Seq(S) /\ Len(s) \in Nat \ {0} /\ Len(Tail(s)) = Len(s) - 1
      /\ \A i \in 1..(Len(s) - 1) : Tail(s)[i] = s[i + 1]
  BY HeadTailProperties, EmptySeq, LenProperties
<1>. DEFINE from == [j \in 1..Len(Tail(s)) |-> j + 1]
<1>2. /\ from \in [1..Len(Tail(s)) -> 1..Len(s)]
      /\ \A j \in 1..Len(Tail(s)) : from[j] = j + 1
  BY <1>1
<1>3. /\ \A i, j \in 1..Len(Tail(s)) : from[i] = from[j] => i = j
      /\ \A j \in 1..Len(Tail(s)) : Tail(s)[j] = s[from[j]] /\ from[j] \notin {}
  BY <1>1, <1>2
<1>4. Cardinality(Queue(Tail(s), k)) <= Cardinality(Queue(s, k) \ {})
  <2>. HIDE DEF from
  <2>. QED  BY <1>1, <1>2, <1>3, ShorterQueue
<1>5. Queue(s, k) \ {} = Queue(s, k)
  OBVIOUS
<1>. QED  BY <1>4, <1>5

LEMMA RemoveAtQueue ==
  ASSUME NEW S, NEW s \in Seq(S), NEW i \in 1..Len(s), NEW k
  PROVE  Cardinality(Queue(RemoveAt(s, i), k)) <= Cardinality(Queue(s, k) \ {i})
<1>. DEFINE a == SubSeq(s, 1, i - 1)
            b == SubSeq(s, i + 1, Len(s))
            r == RemoveAt(s, i)
<1>1. Len(s) \in Nat
  BY LenProperties
<1>2. /\ a \in Seq(S) /\ Len(a) = i - 1
      /\ \A j \in 1..(i - 1) : a[j] = s[j]
  BY <1>1, SubSeqProperties
<1>3. /\ b \in Seq(S) /\ Len(b) = Len(s) - i
      /\ \A j \in 1..(Len(s) - i) : b[j] = s[i + j]
  BY <1>1, SubSeqProperties
<1>4. r = a \o b
  BY DEF RemoveAt
<1>. HIDE DEF a, b, r
<1>5. /\ r \in Seq(S) /\ Len(r) = Len(s) - 1
      /\ \A j \in 1..(Len(s) - 1) : r[j] = IF j <= i - 1 THEN a[j] ELSE b[j - (i - 1)]
  <2>1. /\ a \o b \in Seq(S)
        /\ Len(a \o b) = Len(a) + Len(b)
        /\ \A j \in 1..(Len(a) + Len(b)) :
             (a \o b)[j] = IF j <= Len(a) THEN a[j] ELSE b[j - Len(a)]
    BY <1>2, <1>3, ConcatProperties
  <2>2. Len(a) + Len(b) = Len(s) - 1
    BY <1>1, <1>2, <1>3
  <2>. QED  BY <1>2, <1>4, <2>1, <2>2
<1>. DEFINE from == [j \in 1..Len(r) |-> IF j < i THEN j ELSE j + 1]
<1>6. \A j \in 1..Len(r) : r[j] = s[IF j < i THEN j ELSE j + 1]
  <2>1. ASSUME NEW j \in 1..(Len(s) - 1), j < i
        PROVE  r[j] = s[j]
    BY <1>1, <1>2, <1>5, <2>1
  <2>2. ASSUME NEW j \in 1..(Len(s) - 1), ~(j < i)
        PROVE  r[j] = s[j + 1]
    <3>1. r[j] = b[j - (i - 1)]
      BY <1>1, <1>5, <2>2
    <3>2. j - (i - 1) \in 1..(Len(s) - i) /\ i + (j - (i - 1)) = j + 1
      BY <1>1, <2>2
    <3>3. b[j - (i - 1)] = s[i + (j - (i - 1))]
      BY <1>3, <3>2
    <3>. QED  BY <3>1, <3>2, <3>3
  <2>. QED  BY <1>5, <2>1, <2>2
<1>7. /\ from \in [1..Len(r) -> 1..Len(s)]
      /\ \A j \in 1..Len(r) : from[j] = IF j < i THEN j ELSE j + 1
  BY <1>1, <1>5
<1>8. /\ \A j, l \in 1..Len(r) : from[j] = from[l] => j = l
      /\ \A j \in 1..Len(r) : r[j] = s[from[j]] /\ from[j] \notin {i}
  BY <1>1, <1>5, <1>6, <1>7
<1>9. Cardinality(Queue(r, k)) <= Cardinality(Queue(s, k) \ {i})
  <2>. HIDE DEF from
  <2>. QED  BY <1>5, <1>7, <1>8, ShorterQueue
<1>. QED  BY <1>9 DEF r

LEMMA AppendQueue ==
  ASSUME NEW s \in Seq(Frames), NEW f \in Frames, NEW k
  PROVE  Cardinality(Queue(Append(s, f), k)) =
           IF f.kind = k THEN Cardinality(Queue(s, k)) + 1 ELSE Cardinality(Queue(s, k))
<1>1. /\ Len(Append(s, f)) = Len(s) + 1 /\ Len(s) \in Nat
      /\ \A i \in 1..Len(s) : Append(s, f)[i] = s[i]
      /\ Append(s, f)[Len(s) + 1] = f
  BY AppendProperties, LenProperties
<1>2. Queue(Append(s, f), k) =
        IF f.kind = k THEN Queue(s, k) \cup {Len(s) + 1} ELSE Queue(s, k)
  BY <1>1 DEF Queue
<1>3. Len(s) + 1 \notin Queue(s, k)
  BY <1>1 DEF Queue
<1>. QED  BY <1>2, <1>3, QueueFinite, FS_AddElement

LEMMA OrphanQueue ==
  ASSUME NEW s \in Seq(Frames), NEW t \in Threads, NEW k
  PROVE  Queue(Orphan(s, t), k) = Queue(s, k)
<1>1. Len(s) \in Nat /\ \A i \in 1..Len(s) : s[i] \in Frames
  BY LenProperties, ElementOfSeq
<1>2. /\ Len(Orphan(s, t)) = Len(s)
      /\ \A i \in 1..Len(s) : Orphan(s, t)[i] =
           IF s[i].by = t THEN [s[i] EXCEPT !.by = NoThread] ELSE s[i]
  BY OrphanElems DEF Orphan
<1>3. \A i \in 1..Len(s) : Orphan(s, t)[i].kind = s[i].kind
  BY <1>1, <1>2 DEF Frames
<1>. QED  BY <1>2, <1>3 DEF Queue

\* Every entry is an answer, and no queue is longer than kQueueMax.
Filled(s) ==
  /\ \A f \in Elems(s) : f.kind \in {"rsp", "err"}
  /\ \A k \in {"rsp", "err"} : Cardinality(Queue(s, k)) <= QueueMax

\* What TypeOK says beside Typed.
Bounded ==
  /\ \A c \in Mail : Filled(mail[c])
  /\ late \in [Threads -> BOOLEAN]
  /\ state \in BOOLEAN /\ errors \in Nat /\ readerError \in BOOLEAN
  /\ reader \in {"running", "posting", "ended"} /\ stop \in BOOLEAN
  /\ closer \in {"no", "stopping", "closed"}
  /\ portOpen \in BOOLEAN /\ linkGone \in BOOLEAN

LEMMA FilledEmpty == Filled(<<>>)
<1>1. \A k : Queue(<<>>, k) = {}
  BY DEF Queue
<1>2. Cardinality({}) = 0
  BY FS_EmptySet
<1>3. 0 <= QueueMax
  BY AckAssumption
<1>4. Elems(<<>>) = {}
  BY DEF Elems
<1>. QED  BY <1>1, <1>2, <1>3, <1>4 DEF Filled

LEMMA FilledOrphan ==
  ASSUME NEW s \in Seq(Frames), Filled(s), NEW t \in Threads
  PROVE  Filled(Orphan(s, t))
<1>1. \A f \in Elems(Orphan(s, t)) : f.kind \in {"rsp", "err"}
  BY OrphanElems DEF Filled
<1>. QED  BY <1>1, OrphanQueue DEF Filled

LEMMA FilledTail ==
  ASSUME NEW s \in Seq(Frames), s # <<>>, Filled(s)
  PROVE  Filled(Tail(s))
<1>1. Tail(s) \in Seq(Frames) /\ Elems(Tail(s)) \subseteq Elems(s)
  BY TailElems
<1>2. ASSUME NEW k \in {"rsp", "err"}  PROVE Cardinality(Queue(Tail(s), k)) <= QueueMax
  <2>1. PICK m, n \in Nat : m = Cardinality(Queue(Tail(s), k)) /\ n = Cardinality(Queue(s, k))
    BY <1>1, QueueFinite
  <2>2. m <= n
    BY <2>1, TailQueue
  <2>3. n <= QueueMax
    BY <2>1 DEF Filled
  <2>. QED  BY <2>1, <2>2, <2>3, AckAssumption
<1>. QED  BY <1>1, <1>2 DEF Filled

\* deliver makes room in a full queue before it adds to it, and leaves the other kind alone.
LEMMA FilledDeliver ==
  ASSUME Typed, NEW f \in Frames, f.kind \in {"rsp", "err"}, Filled(mail[f.cmd]),
         NEW m \in DeliverAnswer(f)
  PROVE  Filled(m)
<1>. DEFINE s == mail[f.cmd]
<1>1. s \in Seq(Frames)
  BY DEF Typed, Frames
<1>2. \A g \in Elems(m) : g.kind \in {"rsp", "err"}
  BY DeliverElems DEF Filled
<1>3. \/ Cardinality(Queue(s, f.kind)) < QueueMax /\ m = Append(s, f)
      \/ \E i \in Queue(s, f.kind) : m = Append(RemoveAt(s, i), f)
  BY DEF DeliverAnswer
<1>4. \A k \in {"rsp", "err"} : Cardinality(Queue(s, k)) <= QueueMax
  BY DEF Filled
<1>. HIDE DEF s
<1>5. ASSUME NEW k \in {"rsp", "err"}  PROVE Cardinality(Queue(m, k)) <= QueueMax
  <2>1. PICK n \in Nat : n = Cardinality(Queue(s, k))
    BY <1>1, QueueFinite
  <2>2. n <= QueueMax
    BY <1>4, <2>1
  <2>3. CASE Cardinality(Queue(s, f.kind)) < QueueMax /\ m = Append(s, f)
    <3>1. Cardinality(Queue(m, k)) = IF f.kind = k THEN n + 1 ELSE n
      BY <1>1, <2>1, <2>3, AppendQueue
    <3>2. f.kind = k => n < QueueMax
      BY <2>1, <2>3
    <3>. QED  BY <2>2, <3>1, <3>2, AckAssumption
  <2>4. CASE \E i \in Queue(s, f.kind) : m = Append(RemoveAt(s, i), f)
    <3>1. PICK i \in Queue(s, f.kind) : m = Append(RemoveAt(s, i), f)
      BY <2>4
    <3>2. i \in 1..Len(s)
      BY DEF Queue
    <3>3. RemoveAt(s, i) \in Seq(Frames)
      BY <1>1, <3>2, RemoveAtElems
    <3>4. PICK l \in Nat : l = Cardinality(Queue(RemoveAt(s, i), k))
      BY <3>3, QueueFinite
    <3>5. PICK d \in Nat : d = Cardinality(Queue(s, k) \ {i})
                        /\ d = (IF i \in Queue(s, k) THEN n - 1 ELSE n)
      <4>1. IsFiniteSet(Queue(s, k)) /\ IsFiniteSet(Queue(s, k) \ {i})
        BY <1>1, QueueFinite, FS_RemoveElement
      <4>2. Cardinality(Queue(s, k) \ {i}) \in Nat
        BY <4>1, FS_CardinalityType
      <4>3. Cardinality(Queue(s, k) \ {i}) = IF i \in Queue(s, k) THEN n - 1 ELSE n
        BY <2>1, <4>1, FS_RemoveElement
      <4>. QED  BY <4>2, <4>3
    <3>6. l <= d
      BY <1>1, <3>2, <3>4, <3>5, RemoveAtQueue
    <3>7. Cardinality(Queue(m, k)) = IF f.kind = k THEN l + 1 ELSE l
      BY <3>1, <3>3, <3>4, AppendQueue
    <3>8. CASE f.kind = k
      <4>1. d = n - 1
        BY <3>5, <3>8
      <4>. QED  BY <2>2, <3>6, <3>7, <3>8, <4>1, AckAssumption
    <3>9. CASE f.kind # k
      <4>1. d <= n
        BY <3>5
      <4>. QED  BY <2>2, <3>6, <3>7, <3>9, <4>1, AckAssumption
    <3>. QED  BY <3>8, <3>9
  <2>. QED  BY <1>3, <2>3, <2>4
<1>. QED  BY <1>2, <1>5 DEF Filled

LEMMA EndBounded ==
  ASSUME Typed, Bounded, NEW t \in Threads, NEW m \in [Mail -> Seq(Frames)],
         \A c \in Mail : Filled(m[c]), End(t, m)
  PROVE  (\A c \in Mail : Filled(mail'[c])) /\ late' \in [Threads -> BOOLEAN]
<1>1. \A c \in Mail : m[c] \in Seq(Frames)
  OBVIOUS
<1>2. \A c \in Mail : Filled(Orphan(m[c], t))
  BY <1>1, FilledOrphan
<1>. QED  BY <1>2 DEF End, Bounded

LEMMA BoundedStep == Typed /\ Bounded /\ [Next]_vars => Bounded'
<1>. SUFFICES ASSUME Typed, Bounded, [Next]_vars PROVE Bounded'
  OBVIOUS
<1>. USE DEF callVars, ackVars, runVars, linkVars, ghosts
<1>1. ASSUME NEW t \in Threads, Entered(t)
      PROVE  Bounded'
  <2>1. PICK o \in Commands \cup {"now"} : Begin(t, o)
    BY <1>1, EnteredBegin
  <2>2. CommandOf(o) \in Mail /\ mail' = [mail EXCEPT ![CommandOf(o)] = <<>>]
    BY <2>1, CommandType DEF Begin
  <2>3. \A c \in Mail : mail'[c] \in {mail[c], <<>>}
    BY <2>2 DEF Typed
  <2>4. \A c \in Mail : Filled(mail'[c])
    BY <2>3, FilledEmpty DEF Bounded
  <2>. QED  BY <2>1, <2>4 DEF Begin, Enter, Bounded
<1>2. ASSUME NEW t \in Threads, Watch(t)
      PROVE  Bounded'
  BY <1>2 DEF Watch, Enter, Bounded
<1>3. ASSUME NEW t \in Threads, Call(t)
      PROVE  Bounded'
  <2>1. CASE Write(t) \/ Await(t) \/ Sleep(t)
    BY <2>1 DEF Write, Await, Sleep, Bounded
  <2>2. CASE Pumped(t)
    BY <2>2 DEF Pumped, Bounded
  <2>3. CASE Raise(t) /\ UNCHANGED <<state, runVars>>
    <3>1. End(t, mail) /\ mail \in [Mail -> Seq(Frames)]
      BY <2>3 DEF Raise, Typed
    <3>2. (\A c \in Mail : Filled(mail'[c])) /\ late' \in [Threads -> BOOLEAN]
      BY <3>1, EndBounded DEF Bounded
    <3>3. errors' \in Nat /\ readerError' = readerError
      BY <1>3, <2>3 DEF Call, Write, WriteFails, Await, TakeAnswer, RaiseError, LinkLost, TimeOut,
                        Pumped, Judge, Sleep, Bounded
    <3>. QED  BY <2>3, <3>2, <3>3 DEF Bounded
  <2>4. CASE Mine(t) # <<>> /\ Take(t) /\ UNCHANGED <<state, errors, readerError, runVars>>
    <3>. DEFINE m == [mail EXCEPT ![Cmd(t)] = Tail(@)]
    <3>1. Cmd(t) \in Mail /\ m \in [Mail -> Seq(Frames)] /\ End(t, m)
      BY <2>4, TakeMail DEF Take
    <3>2. mail[Cmd(t)] \in Seq(Frames) /\ mail[Cmd(t)] # <<>> /\ Filled(mail[Cmd(t)])
      BY <2>4, <3>1 DEF Mine, Typed, Bounded
    <3>3. Filled(Tail(mail[Cmd(t)]))
      BY <3>2, FilledTail
    <3>4. \A c \in Mail : m[c] = IF c = Cmd(t) THEN Tail(mail[Cmd(t)]) ELSE mail[c]
      BY DEF Typed
    <3>5. \A c \in Mail : Filled(m[c])
      <4>. HIDE DEF m
      <4>. QED  BY <3>3, <3>4 DEF Bounded
    <3>. HIDE DEF m
    <3>. QED  BY <2>4, <3>1, <3>5, EndBounded DEF Bounded
  <2>. QED  BY <1>3, <2>1, <2>2, <2>3, <2>4, CallEnds
<1>4. ASSUME NEW t \in Threads, Expire(t)
      PROVE  Bounded'
  BY <1>4 DEF Expire, Bounded
<1>5. CASE ReadAnswer
  <2>. DEFINE f == Head(up)
  <2>1. f \in Frames /\ f.cmd \in Mail /\ f.kind \in {"rsp", "err"}
    BY <1>5, TakenOffType DEF ReadAnswer
  <2>2. PICK m \in DeliverAnswer(f) : mail' = [mail EXCEPT ![f.cmd] = m]
    BY <1>5 DEF ReadAnswer
  <2>. HIDE DEF f
  <2>3. Filled(m)
    BY <2>1, FilledDeliver DEF Bounded
  <2>4. \A c \in Mail : mail'[c] \in {mail[c], m}
    BY <2>1, <2>2 DEF Typed
  <2>5. \A c \in Mail : Filled(mail'[c])
    BY <2>3, <2>4 DEF Bounded
  <2>. QED  BY <1>5, <2>5 DEF ReadAnswer, TakenOff, Loop, Bounded
<1>6. CASE ReadStatus \/ ReadPlan
  BY <1>6 DEF ReadStatus, ReadPlan, TakenOff, Loop, Bounded
<1>7. CASE PostPlan \/ ReaderDies \/ ReaderStops
  <2>1. CASE PostPlan
    <3>1. errors' \in Nat
      BY <2>1 DEF PostPlan, Bounded
    <3>2. reader' \in {"running", "posting", "ended"}
      BY <2>1 DEF PostPlan, Loop
    <3>. QED  BY <2>1, <3>1, <3>2 DEF PostPlan, Bounded
  <2>2. CASE ReaderDies
    BY <2>2 DEF ReaderDies, Bounded
  <2>3. CASE ReaderStops
    BY <2>3 DEF ReaderStops, Bounded
  <2>. QED  BY <1>7, <2>1, <2>2, <2>3
<1>8. CASE StopReader \/ ClosePort
  BY <1>8 DEF StopReader, ClosePort, Bounded
<1>9. CASE Reconnect
  BY <1>9, FilledEmpty DEF Reconnect, Bounded
<1>10. CASE FwAnswer \/ FwStream \/ LoseFrame \/ Unplug
  BY <1>10 DEF FwAnswer, FwStream, LoseFrame, Unplug, Bounded
<1>11. CASE UNCHANGED vars
  BY <1>11 DEF vars, Bounded
<1>. QED  BY <1>1, <1>2, <1>3, <1>4, <1>5, <1>6, <1>7, <1>8, <1>9, <1>10, <1>11
          DEF Next, Reader, Entered

LEMMA TypesMeet == Typed /\ Bounded => TypeOK
<1>. SUFFICES ASSUME Typed, Bounded PROVE TypeOK
  OBVIOUS
<1>. DEFINE Answers == [kind : {"rsp", "err"}, cmd : Mail, by : Threads \cup {NoThread}]
<1>1. ASSUME NEW c \in Mail  PROVE mail[c] \in Seq(Answers)
  <2>1. mail[c] \in Seq(Frames) /\ Filled(mail[c])
    BY DEF Typed, Bounded
  <2>2. Len(mail[c]) \in Nat /\ \A i \in 1..Len(mail[c]) : mail[c][i] \in Frames
    BY <2>1, LenProperties, ElementOfSeq
  <2>3. \A i \in 1..Len(mail[c]) : mail[c][i].kind \in {"rsp", "err"}
    BY <2>1 DEF Filled, Elems
  <2>4. \A g \in Frames : g.kind \in {"rsp", "err"} => g \in Answers
    BY DEF Frames
  <2>5. \A i \in 1..Len(mail[c]) : mail[c][i] \in Answers
    BY <2>2, <2>3, <2>4
  <2>6. mail[c] = [i \in 1..Len(mail[c]) |-> mail[c][i]]
    BY <2>1, LenProperties
  <2>. HIDE DEF Answers
  <2>. QED  BY <2>2, <2>5, <2>6, IsASeq
<1>2. mail \in [Mail -> Seq(Answers)]
  BY <1>1 DEF Typed
<1>3. \A c \in Mail, k \in {"rsp", "err"} : Cardinality(Queue(mail[c], k)) <= QueueMax
  BY DEF Bounded, Filled
<1>. QED  BY <1>2, <1>3 DEF Typed, Bounded, TypeOK

\* For any number of threads, commands and frames: deliver keeps every queue of Ack within
\* kQueueMax, and everything in it is an answer.
THEOREM QueuesAreBounded == Spec => []TypeOK
<1>1. Init => Typed /\ Bounded
  <2>1. ASSUME Init  PROVE Bounded
    <3>1. \A c \in Mail : mail[c] = <<>>
      BY <2>1 DEF Init
    <3>2. \A c \in Mail : Filled(mail[c])
      BY <3>1, FilledEmpty
    <3>. QED  BY <2>1, <3>2 DEF Init, Bounded
  <2>. QED  BY <2>1, TypedInit
<1>2. Typed /\ Bounded /\ [Next]_vars => (Typed /\ Bounded)'
  BY TypedStep, BoundedStep
<1>3. Typed /\ Bounded => TypeOK
  BY TypesMeet
<1>. QED  BY <1>1, <1>2, <1>3, PTL DEF Spec
=============================================================================
