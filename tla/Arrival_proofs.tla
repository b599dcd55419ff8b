--------------------------- MODULE Arrival_proofs ---------------------------
(***************************************************************************)
(* What a motion call may rely on when it says that the arm has arrived,   *)
(* proved for every value of the constants.                                *)
(*                                                                         *)
(* A frame tells of the arm as it was.  It can be believed because what it *)
(* tells is final: a trajectory that is over, or torn away, stays so.  The *)
(* work is in showing which frames the call looks at: they come in order,  *)
(* those behind the answer were generated after the command, and at most   *)
(* one frame of before is ever judged.                                     *)
(***************************************************************************)
EXTENDS Arrival, SequenceTheorems, TLAPS

(* The window of still frames is longer than the firmware takes to show     *)
(* CART_BUSY, one frame of before the command included.                     *)
WindowOutlastsDelay == ArriveFrames > BusyDelay + 1

Final == {"over", "torn"}
InFlight(i) == air[i].is = "status"
Answered == pc \in {"acked", "waiting", "reading", "napping"}

(* Frames arrive in the order in which they were generated, and those        *)
(* behind the answer were generated after the command was accepted.          *)
Stream ==
    /\ seen.n <= dev.n /\ born <= dev.n /\ mark <= seen.n
    /\ \A i \in 1..Len(air) : InFlight(i) => seen.n < air[i].n /\ air[i].n <= dev.n
    /\ \A i, j \in 1..Len(air) : InFlight(i) /\ InFlight(j) /\ i < j => air[i].n < air[j].n
Answers ==
    /\ \A i \in 1..Len(air) : ~InFlight(i) => pc = "sent"
    /\ \A i, j \in 1..Len(air) : ~InFlight(i) /\ ~InFlight(j) => i = j
    /\ \A i, j \in 1..Len(air) :
          air[i].is = "ack" /\ InFlight(j) /\ i < j => air[j].n > born
    /\ Answered => \A i \in 1..Len(air) : air[i].n > born
    /\ Answered /\ pc # "acked" /\ news => seen.n > born

(* What a frame tells of the motion: at the goal it is over; not busy, and   *)
(* late enough to say so, it is over or torn away.                           *)
Tells(f) ==
    /\ f.place = "goal" => dev.motion = "over"
    /\ dev.motion # "none" /\ f.n > born + BusyDelay /\ ~f.busy => dev.motion \in Final
Truth ==
    /\ pc \in {"idle", "collecting", "called"} => dev.motion = "none"
    /\ Answered \/ (\E i \in 1..Len(air) : air[i].is = "ack") => dev.motion # "none"
    /\ dev.place = "goal" => dev.motion = "over"
    /\ dev.motion \in {"planned", "running"} => dev.shy = 0 \/ dev.n + dev.shy <= born + BusyDelay
    /\ Tells(seen)
    /\ \A i \in 1..Len(air) : InFlight(i) => Tells(air[i])

(* The frames counted: each once, at most one of them of before the command. *)
Counted ==
    /\ pc \notin {"waiting", "reading", "napping", "done"} => last = NoFrame /\ count = 0
    /\ pc # "done" =>
          /\ last <= seen.n
          /\ last = NoFrame => count = 0
          /\ last # NoFrame => last = seen.n \/ seen.n > born
          /\ kind = "settle" => count <= 1 \/ count + born <= last + 1
          /\ kind = "arrive" => count < ArriveFrames
    /\ kind = "settle" /\ pc = "reading" /\ WindowOutlastsDelay => dev.motion \in Final

\* The clocks of arrive: what is left of the budget and what has passed of it.
Timed ==
    /\ Timing /\ kind = "arrive" =>
          pc = "waiting" /\ elapsed + left <= CapFactor * Budget[kind] + Budget[kind]
    /\ kind = "arrive" /\ pc = "waiting" /\ ~news /\ ~seen.still
          => left + (dev.n - seen.n) >= Budget[kind]
    /\ pc # "done" => outcome = "none"

\* The clocks of the others: a wait of wait_settled is clipped to what is left, the query
\* behind it is not; move_p opens a round while time is left and then runs it to its end.
Spent == CASE pc = "waiting" -> Slice
           [] pc = "reading" -> Slice + PoseWindow
           [] OTHER -> Slice + PoseWindow + Nap
Rounds ==
    /\ pc = "napping" => kind = "pose"
    /\ kind = "settle" /\ pc = "waiting" => elapsed + left <= Budget[kind]
    /\ kind = "settle" /\ pc = "reading" => elapsed + slice <= Budget[kind] + PoseWindow
    /\ kind = "pose" /\ Timing => left = 0 \/ elapsed + left <= Budget[kind]
    /\ kind = "pose" /\ Timing => elapsed + slice <= Budget[kind] - 1 + Spent

ArrivalInv == TypeOK /\ Stream /\ Answers /\ Truth /\ Counted /\ Timed /\ Rounds

----------------------------------------------------------------------------
(* The sequence of frames and answers on their way.                        *)

LEMMA AirTyped ==
  ASSUME TypeOK
  PROVE  /\ Len(air) \in Nat
         /\ \A i \in 1..Len(air) : air[i] \in Frames \cup {Answer("ack"), Answer("err")}
         /\ \A i \in 1..Len(air) : /\ InFlight(i) => air[i] \in Frames
                                   /\ ~InFlight(i) => air[i] \in {Answer("ack"), Answer("err")}
<1>1. /\ Len(air) \in Nat
      /\ \A i \in 1..Len(air) : air[i] \in Frames \cup {Answer("ack"), Answer("err")}
  BY LenProperties DEF TypeOK
<1>2. \A f \in Frames : f.is = "status"
  BY DEF Frames
<1>3. Answer("ack").is = "ack" /\ Answer("err").is = "err"
  BY DEF Answer
<1>. QED  BY <1>1, <1>2, <1>3 DEF InFlight

LEMMA AirTail ==
  ASSUME TypeOK, air # <<>>, air' = Tail(air)
  PROVE  /\ Head(air) = air[1] /\ Len(air) \in Nat \ {0} /\ Len(air') = Len(air) - 1
         /\ \A i \in 1..Len(air') : air'[i] = air[i + 1] /\ i + 1 \in 1..Len(air)
         /\ air' \in Seq(Frames \cup {Answer("ack"), Answer("err")})
<1>1. air \in Seq(Frames \cup {Answer("ack"), Answer("err")})
  BY DEF TypeOK
<1>2. /\ Head(air) = air[1] /\ Len(air) \in Nat \ {0} /\ Len(air') = Len(air) - 1
      /\ \A i \in 1..(Len(air) - 1) : air'[i] = air[i + 1]
      /\ air' \in Seq(Frames \cup {Answer("ack"), Answer("err")})
  BY <1>1, HeadTailProperties, EmptySeq, LenProperties
<1>. QED  BY <1>2

LEMMA AirAppend ==
  ASSUME TypeOK, NEW e \in Frames \cup {Answer("ack"), Answer("err")}, air' = Append(air, e)
  PROVE  /\ Len(air) \in Nat /\ Len(air') = Len(air) + 1
         /\ \A i \in 1..Len(air) : air'[i] = air[i]
         /\ air'[Len(air) + 1] = e
         /\ air' \in Seq(Frames \cup {Answer("ack"), Answer("err")})
<1>1. air \in Seq(Frames \cup {Answer("ack"), Answer("err")})
  BY DEF TypeOK
<1>. QED  BY <1>1, AppendProperties, LenProperties

\* The frame the firmware sends at the end of a period.
LEMMA Reported ==
  ASSUME TypeOK, NEW still \in BOOLEAN, dev.n < FirstSeq + MaxTicks
  PROVE  /\ Report(still) \in Frames
         /\ Report(still).is = "status" /\ Report(still).n = dev.n + 1
         /\ Report(still).place = dev.place /\ Report(still).busy = Busy
<1>1. /\ dev.n + 1 \in FirstSeq .. FirstSeq + MaxTicks
      /\ dev.place \in Places /\ dev.fault \in BOOLEAN /\ Busy \in BOOLEAN
  BY ArrivalAssumption DEF TypeOK, Busy
<1>. QED  BY <1>1 DEF Report, Frames

----------------------------------------------------------------------------
(* Types.                                                                  *)

LEMMA DownType ==
  ASSUME NEW m \in Nat, NEW k \in 0 .. m
  PROVE  Down(k) \in 0 .. m /\ Down(k) <= k /\ Down(k) + 1 >= k /\ (k > 0 => Down(k) + 1 = k)
BY DEF Down

LEMMA BudgetType ==
  ASSUME TypeOK
  PROVE  Budget[kind] \in Nat \ {0} /\ CapFactor * Budget[kind] \in Nat
<1>1. Budget[kind] \in Nat \ {0} /\ CapFactor \in Nat \ {0}
  BY ArrivalAssumption DEF TypeOK
<1>. QED  BY <1>1

Motions == {"none", "planned", "running", "over", "torn"}
Arms == [place : Places, going : BOOLEAN, fault : BOOLEAN, shy : 0 .. BusyDelay,
         motion : Motions, n : FirstSeq .. FirstSeq + MaxTicks]

LEMMA ArmType ==
  ASSUME TypeOK
  PROVE  /\ dev \in Arms /\ dev.n \in Nat \ {0} /\ dev.shy \in Nat /\ dev.shy <= BusyDelay
         /\ dev.n <= FirstSeq + MaxTicks
         /\ seen \in Frames /\ seen.n \in Nat \ {0} /\ seen.n <= FirstSeq + MaxTicks
<1>1. dev \in Arms /\ seen \in Frames
  BY DEF TypeOK, Arms, Motions
<1>. QED  BY <1>1, ArrivalAssumption DEF Arms, Frames

\* What the arm does in a frame period.
LEMMA PhysicsType ==
  ASSUME TypeOK, Physics
  PROVE  /\ dev' \in Arms
         /\ dev'.n = dev.n /\ dev'.shy = dev.shy
         /\ dev.motion \in Final => dev'.motion = dev.motion
         /\ dev'.motion = "none" <=> dev.motion = "none"
         /\ dev'.motion \in {"planned", "running"} => dev.motion \in {"planned", "running"}
         /\ dev'.place = "goal" => dev.place = "goal" \/ dev'.motion = "over"
<1>1. dev \in Arms
  BY ArmType
<1>2. CASE Moves
  <2>1. CASE dev.motion = "planned" /\ dev' = [dev EXCEPT !.motion = "running", !.going = TRUE,
                                                          !.place = "between"]
    BY <1>1, <2>1 DEF Arms, Motions, Places, Final
  <2>2. CASE dev.motion = "running" /\ dev' = [dev EXCEPT !.motion = "over", !.going = FALSE,
                                                          !.place = "goal"]
    BY <1>1, <2>2 DEF Arms, Motions, Places, Final
  <2>. QED  BY <1>2, <2>1, <2>2 DEF Moves
<1>3. CASE Foreign
  <2>1. CASE /\ dev.motion \in {"planned", "running"}
             /\ dev' = [dev EXCEPT !.motion = "torn", !.going = TRUE, !.place = "between"]
    BY <1>1, <2>1 DEF Arms, Motions, Places, Final
  <2>2. CASE /\ dev.motion = "torn"
             /\ dev' = [dev EXCEPT !.going = FALSE, !.place = "elsewhere"]
    BY <1>1, <2>2 DEF Arms, Motions, Places, Final
  <2>. QED  BY <1>3, <2>1, <2>2 DEF Foreign
<1>4. CASE Faults
  BY <1>1, <1>4 DEF Faults, Arms
<1>5. CASE Clears
  BY <1>1, <1>5 DEF Clears, Arms
<1>. QED  BY <1>2, <1>3, <1>4, <1>5 DEF Physics

LEMMA TickType ==
  ASSUME TypeOK, Tick
  PROVE  /\ dev' \in Arms
         /\ dev'.n = dev.n + 1 /\ dev'.motion = dev.motion /\ dev'.place = dev.place
         /\ dev.motion \in {"planned", "running"} => dev'.shy = Down(dev.shy)
         /\ \/ air' = air
            \/ \E still \in BOOLEAN : air' = Append(air, Report(still)) /\ Len(air) < AirMax
<1>1. dev \in Arms
  BY ArmType
<1>2. dev.n + 1 \in FirstSeq .. FirstSeq + MaxTicks
  BY <1>1, ArrivalAssumption DEF Tick, Arms
<1>3. Down(dev.shy) \in 0 .. BusyDelay
  BY <1>1, ArrivalAssumption, DownType DEF Arms
<1>4. PICK s \in 0 .. BusyDelay :
         /\ dev' = [dev EXCEPT !.n = dev.n + 1, !.shy = s]
         /\ dev.motion \in {"planned", "running"} => s = Down(dev.shy)
  <2>1. CASE dev.motion \in {"planned", "running"}
    <3>1. dev' = [dev EXCEPT !.n = dev.n + 1, !.shy = Down(dev.shy)]
      BY <1>1, <2>1 DEF Tick, Arms
    <3>. QED  BY <1>3, <3>1
  <2>2. CASE dev.motion \notin {"planned", "running"}
    <3>1. dev' = [dev EXCEPT !.n = dev.n + 1, !.shy = dev.shy] /\ dev.shy \in 0 .. BusyDelay
      BY <1>1, <2>2 DEF Tick, Arms
    <3>. QED  BY <2>2, <3>1
  <2>. QED  BY <2>1, <2>2
<1>5. /\ dev' \in Arms
      /\ dev'.n = dev.n + 1 /\ dev'.motion = dev.motion /\ dev'.place = dev.place
      /\ dev.motion \in {"planned", "running"} => dev'.shy = Down(dev.shy)
  BY <1>1, <1>2, <1>4 DEF Arms
<1>6. \/ air' = air
      \/ \E still \in BOOLEAN : air' = Append(air, Report(still)) /\ Len(air) < AirMax
  BY DEF Tick
<1>. QED  BY <1>5, <1>6

LEMMA SendType ==
  ASSUME TypeOK, Send
  PROVE  /\ dev' \in Arms
         /\ dev'.n = dev.n /\ dev'.place = dev.place
         /\ \/ air' = Append(air, Answer("err")) /\ dev' = dev /\ born' = born
            \/ /\ air' = Append(air, Answer("ack")) /\ born' = dev.n
               /\ dev'.motion = "planned" /\ dev'.shy = BusyDelay
<1>1. dev \in Arms
  BY ArmType
<1>2. CASE air' = Append(air, Answer("err")) /\ UNCHANGED <<dev, born>>
  BY <1>1, <1>2
<1>3. CASE /\ air' = Append(air, Answer("ack")) /\ born' = dev.n
           /\ dev' = [dev EXCEPT !.motion = "planned", !.shy = BusyDelay]
  <2>1. BusyDelay \in 0 .. BusyDelay /\ "planned" \in Motions
    BY ArrivalAssumption DEF Motions
  <2>. QED  BY <1>1, <1>3, <2>1 DEF Arms
<1>. QED  BY <1>2, <1>3 DEF Send

----------------------------------------------------------------------------
(* The steps that leave the world alone.                                   *)

LEMMA StatusOnly ==
  ASSUME TypeOK, Answers, pc # "sent"
  PROVE  \A i \in 1..Len(air) : InFlight(i) /\ air[i] \in Frames /\ air[i].n \in Nat
<1>1. \A i \in 1..Len(air) : InFlight(i) /\ air[i] \in Frames
  BY AirTyped DEF Answers
<1>2. \A f \in Frames : f.n \in Nat
  BY ArrivalAssumption DEF Frames
<1>. QED  BY <1>1, <1>2

\* A step of the caller that neither the arm nor the link takes part in.
Quiet ==
    /\ UNCHANGED world /\ mark' \in {mark, seen.n}
    /\ pc # "sent" /\ pc' # "sent" /\ (Answered' => Answered)
    /\ Answered' /\ pc' # "acked" /\ news' => pc # "acked" /\ news
    /\ pc' \in {"idle", "collecting", "called"} => pc \in {"idle", "collecting", "called"}

LEMMA QuietStep ==
  ASSUME TypeOK, Stream, Answers, Truth, Quiet
  PROVE  Stream' /\ Answers' /\ Truth'
<1>1. /\ dev' = dev /\ air' = air /\ seen' = seen /\ born' = born /\ kind' = kind
      /\ mark' \in {mark, seen.n}
  BY DEF Quiet, world
<1>2. \A i : InFlight(i)' <=> InFlight(i)
  BY <1>1 DEF InFlight
<1>3. \A f : Tells(f)' <=> Tells(f)
  BY <1>1 DEF Tells
<1>4. Stream'
  <2>1. seen.n \in Nat /\ seen.n <= seen.n
    BY ArmType
  <2>. QED  BY <1>1, <1>2, <2>1 DEF Stream
<1>5. Answers'
  <2>1. \A i \in 1..Len(air) : InFlight(i)
    BY StatusOnly DEF Quiet
  <2>2. \A i, j \in 1..Len(air) :
           air[i].is = "ack" /\ InFlight(j) /\ i < j => air[j].n > born
    BY DEF Answers
  <2>3. Answered' => \A i \in 1..Len(air) : air[i].n > born
    BY DEF Answers, Quiet
  <2>4. Answered' /\ pc' # "acked" /\ news' => seen.n > born
    BY DEF Answers, Quiet
  <2>. QED  BY <1>1, <1>2, <2>1, <2>2, <2>3, <2>4 DEF Answers
<1>6. Truth'
  <2>1. pc' \in {"idle", "collecting", "called"} => dev.motion = "none"
    BY DEF Truth, Quiet
  <2>2. Answered' \/ (\E i \in 1..Len(air) : air[i].is = "ack") => dev.motion # "none"
    BY DEF Truth, Quiet
  <2>3. Tells(seen)' /\ \A i \in 1..Len(air) : InFlight(i) => Tells(air[i])'
    BY <1>1, <1>3 DEF Truth, Tells
  <2>. QED  BY <1>1, <1>2, <2>1, <2>2, <2>3 DEF Truth
<1>. QED  BY <1>4, <1>5, <1>6

\* The call before its answer.
LEMMA BeforeStep ==
  ASSUME ArrivalInv, Call \/ CallArc \/ CallPath \/ AddPoint
  PROVE  ArrivalInv'
<1>. USE DEF ArrivalInv
<1>1. /\ pc \in {"idle", "collecting"} /\ pc' \in {"collecting", "called", "done"}
      /\ pc' # "done" => outcome' = outcome
      /\ outcome' \in {outcome, "noanswer", "invalid", "rejected"}
      /\ mark' \in {mark, seen.n} /\ points' \in 0 .. MaxPoints
      /\ UNCHANGED world /\ UNCHANGED news /\ UNCHANGED judged /\ UNCHANGED clocks
  <2>1. points \in 0 .. MaxPoints /\ (points > 0 => points - 1 \in 0 .. MaxPoints)
        /\ MaxPoints \in Nat /\ 1 .. MaxPoints \subseteq 0 .. MaxPoints
    BY ArrivalAssumption DEF TypeOK
  <2>2. CASE Call
    BY <2>1, <2>2 DEF Call
  <2>3. CASE CallArc
    BY <2>1, <2>3 DEF CallArc, Return
  <2>4. CASE CallPath
    BY <2>1, <2>4 DEF CallPath
  <2>5. CASE AddPoint
    BY <2>1, <2>5 DEF AddPoint, Return
  <2>. QED  BY <2>2, <2>3, <2>4, <2>5
<1>2. /\ dev' = dev /\ air' = air /\ seen' = seen /\ born' = born /\ kind' = kind
      /\ link' = link /\ moved' = moved /\ last' = last /\ prev' = prev /\ count' = count
      /\ elapsed' = elapsed /\ left' = left /\ slice' = slice /\ news' = news
  BY <1>1 DEF world, judged, clocks
<1>3. TypeOK'
  <2>1. mark' \in Nat
    BY <1>1, ArmType DEF TypeOK
  <2>. QED  BY <1>1, <1>2, <2>1 DEF TypeOK, Ends
<1>4. Stream' /\ Answers' /\ Truth'
  BY <1>1, QuietStep DEF Quiet, Answered
<1>5. Counted'
  BY <1>1, <1>2 DEF Counted
<1>6. Timed' /\ Rounds'
  BY <1>1, <1>2 DEF Timed, Rounds, Timing
<1>. QED  BY <1>3, <1>4, <1>5, <1>6

\* The wait opens on nothing: what was received before is not news.
LEMMA StartStep ==
  ASSUME ArrivalInv, Start
  PROVE  ArrivalInv'
<1>. USE DEF ArrivalInv
<1>1. /\ dev' = dev /\ air' = air /\ seen' = seen /\ born' = born /\ kind' = kind
      /\ link' = link /\ moved' = moved /\ last' = last /\ prev' = prev /\ count' = count
      /\ mark' = mark /\ points' = points /\ outcome' = outcome
      /\ pc = "acked" /\ pc' = "waiting" /\ news' = FALSE
      /\ elapsed' = 0 /\ left' = Budget[kind] /\ slice' = Slice
  BY DEF Start, world, asked, judged
<1>2. Budget[kind] \in Nat \ {0} /\ CapFactor * Budget[kind] \in Nat
      /\ Slice \in Nat
  BY BudgetType, ArrivalAssumption
<1>3. TypeOK'
  <2>1. left' \in 0 .. Budget[kind]' /\ slice' \in Nat /\ elapsed' \in Nat
    BY <1>1, <1>2
  <2>. QED  BY <1>1, <2>1 DEF TypeOK
<1>4. Stream' /\ Answers' /\ Truth'
  BY <1>1, QuietStep DEF Quiet, Answered, world
<1>5. Counted'
  BY <1>1 DEF Counted
<1>6. Timed'
  <2>1. seen.n <= dev.n /\ seen.n \in Nat /\ dev.n \in Nat
    BY ArmType DEF Stream
  <2>. QED  BY <1>1, <1>2, <2>1 DEF Timed, Timing
<1>7. Rounds'
  BY <1>1, <1>2 DEF Rounds, Spent, Timing
<1>. QED  BY <1>3, <1>4, <1>5, <1>6, <1>7

\* The reader thread dies, or the call leaves the wait for it, for the time, or for the pose.
LEMMA LeaveStep ==
  ASSUME ArrivalInv, LinkLost \/ GiveUp \/ TcpReached
  PROVE  ArrivalInv'
<1>. USE DEF ArrivalInv
<1>1. /\ pc \in {"waiting", "reading"} /\ pc' = "done" /\ outcome' \in Ends
      /\ UNCHANGED <<world, news, asked, judged, clocks>>
  BY DEF LinkLost, GiveUp, TcpReached, Return, Verdict, Ends
<1>2. /\ dev' = dev /\ air' = air /\ seen' = seen /\ born' = born /\ kind' = kind
      /\ link' = link /\ moved' = moved /\ last' = last /\ prev' = prev /\ count' = count
      /\ elapsed' = elapsed /\ left' = left /\ slice' = slice /\ news' = news
      /\ mark' = mark /\ points' = points
  BY <1>1 DEF world, judged, clocks, asked
<1>3. TypeOK'
  BY <1>1, <1>2 DEF TypeOK
<1>4. Stream' /\ Answers' /\ Truth'
  BY <1>1, <1>2, QuietStep DEF Quiet, Answered
<1>5. Counted' /\ Timed' /\ Rounds'
  BY <1>1, <1>2 DEF Counted, Timed, Rounds, Timing
<1>. QED  BY <1>3, <1>4, <1>5

LEMMA LinkDiesStep ==
  ASSUME ArrivalInv, LinkDies
  PROVE  ArrivalInv'
<1>1. /\ dev' = dev /\ air' = air /\ seen' = seen /\ born' = born /\ kind' = kind
      /\ link' = FALSE /\ moved' = moved /\ last' = last /\ prev' = prev /\ count' = count
      /\ elapsed' = elapsed /\ left' = left /\ slice' = slice /\ news' = news
      /\ mark' = mark /\ points' = points /\ pc' = pc /\ outcome' = outcome
  BY DEF LinkDies, call, asked, judged, clocks
<1>2. TypeOK'
  <2>1. link' \in BOOLEAN
    BY <1>1
  <2>. QED  BY <1>1, <2>1 DEF ArrivalInv, TypeOK
<1>3. Stream' /\ Answers'
  BY <1>1 DEF ArrivalInv, Stream, Answers, InFlight, Answered
<1>4. Truth'
  BY <1>1 DEF ArrivalInv, Truth, InFlight, Answered, Tells
<1>5. Counted' /\ Timed' /\ Rounds'
  BY <1>1 DEF ArrivalInv, Counted, Timed, Rounds, Timing, Spent
<1>. QED  BY <1>2, <1>3, <1>4, <1>5 DEF ArrivalInv

----------------------------------------------------------------------------
(* The looks of the caller.                                                *)

\* A look leaves the world alone, and never takes for news what it has seen.
LEMMA LookFacts ==
  ASSUME TypeOK, UNCHANGED world, UNCHANGED asked
  PROVE  /\ dev' = dev /\ air' = air /\ seen' = seen /\ born' = born /\ kind' = kind
         /\ link' = link /\ moved' = moved /\ mark' = mark /\ points' = points
         /\ seen.n \in Nat \ {0} /\ seen.place \in Places /\ seen.still \in BOOLEAN
         /\ Budget[kind] \in Nat \ {0} /\ CapFactor * Budget[kind] \in Nat
         /\ left \in Nat /\ elapsed \in Nat /\ left \in 0 .. Budget[kind]
         /\ last \in Nat /\ born \in Nat /\ count \in Nat
         /\ ArriveFrames \in Nat \ {0} /\ slice \in Nat
         /\ Slice \in Nat \ {0} /\ PoseWindow \in Nat \ {0} /\ Nap \in Nat \ {0}
<1>1. seen \in Frames /\ seen.n \in Nat \ {0}
  BY ArmType
<1>2. seen.place \in Places /\ seen.still \in BOOLEAN
  BY <1>1 DEF Frames
<1>. QED  BY <1>1, <1>2, BudgetType, ArrivalAssumption DEF world, asked, TypeOK

LEMMA LookForTargetStep ==
  ASSUME ArrivalInv, LookForTarget
  PROVE  ArrivalInv'
<1>. USE DEF ArrivalInv
<1>1. /\ kind = "arrive" /\ pc = "waiting" /\ news' = FALSE /\ last' = seen.n
      /\ prev' = prev /\ elapsed' = elapsed /\ slice' = slice
      /\ UNCHANGED world /\ UNCHANGED asked
  BY DEF LookForTarget
<1>2. PICK k \in 0 .. ArriveFrames :
         /\ k = (IF AtTarget THEN count + 1 ELSE 0)
         /\ \/ seen.fault /\ Return("fault") /\ UNCHANGED <<count, left>>
            \/ ~seen.fault /\ k >= ArriveFrames /\ Return("ok") /\ count' = k /\ UNCHANGED left
            \/ /\ ~seen.fault /\ k < ArriveFrames
               /\ count' = k /\ left' = Renewed
               /\ IF Capped \/ Renewed = 0 THEN Return(Verdict) ELSE UNCHANGED <<pc, outcome>>
  <2>1. (IF AtTarget THEN count + 1 ELSE 0) \in 0 .. ArriveFrames
    BY <1>1, LookFacts DEF Counted
  <2>. QED  BY <2>1 DEF LookForTarget
<1>3. Renewed \in 0 .. Budget[kind]
  BY <1>1, LookFacts DEF Renewed
<1>4. /\ count' \in 0 .. ArriveFrames /\ left' \in 0 .. Budget[kind]
      /\ \/ pc' = "done" /\ outcome' \in Ends
         \/ /\ pc' = pc /\ outcome' = outcome /\ count' < ArriveFrames
            /\ left' = Renewed /\ ~Capped
  <2>1. count \in 0 .. ArriveFrames /\ left \in 0 .. Budget[kind]
    BY DEF TypeOK
  <2>. QED  BY <1>2, <1>3, <2>1 DEF Return, Verdict, Ends
<1>5. TypeOK'
  BY <1>1, <1>4, LookFacts DEF TypeOK
<1>6. Stream' /\ Answers' /\ Truth'
  BY <1>1, <1>4, LookFacts, QuietStep DEF Quiet, Answered
<1>7. Counted'
  BY <1>1, <1>4, LookFacts DEF Counted, NoFrame
<1>8. Timed'
  <2>1. CASE pc' = "done"
    BY <2>1 DEF Timed, Timing
  <2>2. CASE /\ pc' = pc /\ outcome' = outcome /\ left' = Renewed /\ ~Capped
    <3>1. elapsed + left <= CapFactor * Budget[kind] + Budget[kind]
      BY <1>1 DEF Timed, Timing
    <3>2. elapsed + Renewed <= CapFactor * Budget[kind] + Budget[kind]
      BY <1>1, <2>2, <3>1, LookFacts DEF Renewed, Capped
    <3>3. ~seen.still => Renewed + (dev.n - seen.n) >= Budget[kind]
      <4>1. seen.n <= dev.n /\ dev.n \in Nat
        BY ArmType DEF Stream
      <4>. QED  BY <1>1, <4>1, LookFacts DEF Renewed
    <3>. QED  BY <1>1, <2>2, <3>2, <3>3, LookFacts DEF Timed
  <2>. QED  BY <1>4, <2>1, <2>2
<1>9. Rounds'
  BY <1>1, <1>4, LookFacts DEF Rounds
<1>. QED  BY <1>5, <1>6, <1>7, <1>8, <1>9

\* A window of still frames as long as this one reaches past the delay of CART_BUSY.
LEMMA LookForRestStep ==
  ASSUME ArrivalInv, LookForRest
  PROVE  ArrivalInv'
<1>. USE DEF ArrivalInv
<1>1. /\ kind = "settle" /\ pc = "waiting" /\ news' = FALSE /\ last' = seen.n
      /\ elapsed' = elapsed /\ left' = left
      /\ UNCHANGED world /\ UNCHANGED asked
  BY DEF LookForRest, Round
<1>2. /\ last <= seen.n /\ (last = NoFrame => count = 0)
      /\ (last # NoFrame => last = seen.n \/ seen.n > born)
      /\ (count <= 1 \/ count + born <= last + 1)
  BY <1>1 DEF Counted
<1>3. CASE Repeated \/ ~Fresh
  <2>1. /\ prev' = prev /\ count' = count /\ slice' = Slice
        /\ \/ pc' = "done" /\ outcome' = "timeout"
           \/ pc' = pc /\ outcome' = outcome
    BY <1>3 DEF LookForRest, Round, Return
  <2>2. TypeOK'
    BY <1>1, <2>1, LookFacts DEF TypeOK, Ends
  <2>3. Stream' /\ Answers' /\ Truth'
    BY <1>1, <2>1, LookFacts, QuietStep DEF Quiet, Answered
  <2>4. Counted'
    BY <1>1, <1>2, <2>1, LookFacts DEF Counted, NoFrame
  <2>5. Timed' /\ Rounds'
    BY <1>1, <2>1, LookFacts DEF Timed, Rounds
  <2>. QED  BY <2>2, <2>3, <2>4, <2>5
<1>4. CASE ~(Repeated \/ ~Fresh)
  <2>1. PICK k \in 0 .. ArriveFrames :
           /\ k = (IF ~StillNow THEN 0 ELSE IF count = ArriveFrames THEN count ELSE count + 1)
           /\ \/ seen.fault /\ Return("fault") /\ UNCHANGED <<prev, count, slice>>
              \/ /\ ~seen.fault /\ prev' = seen.place /\ count' = k
                 /\ IF Settled(k) THEN pc' = "reading" /\ slice' = PoseWindow /\ UNCHANGED outcome
                                  ELSE Round
    <3>. DEFINE k == IF ~StillNow THEN 0 ELSE IF count = ArriveFrames THEN count ELSE count + 1
    <3>1. k \in 0 .. ArriveFrames
      BY <1>1, LookFacts DEF TypeOK
    <3>2. \/ seen.fault /\ Return("fault") /\ UNCHANGED <<prev, count, slice>>
          \/ /\ ~seen.fault /\ prev' = seen.place /\ count' = k
             /\ IF Settled(k) THEN pc' = "reading" /\ slice' = PoseWindow /\ UNCHANGED outcome
                              ELSE Round
      BY <1>4 DEF LookForRest
    <3>. QED  BY <3>1, <3>2
  <2>2. /\ prev' \in Places \cup {"none"} /\ slice' \in Nat
        /\ \/ pc' = "done" /\ outcome' \in Ends /\ count' \in {count, k}
           \/ /\ pc' = "reading" /\ outcome' = outcome /\ count' = k /\ Settled(k)
              /\ slice' = PoseWindow
           \/ pc' = pc /\ outcome' = outcome /\ count' = k
    <3>1. /\ seen.place \in Places /\ prev \in Places \cup {"none"}
          /\ slice \in Nat /\ Slice \in Nat /\ PoseWindow \in Nat
      BY <1>1, LookFacts DEF TypeOK
    <3>. QED  BY <2>1, <3>1 DEF Round, Return, Ends
  <2>3. k <= 1 \/ k + born <= seen.n + 1
    <3>1. last # NoFrame => last < seen.n /\ seen.n > born
      BY <1>1, <1>2, <1>4, LookFacts DEF Repeated
    <3>2. k = 0 \/ k = count \/ k = count + 1
      BY <2>1
    <3>. QED  BY <1>1, <1>2, <3>1, <3>2, LookFacts DEF NoFrame
  <2>4. TypeOK'
    <3>1. count' \in 0 .. ArriveFrames
      BY <2>2 DEF TypeOK
    <3>. QED  BY <1>1, <2>2, <3>1, LookFacts DEF TypeOK
  <2>5. Stream' /\ Answers' /\ Truth'
    BY <1>1, <2>2, LookFacts, QuietStep DEF Quiet, Answered
  <2>6. pc' = "reading" /\ WindowOutlastsDelay => dev.motion \in Final
    <3>1. SUFFICES ASSUME pc' = "reading", WindowOutlastsDelay
                   PROVE  dev.motion \in Final
      OBVIOUS
    <3>2. k >= ArriveFrames /\ ~seen.busy
      BY <1>1, <2>2, <3>1 DEF Settled
    <3>3. seen.n > born + BusyDelay
      BY <1>1, <2>3, <3>1, <3>2, LookFacts, ArrivalAssumption DEF WindowOutlastsDelay
    <3>4. dev.motion # "none" /\ Tells(seen)
      BY <1>1 DEF Truth, Answered
    <3>. QED  BY <3>2, <3>3, <3>4 DEF Tells
  <2>7. Counted'
    BY <1>1, <2>2, <2>3, <2>6, LookFacts DEF Counted, NoFrame
  <2>8. Timed' /\ Rounds'
    <3>1. elapsed + left <= Budget[kind]
      BY <1>1 DEF Rounds
    <3>. QED  BY <1>1, <2>2, <3>1, LookFacts DEF Timed, Rounds
  <2>. QED  BY <2>4, <2>5, <2>7, <2>8
<1>. QED  BY <1>3, <1>4

\* A round of move_p: it is opened while time is left, and goes on to its end.
LEMMA PoseStep ==
  ASSUME ArrivalInv, LookForFault \/ LookForPose \/ Wake
  PROVE  ArrivalInv'
<1>. USE DEF ArrivalInv
<1>1. /\ kind = "pose" /\ prev' = prev /\ count' = count
      /\ elapsed' = elapsed /\ left' = left
      /\ last' \in {last, seen.n} /\ (news' = news \/ news' = FALSE)
      /\ (last' = seen.n \/ last' = last)
      /\ \/ pc' = "done" /\ outcome' \in Ends /\ slice' = slice
         \/ pc = "waiting" /\ pc' = "reading" /\ outcome' = outcome /\ slice' = PoseWindow
         \/ pc = "reading" /\ pc' = "napping" /\ outcome' = outcome /\ slice' = Nap
         \/ /\ pc = "napping" /\ pc' = "waiting" /\ outcome' = outcome /\ slice' = Slice
            /\ left # 0
      /\ pc \in {"waiting", "reading", "napping"}
      /\ UNCHANGED world /\ UNCHANGED asked
  <2>1. CASE LookForFault
    BY <2>1 DEF LookForFault, Return, Ends
  <2>2. CASE LookForPose
    BY <2>2 DEF LookForPose, Return, Ends, judged
  <2>3. CASE Wake
    BY <2>3 DEF Wake, Return, Ends, judged
  <2>. QED  BY <2>1, <2>2, <2>3
<1>2. TypeOK'
  <2>1. slice' \in Nat /\ last' \in Nat
    BY <1>1, LookFacts DEF TypeOK
  <2>2. news' \in BOOLEAN
    BY <1>1 DEF TypeOK
  <2>. QED  BY <1>1, <2>1, <2>2, LookFacts DEF TypeOK
<1>3. Stream' /\ Answers' /\ Truth'
  BY <1>1, LookFacts, QuietStep DEF Quiet, Answered
<1>4. Counted'
  <2>1. pc # "done" => last <= seen.n /\ (last = NoFrame => count = 0)
                       /\ (last # NoFrame => last = seen.n \/ seen.n > born)
    BY DEF Counted
  <2>2. /\ last' <= seen.n /\ (last' # NoFrame => last' = seen.n \/ seen.n > born)
    BY <1>1, <2>1, LookFacts
  <2>3. last' = NoFrame => count = 0
    BY <1>1, <2>1, LookFacts DEF NoFrame
  <2>. QED  BY <1>1, <2>2, <2>3, LookFacts DEF Counted
<1>5. Timed'
  BY <1>1, LookFacts DEF Timed, Timing
<1>6. Rounds'
  <2>1. /\ left = 0 \/ elapsed + left <= Budget[kind]
        /\ elapsed + slice <= Budget[kind] - 1 + Spent
    BY <1>1 DEF Rounds, Timing
  <2>2. CASE pc' = "done"
    BY <2>2 DEF Rounds, Timing
  <2>3. CASE pc' = "waiting"
    BY <1>1, <2>1, <2>3, LookFacts DEF Rounds, Spent
  <2>4. CASE pc' = "reading"
    BY <1>1, <2>1, <2>4, LookFacts DEF Rounds, Spent
  <2>5. CASE pc' = "napping"
    BY <1>1, <2>1, <2>5, LookFacts DEF Rounds, Spent
  <2>. QED  BY <1>1, <2>2, <2>3, <2>4, <2>5
<1>. QED  BY <1>2, <1>3, <1>4, <1>5, <1>6

----------------------------------------------------------------------------
(* The steps of the arm and of the link.                                   *)

\* What was over stays over: every frame sent or received still tells the truth.
LEMMA PhysicsStep ==
  ASSUME ArrivalInv, Physics
  PROVE  ArrivalInv'
<1>. USE DEF ArrivalInv
<1>1. /\ air' = air /\ seen' = seen /\ born' = born /\ kind' = kind /\ link' = link
      /\ moved' = TRUE /\ last' = last /\ prev' = prev /\ count' = count
      /\ elapsed' = elapsed /\ left' = left /\ slice' = slice /\ news' = news
      /\ mark' = mark /\ points' = points /\ pc' = pc /\ outcome' = outcome
  BY DEF Physics, call, asked, judged, clocks
<1>2. /\ dev' \in Arms /\ dev'.n = dev.n /\ dev'.shy = dev.shy
      /\ dev.motion \in Final => dev'.motion = dev.motion
      /\ dev'.motion = "none" <=> dev.motion = "none"
      /\ dev'.motion \in {"planned", "running"} => dev.motion \in {"planned", "running"}
      /\ dev'.place = "goal" => dev.place = "goal" \/ dev'.motion = "over"
  BY PhysicsType
<1>3. TypeOK'
  BY <1>1, <1>2 DEF TypeOK, Arms, Motions
<1>4. Stream' /\ Answers'
  BY <1>1, <1>2 DEF Stream, Answers, InFlight, Answered
<1>5. Truth'
  <2>1. \A f : Tells(f) => Tells(f)'
    BY <1>1, <1>2 DEF Tells, Final
  <2>2. dev.motion = "over" => dev'.motion = "over"
    BY <1>2 DEF Final
  <2>3. dev'.place = "goal" => dev'.motion = "over"
    BY <1>2, <2>2 DEF Truth
  <2>4. Tells(seen)' /\ \A i \in 1..Len(air) : InFlight(i) => Tells(air[i])'
    <3>1. Tells(seen) /\ \A i \in 1..Len(air) : InFlight(i) => Tells(air[i])
      BY DEF Truth
    <3>. QED  BY <1>1, <1>2, <2>2, <3>1 DEF Tells, Final
  <2>. QED  BY <1>1, <1>2, <2>3, <2>4 DEF Truth, InFlight, Answered
<1>6. Counted' /\ Timed' /\ Rounds'
  BY <1>1, <1>2 DEF Counted, Timed, Rounds, Timing, Spent
<1>. QED  BY <1>3, <1>4, <1>5, <1>6

\* A frame of a trajectory that is not over says that it is busy, or comes too early to say so.
LEMMA NewFrameTells ==
  ASSUME ArrivalInv, dev.n < FirstSeq + MaxTicks, NEW still \in BOOLEAN
  PROVE  Tells(Report(still))
<1>1. /\ Report(still).n = dev.n + 1 /\ Report(still).place = dev.place
      /\ Report(still).busy = Busy
  BY Reported DEF ArrivalInv
<1>2. dev.place = "goal" => dev.motion = "over"
  BY DEF ArrivalInv, Truth
<1>3. ASSUME dev.motion # "none", dev.n + 1 > born + BusyDelay, ~Busy
      PROVE  dev.motion \in Final
  <2>1. dev \in Arms /\ dev.n \in Nat /\ dev.shy \in Nat /\ born \in Nat /\ BusyDelay \in Nat
    BY ArmType, ArrivalAssumption DEF ArrivalInv, TypeOK
  <2>2. CASE dev.motion \in {"planned", "running"}
    <3>1. dev.shy # 0
      BY <1>3, <2>2 DEF Busy
    <3>2. dev.n + dev.shy <= born + BusyDelay
      BY <2>2, <3>1 DEF ArrivalInv, Truth
    <3>. QED  BY <1>3, <2>1, <3>1, <3>2
  <2>. QED  BY <1>3, <2>1, <2>2 DEF Arms, Motions, Final
<1>. QED  BY <1>1, <1>2, <1>3 DEF Tells

LEMMA TickStep ==
  ASSUME ArrivalInv, Tick
  PROVE  ArrivalInv'
<1>. USE DEF ArrivalInv
<1>1. /\ seen' = seen /\ born' = born /\ kind' = kind /\ link' = link /\ moved' = FALSE
      /\ last' = last /\ prev' = prev /\ count' = count /\ news' = news
      /\ mark' = mark /\ points' = points /\ pc' = pc /\ outcome' = outcome
      /\ ~Due /\ dev.n < FirstSeq + MaxTicks /\ pc # "acked"
  BY DEF Tick, call, asked, judged, Due
<1>2. IF Timing
      THEN elapsed' = elapsed + 1 /\ left' = Down(left) /\ slice' = Down(slice)
      ELSE elapsed' = elapsed /\ left' = left /\ slice' = slice
  BY DEF Tick, clocks
<1>3. /\ dev' \in Arms
      /\ dev'.n = dev.n + 1 /\ dev'.motion = dev.motion /\ dev'.place = dev.place
      /\ dev.motion \in {"planned", "running"} => dev'.shy = Down(dev.shy)
      /\ \/ air' = air
         \/ \E still \in BOOLEAN : air' = Append(air, Report(still)) /\ Len(air) < AirMax
  BY TickType
<1>4. /\ dev.n \in Nat /\ dev.shy \in Nat /\ seen.n \in Nat /\ born \in Nat
      /\ seen.n <= dev.n /\ born <= dev.n /\ mark <= seen.n /\ BusyDelay \in Nat
  BY ArmType, ArrivalAssumption DEF TypeOK, Stream
<1>5. \A f : Tells(f)' <=> Tells(f)
  BY <1>1, <1>3 DEF Tells
<1>6. \/ air' = air
      \/ \E e \in Frames : /\ e.is = "status" /\ e.n = dev.n + 1 /\ Tells(e)
                           /\ air' = Append(air, e) /\ Len(air) < AirMax
  BY <1>1, <1>3, NewFrameTells, Reported
<1>7. /\ air' \in Seq(Frames \cup {Answer("ack"), Answer("err")}) /\ Len(air') <= AirMax
      /\ Stream' /\ Answers' /\ \A i \in 1..Len(air') : InFlight(i)' => Tells(air'[i])
      /\ (\E i \in 1..Len(air') : air'[i].is = "ack") => (\E i \in 1..Len(air) : air[i].is = "ack")
  <2>0. Len(air) \in Nat /\ Len(air) <= AirMax
        /\ air \in Seq(Frames \cup {Answer("ack"), Answer("err")})
    BY AirTyped DEF TypeOK
  <2>1. CASE air' = air
    <3>1. \A i \in 1..Len(air) : InFlight(i) => air[i].n \in Nat /\ air[i].n <= dev.n + 1
      <4>1. \A f \in Frames : f.n \in Nat
        BY ArrivalAssumption DEF Frames
      <4>. QED  BY <1>4, <4>1, AirTyped DEF Stream
    <3>2. Stream'
      <4>1. seen'.n <= dev'.n /\ born' <= dev'.n /\ mark' <= seen'.n
        BY <1>1, <1>3, <1>4
      <4>2. \A i \in 1..Len(air) : InFlight(i) => seen.n < air[i].n
        BY DEF Stream
      <4>3. \A i, j \in 1..Len(air) : InFlight(i) /\ InFlight(j) /\ i < j => air[i].n < air[j].n
        BY DEF Stream
      <4>. QED  BY <1>1, <1>3, <2>1, <3>1, <4>1, <4>2, <4>3 DEF Stream, InFlight
    <3>3. Answers'
      BY <1>1, <2>1 DEF Answers, InFlight, Answered
    <3>. QED  BY <2>0, <2>1, <3>2, <3>3 DEF Truth, InFlight
  <2>2. CASE \E e \in Frames : /\ e.is = "status" /\ e.n = dev.n + 1 /\ Tells(e)
                               /\ air' = Append(air, e) /\ Len(air) < AirMax
    <3>1. PICK e \in Frames : /\ e.is = "status" /\ e.n = dev.n + 1 /\ Tells(e)
                              /\ air' = Append(air, e) /\ Len(air) < AirMax
      BY <2>2
    <3>2. /\ Len(air') = Len(air) + 1 /\ \A i \in 1..Len(air) : air'[i] = air[i]
          /\ air'[Len(air) + 1] = e
          /\ air' \in Seq(Frames \cup {Answer("ack"), Answer("err")})
      BY <3>1, AirAppend
    <3>3. \A i \in 1..Len(air') : i \in 1..Len(air) \/ i = Len(air) + 1
      BY <2>0, <3>2
    <3>4. \A i \in 1..Len(air) : (InFlight(i)' <=> InFlight(i)) /\ i # Len(air) + 1 /\ i < Len(air) + 1
      BY <2>0, <3>2 DEF InFlight
    <3>5. \A i \in 1..Len(air') : i = Len(air) + 1 => InFlight(i)'
      BY <2>0, <3>1, <3>2 DEF InFlight
    <3>6. \A i \in 1..Len(air) : InFlight(i) =>
             air[i].n \in Nat /\ seen.n < air[i].n /\ air[i].n <= dev.n /\ air[i].n < e.n
      <4>1. \A f \in Frames : f.n \in Nat
        BY ArrivalAssumption DEF Frames
      <4>. QED  BY <1>4, <3>1, <4>1, AirTyped DEF Stream
    <3>7. e.n > born /\ e.n > seen.n /\ e.n = dev'.n
      BY <1>3, <1>4, <3>1
    <3>8. Stream'
      <4>1. \A i \in 1..Len(air') : InFlight(i)' => seen.n < air'[i].n /\ air'[i].n <= dev'.n
        BY <1>3, <1>4, <3>2, <3>3, <3>4, <3>6, <3>7
      <4>2. \A i, j \in 1..Len(air') : InFlight(i)' /\ InFlight(j)' /\ i < j => air'[i].n < air'[j].n
        <5>1. \A i, j \in 1..Len(air) : InFlight(i) /\ InFlight(j) /\ i < j => air[i].n < air[j].n
          BY DEF Stream
        <5>2. ASSUME NEW i \in 1..Len(air'), NEW j \in 1..Len(air'),
                     InFlight(i)', InFlight(j)', i < j
              PROVE  air'[i].n < air'[j].n
          <6>1. i \in 1..Len(air)
            BY <2>0, <3>2, <5>2
          <6>2. CASE j \in 1..Len(air)
            BY <3>2, <3>4, <5>1, <5>2, <6>1, <6>2
          <6>3. CASE j = Len(air) + 1
            BY <3>2, <3>4, <3>6, <5>2, <6>1, <6>3
          <6>. QED  BY <3>3, <6>2, <6>3
        <5>. QED  BY <5>2
      <4>. QED  BY <1>1, <1>3, <1>4, <4>1, <4>2 DEF Stream
    <3>9. Answers'
      <4>1. \A i \in 1..Len(air') : ~InFlight(i)' => pc = "sent"
        BY <3>3, <3>4, <3>5 DEF Answers
      <4>2. \A i, j \in 1..Len(air') : ~InFlight(i)' /\ ~InFlight(j)' => i = j
        BY <3>3, <3>4, <3>5 DEF Answers
      <4>3. \A i, j \in 1..Len(air') :
               air'[i].is = "ack" /\ InFlight(j)' /\ i < j => air'[j].n > born
        <5>1. \A i, j \in 1..Len(air) :
                 air[i].is = "ack" /\ InFlight(j) /\ i < j => air[j].n > born
          BY DEF Answers
        <5>. QED  BY <2>0, <3>1, <3>2, <3>3, <3>4, <3>7, <5>1
      <4>4. Answered => \A i \in 1..Len(air') : air'[i].n > born
        BY <3>2, <3>3, <3>7 DEF Answers
      <4>5. Answered /\ pc # "acked" /\ news => seen.n > born
        BY DEF Answers
      <4>. QED  BY <1>1, <4>1, <4>2, <4>3, <4>4, <4>5 DEF Answers, Answered
    <3>10. \A i \in 1..Len(air') : InFlight(i)' => Tells(air'[i])
      BY <3>1, <3>2, <3>3, <3>4 DEF Truth
    <3>11. (\E i \in 1..Len(air') : air'[i].is = "ack") => (\E i \in 1..Len(air) : air[i].is = "ack")
      BY <3>1, <3>2, <3>3
    <3>. QED  BY <2>0, <3>1, <3>2, <3>8, <3>9, <3>10, <3>11, ArrivalAssumption
  <2>. QED  BY <1>6, <2>1, <2>2
<1>8. /\ elapsed \in Nat /\ left \in 0 .. Budget[kind] /\ slice \in Nat
      /\ Down(left) \in 0 .. Budget[kind] /\ Down(slice) \in Nat
      /\ (slice > 0 => Down(slice) + 1 = slice)
      /\ Down(left) <= left /\ Down(left) + 1 >= left /\ (left > 0 => Down(left) + 1 = left)
      /\ Budget[kind] \in Nat /\ CapFactor * Budget[kind] \in Nat
  <2>1. elapsed \in Nat /\ left \in 0 .. Budget[kind] /\ slice \in Nat
    BY DEF TypeOK
  <2>2. Down(slice) \in Nat /\ (slice > 0 => Down(slice) + 1 = slice)
    BY <2>1 DEF Down
  <2>. QED  BY <2>1, <2>2, DownType, BudgetType
<1>9. TypeOK'
  <2>1. elapsed' \in Nat /\ left' \in 0 .. Budget[kind] /\ slice' \in Nat
    BY <1>2, <1>8
  <2>2. dev' \in [place : Places, going : BOOLEAN, fault : BOOLEAN, shy : 0 .. BusyDelay,
                  motion : {"none", "planned", "running", "over", "torn"},
                  n : FirstSeq .. FirstSeq + MaxTicks]
    BY <1>3 DEF Arms, Motions
  <2>. QED  BY <1>1, <1>7, <2>1, <2>2 DEF TypeOK
<1>10. Truth'
  <2>1. dev'.motion \in {"planned", "running"} => dev'.shy = 0 \/ dev'.n + dev'.shy <= born + BusyDelay
    <3>1. dev.motion \in {"planned", "running"} => dev.shy = 0 \/ dev.n + dev.shy <= born + BusyDelay
      BY DEF Truth
    <3>. QED  BY <1>3, <1>4, <3>1 DEF Down
  <2>2. Tells(seen)' /\ \A i \in 1..Len(air') : InFlight(i)' => Tells(air[i])'
    <3>1. Tells(seen)'
      BY <1>1, <1>3 DEF Truth, Tells
    <3>. QED  BY <1>1, <1>3, <1>7, <3>1 DEF Tells
  <2>3. /\ pc' \in {"idle", "collecting", "called"} => dev'.motion = "none"
        /\ Answered' \/ (\E i \in 1..Len(air') : air'[i].is = "ack") => dev'.motion # "none"
        /\ dev'.place = "goal" => dev'.motion = "over"
    BY <1>1, <1>3, <1>7 DEF Truth, Answered
  <2>. QED  BY <1>1, <2>1, <2>2, <2>3 DEF Truth
<1>11. Counted'
  BY <1>1, <1>3 DEF Counted
<1>12. Timed'
  <2>1. Timing /\ kind = "arrive" => pc = "waiting" /\ elapsed' + left' = elapsed + left
    <3>1. Timing /\ kind = "arrive" /\ pc = "waiting" => left > 0
      BY <1>1, <1>8 DEF Due
    <3>. QED  BY <1>2, <1>8, <3>1 DEF Timed
  <2>2. Timing /\ kind = "arrive" => elapsed' + left' <= CapFactor * Budget[kind] + Budget[kind]
    BY <2>1 DEF Timed
  <2>3. kind = "arrive" /\ pc = "waiting" /\ ~news /\ ~seen.still
          => left' + (dev'.n - seen.n) >= Budget[kind]
    <3>1. kind = "arrive" /\ pc = "waiting" /\ ~news /\ ~seen.still
            => left + (dev.n - seen.n) >= Budget[kind]
      BY DEF Timed
    <3>2. pc = "waiting" => left' + (dev'.n - seen.n) >= left + (dev.n - seen.n)
      BY <1>2, <1>3, <1>4, <1>8 DEF Timing
    <3>3. pc = "waiting" => left' + (dev'.n - seen.n) \in Int
      BY <1>2, <1>3, <1>4, <1>8 DEF Timing
    <3>4. left + (dev.n - seen.n) \in Int /\ Budget[kind] \in Int
      BY <1>4, <1>8
    <3>. QED  BY <3>1, <3>2, <3>3, <3>4
  <2>4. pc # "done" => outcome = "none"
    BY DEF Timed
  <2>5. seen' = seen /\ kind' = kind /\ news' = news /\ pc' = pc /\ outcome' = outcome
    BY <1>1
  <2>6. kind' = "arrive" /\ Timing' =>
          pc' = "waiting" /\ elapsed' + left' <= CapFactor * Budget[kind'] + Budget[kind']
    BY <2>1, <2>2, <2>5 DEF Timing
  <2>7. kind' = "arrive" /\ pc' = "waiting" /\ ~news' /\ ~seen'.still
          => left' + (dev'.n - seen'.n) >= Budget[kind']
    BY <2>3, <2>5
  <2>. QED  BY <2>4, <2>5, <2>6, <2>7 DEF Timed
<1>13. Rounds'
  <2>1. kind' = kind /\ pc' = pc /\ (Timing' <=> Timing) /\ Spent' = Spent /\ kind \in Kinds
        /\ Kinds \subseteq {"arrive", "settle", "pose"}
    BY <1>1, ArrivalAssumption DEF Timing, Spent, TypeOK
  <2>2. CASE ~Timing \/ kind = "arrive"
    BY <1>1, <2>1, <2>2 DEF Rounds, Timing
  <2>3. CASE Timing /\ kind = "settle"
    <3>1. pc = "waiting" => elapsed' + left' = elapsed + left
      BY <1>1, <1>2, <1>8, <2>3 DEF Due
    <3>2. pc = "reading" => elapsed' + slice' = elapsed + slice
      BY <1>1, <1>2, <1>8, <2>3 DEF Due
    <3>. QED  BY <2>1, <2>3, <3>1, <3>2 DEF Rounds
  <2>4. CASE Timing /\ kind = "pose"
    <3>1. left' = 0 \/ (elapsed' + left' = elapsed + left /\ left # 0)
      <4>1. elapsed' = elapsed + 1 /\ left' = Down(left) /\ left \in Nat /\ elapsed \in Nat
        BY <1>2, <1>8, <2>4
      <4>2. CASE left = 0
        BY <4>1, <4>2 DEF Down
      <4>3. CASE left # 0
        <5>1. Down(left) = left - 1
          BY <4>3 DEF Down
        <5>. QED  BY <4>1, <4>3, <5>1
      <4>. QED  BY <4>2, <4>3
    <3>2. elapsed' + slice' = elapsed + slice
      BY <1>1, <1>2, <1>8, <2>4 DEF Due, Timing
    <3>. QED  BY <2>1, <2>4, <3>1, <3>2 DEF Rounds
  <2>. QED  BY <2>1, <2>2, <2>3, <2>4
<1>. QED  BY <1>7, <1>9, <1>10, <1>11, <1>12, <1>13

\* An answer is taken only in "sent"; what is behind it was generated after the command.
LEMMA DeliverStep ==
  ASSUME ArrivalInv, Deliver
  PROVE  ArrivalInv'
<1>. USE DEF ArrivalInv
<1>1. /\ dev' = dev /\ moved' = moved /\ link' = link /\ kind' = kind /\ born' = born
      /\ mark' = mark /\ points' = points /\ last' = last /\ prev' = prev /\ count' = count
      /\ elapsed' = elapsed /\ left' = left /\ slice' = slice
      /\ pc # "done" /\ air # <<>> /\ air' = Tail(air)
  BY DEF Deliver, asked, judged, clocks
<1>2. /\ Head(air) = air[1] /\ Len(air) \in Nat \ {0} /\ Len(air') = Len(air) - 1
      /\ 1 \in 1..Len(air)
      /\ \A i \in 1..Len(air') : air'[i] = air[i + 1] /\ i + 1 \in 1..Len(air) /\ i \in Nat /\ 1 < i + 1
      /\ air' \in Seq(Frames \cup {Answer("ack"), Answer("err")})
  BY <1>1, AirTail
<1>3. \A i \in 1..Len(air') : InFlight(i)' <=> InFlight(i + 1)
  BY <1>2 DEF InFlight
<1>4. /\ dev.n \in Nat /\ seen.n \in Nat /\ seen \in Frames /\ born \in Nat
      /\ seen.n <= dev.n /\ born <= dev.n /\ mark <= seen.n /\ mark \in Nat /\ last \in Nat
  BY ArmType DEF TypeOK, Stream
<1>5. \/ /\ Head(air).is = "ack" /\ ~InFlight(1) /\ pc = "sent" /\ pc' = "acked"
         /\ outcome' = outcome /\ seen' = seen /\ news' = news
      \/ /\ Head(air).is = "err" /\ ~InFlight(1) /\ pc = "sent" /\ pc' = "done"
         /\ outcome' = "rejected" /\ seen' = seen /\ news' = news
      \/ /\ InFlight(1) /\ seen' = air[1] /\ news' = TRUE /\ pc' = pc /\ outcome' = outcome
  <2>1. air[1].is \in {"ack", "err", "status"}
    <3>1. air[1] \in Frames \cup {Answer("ack"), Answer("err")}
      BY <1>2, AirTyped
    <3>. QED  BY <3>1 DEF Frames, Answer
  <2>2. ~InFlight(1) => pc = "sent"
    BY <1>2 DEF Answers
  <2>3. CASE air[1].is = "ack"
    BY <1>2, <2>2, <2>3 DEF Deliver, InFlight
  <2>4. CASE air[1].is = "err"
    BY <1>2, <2>2, <2>4 DEF Deliver, InFlight
  <2>5. CASE air[1].is = "status"
    BY <1>2, <2>5 DEF Deliver, InFlight
  <2>. QED  BY <2>1, <2>3, <2>4, <2>5
<1>6. \A i \in 1..Len(air') : InFlight(i)' => air'[i].n \in Nat
  <2>1. \A f \in Frames : f.n \in Nat
    BY ArrivalAssumption DEF Frames
  <2>2. \A i \in 1..Len(air) : InFlight(i) => air[i] \in Frames
    BY AirTyped
  <2>. QED  BY <1>2, <1>3, <2>1, <2>2
<1>7. InFlight(1) => /\ air[1] \in Frames /\ air[1].n \in Nat /\ seen.n < air[1].n
                     /\ air[1].n <= dev.n /\ Tells(air[1])
  <2>1. \A f \in Frames : f.n \in Nat
    BY ArrivalAssumption DEF Frames
  <2>. QED  BY <1>2, <2>1, AirTyped DEF Stream, Truth
<1>8. TypeOK'
  <2>1. seen' \in Frames /\ news' \in BOOLEAN
    BY <1>4, <1>5, <1>7 DEF TypeOK
  <2>2. Len(air') <= AirMax
    BY <1>2, ArrivalAssumption DEF TypeOK
  <2>. QED  BY <1>1, <1>2, <1>5, <2>1, <2>2 DEF TypeOK, Ends
<1>9. Stream'
  <2>1. seen'.n <= dev.n /\ seen.n <= seen'.n /\ seen'.n \in Nat
    BY <1>4, <1>5, <1>7
  <2>2. \A i \in 1..Len(air') : InFlight(i)' => seen'.n < air'[i].n /\ air'[i].n <= dev.n
    <3>1. \A i \in 1..Len(air) : InFlight(i) => seen.n < air[i].n /\ air[i].n <= dev.n
      BY DEF Stream
    <3>2. InFlight(1) => \A i \in 1..Len(air) : InFlight(i) /\ 1 < i => air[1].n < air[i].n
      BY <1>2 DEF Stream
    <3>. QED  BY <1>2, <1>3, <1>5, <3>1, <3>2
  <2>3. \A i, j \in 1..Len(air') : InFlight(i)' /\ InFlight(j)' /\ i < j => air'[i].n < air'[j].n
    <3>1. \A i, j \in 1..Len(air) : InFlight(i) /\ InFlight(j) /\ i < j => air[i].n < air[j].n
      BY DEF Stream
    <3>2. \A i, j \in 1..Len(air') : i < j => i + 1 < j + 1
      BY <1>2
    <3>. QED  BY <1>2, <1>3, <3>1, <3>2
  <2>4. mark <= seen'.n
    BY <1>4, <2>1
  <2>. QED  BY <1>1, <1>4, <2>1, <2>2, <2>3, <2>4 DEF Stream
<1>10. Answers'
  <2>1. \A i \in 1..Len(air') : ~InFlight(i)' => pc' = "sent"
    <3>1. SUFFICES ASSUME NEW i \in 1..Len(air'), ~InFlight(i)'
                   PROVE  pc' = "sent"
      OBVIOUS
    <3>2. i + 1 \in 1..Len(air) /\ ~InFlight(i + 1) /\ i + 1 # 1
      BY <1>2, <1>3, <3>1
    <3>3. pc = "sent" /\ InFlight(1)
      BY <1>2, <3>2 DEF Answers
    <3>. QED  BY <1>5, <3>3
  <2>2. \A i, j \in 1..Len(air') : ~InFlight(i)' /\ ~InFlight(j)' => i = j
    <3>1. \A i, j \in 1..Len(air) : ~InFlight(i) /\ ~InFlight(j) => i = j
      BY DEF Answers
    <3>2. \A i, j \in 1..Len(air') : i + 1 = j + 1 => i = j
      BY <1>2
    <3>. QED  BY <1>2, <1>3, <3>1, <3>2
  <2>3. \A i, j \in 1..Len(air) :
           air[i].is = "ack" /\ InFlight(j) /\ i < j => air[j].n > born
    BY DEF Answers
  <2>4. \A i, j \in 1..Len(air') :
           air'[i].is = "ack" /\ InFlight(j)' /\ i < j => air'[j].n > born
    <3>2. \A i, j \in 1..Len(air') : i < j => i + 1 < j + 1
      BY <1>2
    <3>. QED  BY <1>2, <1>3, <2>3, <3>2
  <2>5. Answered' => \A i \in 1..Len(air') : air'[i].n > born
    <3>1. SUFFICES ASSUME Answered', NEW i \in 1..Len(air')
                   PROVE  air'[i].n > born
      OBVIOUS
    <3>2. CASE Answered
      BY <1>2, <3>2 DEF Answers
    <3>3. CASE ~Answered
      <4>1. Head(air).is = "ack" /\ pc' = "acked"
        BY <1>5, <3>1, <3>3 DEF Answered
      <4>2. InFlight(i)'
        BY <2>1, <4>1
      <4>. QED  BY <1>2, <1>3, <2>3, <4>1, <4>2
    <3>. QED  BY <3>2, <3>3
  <2>6. Answered' /\ pc' # "acked" /\ news' => seen'.n > born
    <3>1. SUFFICES ASSUME Answered', pc' # "acked", news'
                   PROVE  seen'.n > born
      OBVIOUS
    <3>2. InFlight(1) /\ seen' = air[1] /\ pc' = pc
      BY <1>5, <3>1 DEF Answered
    <3>. QED  BY <1>2, <3>1, <3>2 DEF Answers, Answered
  <2>. QED  BY <1>1, <2>1, <2>2, <2>4, <2>5, <2>6 DEF Answers
<1>11. Truth'
  <2>1. \A i \in 1..Len(air') : InFlight(i)' => Tells(air'[i])
    BY <1>2, <1>3 DEF Truth
  <2>2. Tells(seen')
    BY <1>5, <1>7 DEF Truth
  <2>3. Tells(seen)' /\ \A i \in 1..Len(air') : InFlight(i)' => Tells(air[i])'
    BY <1>1, <2>1, <2>2 DEF Tells
  <2>4. pc' \in {"idle", "collecting", "called"} => dev'.motion = "none"
    BY <1>1, <1>5 DEF Truth
  <2>5. Answered' \/ (\E i \in 1..Len(air') : air'[i].is = "ack") => dev'.motion # "none"
    <3>1. Answered \/ (\E i \in 1..Len(air) : air[i].is = "ack") => dev.motion # "none"
      BY DEF Truth
    <3>2. Answered' => Answered \/ air[1].is = "ack"
      BY <1>2, <1>5 DEF Answered
    <3>. QED  BY <1>1, <1>2, <3>1, <3>2
  <2>. QED  BY <1>1, <2>3, <2>4, <2>5 DEF Truth
<1>12. Counted'
  <2>1. last <= seen'.n
    <3>1. last <= seen.n
      BY <1>1 DEF Counted
    <3>. QED  BY <1>4, <1>5, <1>7, <3>1
  <2>2. pc' # "done" /\ last # NoFrame => last = seen'.n \/ seen'.n > born
    <3>1. SUFFICES ASSUME pc' # "done", last # NoFrame
                   PROVE  last = seen'.n \/ seen'.n > born
      OBVIOUS
    <3>2. Answered /\ pc # "acked"
      BY <1>1, <3>1 DEF Counted, Answered, TypeOK
    <3>3. CASE InFlight(1)
      BY <1>2, <1>5, <3>2, <3>3 DEF Answers, Answered
    <3>4. CASE ~InFlight(1)
      BY <1>1, <1>5, <3>1, <3>4 DEF Counted
    <3>. QED  BY <3>3, <3>4
  <2>. QED  BY <1>1, <1>5, <2>1, <2>2 DEF Counted
<1>13. Timed' /\ Rounds'
  BY <1>1, <1>5 DEF Timed, Rounds, Timing, Spent
<1>. QED  BY <1>8, <1>9, <1>10, <1>11, <1>12, <1>13

\* The command: no frame of before it may be taken for one of after it.
LEMMA SendStep ==
  ASSUME ArrivalInv, Send
  PROVE  ArrivalInv'
<1>. USE DEF ArrivalInv
<1>1. /\ pc = "called" /\ pc' = "sent" /\ moved' = moved /\ seen' = seen /\ link' = link
      /\ kind' = kind /\ outcome' = outcome /\ news' = news /\ Len(air) < AirMax
      /\ mark' = mark /\ points' = points /\ last' = last /\ prev' = prev /\ count' = count
      /\ elapsed' = elapsed /\ left' = left /\ slice' = slice
  BY DEF Send, asked, judged, clocks
<1>2. /\ dev' \in Arms /\ dev'.n = dev.n /\ dev'.place = dev.place
      /\ \/ air' = Append(air, Answer("err")) /\ dev' = dev /\ born' = born
         \/ /\ air' = Append(air, Answer("ack")) /\ born' = dev.n
            /\ dev'.motion = "planned" /\ dev'.shy = BusyDelay
  BY SendType
<1>3. PICK a \in {"ack", "err"} :
         /\ air' = Append(air, Answer(a))
         /\ a = "err" => dev' = dev /\ born' = born
         /\ a = "ack" => born' = dev.n /\ dev'.motion = "planned" /\ dev'.shy = BusyDelay
  BY <1>2
<1>4. Answer(a) \in Frames \cup {Answer("ack"), Answer("err")} /\ Answer(a).is = a
  BY DEF Answer
<1>5. /\ Len(air) \in Nat /\ Len(air') = Len(air) + 1
      /\ \A i \in 1..Len(air) : air'[i] = air[i]
      /\ air'[Len(air) + 1] = Answer(a)
      /\ air' \in Seq(Frames \cup {Answer("ack"), Answer("err")})
  BY <1>3, <1>4, AirAppend
<1>6. \A i \in 1..Len(air') : i \in 1..Len(air) \/ i = Len(air) + 1
  BY <1>5
<1>7. \A i \in 1..Len(air) : InFlight(i) /\ air[i] \in Frames /\ air[i].n \in Nat
  BY <1>1, StatusOnly
<1>8. \A i \in 1..Len(air) : InFlight(i)' /\ i # Len(air) + 1 /\ i < Len(air) + 1
  BY <1>5, <1>7 DEF InFlight
<1>9. \A i \in 1..Len(air') : InFlight(i)' => i \in 1..Len(air)
  BY <1>4, <1>5, <1>6 DEF InFlight
<1>10. /\ dev.n \in Nat /\ seen.n \in Nat /\ seen \in Frames /\ born \in Nat /\ BusyDelay \in Nat
       /\ seen.n <= dev.n /\ born <= dev.n /\ mark <= seen.n
       /\ born' \in {born, dev.n} /\ born' <= dev.n /\ born' \in Nat
  BY <1>2, ArmType, ArrivalAssumption DEF TypeOK, Stream
<1>11. dev.motion = "none" /\ dev.place # "goal"
  BY <1>1 DEF Truth
<1>12. TypeOK'
  <2>1. Len(air') <= AirMax
    BY <1>1, <1>5, ArrivalAssumption
  <2>2. dev' \in [place : Places, going : BOOLEAN, fault : BOOLEAN, shy : 0 .. BusyDelay,
                  motion : {"none", "planned", "running", "over", "torn"},
                  n : FirstSeq .. FirstSeq + MaxTicks]
    BY <1>2 DEF Arms, Motions
  <2>. QED  BY <1>1, <1>5, <1>10, <2>1, <2>2 DEF TypeOK
<1>13. Stream'
  <2>1. /\ \A i \in 1..Len(air) : seen.n < air[i].n /\ air[i].n <= dev.n
        /\ \A i, j \in 1..Len(air) : i < j => air[i].n < air[j].n
    BY <1>7 DEF Stream
  <2>2. /\ \A i \in 1..Len(air') : InFlight(i)' => seen.n < air'[i].n /\ air'[i].n <= dev'.n
        /\ \A i, j \in 1..Len(air') : InFlight(i)' /\ InFlight(j)' /\ i < j => air'[i].n < air'[j].n
    BY <1>2, <1>5, <1>9, <2>1
  <2>. QED  BY <1>1, <1>2, <1>10, <2>2 DEF Stream
<1>14. Answers'
  <2>1. \A i \in 1..Len(air') : ~InFlight(i)' => i = Len(air) + 1
    BY <1>6, <1>8
  <2>2. \A i, j \in 1..Len(air') : air'[i].is = "ack" /\ InFlight(j)' => ~(i < j)
    <3>1. \A i \in 1..Len(air') : air'[i].is = "ack" => i = Len(air) + 1
      BY <1>5, <1>6, <1>7 DEF InFlight
    <3>. QED  BY <1>5, <1>9, <3>1
  <2>. QED  BY <1>1, <2>1, <2>2 DEF Answers, Answered
<1>15. Truth'
  <2>1. seen.place # "goal" /\ \A i \in 1..Len(air) : air[i].place # "goal"
    BY <1>7, <1>11 DEF Truth, Tells
  <2>2. Tells(seen)'
    <3>1. seen' \in Frames /\ seen'.place # "goal" /\ seen'.n <= dev.n
      BY <1>1, <1>10, <2>1
    <3>2. dev'.motion = "none" \/ ~(seen'.n > born' + BusyDelay)
      BY <1>1, <1>3, <1>10, <1>11
    <3>. QED  BY <3>1, <3>2 DEF Tells
  <2>3. \A i \in 1..Len(air') : InFlight(i)' => Tells(air[i])'
    <3>1. \A i \in 1..Len(air) : air[i].n <= dev.n
      BY <1>7 DEF Stream
    <3>2. \A i \in 1..Len(air) : dev'.motion = "none" \/ ~(air'[i].n > born' + BusyDelay)
      BY <1>3, <1>5, <1>7, <1>10, <1>11, <3>1
    <3>. QED  BY <1>5, <1>9, <2>1, <3>2 DEF Tells
  <2>4. dev'.motion \in {"planned", "running"} => dev'.shy = 0 \/ dev'.n + dev'.shy <= born' + BusyDelay
    BY <1>2, <1>3, <1>10, <1>11
  <2>5. (\E i \in 1..Len(air') : air'[i].is = "ack") => dev'.motion # "none"
    <3>1. (\E i \in 1..Len(air') : air'[i].is = "ack") => a = "ack"
      BY <1>4, <1>5, <1>6, <1>7 DEF InFlight
    <3>. QED  BY <1>3, <3>1
  <2>. QED  BY <1>1, <1>2, <1>11, <2>2, <2>3, <2>4, <2>5 DEF Truth, Answered
<1>16. Counted' /\ Timed' /\ Rounds'
  BY <1>1 DEF Counted, Timed, Rounds, Timing
<1>. QED  BY <1>12, <1>13, <1>14, <1>15, <1>16

----------------------------------------------------------------------------
(* The theorems.                                                           *)

LEMMA StutterStep ==
  ASSUME ArrivalInv, UNCHANGED vars
  PROVE  ArrivalInv'
<1>1. /\ dev' = dev /\ moved' = moved /\ air' = air /\ seen' = seen /\ link' = link
      /\ pc' = pc /\ kind' = kind /\ outcome' = outcome /\ news' = news /\ mark' = mark
      /\ last' = last /\ prev' = prev /\ points' = points /\ count' = count
      /\ elapsed' = elapsed /\ left' = left /\ slice' = slice /\ born' = born
  BY DEF vars
<1>2. TypeOK' /\ Counted' /\ Timed' /\ Rounds'
  BY <1>1 DEF ArrivalInv, TypeOK, Counted, Timed, Rounds, Timing, Spent
<1>3. Stream' /\ Answers' /\ Truth'
  BY <1>1 DEF ArrivalInv, Stream, Answers, Truth, InFlight, Answered, Tells
<1>. QED  BY <1>2, <1>3 DEF ArrivalInv

LEMMA ArrivalInit ==
  ASSUME Init
  PROVE  ArrivalInv
<1>1. /\ air = <<>> /\ pc = "idle" /\ outcome = "none" /\ count = 0 /\ last = 0 /\ born = 0
      /\ mark = 0 /\ points = 0 /\ elapsed = 0 /\ left = 0 /\ slice = 0 /\ prev = "none"
      /\ kind \in Kinds
  BY DEF Init, NoFrame
<1>0. news \in BOOLEAN /\ link \in BOOLEAN /\ moved \in BOOLEAN
  BY DEF Init
<1>2. PICK p \in {"away", "elsewhere"}, was \in {"away", "elsewhere"}, f \in BOOLEAN :
          /\ dev = [place |-> p, going |-> FALSE, fault |-> f, shy |-> 0,
                    motion |-> "none", n |-> FirstSeq]
          /\ seen = [is |-> "status", n |-> FirstSeq, place |-> was, still |-> TRUE,
                      busy |-> FALSE, fault |-> f]
  BY DEF Init
<1>3. /\ FirstSeq \in FirstSeq .. FirstSeq + MaxTicks /\ FirstSeq \in Nat \ {0}
      /\ 0 \in 0 .. BusyDelay /\ Budget[kind] \in Nat \ {0} /\ CapFactor * Budget[kind] \in Nat
      /\ 0 \in 0 .. Budget[kind] /\ 0 \in 0 .. MaxPoints
      /\ 0 \in 0 .. ArriveFrames /\ ArriveFrames > 0 /\ AirMax \in Nat
  <2>1. Budget[kind] \in Nat \ {0} /\ CapFactor \in Nat \ {0}
    BY <1>1, ArrivalAssumption
  <2>. QED  BY <2>1, ArrivalAssumption
<1>4. dev \in Arms /\ seen \in Frames
  BY <1>2, <1>3 DEF Arms, Motions, Frames, Places
<1>5. Len(air) = 0 /\ air \in Seq(Frames \cup {Answer("ack"), Answer("err")})
      /\ \A i \in 1..Len(air) : FALSE
  BY <1>1
<1>6. TypeOK
  <2>1. /\ pc \in {"idle", "collecting", "called", "sent", "acked", "waiting", "reading", "napping",
                  "done"}
        /\ outcome \in Ends \cup {"none"} /\ prev \in Places \cup {"none"}
        /\ mark \in Nat /\ last \in Nat /\ born \in Nat /\ elapsed \in Nat
    BY <1>1
  <2>2. count \in 0 .. ArriveFrames /\ points \in 0 .. MaxPoints
        /\ left \in 0 .. Budget[kind] /\ slice \in Nat /\ Len(air) <= AirMax
    BY <1>1, <1>3, <1>5
  <2>. QED  BY <1>0, <1>1, <1>4, <1>5, <2>1, <2>2 DEF TypeOK, Arms, Motions
<1>7. Stream /\ Answers
  BY <1>1, <1>2, <1>3, <1>5 DEF Stream, Answers, Answered
<1>8. Truth
  BY <1>1, <1>2, <1>5 DEF Truth, Tells, Answered
<1>9. Counted /\ Timed /\ Rounds
  BY <1>1, <1>2, <1>3 DEF Counted, Timed, Rounds, Timing, NoFrame
<1>. QED  BY <1>6, <1>7, <1>8, <1>9 DEF ArrivalInv

LEMMA ArrivalNext ==
  ASSUME ArrivalInv, [Next]_vars
  PROVE  ArrivalInv'
<1>1. CASE UNCHANGED vars
  BY <1>1, StutterStep
<1>2. CASE Next
  <2>1. CASE Physics
    BY <2>1, PhysicsStep
  <2>2. CASE Tick
    BY <2>2, TickStep
  <2>3. CASE Deliver
    BY <2>3, DeliverStep
  <2>4. CASE LinkDies
    BY <2>4, LinkDiesStep
  <2>5. CASE Call \/ CallArc \/ CallPath \/ AddPoint
    BY <2>5, BeforeStep
  <2>6. CASE Send
    BY <2>6, SendStep
  <2>7. CASE Start
    BY <2>7, StartStep
  <2>8. CASE LinkLost \/ GiveUp \/ TcpReached
    BY <2>8, LeaveStep
  <2>9. CASE LookForTarget
    BY <2>9, LookForTargetStep
  <2>10. CASE LookForRest
    BY <2>10, LookForRestStep
  <2>11. CASE LookForFault \/ LookForPose \/ Wake
    BY <2>11, PoseStep
  <2>12. CASE Rest
    BY <2>12, StutterStep DEF Rest
  <2>. QED  BY <1>2, <2>1, <2>2, <2>3, <2>4, <2>5, <2>6, <2>7, <2>8, <2>9, <2>10, <2>11, <2>12
            DEF Next
<1>. QED  BY <1>1, <1>2

(* The invariant of the whole: every frame on its way or received tells the  *)
(* truth about the motion, and those behind the answer are of the command    *)
(* (arm.cpp: arrive; cart.cpp: wait_settled).                                *)
THEOREM ArrivalHolds == Spec => []ArrivalInv
<1>1. Init => ArrivalInv
  BY ArrivalInit
<1>2. ArrivalInv /\ [Next]_vars => ArrivalInv'
  BY ArrivalNext
<1>. QED  BY <1>1, <1>2, PTL DEF Spec

\* Only a return changes the outcome, and nothing moves after it.
LEMMA AfterReturn ==
  ASSUME ArrivalInv, [Next]_vars, outcome # "none"
  PROVE  UNCHANGED vars
<1>1. pc = "done"
  BY DEF ArrivalInv, Timed
<1>. QED  BY <1>1 DEF Next, Physics, Tick, Deliver, LinkDies, Call, CallArc, CallPath, AddPoint,
                      Send, Start, LinkLost, LookForTarget, GiveUp, LookForRest, TcpReached,
                      LookForFault, LookForPose, Wake, Rest, Timing

\* Which action reports each of the ends that the properties speak of.
LEMMA Outcomes ==
  ASSUME [Next]_vars, outcome = "none"
  PROVE  /\ outcome' = "ok" => LookForTarget
         /\ outcome' \in {"settled", "unsettled"} => TcpReached
         /\ outcome' = "near" => LookForPose
         /\ outcome' = "fault" => LookForTarget \/ LookForRest \/ LookForFault
         /\ outcome' = "moving" => LookForTarget \/ GiveUp
<1>1. Verdict \in {"still", "moving"}
  BY DEF Verdict
<1>2. CASE UNCHANGED vars \/ Physics \/ Tick \/ LinkDies \/ Call \/ CallPath \/ Send \/ Start \/ Rest
  <2>1. outcome' = outcome
    BY <1>2 DEF vars, Physics, Tick, LinkDies, Call, CallPath, Send, Start, Rest, call
  <2>. QED  BY <2>1
<1>3. CASE Deliver \/ CallArc \/ AddPoint \/ LinkLost
  <2>1. outcome' \in {outcome, "rejected", "noanswer", "invalid", "link"}
    BY <1>3 DEF Deliver, CallArc, AddPoint, LinkLost, Return
  <2>. QED  BY <2>1
<1>4. CASE LookForTarget
  <2>1. outcome' \in {outcome, "fault", "ok", "still", "moving"}
    BY <1>1, <1>4 DEF LookForTarget, Return
  <2>. QED  BY <1>4, <2>1
<1>5. CASE GiveUp
  <2>1. outcome' \in {"still", "moving"}
    BY <1>1, <1>5 DEF GiveUp, Return
  <2>. QED  BY <1>5, <2>1
<1>6. CASE LookForRest
  <2>1. outcome' \in {outcome, "fault", "timeout"}
    BY <1>6 DEF LookForRest, Round, Return
  <2>. QED  BY <1>6, <2>1
<1>7. CASE TcpReached
  <2>1. outcome' \in {"settled", "unsettled"}
    BY <1>7 DEF TcpReached, Return
  <2>. QED  BY <1>7, <2>1
<1>8. CASE LookForFault
  <2>1. outcome' \in {outcome, "fault"}
    BY <1>8 DEF LookForFault, Return
  <2>. QED  BY <1>8, <2>1
<1>9. CASE LookForPose
  <2>1. outcome' \in {outcome, "noanswer", "near", "timeout"}
    BY <1>9 DEF LookForPose, Return
  <2>. QED  BY <1>9, <2>1
<1>10. CASE Wake
  <2>1. outcome' \in {outcome, "timeout"}
    BY <1>10 DEF Wake, Return
  <2>. QED  BY <1>10, <2>1
<1>. QED  BY <1>2, <1>3, <1>4, <1>5, <1>6, <1>7, <1>8, <1>9, <1>10 DEF Next

\* A call that says its goal is reached has a frame, or the arm itself, to show for it.
LEMMA NoFalseArrivalNext ==
  ASSUME ArrivalInv, NoFalseArrival, [Next]_vars
  PROVE  NoFalseArrival'
<1>1. CASE outcome # "none"
  BY <1>1, AfterReturn DEF vars, NoFalseArrival
<1>2. CASE outcome = "none"
  <2>1. SUFFICES ASSUME outcome' \in {"ok", "settled", "near"}
                 PROVE  dev'.motion = "over"
    BY DEF NoFalseArrival
  <2>2. CASE outcome' = "ok"
    <3>1. LookForTarget /\ dev' = dev
      BY <1>2, <2>2, Outcomes DEF LookForTarget, world
    <3>2. AtTarget
      <4>1. Verdict \in {"still", "moving"}
        BY DEF Verdict
      <4>2. (IF AtTarget THEN count + 1 ELSE 0) >= ArriveFrames
        BY <1>2, <2>2, <3>1, <4>1 DEF LookForTarget, Return
      <4>. QED  BY <4>2, ArrivalAssumption
    <3>. QED  BY <3>1, <3>2 DEF AtTarget, ArrivalInv, Truth, Tells
  <2>3. CASE outcome' = "settled"
    <3>1. TcpReached /\ dev' = dev
      BY <1>2, <2>3, Outcomes DEF TcpReached, world
    <3>2. dev.place = "goal"
      BY <2>3, <3>1 DEF TcpReached, Return, Reached
    <3>. QED  BY <3>1, <3>2 DEF ArrivalInv, Truth
  <2>4. CASE outcome' = "near"
    <3>1. LookForPose /\ dev' = dev
      BY <1>2, <2>4, Outcomes DEF LookForPose, world
    <3>2. dev.place = "goal"
      BY <1>2, <2>4, <3>1 DEF LookForPose, Return
    <3>. QED  BY <3>1, <3>2 DEF ArrivalInv, Truth
  <2>. QED  BY <2>1, <2>2, <2>3, <2>4
<1>. QED  BY <1>1, <1>2

LEMMA FaultIsNewsNext ==
  ASSUME ArrivalInv, FaultIsNews, [Next]_vars
  PROVE  FaultIsNews'
<1>1. CASE outcome # "none"
  BY <1>1, AfterReturn DEF vars, FaultIsNews
<1>2. CASE outcome = "none"
  <2>1. SUFFICES ASSUME outcome' = "fault"
                 PROVE  /\ kind' = "settle" => last' > mark'
                        /\ kind' = "arrive" => last' > born'
    BY DEF FaultIsNews
  <2>2. LookForTarget \/ LookForRest \/ LookForFault
    BY <1>2, <2>1, Outcomes
  <2>3. /\ seen.n \in Nat /\ mark \in Nat /\ mark <= seen.n /\ born \in Nat
    BY ArmType DEF ArrivalInv, TypeOK, Stream
  <2>4. CASE LookForTarget
    <3>1. kind' = "arrive" /\ last' = seen.n /\ born' = born /\ pc = "waiting" /\ news
      BY <2>4 DEF LookForTarget, world
    <3>. QED  BY <3>1 DEF ArrivalInv, Answers, Answered
  <2>5. CASE LookForRest
    <3>1. kind' = "settle" /\ last' = seen.n /\ mark' = mark
      BY <2>5 DEF LookForRest, Round, world, asked
    <3>2. Fresh
      BY <1>2, <2>1, <2>5 DEF LookForRest, Round, Return
    <3>3. seen.n # mark
      <4>1. ASSUME seen.n = mark  PROVE FALSE
        <5>1. seen.n % SeqWheel \in 0 .. (SeqWheel - 1) /\ mark % SeqWheel = seen.n % SeqWheel
          BY <2>3, <4>1, ArrivalAssumption
        <5>2. (seen.n % SeqWheel) - (mark % SeqWheel) = 0
          BY <5>1, ArrivalAssumption
        <5>3. 0 % SeqWheel = 0
          BY ArrivalAssumption
        <5>. QED  BY <3>2, <5>2, <5>3 DEF Fresh
      <4>. QED  BY <4>1
    <3>. QED  BY <2>3, <3>1, <3>3
  <2>6. CASE LookForFault
    BY <2>6 DEF LookForFault, world
  <2>. QED  BY <2>2, <2>4, <2>5, <2>6
<1>. QED  BY <1>1, <1>2

LEMMA NotCutShortNext ==
  ASSUME ArrivalInv, NotCutShort, [Next]_vars
  PROVE  NotCutShort'
<1>1. CASE outcome # "none"
  BY <1>1, AfterReturn DEF vars, NotCutShort
<1>2. CASE outcome = "none"
  <2>1. SUFFICES ASSUME outcome' = "moving"
                 PROVE  \/ elapsed' >= CapFactor * Budget[kind']
                        \/ dev'.n - seen'.n >= Budget[kind']
    BY DEF NotCutShort
  <2>2. LookForTarget \/ GiveUp
    BY <1>2, <2>1, Outcomes
  <2>3. Budget[kind] \in Nat \ {0} /\ left \in Nat
    BY BudgetType DEF ArrivalInv, TypeOK
  <2>4. CASE LookForTarget
    <3>1. elapsed' = elapsed /\ kind' = kind /\ ~seen.still /\ (Capped \/ Renewed = 0)
      BY <1>2, <2>1, <2>4 DEF LookForTarget, Return, Verdict, world
    <3>. QED  BY <2>3, <3>1 DEF Capped, Renewed
  <2>5. CASE GiveUp
    <3>1. /\ elapsed' = elapsed /\ kind' = kind /\ dev' = dev /\ seen' = seen
          /\ kind = "arrive" /\ pc = "waiting" /\ ~news /\ ~seen.still /\ (Capped \/ left = 0)
      BY <2>1, <2>5 DEF GiveUp, Return, Verdict, world, clocks
    <3>2. left + (dev.n - seen.n) >= Budget[kind]
      BY <3>1 DEF ArrivalInv, Timed
    <3>3. dev.n \in Nat /\ seen.n \in Nat
      BY ArmType DEF ArrivalInv
    <3>. QED  BY <2>3, <3>1, <3>2, <3>3 DEF Capped
  <2>. QED  BY <2>2, <2>4, <2>5
<1>. QED  BY <1>1, <1>2

LEMMA WholeMotionNext ==
  ASSUME WindowOutlastsDelay, ArrivalInv, WholeMotion, [Next]_vars
  PROVE  WholeMotion'
<1>1. CASE outcome # "none"
  BY <1>1, AfterReturn DEF vars, WholeMotion
<1>2. CASE outcome = "none"
  <2>1. ASSUME outcome' \in {"settled", "unsettled"}
        PROVE  dev'.motion \in {"over", "torn"}
    <3>1. kind = "settle" /\ pc = "reading" /\ dev' = dev
      BY <1>2, <2>1, Outcomes DEF TcpReached, world
    <3>. QED  BY <3>1 DEF ArrivalInv, Counted, Final
  <2>. QED  BY <2>1 DEF WholeMotion
<1>. QED  BY <1>1, <1>2

(* No false success (arm.cpp: arrive; cart.cpp:432 tcp_reached, move_p):     *)
(* whatever is lost, delayed or done by others, a call that reports its goal *)
(* reached saw its own motion end there.                                     *)
THEOREM NoFalseArrivalHolds == Spec => []NoFalseArrival
<1>1. Init => NoFalseArrival
  BY DEF Init, NoFalseArrival
<1>2. ArrivalInv /\ NoFalseArrival /\ [Next]_vars => NoFalseArrival'
  BY NoFalseArrivalNext
<1>. QED  BY <1>1, <1>2, ArrivalHolds, PTL DEF Spec

(* A fault that ends a call was reported in a frame later than all the call  *)
(* knew when it was made (wait_settled), or than the command (arrive).       *)
THEOREM FaultIsNewsHolds == Spec => []FaultIsNews
<1>1. Init => FaultIsNews
  BY DEF Init, FaultIsNews
<1>2. ArrivalInv /\ FaultIsNews /\ [Next]_vars => FaultIsNews'
  BY FaultIsNewsNext
<1>. QED  BY <1>1, <1>2, ArrivalHolds, PTL DEF Spec

(* "Still moving" is said only at the hard cap, or when no frame has come    *)
(* for a whole budget (arm.cpp:978).                                         *)
THEOREM NotCutShortHolds == Spec => []NotCutShort
<1>1. Init => NotCutShort
  BY DEF Init, NotCutShort
<1>2. ArrivalInv /\ NotCutShort /\ [Next]_vars => NotCutShort'
  BY NotCutShortNext
<1>. QED  BY <1>1, <1>2, ArrivalHolds, PTL DEF Spec

(* No call waits longer than its kind may: arrive up to the cap and one more *)
(* budget, wait_settled its budget and one query of the pose, move_p a whole *)
(* round more than its budget (arm.cpp: arrive, move_p; wait_settled).       *)
THEOREM EndsInTimeHolds == Spec => []EndsInTime
<1>1. ArrivalInv => EndsInTime
  <2>1. SUFFICES ASSUME ArrivalInv, Timing
                 PROVE  elapsed <= Longest
    BY DEF EndsInTime
  <2>2. /\ Budget[kind] \in Nat /\ CapFactor * Budget[kind] \in Nat /\ CapFactor \in Nat
        /\ elapsed \in Nat /\ left \in Nat /\ slice \in Nat
        /\ Slice \in Nat /\ PoseWindow \in Nat /\ Nap \in Nat
        /\ kind \in {"arrive", "settle", "pose"}
    BY <2>1, BudgetType, ArrivalAssumption DEF ArrivalInv, TypeOK
  <2>3. CASE kind = "arrive"
    <3>1. elapsed + left <= CapFactor * Budget[kind] + Budget[kind]
      BY <2>1, <2>3 DEF ArrivalInv, Timed
    <3>2. (CapFactor + 1) * Budget[kind] = CapFactor * Budget[kind] + Budget[kind]
      <4>1. CapFactor \in Int /\ Budget[kind] \in Int
        BY <2>2
      <4>2. \A m, n \in Int : (m + 1) * n = m * n + n
        OBVIOUS
      <4>. QED  BY <4>1, <4>2
    <3>. QED  BY <2>2, <2>3, <3>1, <3>2 DEF Longest
  <2>4. CASE kind = "settle"
    <3>1. pc = "waiting" \/ pc = "reading"
      BY <2>1, <2>4 DEF ArrivalInv, Rounds, Timing
    <3>2. /\ pc = "waiting" => elapsed + left <= Budget[kind]
          /\ pc = "reading" => elapsed + slice <= Budget[kind] + PoseWindow
      BY <2>1, <2>4 DEF ArrivalInv, Rounds
    <3>. QED  BY <2>2, <2>4, <3>1, <3>2 DEF Longest
  <2>5. CASE kind = "pose"
    <3>1. elapsed + slice <= Budget[kind] - 1 + Spent
      BY <2>1, <2>5 DEF ArrivalInv, Rounds
    <3>2. Spent <= Slice + PoseWindow + Nap /\ Spent \in Nat
      BY <2>2 DEF Spent
    <3>. QED  BY <2>2, <2>5, <3>1, <3>2 DEF Longest
  <2>. QED  BY <2>2, <2>3, <2>4, <2>5
<1>. QED  BY <1>1, ArrivalHolds, PTL

(* The unit of serialisation is the whole motion (cart.cpp:582): if the      *)
(* window of still frames is longer than the firmware needs to show          *)
(* CART_BUSY, wait_settled never lets go of a motion still to be executed.   *)
(* With a shorter window it does: nothing but time links answer and bit.     *)
THEOREM WholeMotionHolds == WindowOutlastsDelay /\ Spec => []WholeMotion
<1>. DEFINE Whole == WindowOutlastsDelay /\ WholeMotion
<1>1. WindowOutlastsDelay /\ Init => Whole
  BY DEF Init, WholeMotion
<1>2. ArrivalInv /\ Whole /\ [Next]_vars => Whole'
  BY WholeMotionNext DEF WindowOutlastsDelay
<1>3. Whole => WholeMotion
  OBVIOUS
<1>. HIDE DEF Whole
<1>. QED  BY <1>1, <1>2, <1>3, ArrivalHolds, PTL DEF Spec
=============================================================================
