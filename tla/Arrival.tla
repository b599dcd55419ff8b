------------------------------ MODULE Arrival ------------------------------
(***************************************************************************)
(* How a motion call decides that the arm has arrived (arm.cpp: movej,     *)
(* movej_sync, home and arrive; move_p; cart.cpp: move_l, move_c,          *)
(* move_path and wait_settled).  The call sends its command, is answered,  *)
(* and then watches the stream of status frames.  Frames carry a 16-bit    *)
(* number, are generated once per Tick, travel, and may be lost; what the  *)
(* call sees is only the last one received.  Meanwhile the arm moves, may  *)
(* fault, and may be taken away by the command of another process.         *)
(*                                                                         *)
(* The answers of the firmware (ACK, and 0x4E for a Cartesian command) are *)
(* one "ack" here, in order with the frames; CartPairing and AckQueues     *)
(* say how they can be lost.                                               *)
(***************************************************************************)
EXTENDS Integers, Sequences

CONSTANTS Kinds,          \* a subset of {"arrive", "settle", "pose"}
          Budget,         \* move_timeout, or the timeout given, in frame periods, by kind
          CapFactor,      \* kArriveHardCapFactor
          ArriveFrames,   \* arrive_frames
          Slice,          \* the longest wait for one frame (50 ms, 100 ms)
          PoseWindow,     \* the longest wait for the answer of get_tcp (0.6 s)
          Nap,            \* move_p's pause between two looks (20 ms)
          BusyDelay,      \* frames after the answer that do not show CART_BUSY yet
          SeqWheel,       \* 2^16: frame numbers wrap
          FirstSeq,       \* the number of the last frame before Init
          MaxPoints,      \* bound: points of a path (32 in the firmware)
          MaxLead,        \* bound: frame periods before the command is answered
          MaxTicks,       \* bound: frame periods in a behaviour, under half the wheel
          AirMax          \* bound: frames and answers on their way

ASSUME ArrivalAssumption ==
    /\ Kinds \subseteq {"arrive", "settle", "pose"}
    /\ Budget \in [Kinds -> Nat \ {0}] /\ CapFactor \in Nat \ {0} /\ ArriveFrames \in Nat \ {0}
    /\ Slice \in Nat \ {0} /\ PoseWindow \in Nat \ {0} /\ Nap \in Nat \ {0}
    /\ BusyDelay \in Nat /\ FirstSeq \in Nat \ {0}
    /\ MaxLead \in Nat /\ MaxPoints \in Nat /\ MaxTicks \in Nat
    /\ SeqWheel \in Nat \ {0} /\ 2 * MaxTicks < SeqWheel
    /\ AirMax \in Nat \ {0}

VARIABLES dev,     \* the arm: place, going, motion, shy, fault, n (frames generated)
          moved,   \* something became of the arm in this frame period
          air,     \* frames and answers on their way, in order
          seen,    \* Ack::state, the last frame received
          link,    \* FALSE once the reader thread died
          pc, kind, outcome,
          news,    \* a frame arrived since the call last looked
          mark,    \* seq0 of wait_settled: the last frame seen when the call was made
          last,    \* the last frame judged
          prev,    \* where the arm was in it
          points,  \* the points of a path still to be sent
          count,   \* n_ok, or the length of the window of still frames
          elapsed, left,  \* the clocks of the call's wait
          slice,   \* what is left of the wait under way: for a frame, a pose, a pause
          born     \* history: frames generated when the command was accepted
vars == <<dev, moved, air, seen, link, pc, kind, outcome, news, mark, last, prev,
          points, count, elapsed, left, slice, born>>
world == <<dev, moved, air, seen, link, kind, born>>
asked == <<mark, points>>
judged == <<last, prev, count>>
call == <<pc, kind, outcome, asked, judged>>
clocks == <<elapsed, left, slice>>

Places == {"away", "between", "goal", "elsewhere"}
Frames == [is : {"status"}, n : FirstSeq .. FirstSeq + MaxTicks, place : Places,
           still : BOOLEAN, busy : BOOLEAN, fault : BOOLEAN]
Answer(a) == [is |-> a]
NoFrame == 0        \* no frame judged yet: frames are numbered from 1
Ends == {"ok", "settled", "unsettled", "near", "fault", "moving", "still", "timeout",
         "noanswer", "rejected", "invalid", "link"}

TypeOK ==
    /\ dev \in [place : Places, going : BOOLEAN, fault : BOOLEAN, shy : 0 .. BusyDelay,
                motion : {"none", "planned", "running", "over", "torn"},
                n : FirstSeq .. FirstSeq + MaxTicks]
    /\ moved \in BOOLEAN
    /\ air \in Seq(Frames \cup {Answer("ack"), Answer("err")}) /\ Len(air) <= AirMax
    /\ seen \in Frames /\ link \in BOOLEAN /\ news \in BOOLEAN
    /\ pc \in {"idle", "collecting", "called", "sent", "acked", "waiting", "reading", "napping",
              "done"}
    /\ kind \in Kinds /\ outcome \in Ends \cup {"none"}
    /\ mark \in Nat /\ last \in Nat /\ born \in Nat /\ prev \in Places \cup {"none"}
    /\ count \in 0 .. ArriveFrames /\ points \in 0 .. MaxPoints
    /\ elapsed \in Nat /\ left \in 0 .. Budget[kind] /\ slice \in Nat

----------------------------------------------------------------------------
(* The arm and its stream.                                                 *)

Busy == dev.motion \in {"planned", "running"} /\ dev.shy = 0
\* A moving arm may report a velocity under dq_tol (it starts, it crawls).
Report(still) == [is |-> "status", n |-> dev.n + 1, place |-> dev.place,
                  still |-> still, busy |-> Busy, fault |-> dev.fault]

Init ==
    /\ \E p, was \in {"away", "elsewhere"}, f \in BOOLEAN :
          /\ dev = [place |-> p, going |-> FALSE, fault |-> f, shy |-> 0,
                    motion |-> "none", n |-> FirstSeq]
          /\ seen = [is |-> "status", n |-> FirstSeq, place |-> was, still |-> TRUE,
                      busy |-> FALSE, fault |-> f]
    /\ moved = TRUE /\ air = <<>> /\ link = TRUE /\ news = FALSE
    /\ pc = "idle" /\ kind \in Kinds /\ outcome = "none"
    /\ mark = 0 /\ last = NoFrame /\ prev = "none" /\ count = 0 /\ points = 0 /\ born = 0
    /\ elapsed = 0 /\ left = 0 /\ slice = 0

\* What becomes of the arm in a frame period: it moves on our trajectory; ...
Moves == \/ dev.motion = "planned" /\ dev' = [dev EXCEPT !.motion = "running", !.going = TRUE,
                                                        !.place = "between"]
         \/ dev.motion = "running" /\ dev' = [dev EXCEPT !.motion = "over", !.going = FALSE,
                                                        !.place = "goal"]
\* ... another process moves it: the firmware throws our trajectory away first; ...
Foreign == \/ /\ dev.motion \in {"planned", "running"}
              /\ dev' = [dev EXCEPT !.motion = "torn", !.going = TRUE, !.place = "between"]
           \/ /\ dev.motion = "torn" /\ dev.going
              /\ dev' = [dev EXCEPT !.going = FALSE, !.place = "elsewhere"]
\* ... it faults: a latched fault stops it, leaves CART_BUSY on, and is cleared by others.
Faults == dev' = [dev EXCEPT !.fault = TRUE, !.going = FALSE]
Clears == dev.motion = "none" /\ dev' = [dev EXCEPT !.fault = FALSE]

Physics ==
    /\ pc # "done" /\ moved = FALSE /\ moved' = TRUE
    /\ IF dev.fault THEN Clears ELSE Moves \/ Foreign \/ Faults
    /\ UNCHANGED <<air, seen, link, call, news, clocks, born>>

\* The caller has something to do now, and does it before a frame period is over.  move_p's
\* waits - for a frame, for the pose, and its pause - are not clipped to what is left.
Due == \/ pc = "acked"
       \/ pc = "waiting" /\ \/ news
                            \/ ~link
                            \/ kind # "pose" /\ left = 0
                            \/ kind # "arrive" /\ slice = 0
       \/ pc \in {"reading", "napping"} /\ slice = 0
Timing == pc \in {"waiting", "reading", "napping"}
Down(k) == IF k = 0 THEN 0 ELSE k - 1

Tick ==
    /\ ~Due /\ pc \notin {"idle", "done"}
    /\ dev.n < FirstSeq + MaxTicks
    /\ pc \in {"collecting", "called", "sent"} => dev.n < FirstSeq + MaxLead
    /\ moved' = FALSE
    /\ dev' = [dev EXCEPT !.n = @ + 1,
                          !.shy = IF dev.motion \in {"planned", "running"} THEN Down(@) ELSE @]
    /\ \/ air' = air
       \/ /\ Len(air) < AirMax
          /\ \E still \in BOOLEAN : (dev.going \/ still) /\ air' = Append(air, Report(still))
    /\ IF Timing
       THEN elapsed' = elapsed + 1 /\ left' = Down(left) /\ slice' = Down(slice)
       ELSE UNCHANGED clocks
    /\ UNCHANGED <<seen, link, call, news, born>>

\* The reader thread takes the next frame or answer.
Deliver ==
    /\ link /\ pc # "done" /\ air # <<>> /\ air' = Tail(air)
    /\ CASE Head(air).is = "ack" -> pc' = "acked" /\ UNCHANGED <<outcome, seen, news>>
         [] Head(air).is = "err" -> /\ pc' = "done" /\ outcome' = "rejected"
                                 /\ UNCHANGED <<seen, news>>
         [] OTHER -> seen' = Head(air) /\ news' = TRUE /\ UNCHANGED <<pc, outcome>>
    /\ UNCHANGED <<dev, moved, link, kind, asked, judged, clocks, born>>

LinkDies ==
    /\ link /\ Timing /\ link' = FALSE
    /\ UNCHANGED <<dev, moved, air, seen, call, news, clocks, born>>

----------------------------------------------------------------------------
(* The call up to its answer.                                              *)

Return(o) == pc' = "done" /\ outcome' = o

\* move_l takes seq_now before it takes cart_serial_, and then may wait for it.
Call ==
    /\ pc = "idle" /\ pc' = "called" /\ mark' = seen.n
    /\ UNCHANGED <<world, outcome, news, judged, points, clocks>>

\* move_c first asks, under cart_serial_, whether the arm is where the arc starts.
CallArc ==
    /\ kind = "settle" /\ pc = "idle"
    /\ \/ Return("noanswer") /\ UNCHANGED mark
       \/ dev.place # seen.place /\ Return("invalid") /\ UNCHANGED mark
       \/ dev.place = seen.place /\ pc' = "called" /\ mark' = seen.n /\ UNCHANGED outcome
    /\ UNCHANGED <<world, news, judged, points, clocks>>

\* move_path takes its mark, then sends BEGIN and the points, each to be acknowledged.
CallPath ==
    /\ kind = "settle" /\ pc = "idle" /\ pc' = "collecting" /\ mark' = seen.n
    /\ points' \in 1 .. MaxPoints
    /\ UNCHANGED <<world, outcome, news, judged, clocks>>
AddPoint ==
    /\ pc = "collecting"
    /\ \/ Return("rejected") /\ UNCHANGED points
       \/ points > 0 /\ points' = points - 1 /\ UNCHANGED <<pc, outcome>>
       \/ points = 0 /\ pc' = "called" /\ UNCHANGED <<points, outcome>>
    /\ UNCHANGED <<world, news, mark, judged, clocks>>

\* The frame is written; the firmware refuses it in a fault and accepts it otherwise.
Send ==
    /\ pc = "called" /\ Len(air) < AirMax /\ pc' = "sent"
    /\ \/ dev.fault /\ air' = Append(air, Answer("err")) /\ UNCHANGED <<dev, born>>
       \/ /\ ~dev.fault /\ air' = Append(air, Answer("ack")) /\ born' = dev.n
          /\ dev' = [dev EXCEPT !.motion = "planned", !.shy = BusyDelay]
    /\ UNCHANGED <<moved, seen, link, kind, outcome, news, asked, judged, clocks>>

\* Mutant: the wait opens on the frame already there, as if it were new.
Start_Eager ==
    /\ pc = "acked" /\ pc' = "waiting" /\ news' = TRUE
    /\ elapsed' = 0 /\ left' = Budget[kind] /\ slice' = Slice
    /\ UNCHANGED <<world, outcome, asked, judged>>

Start ==
    /\ pc = "acked" /\ pc' = "waiting" /\ news' = FALSE
    /\ elapsed' = 0 /\ left' = Budget[kind] /\ slice' = Slice
    /\ UNCHANGED <<world, outcome, asked, judged>>

LinkLost ==
    /\ pc = "waiting" /\ ~link /\ Return("link")
    /\ UNCHANGED <<world, news, asked, judged, clocks>>

----------------------------------------------------------------------------
(* arrive: consecutive frames at the target; the budget is for no progress. *)

\* Mutant: an arm that keeps moving is waited for without end.
Capped_Never == FALSE
Capped == elapsed >= CapFactor * Budget[kind]

\* Mutant: the budget is one for the whole motion.
Renewed_Never == left
Renewed == IF seen.still THEN left ELSE Budget[kind]

AtTarget == seen.place = "goal" /\ seen.still
Verdict == IF seen.still THEN "still" ELSE "moving"

LookForTarget ==
    /\ kind = "arrive" /\ pc = "waiting" /\ link /\ news /\ news' = FALSE
    /\ last' = seen.n
    /\ LET k == IF AtTarget THEN count + 1 ELSE 0 IN
          \/ seen.fault /\ Return("fault") /\ UNCHANGED <<count, left>>
          \/ ~seen.fault /\ k >= ArriveFrames /\ Return("ok") /\ count' = k /\ UNCHANGED left
          \/ /\ ~seen.fault /\ k < ArriveFrames
             /\ count' = k /\ left' = Renewed
             /\ IF Capped \/ Renewed = 0 THEN Return(Verdict) ELSE UNCHANGED <<pc, outcome>>
    /\ UNCHANGED <<world, asked, prev, elapsed, slice>>

\* The sleep lasts for what is left of the budget, even past the cap; anything else that is
\* received may end it earlier.
GiveUp ==
    /\ kind = "arrive" /\ pc = "waiting" /\ link /\ ~news /\ (Capped \/ left = 0)
    /\ Return(Verdict)
    /\ UNCHANGED <<world, news, asked, judged, clocks>>

----------------------------------------------------------------------------
(* wait_settled: a window of still frames, and CART_BUSY off.              *)

Fresh == LET delta == ((seen.n % SeqWheel) - (mark % SeqWheel)) % SeqWheel
         IN 0 < delta /\ delta < SeqWheel \div 2

Repeated == last # NoFrame /\ seen.n % SeqWheel = last % SeqWheel
StillNow == seen.still /\ prev \in {"none", seen.place}

\* Mutant: the window alone decides, as if CART_BUSY came with the answer.
Settled_AnyBit(k) == k >= ArriveFrames
Settled(k) == k >= ArriveFrames /\ ~seen.busy

\* The loop goes round: no time left ends it.
Round == /\ IF left = 0 THEN Return("timeout") ELSE UNCHANGED <<pc, outcome>>
         /\ slice' = Slice

LookForRest ==
    /\ kind = "settle" /\ pc = "waiting" /\ link /\ (news \/ slice = 0 \/ left = 0)
    /\ news' = FALSE
    /\ IF Repeated \/ ~Fresh
       THEN Round /\ last' = seen.n /\ UNCHANGED <<prev, count>>
       ELSE /\ last' = seen.n
            /\ LET k == IF ~StillNow THEN 0
                        ELSE IF count = ArriveFrames THEN count ELSE count + 1 IN
               \/ seen.fault /\ Return("fault") /\ UNCHANGED <<prev, count, slice>>
               \/ /\ ~seen.fault /\ prev' = seen.place /\ count' = k
                  /\ IF Settled(k) THEN pc' = "reading" /\ slice' = PoseWindow /\ UNCHANGED outcome
                                   ELSE Round
    /\ UNCHANGED <<world, asked, elapsed, left>>

\* Mutant: an arm that stopped is taken to be where it was sent.
Reached_Assumed == TRUE
Reached == dev.place = "goal"

\* tcp_reached: any failure of the query reads as "not there".
TcpReached ==
    /\ kind = "settle" /\ pc = "reading"
    /\ \/ link /\ Return(IF Reached THEN "settled" ELSE "unsettled")
       \/ Return("unsettled")
    /\ UNCHANGED <<world, news, asked, judged, clocks>>

----------------------------------------------------------------------------
(* move_p: a state, then the pose, then a pause; the time is looked at      *)
(* before each round only.                                                 *)

LookForFault ==
    /\ kind = "pose" /\ pc = "waiting" /\ link /\ (news \/ slice = 0)
    /\ news' = FALSE /\ last' = seen.n
    /\ IF seen.fault THEN Return("fault") /\ UNCHANGED slice
                     ELSE pc' = "reading" /\ slice' = PoseWindow /\ UNCHANGED outcome
    /\ UNCHANGED <<world, asked, prev, count, elapsed, left>>

\* A query that fails, or is not answered within its window, ends the call.
LookForPose ==
    /\ kind = "pose" /\ pc = "reading"
    /\ \/ Return("noanswer") /\ UNCHANGED slice
       \/ link /\ dev.place = "goal" /\ Return("near") /\ UNCHANGED slice
       \/ link /\ dev.place # "goal" /\ pc' = "napping" /\ slice' = Nap /\ UNCHANGED outcome
    /\ UNCHANGED <<world, news, asked, judged, elapsed, left>>

Wake ==
    /\ kind = "pose" /\ pc = "napping" /\ slice = 0
    /\ IF left = 0 THEN Return("timeout") /\ UNCHANGED <<news, slice>>
       ELSE pc' = "waiting" /\ news' = FALSE /\ slice' = Slice /\ UNCHANGED outcome
    /\ UNCHANGED <<world, asked, judged, elapsed, left>>

\* The call is over, or the bound on frames is reached.
Rest == (pc = "done" \/ dev.n = FirstSeq + MaxTicks) /\ UNCHANGED vars

Next == \/ Physics \/ Tick \/ Deliver \/ LinkDies
        \/ Call \/ CallArc \/ CallPath \/ AddPoint \/ Send \/ Start \/ LinkLost
        \/ LookForTarget \/ GiveUp \/ LookForRest \/ TcpReached
        \/ LookForFault \/ LookForPose \/ Wake \/ Rest
Spec == Init /\ [][Next]_vars

----------------------------------------------------------------------------
(* Properties.                                                             *)

\* No false success: a call that reports its goal reached saw its own motion end, and never
\* one that another command tore away (the only guard is the pose read back, cart.cpp:432).
NoFalseArrival == outcome \in {"ok", "settled", "near"} => dev.motion = "over"

\* The unit of serialisation is the whole motion: wait_settled never lets go while the
\* firmware is still to execute what it accepted (cart.cpp:582).
WholeMotion == outcome \in {"settled", "unsettled"} => dev.motion \in {"over", "torn"}

\* A fault aborts a motion only if it was reported in a frame later than all the call knew when
\* it was made (wait_settled), or later than the command itself (arrive).
FaultIsNews ==
    outcome = "fault" => CASE kind = "settle" -> last > mark
                           [] kind = "arrive" -> last > born
                           [] OTHER -> TRUE

\* "Still moving" is said only at the hard cap or after a silent budget: an arm that is seen
\* to make progress is not given up (arm.cpp:978).
NotCutShort ==
    outcome = "moving" => \/ elapsed >= CapFactor * Budget[kind]
                          \/ dev.n - seen.n >= Budget[kind]

\* How long after the answer a call may still be at it.  arrive: the cap, and one more budget
\* that a silent stream may add.  wait_settled: its budget, and the query of the pose after it.
\* move_p, whose deadline cuts nothing short: one whole round more than its budget.
Longest == CASE kind = "arrive" -> (CapFactor + 1) * Budget[kind]
             [] kind = "settle" -> Budget[kind] + (IF pc = "reading" THEN PoseWindow ELSE 0)
             [] OTHER -> Budget[kind] - 1 + Slice + PoseWindow + Nap

\* No call waits longer, whatever is lost, delayed, or keeps the arm moving.
EndsInTime == Timing => elapsed <= Longest

\* What the comments of wait_settled say of every frame it judges: generated after the
\* command (cart.cpp:461).
JudgesOwnFrames == kind = "settle" /\ count > 0 => last > born
=============================================================================
