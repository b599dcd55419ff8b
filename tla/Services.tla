------------------------------ MODULE Services ------------------------------
(***************************************************************************)
(* The question-and-answer services of an Arm: joint parameters and soft   *)
(* limits (params.cpp), the dynamic model (model.cpp), feed-forward and    *)
(* licence (arm.cpp), the sampling log (log.cpp), and the local checks of  *)
(* motion commands against the limits read at connect.  On the other side  *)
(* stands the firmware, as the repository's stub of it answers (testing.cpp). *)
(*                                                                         *)
(* One thread calls.  An answer may be lost, or come after the call that   *)
(* asked for it has timed out; the next question of the same command then  *)
(* drops it if it has been received by then, and may take it for its own   *)
(* answer if it has not.  The licence is missing from the table that says  *)
(* what to drop (protocol.cpp:304).                                        *)
(***************************************************************************)
EXTENDS Integers, Sequences, FiniteSets

CONSTANTS N,            \* joints
          Limits,       \* pairs <<q_min, q_max>> a joint may have; numbers or NaN
          Targets,      \* joint vectors a caller may ask for
          NaN,
          Bodies,       \* rigid bodies of the model
          SampleSize,   \* bytes of one tick of the log
          ChunkMax,     \* LOG_READ_CHUNK
          LogMax,       \* ticks the firmware can record
          Captures,     \* the numbers of ticks a caller may capture
          Retries,      \* retries_ of LogReader
          Attempts,     \* attempts of enable
          Apis,         \* sets of calls; a behaviour explores one of them
          MaxCalls, MaxLate, MaxLost    \* bounds

Joints == 0 .. N - 1
Lt(x, y) == x # NaN /\ y # NaN /\ x < y
Codes == 0 .. 8         \* of an RSP_ERR; -1 is an RSP_ACK or the answer itself
Ok == -1

Num == Int \cup {NaN}

Cmds == {"getParam", "setLimits", "save", "resetParams", "setBody", "setJm", "getBody", "getJm",
         "commit", "revert", "modelStatus", "setFf", "getFf", "logCtl", "logRead", "enable",
         "disable", "license", "activate", "ik", "setting", "kinBench", "move"}
Ops == (Cmds \ {"logCtl", "logRead", "move"})
       \cup {"connect", "allParams", "movej", "moveP", "moveJs", "setMask", "payload",
             "capture", "logStart", "logStop", "dump", "probe"}

ASSUME ServicesAssumption ==
    /\ N \in Nat \ {0} /\ SampleSize \in Nat \ {0} /\ ChunkMax \in Nat \ {0}
    /\ LogMax \in Nat /\ Captures \subseteq Nat
    /\ Retries \in Nat /\ Attempts \in Nat \ {0} /\ Apis \subseteq SUBSET Ops
    /\ MaxCalls \in Nat /\ MaxLate \in Nat /\ MaxLost \in Nat
    /\ NaN \notin Int /\ Limits \subseteq Num \X Num /\ \E l \in Limits : Lt(l[1], l[2])
    /\ Targets \subseteq Seq(Num) /\ Bodies \subseteq Nat /\ 0 \in Bodies

Empty == [c \in Cmds |-> <<>>]

VARIABLES fw,      \* the firmware: see Firmware
          air,     \* answers on their way, in order
          box,     \* answers received and not taken, by command (Ack::queues)
          ask,     \* the command whose answer is awaited, or "none"
          call,    \* the call in progress: op, arg, step, got, tries
          limits,  \* Arm::limits_
          target,  \* ArmLog::last_target_
          result,  \* how the last call ended: op, arg, end, val
          api,     \* bound: the calls this behaviour explores
          crossed, \* ghost: when the last call began, answers to an earlier start of the log and
                   \* to an earlier read of it were both on their way
          calls, late, lost
vars == <<fw, air, box, ask, call, limits, target, result, api, crossed, calls, late, lost>>

Idle == [op |-> "none", arg |-> 0, step |-> 0, got |-> <<>>, tries |-> 0]
NoResult == [op |-> "none", arg |-> 0, end |-> "none", val |-> 0]
Request(c, a) == [cmd |-> c, arg |-> a]

----------------------------------------------------------------------------
(* The firmware.  Serve(r) is its next state and its answer to request r.  *)

Jm == -1                  \* the motor inertias, staged and committed like a body
Units == Bodies \cup {Jm}
Factory == CHOOSE l \in Limits : Lt(l[1], l[2])
Unsigned == [mask |-> {}, vec |-> 0, mass |-> 0, com |-> 0]
Init ==
    /\ \E first \in Limits, armed, activated \in BOOLEAN, quirk \in {"none", "stuck", "err"} :
          fw = [armed |-> armed, activated |-> activated, q |-> 0,
                lim |-> [j \in Joints |-> IF j = 0 THEN first ELSE Factory],
                model |-> [b \in Units |-> "factory"], staged |-> {}, override |-> FALSE,
                ff |-> Unsigned, target |-> <<>>,
                capture |-> 0, want |-> 0, ticks |-> 0, quirk |-> quirk]
    /\ air = <<>> /\ box = Empty /\ ask = "none" /\ call = Idle /\ limits = <<>> /\ target = 0
    /\ result = NoResult
    /\ api \in Apis /\ crossed = FALSE /\ calls = 0 /\ late = 0 /\ lost = 0

Done(f, v) == [fw |-> f, code |-> Ok, val |-> v]
Refuse(c) == [fw |-> fw, code |-> c, val |-> 0]

\* 0x23 to 0x25 and 0x36; an armed axis must stay inside its new limits.
Outside(l) == ~Lt(l[1], l[2]) \/ fw.q < l[1] \/ fw.q > l[2]
ServeJoint(r) ==
    CASE r.cmd = "getParam" -> Done(fw, [idx |-> r.arg, lim |-> fw.lim[r.arg]])
      [] r.cmd = "setLimits" ->
            IF fw.armed /\ Outside(r.arg[2]) THEN Refuse(3)
            ELSE IF ~Lt(r.arg[2][1], r.arg[2][2]) THEN Refuse(2)
            ELSE Done([fw EXCEPT !.lim[r.arg[1]] = r.arg[2]], 0)
      [] r.cmd = "save" -> IF fw.armed THEN Refuse(4) ELSE Done(fw, 0)
      [] r.cmd = "resetParams" ->
            IF fw.armed THEN Refuse(4)
            ELSE Done([fw EXCEPT !.lim = [j \in Joints |-> Factory]], 0)

\* 0x30 to 0x38: bodies are staged, and committed only when all that is staged is named.
ServeModel(r) ==
    CASE r.cmd \in {"setBody", "setJm"} -> Done([fw EXCEPT !.staged = @ \cup {r.arg}], 0)
      [] r.cmd = "commit" ->
            IF fw.armed THEN Refuse(4) ELSE IF r.arg # fw.staged THEN Refuse(7)
            ELSE Done([fw EXCEPT !.staged = {}, !.override = TRUE,
                         !.model = [b \in Units |-> IF b \in r.arg THEN "set" ELSE @[b]]], 0)
      [] r.cmd = "revert" ->
            IF fw.armed THEN Refuse(4)
            ELSE Done([fw EXCEPT !.staged = {}, !.override = FALSE], 0)
      [] r.cmd \in {"getBody", "getJm"} -> Done(fw, [body |-> r.arg, is |-> fw.model[r.arg]])
      [] r.cmd = "modelStatus" -> Done(fw, [staged |-> fw.staged, override |-> fw.override])

\* 0x26 to 0x2C.
ServeFf(r) ==
    CASE r.cmd = "setFf" -> Done([fw EXCEPT !.ff[r.arg[1]] = r.arg[2]], 0)
      [] r.cmd = "getFf" -> Done(fw, fw.ff[r.arg])

\* 0x10, 0x11, 0x2F and 0x3F, settings, inverse kinematics; code 2 says
\* "already activated" and "refused" alike.
ServeState(r) ==
    CASE r.cmd = "enable" -> IF ~fw.activated THEN Refuse(8)
                             ELSE Done([fw EXCEPT !.armed = TRUE], 0)
      [] r.cmd = "disable" -> Done([fw EXCEPT !.armed = FALSE], 0)
      [] r.cmd = "license" -> Done(fw, fw.activated)
      [] r.cmd = "activate" ->
            IF fw.armed THEN Refuse(4) ELSE IF fw.activated \/ ~r.arg THEN Refuse(2)
            ELSE Done([fw EXCEPT !.activated = TRUE], 0)
      [] r.cmd \in {"ik", "setting"} -> Done(fw, r.arg)
      [] r.cmd = "kinBench" -> Done(fw, "times")
      [] r.cmd = "move" -> Done([fw EXCEPT !.target = r.arg], 0)

\* 0x2D and 0x2E: a capture records one tick at a time; a chunk carries no offset.
Bytes == fw.ticks * SampleSize
Chunk(off) ==
    LET cnt == IF off >= Bytes THEN 0
               ELSE IF Bytes - off < ChunkMax THEN Bytes - off ELSE ChunkMax
    IN IF fw.quirk = "stuck" THEN [total |-> 99, next |-> IF off = 0 THEN 1 ELSE off,
                         bytes |-> IF off = 0 THEN <<[of |-> fw.capture, at |-> 1]>> ELSE <<>>]
       ELSE [total |-> Bytes, next |-> IF off + cnt < Bytes THEN off + cnt ELSE 0,
             bytes |-> [k \in 1 .. cnt |-> [of |-> fw.capture, at |-> off + k]]]
ServeLog(r) ==
    CASE r.cmd = "logCtl" ->
            IF r.arg > LogMax THEN Refuse(2)
            ELSE Done([fw EXCEPT !.capture = @ + 1, !.want = r.arg, !.ticks = 0], 0)
      [] r.cmd = "logRead" -> Done(fw, Chunk(r.arg))

\* err_override: some commands are answered by an error, whatever they ask.
Overridden(r) == fw.quirk = "err" /\ (\/ r.cmd \in {"getParam", "logRead", "enable", "getBody"}
                                      \/ r.cmd = "setFf" /\ r.arg[1] = "com")
ErrorOf(cmd) == IF cmd = "enable" THEN 3 ELSE IF cmd = "getBody" THEN 0 ELSE 1
Serve(r) ==
    IF Overridden(r) THEN Refuse(ErrorOf(r.cmd)) ELSE
    CASE r.cmd \in {"getParam", "setLimits", "save", "resetParams"} -> ServeJoint(r)
      [] r.cmd \in {"setBody", "setJm", "commit", "revert"} -> ServeModel(r)
      [] r.cmd \in {"getBody", "getJm", "modelStatus"} -> ServeModel(r)
      [] r.cmd \in {"setFf", "getFf"} -> ServeFf(r)
      [] r.cmd \in {"logCtl", "logRead"} -> ServeLog(r)
      [] OTHER -> ServeState(r)

Record == /\ fw.ticks < fw.want /\ fw' = [fw EXCEPT !.ticks = @ + 1]
          /\ UNCHANGED <<air, box, ask, call, limits, target, result, api, crossed, calls, late, lost>>

----------------------------------------------------------------------------
(* The way out and back.                                                   *)

\* raw_write drops the answers of the command that are already here, then writes.  The table
\* of answers lacks the licence.
Listed(cmd) == cmd # "license"
Drained(cmd) == IF Listed(cmd) THEN [box EXCEPT ![cmd] = <<>>] ELSE box

\* One answer; the self test has two, and one on an old firmware.
Answers(r, s) ==
    LET first == [cmd |-> r.cmd, code |-> s.code, val |-> s.val]
    IN IF r.cmd = "kinBench" /\ fw.quirk # "err" THEN <<first, [first EXCEPT !.val = "link"]>>
       ELSE <<first>>
Send(r, before) ==
    LET s == Serve(r)
        all == Answers(r, s)
    IN /\ ask' = r.cmd /\ fw' = s.fw
       /\ \/ air' = before \o all /\ lost' = lost
          \/ /\ lost < MaxLost /\ lost' = lost + 1
             /\ \E i \in 1 .. Len(all) :
                   air' = before \o SubSeq(all, 1, i - 1) \o SubSeq(all, i + 1, Len(all))
Write(r) == Send(r, air) /\ box' = Drained(r.cmd)

Deliver == /\ air # <<>> /\ air' = Tail(air)
           /\ box' = [box EXCEPT ![Head(air).cmd] = Append(@, Head(air))]
           /\ UNCHANGED <<fw, ask, call, limits, target, result, api, crossed, calls, late, lost>>

OnItsWay(cmd) == \E i \in 1 .. Len(air) : air[i].cmd = cmd

\* Ack::expect: the oldest answer of the command.
Mail == box[ask]

Finish(end, v) == /\ call' = Idle
                  /\ result' = [op |-> call.op, arg |-> call.arg, end |-> end, val |-> v]
Advance(step, got) == /\ call' = [call EXCEPT !.step = step, !.got = got, !.tries = 0]
                      /\ UNCHANGED result

----------------------------------------------------------------------------
(* The local checks of a motion command.                                   *)

\* Mutant: no limits known, nothing to check -- not even that the target is a number.
Refused_LimitsFirst(q) ==
    /\ limits # <<>>
    /\ \/ \E i \in 1 .. Len(q) : q[i] = NaN
       \/ /\ Len(limits) = Len(q)
          /\ \E i \in 1 .. Len(q) : Lt(q[i], limits[i][1]) \/ Lt(limits[i][2], q[i])

\* precheck_q_: numbers first, then the limits if they are known and as many.
Refused(q) ==
    \/ \E i \in 1 .. Len(q) : q[i] = NaN
    \/ /\ limits # <<>> /\ Len(limits) = Len(q)
       /\ \E i \in 1 .. Len(q) : Lt(q[i], limits[i][1]) \/ Lt(limits[i][2], q[i])

\* refresh_limits: one bad pair and none is kept.
Sane(ls) == \A i \in 1 .. Len(ls) : ls[i][1] # NaN /\ ls[i][2] # NaN /\ ~Lt(ls[i][2], ls[i][1])

\* What a call refuses before it writes anything: a motion, a streamed set-point, a joint's
\* parameters, a setting.
InvalidTarget(op, q) ==
    /\ op \in {"movej", "moveP"}
    /\ (op = "movej" /\ Len(q) # N) \/ Refused(q)
InvalidStream(op, q) == op = "moveJs" /\ Len(q) # N
InvalidJoint(op, arg) == \/ op = "getParam" /\ arg \notin Joints
                         \/ /\ op = "setLimits"
                            /\ arg[1] \notin Joints \/ ~Lt(arg[2][1], arg[2][2])
InvalidSetting(op, arg) == \/ op = "setting" /\ ~arg
                           \/ op = "setFf" /\ arg[1] = "mask"
Invalid(op, arg) == \/ InvalidTarget(op, arg) \/ InvalidStream(op, arg)
                    \/ InvalidJoint(op, arg) \/ InvalidSetting(op, arg)

\* The first request of each call, with its argument.
First(op, arg) ==
    CASE op \in {"connect", "allParams"} -> Request("getParam", 0)
      [] op \in {"movej", "moveP", "moveJs"} -> Request("move", arg)
      [] op = "payload" -> Request("setFf", <<"mass", arg>>)
      [] op = "setMask" -> Request("setFf", <<"mask", arg>>)
      [] op \in {"capture", "logStart"} -> Request("logCtl", arg)
      [] op = "logStop" -> Request("logCtl", 0)
      [] op = "dump" -> Request("logRead", 0)
      [] op = "probe" -> Request("getBody", 0)
      [] OTHER -> Request(op, arg)

Args(op) ==
    CASE op \in {"movej", "moveP", "moveJs"} -> Targets
      [] op = "setLimits" -> (0 .. N) \X Limits
      [] op = "getParam" -> 0 .. N
      [] op \in {"setBody", "getBody"} -> Bodies
      [] op \in {"setJm", "getJm"} -> {Jm}
      [] op = "commit" -> SUBSET Units
      [] op = "setFf" -> {"vec", "mask"} \X {1}
      [] op = "getFf" -> {"vec", "mask"}
      [] op = "setMask" -> {{}, {0}}
      [] op = "payload" -> {1}
      [] op \in {"activate", "ik", "setting"} -> BOOLEAN
      [] op \in {"capture", "logStart"} -> Captures
      [] OTHER -> {0}

\* dump waits for the capture it knows of, or reads at once.
Step(op) == IF op # "dump" THEN 0 ELSE IF target > 0 THEN 1 ELSE 2

\* Mutant: connect does not wait for the version.
Flushed_Never == air
\* connect waits for the firmware's version first: what the firmware answered earlier has
\* been received by then, and the first question drops it.
Flushed == <<>>

Call ==
    /\ call = Idle /\ calls < MaxCalls /\ calls' = calls + 1
    /\ \E op \in api : \E arg \in Args(op) :
          IF Invalid(op, arg)
          THEN /\ result' = [op |-> op, arg |-> arg, end |-> "invalid", val |-> 0]
               /\ UNCHANGED <<fw, air, box, ask, call, limits, target, crossed, lost>>
          ELSE /\ call' = [Idle EXCEPT !.op = op, !.arg = arg, !.step = Step(op)]
               /\ result' = NoResult
               /\ crossed' = (op = "capture" /\ OnItsWay("logCtl") /\ OnItsWay("logRead"))
               /\ IF op = "connect"
                  THEN Send(First(op, arg), Flushed) /\ box' = Empty /\ limits' = <<>>
                  ELSE Write(First(op, arg)) /\ UNCHANGED limits
               /\ UNCHANGED target
    /\ UNCHANGED <<api, late>>

----------------------------------------------------------------------------
(* The answer.                                                             *)

\* Calls of one question; an error is an exception, and so is a wrong body.
WrongBody(a) == \/ call.op = "getBody" /\ a.val.body # call.arg
                \/ call.op = "probe" /\ a.val.body # 0

Several == {"connect", "allParams", "payload", "capture", "dump"}
Special == {"activate", "enable", "probe", "ik", "kinBench", "logStart", "logStop"}
Answered(a) ==
    /\ call.op \notin Several \cup Special
    /\ Finish(IF a.code # Ok THEN "rejected" ELSE IF WrongBody(a) THEN "transport" ELSE "ok",
              a.val)
    /\ UNCHANGED <<limits, target>>

\* probe: a firmware that does not know the command is no error.
Probed(a) ==
    /\ call.op = "probe" /\ UNCHANGED <<limits, target>>
    /\ Finish(CASE a.code = Ok -> IF WrongBody(a) THEN "transport" ELSE "ok"
                [] a.code = 0 -> "ok"
                [] OTHER -> "rejected", a.code = Ok)

\* ik: an answer that says there is no solution is an error.
Solved(a) ==
    /\ call.op = "ik" /\ UNCHANGED <<limits, target>>
    /\ Finish(IF a.code # Ok THEN "rejected" ELSE IF a.val THEN "ok" ELSE "unreachable", 0)

\* kin_bench: a second answer is awaited, and missed without a word.
Half == call.op = "kinBench" /\ call.step = 1
Benched(a) ==
    /\ call.op = "kinBench" /\ UNCHANGED <<limits, target>>
    /\ IF Half THEN Finish("ok", Append(call.got, a.val)) ELSE Advance(1, <<a.val>>)

\* enable: again only after the code that says so.
Enabled(a) ==
    /\ call.op = "enable" /\ UNCHANGED <<limits, target>>
    /\ IF a.code = Ok THEN Finish("ok", 0)
       ELSE IF a.code = 3 /\ call.step + 1 < Attempts THEN Advance(call.step + 1, <<>>)
       ELSE Finish("rejected", 0)

\* all_joint_params pairs the answers with the joints by position; connect keeps them.
Param(a) ==
    /\ call.op \in {"connect", "allParams"} /\ UNCHANGED target
    /\ LET got == Append(call.got, a.val.lim) IN
          IF call.step + 1 < N THEN Advance(call.step + 1, got) /\ UNCHANGED limits
          ELSE /\ Finish("ok", got)
               /\ limits' = IF call.op = "connect" /\ Sane(got) THEN got ELSE limits

\* set_payload writes the mass, then the centre of mass: two of the four writes.
Payload(a) ==
    /\ call.op = "payload" /\ UNCHANGED <<limits, target>>
    /\ IF call.step = 0 THEN Advance(1, <<>>) ELSE Finish("ok", 0)

\* Mutant: code 2 is taken for "already activated".
Ambiguous_Trusted(a) == FALSE
\* activate: code 2 alone says nothing; the licence is read back.
Ambiguous(a) == a.code = 2
Activated(a) ==
    /\ call.op = "activate" /\ UNCHANGED <<limits, target>>
    /\ IF call.step = 1 THEN Finish(IF a.val THEN "ok" ELSE "locked", 0)
       ELSE IF Ambiguous(a) THEN Advance(1, <<>>)
       ELSE Finish(IF a.code \in {Ok, 2} THEN "ok" ELSE "rejected", 0)

\* capture: start; wait until the total is there; read chunk after chunk; parse.
\* step 0 is the start, 1 the wait, 2 + k the chunk at offset k.
\* dump does the same without the start; it does not look at the length.
\* Mutant (Want_Ticks): ticks are compared with bytes.
Want_Ticks == IF call.op = "dump" THEN target ELSE call.arg
Want == (IF call.op = "dump" THEN target ELSE call.arg) * SampleSize
Starting == call.op \in {"logStart", "logStop"} \/ (call.op = "capture" /\ call.step = 0)
Started(a) ==
    /\ Starting /\ UNCHANGED limits
    /\ IF a.code # Ok THEN Finish("rejected", 0) /\ UNCHANGED target
       ELSE /\ target' = IF call.op = "logStop" THEN 0 ELSE call.arg
            /\ IF call.op = "capture" THEN Advance(1, <<>>) ELSE Finish("ok", 0)
Polled(a) == /\ call.step = 1
             /\ \/ a.val.total >= Want /\ Advance(2, <<>>)
                \/ a.val.total < Want /\ Advance(1, <<>>)
                \/ a.val.total < Want /\ Finish("timeout", 0)
Backward(a) == a.val.next <= call.step - 2
Read(a) ==
    /\ call.step >= 2
    /\ LET got == call.got \o a.val.bytes IN
          IF a.val.next = 0
          THEN Finish(IF call.op = "dump" \/ Len(got) % SampleSize = 0 THEN "ok"
                      ELSE "transport", got)
          ELSE IF Backward(a) THEN Finish("transport", 0)
          ELSE Advance(2 + a.val.next, got)
Captured(a) == /\ call.op \in {"capture", "dump"} /\ UNCHANGED <<limits, target>>
               /\ Polled(a) \/ Read(a)

Take ==
    /\ ask # "none" /\ Mail # <<>>
    /\ LET a == Head(Mail) IN
          /\ box' = [box EXCEPT ![ask] = Tail(@)]
          /\ ask' = IF call.op = "kinBench" /\ ~Half THEN ask ELSE "none"
          /\ IF a.code # Ok /\ call.op \in Several /\ ~Starting
             THEN Finish("rejected", 0) /\ UNCHANGED <<limits, target>>
             ELSE \/ Answered(a) \/ Probed(a) \/ Solved(a) \/ Benched(a) \/ Enabled(a)
                  \/ Param(a) \/ Payload(a) \/ Activated(a) \/ Started(a) \/ Captured(a)
    /\ UNCHANGED <<fw, air, api, crossed, calls, late, lost>>

\* The next question of a call that asks several.
Again ==
    CASE call.op \in {"connect", "allParams"} -> Request("getParam", call.step)
      [] call.op = "payload" -> Request("setFf", <<"com", call.arg>>)
      [] call.op = "activate" -> Request("license", 0)
      [] call.op = "enable" -> Request("enable", 0)
      [] call.op \in {"capture", "dump"} ->
            Request("logRead", IF call.step = 1 THEN 0 ELSE call.step - 2)
Continue ==
    /\ call # Idle /\ ask = "none" /\ Write(Again)
    /\ UNCHANGED <<call, limits, target, result, api, crossed, calls, late>>

\* No answer in time: it is lost, or still on its way.  Only the log asks again.
Timeout ==
    /\ ask # "none" /\ Mail = <<>> /\ ask' = "none"
    /\ IF OnItsWay(ask)
       THEN late < MaxLate /\ late' = late + 1
       ELSE UNCHANGED late
    /\ IF ask = "logRead" /\ call.tries < Retries
       THEN call' = [call EXCEPT !.tries = @ + 1] /\ UNCHANGED result
       ELSE IF Half THEN Finish("ok", call.got) ELSE Finish("timeout", 0)
    /\ UNCHANGED <<fw, air, box, limits, target, api, crossed, calls, lost>>

Rest == call = Idle /\ calls = MaxCalls /\ UNCHANGED vars
Next == Record \/ Deliver \/ Call \/ Take \/ Continue \/ Timeout \/ Rest
Spec == Init /\ [][Next]_vars

----------------------------------------------------------------------------
(* Properties.                                                             *)

\* A motion that passed the local checks has a target of numbers and, when limits are known,
\* inside them by comparisons that hold -- not by comparisons that NaN makes fail.
TargetsAreInside ==
    result.op \in {"movej", "moveP"} /\ result.end # "invalid" =>
        \A i \in 1 .. Len(result.arg) :
            /\ result.arg[i] # NaN
            /\ result.op = "movej" /\ limits # <<>> =>
                  limits[i][1] # NaN /\ limits[i][2] # NaN
                  /\ limits[i][1] <= result.arg[i] /\ result.arg[i] <= limits[i][2]

\* The limits kept at connect are those of each joint, although the answers are paired with
\* the joints by their order alone.
LimitsAreTheArms ==
    result.op = "connect" /\ limits # <<>> =>
        Len(limits) = N /\ \A j \in Joints : limits[j + 1] = fw.lim[j]

\* activate returns only on a device that is unlocked.
ActivationIsTrue == result.op = "activate" /\ result.end = "ok" => fw.activated

\* What log.hpp:65 promises of capture: never half the data as a success; and all of it is of
\* the capture asked for.
WholeOrNothing ==
    result.op = "capture" /\ result.end = "ok" =>
        /\ Len(result.val) >= result.arg * SampleSize
        /\ \A k \in 1 .. Len(result.val) : result.val[k] = [of |-> fw.capture, at |-> k]
\* It is so however many answers were late, lost or asked for again -- unless answers to an
\* earlier start and to an earlier read were both on their way when the capture began: it may
\* then take the one for the answer to its start, and the other for its first chunk.
CaptureIsWhole == ~crossed => WholeOrNothing

\* What arm.cpp:1482 says of code 2: only the licence read back can tell.  The answer taken may
\* be an older one, for nothing drops it: the table lacks the command.
RefusalIsTrue == result.op = "activate" /\ result.end = "locked" => ~fw.activated
=============================================================================
