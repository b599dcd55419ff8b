---------------------------- MODULE Services_proofs ----------------------------
(***************************************************************************)
(* What the services of an Arm may rely on, proved for every value of the  *)
(* constants.                                                              *)
(*                                                                         *)
(* An answer is told from another by its command alone.  So each promise   *)
(* rests on what all the answers of a command have in common, the late     *)
(* ones included: that a licence once granted stays granted, that nothing  *)
(* of before is on its way when connect asks for the limits.  A chunk of   *)
(* the log has only its total and its next offset: they tell it from every *)
(* older answer of its own capture.                                        *)
(***************************************************************************)
EXTENDS Services, SequenceTheorems, TLAPS

----------------------------------------------------------------------------
(* Types.                                                                  *)

Signs == [mask : SUBSET {0}, vec : {0, 1}, mass : {0, 1}, com : {0, 1}]
Firmware ==
    [armed : BOOLEAN, activated : BOOLEAN, q : {0}, lim : [Joints -> Limits],
     model : [Units -> {"factory", "set"}], staged : SUBSET Units, override : BOOLEAN,
     ff : Signs, target : Targets \cup {<<>>},
     capture : Nat, want : 0 .. LogMax, ticks : 0 .. LogMax, quirk : {"none", "stuck", "err"}]

Byte == [of : Nat, at : Nat]
Chunks == [total : Nat, next : Nat, bytes : Seq(Byte)]
\* What the answer to a command holds when it is no error.
Vals(cmd) ==
    CASE cmd = "getParam" -> [idx : Joints, lim : Limits]
      [] cmd \in {"getBody", "getJm"} -> [body : Units, is : {"factory", "set"}]
      [] cmd = "modelStatus" -> [staged : SUBSET Units, override : BOOLEAN]
      [] cmd = "getFf" -> {0, 1} \cup SUBSET {0}
      [] cmd = "logRead" -> Chunks
      [] cmd \in {"license", "ik", "setting"} -> BOOLEAN
      [] cmd = "kinBench" -> {"times", "link"}
      [] OTHER -> {0}
AllVals == UNION {Vals(c) : c \in Cmds}
Messages ==
    {m \in [cmd : Cmds, code : Codes \cup {Ok}, val : AllVals] : m.code = Ok => m.val \in Vals(m.cmd)}

Gots == Limits \cup Byte \cup AllVals
Calls == [op : Ops \cup {"none"}, arg : UNION {Args(o) : o \in Ops},
          step : Nat, got : Seq(Gots), tries : Nat]

TypeOK ==
    /\ fw \in Firmware /\ fw.ticks <= fw.want
    /\ air \in Seq(Messages) /\ box \in [Cmds -> Seq(Messages)]
    /\ \A c \in Cmds : \A i \in 1 .. Len(box[c]) : box[c][i].cmd = c
    /\ ask \in Cmds \cup {"none"} /\ call \in Calls
    /\ limits \in Seq(Limits) /\ target \in Nat /\ api \subseteq Ops
    /\ crossed \in BOOLEAN /\ calls \in Nat /\ late \in Nat /\ lost \in Nat

\* A request the caller may make.
Proper(r) ==
    /\ r.cmd \in Cmds
    /\ r.cmd = "getParam" => r.arg \in Joints
    /\ r.cmd = "setLimits" => r.arg[1] \in Joints /\ r.arg[2] \in Limits
    /\ r.cmd \in {"setBody", "setJm", "getBody", "getJm"} => r.arg \in Units
    /\ r.cmd = "commit" => r.arg \subseteq Units
    /\ r.cmd = "setFf" => \/ r.arg[1] \in {"vec", "mass", "com"} /\ r.arg[2] = 1
                          \/ r.arg[1] = "mask" /\ r.arg[2] \in SUBSET {0}
    /\ r.cmd = "getFf" => r.arg \in {"vec", "mask"}
    /\ r.cmd \in {"logCtl", "logRead"} => r.arg \in Nat
    /\ r.cmd \in {"activate", "ik", "setting"} => r.arg \in BOOLEAN
    /\ r.cmd = "move" => r.arg \in Targets

\* What the firmware makes of a request: its types, and what it leaves as it was.
Served(r, s) ==
    /\ s.fw \in Firmware /\ s.fw.ticks <= s.fw.want
    /\ s.code \in Codes \cup {Ok} /\ s.val \in AllVals
    /\ s.code = Ok => s.val \in Vals(r.cmd)
    /\ s.fw.quirk = fw.quirk /\ (fw.activated => s.fw.activated)
    /\ r.cmd \notin {"setLimits", "resetParams"} => s.fw.lim = fw.lim
    /\ r.cmd # "logCtl" => /\ s.fw.capture = fw.capture /\ s.fw.want = fw.want
                           /\ s.fw.ticks = fw.ticks
    /\ r.cmd = "getParam" /\ s.code = Ok => s.val.lim = fw.lim[r.arg]
    /\ r.cmd = "activate" /\ s.code = Ok => s.fw.activated
    /\ r.cmd = "license" => s.code = Ok /\ (s.val => s.fw.activated)

LEMMA ValsAreAll ==
  ASSUME NEW c \in Cmds, NEW v \in Vals(c)
  PROVE  v \in AllVals
BY DEF AllVals

LEMMA ZeroIsAll == 0 \in AllVals
<1>1. "save" \in Cmds /\ 0 \in Vals("save")
  BY DEF Cmds, Vals
<1>. QED  BY <1>1, ValsAreAll

LEMMA RefuseServed ==
  ASSUME TypeOK, NEW r, NEW c \in Codes, r.cmd # "license"
  PROVE  Served(r, Refuse(c))
<1>1. Ok \notin Codes
  BY DEF Ok, Codes
<1>. QED  BY <1>1, ZeroIsAll DEF Served, Refuse, TypeOK

\* A command that is granted and changes nothing the promises look at.
LEMMA DoneServed ==
  ASSUME TypeOK, NEW r, r.cmd \in Cmds \ {"license", "activate", "getParam", "logCtl"},
         NEW f \in Firmware, NEW v \in Vals(r.cmd),
         f.ticks = fw.ticks, f.want = fw.want, f.capture = fw.capture, f.quirk = fw.quirk,
         fw.activated => f.activated,
         r.cmd \notin {"setLimits", "resetParams"} => f.lim = fw.lim
  PROVE  Served(r, Done(f, v))
<1>1. v \in AllVals /\ r.cmd \in Cmds
  BY ValsAreAll
<1>. QED  BY <1>1 DEF Served, Done, TypeOK, Ok

LEMMA FactoryType == Factory \in Limits
BY ServicesAssumption DEF Factory

LEMMA ServeJointFacts ==
  ASSUME TypeOK, NEW r, Proper(r), r.cmd \in {"getParam", "setLimits", "save", "resetParams"}
  PROVE  Served(r, ServeJoint(r))
<1>0. fw \in Firmware /\ 3 \in Codes /\ 2 \in Codes /\ 4 \in Codes
  BY DEF TypeOK, Codes
<1>1. CASE r.cmd = "getParam"
  <2>1. ServeJoint(r) = Done(fw, [idx |-> r.arg, lim |-> fw.lim[r.arg]])
    BY <1>1 DEF ServeJoint
  <2>2. r.arg \in Joints /\ fw.lim[r.arg] \in Limits
    BY <1>0, <1>1 DEF Proper, Firmware
  <2>3. [idx |-> r.arg, lim |-> fw.lim[r.arg]] \in Vals("getParam") /\ "getParam" \in Cmds
    BY <2>2 DEF Vals, Cmds
  <2>. QED  BY <1>0, <1>1, <2>1, <2>3, ValsAreAll DEF Served, Done, Ok, TypeOK
<1>2. CASE r.cmd = "setLimits"
  <2>1. 0 \in Vals("setLimits") /\ "setLimits" \in Cmds
    BY DEF Vals, Cmds
  <2>2. /\ [fw EXCEPT !.lim[r.arg[1]] = r.arg[2]] \in Firmware
        /\ [fw EXCEPT !.lim[r.arg[1]] = r.arg[2]].ticks = fw.ticks
        /\ [fw EXCEPT !.lim[r.arg[1]] = r.arg[2]].want = fw.want
        /\ [fw EXCEPT !.lim[r.arg[1]] = r.arg[2]].capture = fw.capture
        /\ [fw EXCEPT !.lim[r.arg[1]] = r.arg[2]].quirk = fw.quirk
        /\ [fw EXCEPT !.lim[r.arg[1]] = r.arg[2]].activated = fw.activated
    BY <1>0, <1>2 DEF Proper, Firmware
  <2>3. Served(r, Done([fw EXCEPT !.lim[r.arg[1]] = r.arg[2]], 0))
    BY <1>2, <2>1, <2>2, DoneServed
  <2>4. \A c \in Codes : Served(r, Refuse(c))
    BY <1>2, RefuseServed
  <2>. QED  BY <1>0, <1>2, <2>3, <2>4 DEF ServeJoint
<1>3. CASE r.cmd = "save"
  <2>1. 0 \in Vals("save") /\ "save" \in Cmds
    BY DEF Vals, Cmds
  <2>2. Served(r, Done(fw, 0)) /\ Served(r, Refuse(4))
    BY <1>0, <1>3, <2>1, DoneServed, RefuseServed
  <2>. QED  BY <1>3, <2>2 DEF ServeJoint
<1>4. CASE r.cmd = "resetParams"
  <2>1. 0 \in Vals("resetParams") /\ "resetParams" \in Cmds
    BY DEF Vals, Cmds
  <2>2. [j \in Joints |-> Factory] \in [Joints -> Limits]
    BY FactoryType
  <2>3. PICK f : f = [fw EXCEPT !.lim = [j \in Joints |-> Factory]]
    OBVIOUS
  <2>4. /\ f \in Firmware /\ f.ticks = fw.ticks /\ f.want = fw.want /\ f.capture = fw.capture
        /\ f.quirk = fw.quirk /\ f.activated = fw.activated
    BY <1>0, <2>2, <2>3 DEF Firmware
  <2>5. Served(r, Done(f, 0)) /\ Served(r, Refuse(4))
    BY <1>0, <1>4, <2>1, <2>4, DoneServed, RefuseServed
  <2>. QED  BY <1>4, <2>3, <2>5 DEF ServeJoint
<1>. QED  BY <1>1, <1>2, <1>3, <1>4

LEMMA ServeModelFacts ==
  ASSUME TypeOK, NEW r, Proper(r),
         r.cmd \in {"setBody", "setJm", "commit", "revert", "getBody", "getJm", "modelStatus"}
  PROVE  Served(r, ServeModel(r))
<1>0. fw \in Firmware /\ 4 \in Codes /\ 7 \in Codes
  BY DEF TypeOK, Codes
<1>1. CASE r.cmd \in {"setBody", "setJm"}
  <2>1. 0 \in Vals(r.cmd) /\ r.cmd \in Cmds
    BY <1>1 DEF Vals, Cmds
  <2>2. PICK f : f = [fw EXCEPT !.staged = fw.staged \cup {r.arg}]
    OBVIOUS
  <2>3. /\ f \in Firmware /\ f.ticks = fw.ticks /\ f.want = fw.want /\ f.capture = fw.capture
        /\ f.quirk = fw.quirk /\ f.activated = fw.activated /\ f.lim = fw.lim
    BY <1>0, <1>1, <2>2 DEF Firmware, Proper
  <2>4. Served(r, Done(f, 0))
    BY <1>1, <2>1, <2>3, DoneServed
  <2>. QED  BY <1>1, <2>2, <2>4 DEF ServeModel
<1>2. CASE r.cmd = "commit"
  <2>1. 0 \in Vals("commit") /\ "commit" \in Cmds
    BY DEF Vals, Cmds
  <2>2. PICK m : m = [b \in Units |-> IF b \in r.arg THEN "set" ELSE fw.model[b]]
    OBVIOUS
  <2>3. m \in [Units -> {"factory", "set"}]
    BY <1>0, <2>2 DEF Firmware
  <2>4. PICK f : f = [fw EXCEPT !.staged = {}, !.override = TRUE, !.model = m]
    OBVIOUS
  <2>5. /\ f \in Firmware /\ f.ticks = fw.ticks /\ f.want = fw.want /\ f.capture = fw.capture
        /\ f.quirk = fw.quirk /\ f.activated = fw.activated /\ f.lim = fw.lim
    BY <1>0, <2>3, <2>4 DEF Firmware
  <2>6. Served(r, Done(f, 0)) /\ Served(r, Refuse(4)) /\ Served(r, Refuse(7))
    BY <1>0, <1>2, <2>1, <2>5, DoneServed, RefuseServed
  <2>. QED  BY <1>2, <2>2, <2>4, <2>6 DEF ServeModel
<1>3. CASE r.cmd = "revert"
  <2>1. 0 \in Vals("revert") /\ "revert" \in Cmds
    BY DEF Vals, Cmds
  <2>2. PICK f : f = [fw EXCEPT !.staged = {}, !.override = FALSE]
    OBVIOUS
  <2>3. /\ f \in Firmware /\ f.ticks = fw.ticks /\ f.want = fw.want /\ f.capture = fw.capture
        /\ f.quirk = fw.quirk /\ f.activated = fw.activated /\ f.lim = fw.lim
    BY <1>0, <2>2 DEF Firmware
  <2>4. Served(r, Done(f, 0)) /\ Served(r, Refuse(4))
    BY <1>0, <1>3, <2>1, <2>3, DoneServed, RefuseServed
  <2>. QED  BY <1>3, <2>2, <2>4 DEF ServeModel
<1>4. CASE r.cmd \in {"getBody", "getJm"}
  <2>1. [body |-> r.arg, is |-> fw.model[r.arg]] \in Vals(r.cmd) /\ r.cmd \in Cmds
    BY <1>0, <1>4 DEF Vals, Cmds, Proper, Firmware
  <2>2. Served(r, Done(fw, [body |-> r.arg, is |-> fw.model[r.arg]]))
    BY <1>0, <1>4, <2>1, DoneServed
  <2>. QED  BY <1>4, <2>2 DEF ServeModel
<1>5. CASE r.cmd = "modelStatus"
  <2>1. [staged |-> fw.staged, override |-> fw.override] \in Vals("modelStatus")
        /\ "modelStatus" \in Cmds
    BY <1>0 DEF Vals, Cmds, Firmware
  <2>2. Served(r, Done(fw, [staged |-> fw.staged, override |-> fw.override]))
    BY <1>0, <1>5, <2>1, DoneServed
  <2>. QED  BY <1>5, <2>2 DEF ServeModel
<1>. QED  BY <1>1, <1>2, <1>3, <1>4, <1>5

LEMMA ServeFfFacts ==
  ASSUME TypeOK, NEW r, Proper(r), r.cmd \in {"setFf", "getFf"}
  PROVE  Served(r, ServeFf(r))
<1>0. fw \in Firmware
  BY DEF TypeOK
<1>1. CASE r.cmd = "setFf"
  <2>1. 0 \in Vals("setFf") /\ "setFf" \in Cmds
    BY DEF Vals, Cmds
  <2>2. PICK f : f = [fw EXCEPT !.ff[r.arg[1]] = r.arg[2]]
    OBVIOUS
  <2>3. [fw.ff EXCEPT ![r.arg[1]] = r.arg[2]] \in Signs
    <3>1. fw.ff \in Signs
      BY <1>0 DEF Firmware
    <3>2. CASE r.arg[1] = "vec" /\ r.arg[2] = 1
      BY <3>1, <3>2 DEF Signs
    <3>3. CASE r.arg[1] = "mass" /\ r.arg[2] = 1
      BY <3>1, <3>3 DEF Signs
    <3>4. CASE r.arg[1] = "com" /\ r.arg[2] = 1
      BY <3>1, <3>4 DEF Signs
    <3>5. CASE r.arg[1] = "mask" /\ r.arg[2] \in SUBSET {0}
      BY <3>1, <3>5 DEF Signs
    <3>. QED  BY <1>1, <3>2, <3>3, <3>4, <3>5 DEF Proper
  <2>4. f = [fw EXCEPT !.ff = [fw.ff EXCEPT ![r.arg[1]] = r.arg[2]]]
    BY <2>2
  <2>5. /\ f \in Firmware /\ f.ticks = fw.ticks /\ f.want = fw.want /\ f.capture = fw.capture
        /\ f.quirk = fw.quirk /\ f.activated = fw.activated /\ f.lim = fw.lim
    BY <1>0, <2>3, <2>4 DEF Firmware
  <2>6. Served(r, Done(f, 0))
    BY <1>1, <2>1, <2>5, DoneServed
  <2>. QED  BY <1>1, <2>2, <2>6 DEF ServeFf
<1>2. CASE r.cmd = "getFf"
  <2>1. fw.ff[r.arg] \in Vals("getFf") /\ "getFf" \in Cmds
    <3>1. fw.ff \in Signs /\ r.arg \in {"vec", "mask"}
      BY <1>0, <1>2 DEF Firmware, Proper
    <3>2. fw.ff[r.arg] \in {0, 1} \cup SUBSET {0}
      BY <3>1 DEF Signs
    <3>. QED  BY <3>2 DEF Vals, Cmds
  <2>2. Served(r, Done(fw, fw.ff[r.arg]))
    BY <1>0, <1>2, <2>1, DoneServed
  <2>. QED  BY <1>2, <2>2 DEF ServeFf
<1>. QED  BY <1>1, <1>2

LEMMA ServeStateFacts ==
  ASSUME TypeOK, NEW r, Proper(r),
         r.cmd \in {"enable", "disable", "license", "activate", "ik", "setting", "kinBench", "move"}
  PROVE  Served(r, ServeState(r))
<1>0. fw \in Firmware /\ 8 \in Codes /\ 4 \in Codes /\ 2 \in Codes
  BY DEF TypeOK, Codes
<1>1. CASE r.cmd = "enable"
  <2>1. 0 \in Vals("enable") /\ "enable" \in Cmds
    BY DEF Vals, Cmds
  <2>2. PICK f : f = [fw EXCEPT !.armed = TRUE]
    OBVIOUS
  <2>3. /\ f \in Firmware /\ f.ticks = fw.ticks /\ f.want = fw.want /\ f.capture = fw.capture
        /\ f.quirk = fw.quirk /\ f.activated = fw.activated /\ f.lim = fw.lim
    BY <1>0, <2>2 DEF Firmware
  <2>4. Served(r, Done(f, 0)) /\ Served(r, Refuse(8))
    BY <1>0, <1>1, <2>1, <2>3, DoneServed, RefuseServed
  <2>. QED  BY <1>1, <2>2, <2>4 DEF ServeState
<1>2. CASE r.cmd = "disable"
  <2>1. 0 \in Vals("disable") /\ "disable" \in Cmds
    BY DEF Vals, Cmds
  <2>2. PICK f : f = [fw EXCEPT !.armed = FALSE]
    OBVIOUS
  <2>3. /\ f \in Firmware /\ f.ticks = fw.ticks /\ f.want = fw.want /\ f.capture = fw.capture
        /\ f.quirk = fw.quirk /\ f.activated = fw.activated /\ f.lim = fw.lim
    BY <1>0, <2>2 DEF Firmware
  <2>4. Served(r, Done(f, 0))
    BY <1>2, <2>1, <2>3, DoneServed
  <2>. QED  BY <1>2, <2>2, <2>4 DEF ServeState
<1>3. CASE r.cmd = "license"
  <2>1. fw.activated \in BOOLEAN
    BY <1>0 DEF Firmware
  <2>2. fw.activated \in Vals("license") /\ "license" \in Cmds
    BY <2>1 DEF Vals, Cmds
  <2>3. Served(r, Done(fw, fw.activated))
    <3>1. /\ Done(fw, fw.activated).fw = fw /\ Done(fw, fw.activated).code = Ok
          /\ Done(fw, fw.activated).val = fw.activated
      BY DEF Done
    <3>2. fw.activated \in AllVals
      BY <2>2, ValsAreAll
    <3>. QED  BY <1>0, <1>3, <2>2, <3>1, <3>2 DEF Served, TypeOK
  <2>. QED  BY <1>3, <2>3 DEF ServeState
<1>4. CASE r.cmd = "activate"
  <2>1. 0 \in Vals("activate") /\ "activate" \in Cmds
    BY DEF Vals, Cmds
  <2>2. PICK f : f = [fw EXCEPT !.activated = TRUE]
    OBVIOUS
  <2>3. /\ f \in Firmware /\ f.ticks = fw.ticks /\ f.want = fw.want /\ f.capture = fw.capture
        /\ f.quirk = fw.quirk /\ f.activated /\ f.lim = fw.lim
    BY <1>0, <2>2 DEF Firmware
  <2>4. Served(r, Done(f, 0))
    BY <1>4, <2>1, <2>3, ZeroIsAll DEF Served, Done, TypeOK
  <2>5. Served(r, Refuse(4)) /\ Served(r, Refuse(2))
    BY <1>0, <1>4, RefuseServed
  <2>. QED  BY <1>4, <2>2, <2>4, <2>5 DEF ServeState
<1>5. CASE r.cmd \in {"ik", "setting"}
  <2>1. r.arg \in Vals(r.cmd) /\ r.cmd \in Cmds
    BY <1>5 DEF Vals, Cmds, Proper
  <2>2. Served(r, Done(fw, r.arg))
    BY <1>0, <1>5, <2>1, DoneServed
  <2>. QED  BY <1>5, <2>2 DEF ServeState
<1>6. CASE r.cmd = "kinBench"
  <2>1. "times" \in Vals("kinBench") /\ "kinBench" \in Cmds
    BY DEF Vals, Cmds
  <2>2. Served(r, Done(fw, "times"))
    BY <1>0, <1>6, <2>1, DoneServed
  <2>. QED  BY <1>6, <2>2 DEF ServeState
<1>7. CASE r.cmd = "move"
  <2>1. 0 \in Vals("move") /\ "move" \in Cmds
    BY DEF Vals, Cmds
  <2>2. PICK f : f = [fw EXCEPT !.target = r.arg]
    OBVIOUS
  <2>3. /\ f \in Firmware /\ f.ticks = fw.ticks /\ f.want = fw.want /\ f.capture = fw.capture
        /\ f.quirk = fw.quirk /\ f.activated = fw.activated /\ f.lim = fw.lim
    BY <1>0, <1>7, <2>2 DEF Firmware, Proper
  <2>4. Served(r, Done(f, 0))
    BY <1>7, <2>1, <2>3, DoneServed
  <2>. QED  BY <1>7, <2>2, <2>4 DEF ServeState
<1>. QED  BY <1>1, <1>2, <1>3, <1>4, <1>5, <1>6, <1>7

\* A chunk of the log: the total, where the next one starts, and the bytes of the capture.
LEMMA BytesType ==
  ASSUME TypeOK
  PROVE  Bytes \in Nat /\ fw.ticks \in Nat /\ SampleSize \in Nat \ {0}
<1>1. fw.ticks \in Nat
  BY DEF TypeOK, Firmware
<1>. QED  BY <1>1, ServicesAssumption DEF Bytes

LEMMA ChunkType ==
  ASSUME TypeOK, NEW off \in Nat
  PROVE  Chunk(off) \in Chunks
<1>1. Bytes \in Nat /\ ChunkMax \in Nat \ {0} /\ fw.capture \in Nat
  BY BytesType, ServicesAssumption DEF TypeOK, Firmware
<1>. DEFINE cnt == IF off >= Bytes THEN 0
                   ELSE IF Bytes - off < ChunkMax THEN Bytes - off ELSE ChunkMax
<1>2. cnt \in Nat
  BY <1>1
<1>3. \A n \in Nat : [1 .. n -> Byte] \subseteq Seq(Byte)
  BY SeqDef
<1>4. [k \in 1 .. cnt |-> [of |-> fw.capture, at |-> off + k]] \in Seq(Byte)
  <2>. HIDE DEF cnt
  <2>1. [k \in 1 .. cnt |-> [of |-> fw.capture, at |-> off + k]] \in [1 .. cnt -> Byte]
    BY <1>1, <1>2 DEF Byte
  <2>. QED  BY <1>2, <1>3, <2>1
<1>5. CASE fw.quirk = "stuck"
  <2>1. [of |-> fw.capture, at |-> 1] \in Byte
    BY <1>1 DEF Byte
  <2>2. /\ (IF off = 0 THEN <<[of |-> fw.capture, at |-> 1]>> ELSE <<>>) \in Seq(Byte)
        /\ (IF off = 0 THEN 1 ELSE off) \in Nat /\ 99 \in Nat
    BY <2>1
  <2>. QED  BY <1>5, <2>2 DEF Chunk, Chunks
<1>6. CASE fw.quirk # "stuck"
  <2>1. (IF off + cnt < Bytes THEN off + cnt ELSE 0) \in Nat
    BY <1>1, <1>2
  <2>2. Chunk(off) = [total |-> Bytes, next |-> IF off + cnt < Bytes THEN off + cnt ELSE 0,
                      bytes |-> [k \in 1 .. cnt |-> [of |-> fw.capture, at |-> off + k]]]
    BY <1>6 DEF Chunk
  <2>. HIDE DEF cnt
  <2>. QED  BY <1>1, <1>4, <2>1, <2>2 DEF Chunks
<1>. QED  BY <1>5, <1>6

LEMMA ServeLogFacts ==
  ASSUME TypeOK, NEW r, Proper(r), r.cmd \in {"logCtl", "logRead"}
  PROVE  Served(r, ServeLog(r))
<1>0. fw \in Firmware /\ 2 \in Codes
  BY DEF TypeOK, Codes
<1>1. CASE r.cmd = "logCtl"
  <2>1. CASE r.arg > LogMax
    <3>1. Served(r, Refuse(2))
      BY <1>0, <1>1, RefuseServed
    <3>. QED  BY <1>1, <2>1, <3>1 DEF ServeLog
  <2>2. CASE ~(r.arg > LogMax)
    <3>1. PICK f : f = [fw EXCEPT !.capture = fw.capture + 1, !.want = r.arg, !.ticks = 0]
      OBVIOUS
    <3>2. r.arg \in 0 .. LogMax /\ 0 \in 0 .. LogMax
      BY <1>1, <2>2, ServicesAssumption DEF Proper
    <3>3. /\ f \in Firmware /\ f.ticks <= f.want
          /\ f.quirk = fw.quirk /\ f.activated = fw.activated /\ f.lim = fw.lim
      <4>1. fw.capture + 1 \in Nat
        BY <1>0 DEF Firmware
      <4>2. /\ f \in Firmware /\ f.ticks = 0 /\ f.want = r.arg
            /\ f.quirk = fw.quirk /\ f.activated = fw.activated /\ f.lim = fw.lim
        BY <1>0, <3>1, <3>2, <4>1 DEF Firmware
      <4>. QED  BY <3>2, <4>2, ServicesAssumption
    <3>4. 0 \in Vals("logCtl")
      BY DEF Vals
    <3>5. Served(r, Done(f, 0))
      BY <1>1, <3>3, <3>4, ZeroIsAll DEF Served, Done
    <3>. QED  BY <1>1, <2>2, <3>1, <3>5 DEF ServeLog
  <2>. QED  BY <2>1, <2>2
<1>2. CASE r.cmd = "logRead"
  <2>1. Chunk(r.arg) \in Vals("logRead") /\ "logRead" \in Cmds
    BY <1>2, ChunkType DEF Vals, Cmds, Proper
  <2>2. Served(r, Done(fw, Chunk(r.arg)))
    BY <1>0, <1>2, <2>1, DoneServed
  <2>. QED  BY <1>2, <2>2 DEF ServeLog
<1>. QED  BY <1>1, <1>2

LEMMA ServeFacts ==
  ASSUME TypeOK, NEW r, Proper(r)
  PROVE  Served(r, Serve(r))
<1>1. CASE Overridden(r)
  <2>1. r.cmd # "license"
    BY <1>1 DEF Overridden
  <2>2. ErrorOf(r.cmd) \in Codes
    BY DEF ErrorOf, Codes
  <2>3. Serve(r) = Refuse(ErrorOf(r.cmd))
    BY <1>1 DEF Serve
  <2>. QED  BY <2>1, <2>2, <2>3, RefuseServed
<1>2. CASE ~Overridden(r)
  <2>1. CASE r.cmd \in {"getParam", "setLimits", "save", "resetParams"}
    <3>1. Serve(r) = ServeJoint(r)
      BY <1>2, <2>1 DEF Serve
    <3>. QED  BY <2>1, <3>1, ServeJointFacts
  <2>2. CASE r.cmd \in {"setBody", "setJm", "commit", "revert", "getBody", "getJm", "modelStatus"}
    <3>1. Serve(r) = ServeModel(r)
      BY <1>2, <2>2 DEF Serve
    <3>. QED  BY <2>2, <3>1, ServeModelFacts
  <2>3. CASE r.cmd \in {"setFf", "getFf"}
    <3>1. Serve(r) = ServeFf(r)
      BY <1>2, <2>3 DEF Serve
    <3>. QED  BY <2>3, <3>1, ServeFfFacts
  <2>4. CASE r.cmd \in {"logCtl", "logRead"}
    <3>1. Serve(r) = ServeLog(r)
      BY <1>2, <2>4 DEF Serve
    <3>. QED  BY <2>4, <3>1, ServeLogFacts
  <2>5. CASE r.cmd \in {"enable", "disable", "license", "activate", "ik", "setting", "kinBench", "move"}
    <3>1. Serve(r) = ServeState(r)
      BY <1>2, <2>5 DEF Serve
    <3>. QED  BY <2>5, <3>1, ServeStateFacts
  <2>. QED  BY <2>1, <2>2, <2>3, <2>4, <2>5 DEF Proper, Cmds
<1>. QED  BY <1>1, <1>2

----------------------------------------------------------------------------
(* The answers a request puts on their way.                                *)

LEMMA AnswersFacts ==
  ASSUME TypeOK, NEW r, Proper(r), NEW S \in SUBSET Messages,
         \A m \in Messages : m.cmd = r.cmd /\ m.code = Serve(r).code
                             /\ (m.val = Serve(r).val \/ r.cmd = "kinBench") => m \in S
  PROVE  /\ Answers(r, Serve(r)) \in Seq(S)
         /\ Len(Answers(r, Serve(r))) \in Nat
         /\ r.cmd # "kinBench" => Len(Answers(r, Serve(r))) = 1
<1>1. Served(r, Serve(r)) /\ r.cmd \in Cmds
  BY ServeFacts DEF Proper
<1>. DEFINE first == [cmd |-> r.cmd, code |-> Serve(r).code, val |-> Serve(r).val]
            second == [first EXCEPT !.val = "link"]
<1>2. first \in S
  BY <1>1 DEF Served, Messages
<1>3. CASE r.cmd = "kinBench"
  <2>1. "link" \in Vals("kinBench") /\ "kinBench" \in Cmds
    BY DEF Vals, Cmds
  <2>2. second = [cmd |-> r.cmd, code |-> Serve(r).code, val |-> "link"]
    OBVIOUS
  <2>3. second \in S
    <3>1. second \in Messages
      BY <1>1, <1>3, <2>1, <2>2, ValsAreAll DEF Served, Messages
    <3>. QED  BY <1>3, <2>2, <3>1
  <2>4. Answers(r, Serve(r)) = <<first, second>> \/ Answers(r, Serve(r)) = <<first>>
    BY DEF Answers
  <2>5. \A x, y \in S : <<x, y>> \in Seq(S) /\ <<x>> \in Seq(S) /\ Len(<<x, y>>) = 2 /\ Len(<<x>>) = 1
    OBVIOUS
  <2>. HIDE DEF first, second
  <2>6. <<first, second>> \in Seq(S) /\ <<first>> \in Seq(S) /\ Len(<<first, second>>) = 2
        /\ Len(<<first>>) = 1
    BY <1>2, <2>3, <2>5
  <2>. QED  BY <1>3, <2>4, <2>6
<1>4. CASE r.cmd # "kinBench"
  <2>1. Answers(r, Serve(r)) = <<first>>
    BY <1>4 DEF Answers
  <2>. HIDE DEF first
  <2>. QED  BY <1>2, <2>1
<1>. QED  BY <1>3, <1>4

\* Whatever is lost of the answer, what is on its way is of the set both come from.
LEMMA SendKeeps ==
  ASSUME TypeOK, NEW r, NEW S, NEW before \in Seq(S), Send(r, before),
         Answers(r, Serve(r)) \in Seq(S)
  PROVE  /\ air' \in Seq(S)
         /\ Len(air') <= Len(before) + Len(Answers(r, Serve(r)))
         /\ ask' = r.cmd /\ fw' = Serve(r).fw /\ lost' \in Nat
<1>. DEFINE all == Answers(r, Serve(r))
<1>0. all \in Seq(S) /\ Len(all) \in Nat /\ Len(before) \in Nat
  OBVIOUS
<1>1. ask' = r.cmd /\ fw' = Serve(r).fw /\ lost' \in Nat
  <2>1. lost' = lost \/ lost' = lost + 1
    BY DEF Send
  <2>2. lost \in Nat
    BY DEF TypeOK
  <2>. QED  BY <2>1, <2>2 DEF Send
<1>2. CASE air' = before \o all
  <2>. HIDE DEF all
  <2>1. before \o all \in Seq(S) /\ Len(before \o all) = Len(before) + Len(all)
    BY <1>0, ConcatProperties
  <2>. QED  BY <1>0, <1>1, <1>2, <2>1 DEF all
<1>3. ASSUME NEW i \in 1 .. Len(all),
             air' = before \o SubSeq(all, 1, i - 1) \o SubSeq(all, i + 1, Len(all))
      PROVE  air' \in Seq(S) /\ Len(air') <= Len(before) + Len(all)
  <2>. HIDE DEF all
  <2>. DEFINE a == SubSeq(all, 1, i - 1)
              b == SubSeq(all, i + 1, Len(all))
  <2>1. \A k \in 1 .. Len(all) : all[k] \in S
    BY <1>0, ElementOfSeq
  <2>2. a \in Seq(S) /\ Len(a) = i - 1
    <3>1. \A k \in 1 .. i - 1 : all[k] \in S
      BY <1>0, <2>1
    <3>2. 1 \in Int /\ i - 1 \in Int /\ (1 <= i - 1 => (i - 1) - 1 + 1 = i - 1) /\ (~(1 <= i - 1) => i - 1 = 0)
      BY <1>0
    <3>3. a \in Seq(S) /\ Len(a) = (IF 1 <= i - 1 THEN (i - 1) - 1 + 1 ELSE 0)
      BY <3>1, <3>2, SubSeqProperties
    <3>. QED  BY <3>2, <3>3
  <2>3. b \in Seq(S) /\ Len(b) = Len(all) - i
    <3>1. \A k \in i + 1 .. Len(all) : all[k] \in S
      BY <1>0, <2>1
    <3>2. i + 1 \in Int /\ Len(all) \in Int
      BY <1>0
    <3>3. b \in Seq(S) /\ Len(b) = (IF i + 1 <= Len(all) THEN Len(all) - (i + 1) + 1 ELSE 0)
      BY <3>1, <3>2, SubSeqProperties
    <3>. QED  BY <1>0, <3>3
  <2>. HIDE DEF a, b
  <2>4. PICK x : x = before \o a
    OBVIOUS
  <2>5. x \in Seq(S) /\ Len(x) = Len(before) + (i - 1)
    BY <1>0, <2>2, <2>4, ConcatProperties
  <2>6. air' = x \o b
    BY <1>3, <2>4 DEF a, b
  <2>7. x \o b \in Seq(S) /\ Len(x \o b) = Len(x) + Len(b)
    BY <2>3, <2>5, ConcatProperties
  <2>. QED  BY <1>0, <2>3, <2>5, <2>6, <2>7
<1>4. air' = before \o all \/ \E i \in 1 .. Len(all) :
         air' = before \o SubSeq(all, 1, i - 1) \o SubSeq(all, i + 1, Len(all))
  BY DEF Send
<1>. QED  BY <1>1, <1>2, <1>3, <1>4

----------------------------------------------------------------------------
(* The invariant.                                                          *)

\* The command the call in progress has asked for, or asked for last.
Asked == IF call.op = "activate" /\ call.step = 1 THEN "license"
         ELSE IF call.op = "capture" /\ call.step >= 1 THEN "logRead"
         ELSE First(call.op, call.arg).cmd
Asking == Several \cup {"activate", "enable"}

\* A call in progress passed the local checks; it awaits its own command, and only a call of
\* several questions is ever between two of them.
Asks ==
    /\ call = Idle => ask = "none"
    /\ call # Idle =>
          /\ call.op \in Ops /\ call.arg \in Args(call.op) /\ ~Invalid(call.op, call.arg)
          /\ result = NoResult /\ ask \in {"none", Asked}
          /\ ask = "none" => /\ call.op \in Asking
                             /\ call.op \in {"activate", "capture"} => call.step # 0
    /\ call.op \in {"connect", "allParams"} =>
          call.step < N /\ call.got \in Seq(Limits) /\ Len(call.got) = call.step
    /\ call.op \in {"capture", "dump"} => call.got \in Seq(Byte)
    /\ call.op = "activate" => call.step \in {0, 1}
    /\ call.op = "dump" => call.step >= 1

\* Limits are known of every joint and are an interval, or they are not known.
LimitsKnown == /\ limits # <<>> => Len(limits) = N /\ Sane(limits)
               /\ call.op = "connect" => limits = <<>>

\* An answer about the licence, however late, has not become untrue: a licence once granted
\* stays granted.
Truthful == {m \in Messages : /\ m.cmd = "activate" /\ m.code = Ok => fw.activated
                              /\ m.cmd = "license" => m.code = Ok /\ (m.val => fw.activated)}
Heard == /\ air \in Seq(Truthful)
         /\ \A c \in Cmds : box[c] \in Seq({m \in Truthful : m.cmd = c})

\* While connect asks, what is on its way is the one answer to the one question.
Current == {m \in Messages : m.cmd = "getParam" /\ (m.code = Ok => m.val.lim = fw.lim[call.step])}
Connecting ==
    call.op = "connect" =>
        /\ \A k \in 1 .. Len(call.got) : call.got[k] = fw.lim[k - 1]
        /\ air \in Seq(Current) /\ box["getParam"] \in Seq(Current)
        /\ Len(air) + Len(box["getParam"]) <= IF ask = "none" THEN 0 ELSE 1

ServicesInv ==
    /\ TypeOK /\ Asks /\ LimitsKnown /\ Heard /\ Connecting
    /\ TargetsAreInside /\ LimitsAreTheArms /\ ActivationIsTrue

\* What a call asks first, and next, is a request the firmware knows.
LEMMA FirstProper ==
  ASSUME NEW op \in Ops, NEW arg \in Args(op), ~Invalid(op, arg)
  PROVE  Proper(First(op, arg))
<1>0. N \in Nat \ {0} /\ Captures \subseteq Nat /\ 0 \in Joints /\ 0 \in Units
      /\ Bodies \subseteq Units /\ Jm \in Units
  BY ServicesAssumption DEF Joints, Units
<1>1. CASE op \in {"connect", "allParams"}
  <2>1. First(op, arg) = [cmd |-> "getParam", arg |-> 0]
    BY <1>1 DEF First, Request
  <2>. QED  BY <1>0, <2>1 DEF Proper, Cmds
<1>2. CASE op \in {"movej", "moveP", "moveJs"}
  <2>1. First(op, arg) = [cmd |-> "move", arg |-> arg]
    BY <1>2 DEF First, Request
  <2>2. arg \in Targets
    BY <1>2 DEF Args
  <2>. QED  BY <2>1, <2>2 DEF Proper, Cmds
<1>3. CASE op \in {"payload", "setMask"}
  <2>1. /\ op = "payload" => First(op, arg) = [cmd |-> "setFf", arg |-> <<"mass", arg>>]
        /\ op = "setMask" => First(op, arg) = [cmd |-> "setFf", arg |-> <<"mask", arg>>]
    BY <1>3 DEF First, Request
  <2>2. (op = "payload" => arg = 1) /\ (op = "setMask" => arg \in SUBSET {0})
    BY <1>3 DEF Args
  <2>. QED  BY <1>3, <2>1, <2>2 DEF Proper, Cmds
<1>4. CASE op \in {"capture", "logStart", "logStop", "dump", "probe"}
  <2>1. /\ op \in {"capture", "logStart"} => First(op, arg) = [cmd |-> "logCtl", arg |-> arg]
        /\ op = "logStop" => First(op, arg) = [cmd |-> "logCtl", arg |-> 0]
        /\ op = "dump" => First(op, arg) = [cmd |-> "logRead", arg |-> 0]
        /\ op = "probe" => First(op, arg) = [cmd |-> "getBody", arg |-> 0]
    BY <1>4 DEF First, Request
  <2>2. op \in {"capture", "logStart"} => arg \in Nat
    BY <1>0 DEF Args
  <2>. QED  BY <1>0, <1>4, <2>1, <2>2 DEF Proper, Cmds
<1>5. CASE op \in Cmds
  <2>1. First(op, arg) = [cmd |-> op, arg |-> arg]
    BY <1>5 DEF First, Request, Cmds
  <2>2. op \notin {"logCtl", "logRead", "move"}
    BY DEF Ops
  <2>3. op = "getParam" => arg \in Joints
    BY DEF Args, Invalid, InvalidJoint
  <2>4. op = "setLimits" => arg[1] \in Joints /\ arg[2] \in Limits
    BY DEF Args, Invalid, InvalidJoint
  <2>5. op \in {"setBody", "setJm", "getBody", "getJm"} => arg \in Units
    BY <1>0 DEF Args
  <2>6. op = "commit" => arg \subseteq Units
    BY DEF Args
  <2>7. op = "setFf" => arg[1] \in {"vec", "mass", "com"} /\ arg[2] = 1
    BY DEF Args, Invalid, InvalidSetting
  <2>8. op = "getFf" => arg \in {"vec", "mask"}
    BY DEF Args
  <2>9. op \in {"activate", "ik", "setting"} => arg \in BOOLEAN
    BY DEF Args
  <2>10. First(op, arg).cmd = op /\ First(op, arg).arg = arg
    BY <2>1
  <2>. QED  BY <1>5, <2>2, <2>3, <2>4, <2>5, <2>6, <2>7, <2>8, <2>9, <2>10 DEF Proper
<1>. QED  BY <1>1, <1>2, <1>3, <1>4, <1>5 DEF Ops

LEMMA AgainProper ==
  ASSUME TypeOK, Asks, call # Idle, ask = "none"
  PROVE  Proper(Again) /\ Again.cmd = Asked /\ Again.cmd # "kinBench"
         /\ (call.op = "connect" => Again = Request("getParam", call.step))
<1>0. call.step \in Nat /\ call.op \in Asking /\ N \in Nat
  BY ServicesAssumption DEF TypeOK, Calls, Asks
<1>1. CASE call.op \in {"connect", "allParams"}
  <2>1. Again = [cmd |-> "getParam", arg |-> call.step] /\ Asked = "getParam"
    BY <1>1 DEF Again, Request, Asked, First
  <2>2. call.step \in Joints
    BY <1>0, <1>1 DEF Asks, Joints
  <2>. QED  BY <2>1, <2>2 DEF Proper, Cmds, Request
<1>2. CASE call.op = "payload"
  <2>1. Again = [cmd |-> "setFf", arg |-> <<"com", call.arg>>] /\ Asked = "setFf"
    BY <1>2 DEF Again, Request, Asked, First
  <2>2. call.arg = 1
    BY <1>2 DEF Asks, Args
  <2>. QED  BY <1>2, <2>1, <2>2 DEF Proper, Cmds
<1>3. CASE call.op = "activate"
  <2>1. Again = [cmd |-> "license", arg |-> 0] /\ Asked = "license"
    BY <1>3 DEF Again, Request, Asked, First, Asks
  <2>. QED  BY <1>3, <2>1 DEF Proper, Cmds
<1>4. CASE call.op = "enable"
  <2>1. Again = [cmd |-> "enable", arg |-> 0] /\ Asked = "enable"
    BY <1>4 DEF Again, Request, Asked, First
  <2>. QED  BY <1>4, <2>1 DEF Proper, Cmds
<1>5. CASE call.op \in {"capture", "dump"}
  <2>0. call.step >= 1
    BY <1>0, <1>5 DEF Asks
  <2>1. Again = [cmd |-> "logRead", arg |-> IF call.step = 1 THEN 0 ELSE call.step - 2]
    BY <1>5 DEF Again, Request
  <2>2. Asked = "logRead"
    BY <1>5, <2>0 DEF Asked, First, Request
  <2>3. (IF call.step = 1 THEN 0 ELSE call.step - 2) \in Nat
    BY <1>0, <2>0
  <2>4. Again.cmd = "logRead" /\ Again.arg \in Nat
    BY <2>1, <2>3
  <2>. QED  BY <1>5, <2>2, <2>4 DEF Proper, Cmds
<1>. QED  BY <1>0, <1>1, <1>2, <1>3, <1>4, <1>5 DEF Asking, Several

----------------------------------------------------------------------------
(* What the steps have in common.                                          *)

\* An answer that is true stays true as long as the firmware keeps its licence.
LEMMA StaysTrue ==
  ASSUME fw.activated => fw'.activated
  PROVE  /\ Truthful \subseteq Truthful'
         /\ \A s \in Seq(Truthful) : s \in Seq(Truthful')
         /\ \A c : \A s \in Seq({m \in Truthful : m.cmd = c}) : s \in Seq({m \in Truthful' : m.cmd = c})
<1>1. Truthful \subseteq Truthful'
  BY DEF Truthful
<1>2. \A c : {m \in Truthful : m.cmd = c} \subseteq {m \in Truthful' : m.cmd = c}
  BY <1>1
<1>. QED  BY <1>1, <1>2, SeqMonotonic

LEMMA TrueAreMessages ==
  ASSUME Heard
  PROVE  /\ air \in Seq(Messages) /\ \A c \in Cmds : box[c] \in Seq(Messages)
         /\ \A c \in Cmds : \A i \in 1 .. Len(box[c]) : box[c][i].cmd = c
<1>1. Truthful \subseteq Messages /\ \A c : {m \in Truthful : m.cmd = c} \subseteq Messages
  BY DEF Truthful
<1>2. air \in Seq(Messages) /\ \A c \in Cmds : box[c] \in Seq(Messages)
  BY <1>1, SeqMonotonic DEF Heard
<1>3. ASSUME NEW c \in Cmds, NEW i \in 1 .. Len(box[c])
      PROVE  box[c][i].cmd = c
  <2>1. box[c][i] \in {m \in Truthful : m.cmd = c}
    BY <1>3, ElementOfSeq DEF Heard
  <2>. QED  BY <2>1
<1>. QED  BY <1>2, <1>3

\* A request sent: the firmware it leaves, and the answers on their way.
LEMMA SendFacts ==
  ASSUME TypeOK, NEW r, Proper(r), NEW before \in Seq(Truthful), Send(r, before)
  PROVE  /\ Served(r, Serve(r)) /\ fw' = Serve(r).fw /\ ask' = r.cmd /\ ask' \in Cmds
         /\ lost' \in Nat
         /\ fw' \in Firmware /\ fw'.ticks <= fw'.want /\ (fw.activated => fw'.activated)
         /\ air' \in Seq(Truthful')
         /\ r.cmd # "kinBench" => Len(air') <= Len(before) + 1
<1>1. Served(r, Serve(r)) /\ r.cmd \in Cmds
  BY ServeFacts DEF Proper
<1>2. fw' = Serve(r).fw
  BY DEF Send
<1>3. fw' \in Firmware /\ fw'.ticks <= fw'.want /\ (fw.activated => fw'.activated)
  BY <1>1, <1>2 DEF Served
<1>4. \A m \in Messages : m.cmd = r.cmd /\ m.code = Serve(r).code
         /\ (m.val = Serve(r).val \/ r.cmd = "kinBench") => m \in Truthful'
  BY <1>1, <1>2 DEF Served, Truthful
<1>5. Truthful' \in SUBSET Messages
  BY DEF Truthful
<1>6. Answers(r, Serve(r)) \in Seq(Truthful')
      /\ (r.cmd # "kinBench" => Len(Answers(r, Serve(r))) = 1)
  BY <1>4, <1>5, AnswersFacts
<1>7. before \in Seq(Truthful')
  BY <1>3, StaysTrue
<1>8. air' \in Seq(Truthful') /\ Len(air') <= Len(before) + Len(Answers(r, Serve(r)))
      /\ ask' = r.cmd /\ lost' \in Nat
  BY <1>6, <1>7, SendKeeps
<1>. QED  BY <1>1, <1>2, <1>3, <1>6, <1>8

\* The boxes after a write.
LEMMA DrainedFacts ==
  ASSUME TypeOK, Heard, NEW c \in Cmds, box' = Drained(c), fw.activated => fw'.activated
  PROVE  /\ \A d \in Cmds : box'[d] \in Seq({m \in Truthful' : m.cmd = d})
         /\ box' \in [Cmds -> Seq(Messages)]
         /\ c # "license" => box'[c] = <<>>
<1>0. box \in [Cmds -> Seq(Messages)]
  BY DEF TypeOK
<1>1. \A d \in Cmds : box'[d] = box[d] \/ box'[d] = <<>>
  BY <1>0 DEF Drained
<1>2. box' \in [Cmds -> Seq(Messages)]
  BY <1>0 DEF Drained
<1>3. \A d \in Cmds : box[d] \in Seq({m \in Truthful' : m.cmd = d})
  BY StaysTrue DEF Heard
<1>4. \A d \in Cmds : <<>> \in Seq({m \in Truthful' : m.cmd = d})
  OBVIOUS
<1>5. c # "license" => box'[c] = <<>>
  BY <1>0 DEF Drained, Listed
<1>. QED  BY <1>1, <1>2, <1>3, <1>4, <1>5

----------------------------------------------------------------------------
(* An answer taken ends the call, or lets it ask on.                       *)

Ends(a) ==
    /\ ask' = "none" /\ target' \in Nat
    /\ \E end, v : /\ Finish(end, v)
                   /\ call.op = "activate" /\ end = "ok" => fw.activated
    /\ \/ limits' = limits
       \/ /\ call.op = "connect" /\ call.step + 1 = N /\ a.code = Ok
          /\ limits' = Append(call.got, a.val.lim) /\ Sane(limits')

Goes(a) ==
    /\ result' = result /\ limits' = limits /\ target' \in Nat
    /\ \E s \in Nat : \E g :
          /\ call' = [call EXCEPT !.step = s, !.got = g, !.tries = 0]
          /\ \/ /\ call.op \in {"connect", "allParams"} /\ a.code = Ok /\ s = call.step + 1 /\ s < N
                /\ g = Append(call.got, a.val.lim)
             \/ call.op \in {"payload", "enable"} /\ g = <<>>
             \/ call.op = "activate" /\ s = 1 /\ g = <<>>
             \/ call.op \in {"capture", "dump"} /\ s >= 1 /\ g \in Seq(Byte)
             \/ call.op = "kinBench" /\ g = <<a.val>>
    /\ ask' = IF call.op = "kinBench" THEN ask ELSE "none"

\* What is known of the answer taken.
LEMMA MailFacts ==
  ASSUME TypeOK, Asks, Heard, ask # "none", Mail # <<>>
  PROVE  /\ ask \in Cmds /\ ask = Asked /\ call # Idle /\ call.op \in Ops
         /\ Mail \in Seq({m \in Truthful : m.cmd = ask})
         /\ Head(Mail) \in Truthful /\ Head(Mail).cmd = ask
         /\ Tail(Mail) \in Seq({m \in Truthful : m.cmd = ask})
<1>1. ask \in Cmds /\ call # Idle /\ call.op \in Ops /\ ask = Asked
  BY DEF TypeOK, Asks
<1>2. Mail \in Seq({m \in Truthful : m.cmd = ask})
  BY <1>1 DEF Mail, Heard
<1>3. Head(Mail) \in {m \in Truthful : m.cmd = ask}
      /\ Tail(Mail) \in Seq({m \in Truthful : m.cmd = ask})
  BY <1>2, HeadTailProperties
<1>. QED  BY <1>1, <1>2, <1>3

LEMMA TakeFacts ==
  ASSUME TypeOK, Asks, Heard, Take
  PROVE  Ends(Head(Mail)) \/ Goes(Head(Mail))
<1>. DEFINE a == Head(Mail)
<1>0. /\ ask \in Cmds /\ ask = Asked /\ call # Idle /\ call.op \in Ops
      /\ a \in Truthful /\ a.cmd = ask /\ a \in Messages
  BY MailFacts DEF Take, Truthful
<1>1. /\ ask' = IF call.op = "kinBench" /\ ~Half THEN ask ELSE "none"
      /\ IF a.code # Ok /\ call.op \in Several /\ ~Starting
         THEN Finish("rejected", 0) /\ UNCHANGED <<limits, target>>
         ELSE \/ Answered(a) \/ Probed(a) \/ Solved(a) \/ Benched(a) \/ Enabled(a)
              \/ Param(a) \/ Payload(a) \/ Activated(a) \/ Started(a) \/ Captured(a)
  BY DEF Take
<1>2. a.code = Ok => a.val \in Vals(ask)
  BY <1>0 DEF Messages
<1>3. call.step \in Nat /\ call.step + 1 \in Nat /\ target \in Nat
  BY DEF TypeOK, Calls
<1>. HIDE DEF a
<1>4. CASE a.code # Ok /\ call.op \in Several /\ ~Starting
  <2>1. Finish("rejected", 0) /\ limits' = limits /\ target' = target
    BY <1>1, <1>4
  <2>2. ask' = "none"
    BY <1>1, <1>4 DEF Several
  <2>3. Ends(a)
    BY <1>3, <2>1, <2>2 DEF Ends
  <2>. QED  BY <2>3 DEF a
<1>5. CASE ~(a.code # Ok /\ call.op \in Several /\ ~Starting)
  <2>1. ASSUME Answered(a)  PROVE Ends(a)
    <3>1. call.op \notin Several \cup Special /\ limits' = limits /\ target' = target
      BY <2>1 DEF Answered
    <3>2. ask' = "none"
      BY <1>1, <3>1 DEF Special
    <3>3. PICK end : end = (IF a.code # Ok THEN "rejected" ELSE IF WrongBody(a) THEN "transport" ELSE "ok")
      OBVIOUS
    <3>4. Finish(end, a.val)
      BY <2>1, <3>3 DEF Answered
    <3>5. call.op # "activate"
      BY <3>1 DEF Special
    <3>. QED  BY <1>3, <3>1, <3>2, <3>4, <3>5 DEF Ends
  <2>2. ASSUME Probed(a)  PROVE Ends(a)
    <3>1. call.op = "probe" /\ limits' = limits /\ target' = target
      BY <2>2 DEF Probed
    <3>2. \E end, v : Finish(end, v)
      BY <2>2 DEF Probed
    <3>. QED  BY <1>1, <1>3, <3>1, <3>2 DEF Ends
  <2>3. ASSUME Solved(a)  PROVE Ends(a)
    <3>1. call.op = "ik" /\ limits' = limits /\ target' = target
      BY <2>3 DEF Solved
    <3>2. \E end, v : Finish(end, v)
      BY <2>3 DEF Solved
    <3>. QED  BY <1>1, <1>3, <3>1, <3>2 DEF Ends
  <2>4. ASSUME Benched(a)  PROVE Ends(a) \/ Goes(a)
    <3>1. call.op = "kinBench" /\ limits' = limits /\ target' = target
      BY <2>4 DEF Benched
    <3>2. CASE Half
      <4>1. Finish("ok", Append(call.got, a.val)) /\ ask' = "none"
        BY <1>1, <2>4, <3>2 DEF Benched
      <4>. QED  BY <1>3, <3>1, <4>1 DEF Ends
    <3>3. CASE ~Half
      <4>1. Advance(1, <<a.val>>) /\ ask' = ask
        BY <1>1, <2>4, <3>1, <3>3 DEF Benched
      <4>. QED  BY <1>3, <3>1, <4>1 DEF Goes, Advance
    <3>. QED  BY <3>2, <3>3
  <2>5. ASSUME Enabled(a)  PROVE Ends(a) \/ Goes(a)
    <3>1. call.op = "enable" /\ limits' = limits /\ target' = target /\ ask' = "none"
      BY <1>1, <2>5 DEF Enabled
    <3>2. Finish("ok", 0) \/ Finish("rejected", 0) \/ Advance(call.step + 1, <<>>)
      BY <2>5 DEF Enabled
    <3>3. CASE Advance(call.step + 1, <<>>)
      BY <1>3, <3>1, <3>3 DEF Goes, Advance
    <3>4. CASE Finish("ok", 0) \/ Finish("rejected", 0)
      BY <1>3, <3>1, <3>4 DEF Ends
    <3>. QED  BY <3>2, <3>3, <3>4
  <2>6. ASSUME Param(a)  PROVE Ends(a) \/ Goes(a)
    <3>1. call.op \in {"connect", "allParams"} /\ target' = target /\ ask' = "none"
      BY <1>1, <2>6 DEF Param
    <3>2. a.code = Ok
      BY <1>5, <3>1 DEF Several, Starting
    <3>3. PICK got : got = Append(call.got, a.val.lim)
      OBVIOUS
    <3>4. CASE call.step + 1 < N
      <4>1. Advance(call.step + 1, got) /\ limits' = limits
        BY <2>6, <3>3, <3>4 DEF Param
      <4>. QED  BY <1>3, <3>1, <3>2, <3>3, <3>4, <4>1 DEF Goes, Advance
    <3>5. CASE ~(call.step + 1 < N)
      <4>1. Finish("ok", got) /\ limits' = IF call.op = "connect" /\ Sane(got) THEN got ELSE limits
        BY <2>6, <3>3, <3>5 DEF Param
      <4>2. call.step + 1 = N
        BY <1>3, <3>1, <3>5, ServicesAssumption DEF Asks
      <4>3. call.op # "activate"
        BY <3>1
      <4>4. limits' = limits \/ (call.op = "connect" /\ limits' = got /\ Sane(got))
        BY <4>1
      <4>. QED  BY <1>3, <3>1, <3>2, <3>3, <4>1, <4>2, <4>3, <4>4 DEF Ends
    <3>. QED  BY <3>4, <3>5
  <2>7. ASSUME Payload(a)  PROVE Ends(a) \/ Goes(a)
    <3>1. call.op = "payload" /\ limits' = limits /\ target' = target /\ ask' = "none"
      BY <1>1, <2>7 DEF Payload
    <3>2. Finish("ok", 0) \/ Advance(1, <<>>)
      BY <2>7 DEF Payload
    <3>3. CASE Advance(1, <<>>)
      BY <1>3, <3>1, <3>3 DEF Goes, Advance
    <3>4. CASE Finish("ok", 0)
      BY <1>3, <3>1, <3>4 DEF Ends
    <3>. QED  BY <3>2, <3>3, <3>4
  <2>8. ASSUME Activated(a)  PROVE Ends(a) \/ Goes(a)
    <3>1. call.op = "activate" /\ limits' = limits /\ target' = target /\ ask' = "none"
      BY <1>1, <2>8 DEF Activated
    <3>2. CASE call.step = 1
      <4>1. ask = "license"
        BY <1>0, <3>1, <3>2 DEF Asked
      <4>2. a.val => fw.activated
        BY <1>0, <4>1 DEF Truthful
      <4>3. PICK end : end = (IF a.val THEN "ok" ELSE "locked")
        OBVIOUS
      <4>4. Finish(end, 0)
        BY <2>8, <3>2, <4>3 DEF Activated
      <4>5. end = "ok" => fw.activated
        BY <4>2, <4>3
      <4>. QED  BY <1>3, <3>1, <4>4, <4>5 DEF Ends
    <3>3. CASE call.step # 1
      <4>1. ask = "activate"
        BY <1>0, <3>1, <3>3 DEF Asked, First, Request
      <4>2. a.code = Ok => fw.activated
        BY <1>0, <4>1 DEF Truthful
      <4>3. CASE a.code = 2
        <5>1. Advance(1, <<>>)
          BY <2>8, <3>3, <4>3 DEF Activated, Ambiguous
        <5>. QED  BY <1>3, <3>1, <5>1 DEF Goes, Advance
      <4>4. CASE a.code # 2
        <5>1. PICK end : end = (IF a.code \in {Ok, 2} THEN "ok" ELSE "rejected")
          OBVIOUS
        <5>2. Finish(end, 0)
          BY <2>8, <3>3, <4>4, <5>1 DEF Activated, Ambiguous
        <5>3. end = "ok" => fw.activated
          BY <4>2, <4>4, <5>1
        <5>. QED  BY <1>3, <3>1, <5>2, <5>3 DEF Ends
      <4>. QED  BY <4>3, <4>4
    <3>. QED  BY <3>2, <3>3
  <2>9. ASSUME Started(a)  PROVE Ends(a) \/ Goes(a)
    <3>1. call.op \in {"logStart", "logStop", "capture"} /\ limits' = limits /\ ask' = "none"
      BY <1>1, <2>9 DEF Started, Starting
    <3>2. call.op \in {"logStart", "capture"} => call.arg \in Nat
      BY <1>0, ServicesAssumption DEF Asks, Args
    <3>3. target' \in Nat
      BY <1>3, <2>9, <3>1, <3>2 DEF Started
    <3>4. Finish("ok", 0) \/ Finish("rejected", 0) \/ (call.op = "capture" /\ Advance(1, <<>>))
      BY <2>9 DEF Started
    <3>5. CASE call.op = "capture" /\ Advance(1, <<>>)
      <4>1. <<>> \in Seq(Byte) /\ 1 \in Nat /\ 1 >= 1
        OBVIOUS
      <4>2. result' = result /\ call' = [call EXCEPT !.step = 1, !.got = <<>>, !.tries = 0]
        BY <3>5 DEF Advance
      <4>3. ask' = IF call.op = "kinBench" THEN ask ELSE "none"
        BY <3>1
      <4>4. Goes(a)
        BY <3>1, <3>3, <3>5, <4>1, <4>2, <4>3 DEF Goes
      <4>. QED  BY <4>4
    <3>6. CASE Finish("ok", 0) \/ Finish("rejected", 0)
      <4>1. \E end, v : Finish(end, v)
        BY <3>6
      <4>2. call.op # "activate"
        BY <3>1
      <4>. QED  BY <3>1, <3>3, <4>1, <4>2 DEF Ends
    <3>. QED  BY <3>4, <3>5, <3>6
  <2>10. ASSUME Captured(a)  PROVE Ends(a) \/ Goes(a)
    <3>1. call.op \in {"capture", "dump"} /\ limits' = limits /\ target' = target /\ ask' = "none"
      BY <1>1, <2>10 DEF Captured
    <3>2. call.step >= 1
      <4>1. call.step = 1 \/ call.step >= 2
        BY <2>10 DEF Captured, Polled, Read
      <4>. QED  BY <1>3, <4>1
    <3>3. a.code = Ok
      BY <1>3, <1>5, <3>1, <3>2 DEF Several, Starting
    <3>4. a.val \in Chunks
      <4>1. ask = "logRead"
        BY <1>0, <3>1, <3>2 DEF Asked, First, Request
      <4>. QED  BY <1>2, <3>3, <4>1 DEF Vals
    <3>5. a.val.next \in Nat /\ a.val.bytes \in Seq(Byte) /\ <<>> \in Seq(Byte)
      BY <3>4 DEF Chunks
    <3>6. CASE Polled(a)
      <4>1. Advance(2, <<>>) \/ Advance(1, <<>>) \/ Finish("timeout", 0)
        BY <3>6 DEF Polled
      <4>2. CASE Finish("timeout", 0)
        BY <1>3, <3>1, <4>2 DEF Ends
      <4>3. ASSUME NEW s \in {1, 2}, Advance(s, <<>>)  PROVE Goes(a)
        <5>1. s \in Nat /\ s >= 1
          OBVIOUS
        <5>2. result' = result /\ call' = [call EXCEPT !.step = s, !.got = <<>>, !.tries = 0]
          BY <4>3 DEF Advance
        <5>3. ask' = IF call.op = "kinBench" THEN ask ELSE "none"
          BY <3>1
        <5>. QED  BY <1>3, <3>1, <3>5, <5>1, <5>2, <5>3 DEF Goes
      <4>. QED  BY <4>1, <4>2, <4>3
    <3>7. CASE Read(a)
      <4>1. PICK got : got = call.got \o a.val.bytes
        OBVIOUS
      <4>2. got \in Seq(Byte)
        <5>1. call.got \in Seq(Byte)
          BY <3>1 DEF Asks
        <5>. QED  BY <3>5, <4>1, <5>1, ConcatProperties
      <4>3. \/ \E end : Finish(end, got)
            \/ Finish("transport", 0)
            \/ Advance(2 + a.val.next, got)
        BY <3>7, <4>1 DEF Read
      <4>4. CASE Advance(2 + a.val.next, got)
        <5>1. 2 + a.val.next \in Nat /\ 2 + a.val.next >= 1
          BY <3>5
        <5>. QED  BY <1>3, <3>1, <4>2, <4>4, <5>1 DEF Goes, Advance
      <4>5. CASE \E end, v : Finish(end, v)
        BY <1>3, <3>1, <4>5 DEF Ends
      <4>. QED  BY <4>3, <4>4, <4>5
    <3>. QED  BY <2>10, <3>6, <3>7 DEF Captured
  <2>11. Ends(a) \/ Goes(a)
    BY <1>1, <1>5, <2>1, <2>2, <2>3, <2>4, <2>5, <2>6, <2>7, <2>8, <2>9, <2>10
  <2>. QED  BY <2>11 DEF a
<1>. QED  BY <1>4, <1>5

----------------------------------------------------------------------------
(* Every step keeps the invariant.                                         *)

Promises == TargetsAreInside /\ LimitsAreTheArms /\ ActivationIsTrue

\* A call in progress has no result yet.
LEMMA NoResultYet ==
  ASSUME result' = NoResult
  PROVE  Promises'
BY DEF Promises, TargetsAreInside, LimitsAreTheArms, ActivationIsTrue, NoResult

LEMMA PromisesStay ==
  ASSUME Promises, result' = result, limits' = limits, fw'.lim = fw.lim,
         fw.activated => fw'.activated
  PROVE  Promises'
<1>1. TargetsAreInside'
  BY DEF Promises, TargetsAreInside
<1>2. LimitsAreTheArms'
  BY DEF Promises, LimitsAreTheArms
<1>3. ActivationIsTrue'
  BY DEF Promises, ActivationIsTrue
<1>. QED  BY <1>1, <1>2, <1>3 DEF Promises

\* The firmware records a tick.
LEMMA RecordKeeps ==
  ASSUME ServicesInv, Record
  PROVE  ServicesInv'
<1>. USE DEF ServicesInv
<1>0. UNCHANGED <<air, box, ask, call, limits, target, result, api, crossed, calls, late, lost>>
  BY DEF Record
<1>1. PICK t : t = fw.ticks + 1
  OBVIOUS
<1>2. fw' = [fw EXCEPT !.ticks = t]
  BY <1>1 DEF Record
<1>3. fw \in Firmware /\ fw.ticks \in 0 .. LogMax /\ fw.want \in 0 .. LogMax /\ LogMax \in Nat
  BY ServicesAssumption DEF TypeOK, Firmware
<1>4. t \in 0 .. LogMax /\ t <= fw.want
  BY <1>1, <1>3 DEF Record
<1>5. /\ fw' \in Firmware /\ fw'.ticks = t /\ fw'.want = fw.want
      /\ fw'.lim = fw.lim /\ fw'.activated = fw.activated
  BY <1>2, <1>3, <1>4 DEF Firmware
<1>6. TypeOK'
  BY <1>0, <1>4, <1>5 DEF TypeOK
<1>7. Asks'
  BY <1>0 DEF Asks, Asked, Invalid, InvalidTarget, Refused
<1>8. LimitsKnown'
  BY <1>0 DEF LimitsKnown
<1>9. Heard'
  BY <1>0, <1>5, StaysTrue DEF Heard
<1>10. Connecting'
  <2>1. Current' = Current
    BY <1>0, <1>5 DEF Current
  <2>. QED  BY <1>0, <1>5, <2>1 DEF Connecting
<1>11. Promises'
  BY <1>0, <1>5, PromisesStay DEF Promises
<1>. QED  BY <1>6, <1>7, <1>8, <1>9, <1>10, <1>11 DEF Promises

\* An answer is received: it goes to the queue of its command.
LEMMA DeliverKeeps ==
  ASSUME ServicesInv, Deliver
  PROVE  ServicesInv'
<1>. USE DEF ServicesInv
<1>0. /\ air # <<>> /\ air' = Tail(air)
      /\ UNCHANGED <<fw, ask, call, limits, target, result, api, crossed, calls, late, lost>>
  BY DEF Deliver
<1>1. PICK a : a = Head(air)
  OBVIOUS
<1>2. box' = [box EXCEPT ![a.cmd] = Append(box[a.cmd], a)]
  BY <1>1 DEF Deliver
<1>3. air \in Seq(Truthful) /\ \A c \in Cmds : box[c] \in Seq({m \in Truthful : m.cmd = c})
  BY DEF Heard
<1>4. a \in Truthful /\ Tail(air) \in Seq(Truthful) /\ Len(Tail(air)) = Len(air) - 1
  BY <1>0, <1>1, <1>3, HeadTailProperties
<1>5. a \in Messages /\ a.cmd \in Cmds
  BY <1>4 DEF Truthful, Messages
<1>6. box \in [Cmds -> Seq(Messages)]
  BY DEF TypeOK
<1>7. /\ box'[a.cmd] = Append(box[a.cmd], a)
      /\ \A c \in Cmds : c # a.cmd => box'[c] = box[c]
  BY <1>2, <1>5, <1>6
<1>8. a \in {m \in Truthful : m.cmd = a.cmd}
  BY <1>4
<1>9. Append(box[a.cmd], a) \in Seq({m \in Truthful : m.cmd = a.cmd})
  BY <1>3, <1>5, <1>8, AppendProperties
<1>10. \A c \in Cmds : box'[c] \in Seq({m \in Truthful : m.cmd = c})
  BY <1>3, <1>7, <1>9
<1>11. Heard'
  <2>1. fw.activated => fw'.activated
    BY <1>0
  <2>. QED  BY <1>0, <1>4, <1>10, <2>1, StaysTrue DEF Heard
<1>12. TypeOK'
  <2>2. box' \in [Cmds -> Seq(Messages)]
    <3>1. Append(box[a.cmd], a) \in Seq(Messages)
      BY <1>5, <1>6, AppendProperties
    <3>. QED  BY <1>2, <1>5, <1>6, <3>1
  <2>3. air' \in Seq(Messages)
    BY <1>0, HeadTailProperties DEF TypeOK
  <2>4. \A c \in Cmds : \A i \in 1 .. Len(box'[c]) : box'[c][i].cmd = c
    <3>1. SUFFICES ASSUME NEW c \in Cmds, NEW i \in 1 .. Len(box'[c])  PROVE box'[c][i].cmd = c
      OBVIOUS
    <3>2. box'[c][i] \in {m \in Truthful : m.cmd = c}
      BY <1>10, ElementOfSeq
    <3>. QED  BY <3>2
  <2>. QED  BY <1>0, <2>2, <2>3, <2>4 DEF TypeOK
<1>13. Asks'
  BY <1>0 DEF Asks, Asked, Invalid, InvalidTarget, Refused
<1>14. LimitsKnown'
  BY <1>0 DEF LimitsKnown
<1>15. Connecting'
  <2>1. CASE call.op # "connect"
    BY <1>0, <2>1 DEF Connecting
  <2>2. CASE call.op = "connect"
    <3>1. /\ air \in Seq(Current) /\ box["getParam"] \in Seq(Current)
          /\ Len(air) + Len(box["getParam"]) <= IF ask = "none" THEN 0 ELSE 1
      BY <2>2 DEF Connecting
    <3>2. a \in Current /\ Tail(air) \in Seq(Current)
      BY <1>0, <1>1, <3>1, HeadTailProperties
    <3>3. a.cmd = "getParam"
      BY <3>2 DEF Current
    <3>4. /\ box'["getParam"] \in Seq(Current)
          /\ Len(box'["getParam"]) = Len(box["getParam"]) + 1
      BY <1>7, <3>1, <3>2, <3>3, AppendProperties
    <3>5. Current' = Current
      BY <1>0 DEF Current
    <3>6. Len(air') + Len(box'["getParam"]) = Len(air) + Len(box["getParam"])
      <4>1. Len(air) \in Nat /\ Len(box["getParam"]) \in Nat
        BY <3>1
      <4>. QED  BY <1>0, <1>4, <3>4, <4>1
    <3>. QED  BY <1>0, <2>2, <3>1, <3>2, <3>4, <3>5, <3>6 DEF Connecting
  <2>. QED  BY <2>1, <2>2
<1>16. Promises'
  BY <1>0, PromisesStay DEF Promises
<1>. QED  BY <1>11, <1>12, <1>13, <1>14, <1>15, <1>16 DEF Promises

\* The one question of connect, and its one answer.
LEMMA ConnectAsks ==
  ASSUME TypeOK, NEW r, r.cmd = "getParam", r.arg \in Joints, Send(r, <<>>), call'.step = r.arg
  PROVE  air' \in Seq(Current') /\ Len(air') <= 1 /\ fw'.lim = fw.lim
<1>1. Proper(r)
  BY DEF Proper, Cmds
<1>2. Served(r, Serve(r)) /\ fw' = Serve(r).fw
  BY <1>1, ServeFacts DEF Send
<1>3. fw'.lim = fw.lim
  BY <1>2 DEF Served
<1>4. \A m \in Messages : m.cmd = r.cmd /\ m.code = Serve(r).code
         /\ (m.val = Serve(r).val \/ r.cmd = "kinBench") => m \in Current'
  BY <1>2, <1>3 DEF Served, Current
<1>5. Current' \in SUBSET Messages
  BY DEF Current
<1>6. Answers(r, Serve(r)) \in Seq(Current') /\ Len(Answers(r, Serve(r))) = 1
  BY <1>1, <1>4, <1>5, AnswersFacts
<1>7. <<>> \in Seq(Current') /\ Len(<<>>) = 0
  OBVIOUS
<1>8. air' \in Seq(Current') /\ Len(air') <= Len(<<>>) + 1
  BY <1>6, <1>7, SendKeeps
<1>. QED  BY <1>3, <1>7, <1>8

\* What every request sent by the call in progress comes to.
LEMMA SentKeeps ==
  ASSUME TypeOK, NEW r, Proper(r), NEW before \in Seq(Truthful), Send(r, before),
         \A d \in Cmds : box'[d] \in Seq({m \in Truthful' : m.cmd = d}),
         box' \in [Cmds -> Seq(Messages)],
         call' \in Calls, limits' \in Seq(Limits), target' \in Nat, api' = api,
         crossed' \in BOOLEAN, calls' \in Nat, late' \in Nat
  PROVE  TypeOK' /\ Heard' /\ ask' = r.cmd
<1>1. /\ fw' \in Firmware /\ fw'.ticks <= fw'.want /\ ask' = r.cmd /\ ask' \in Cmds /\ lost' \in Nat
      /\ air' \in Seq(Truthful')
  BY SendFacts
<1>2. Heard'
  BY <1>1 DEF Heard
<1>3. Truthful' \subseteq Messages /\ \A c : {m \in Truthful' : m.cmd = c} \subseteq Messages
  BY DEF Truthful
<1>4. air' \in Seq(Messages)
  BY <1>1, <1>3, SeqMonotonic
<1>5. \A c \in Cmds : \A i \in 1 .. Len(box'[c]) : box'[c][i].cmd = c
  <2>1. SUFFICES ASSUME NEW c \in Cmds, NEW i \in 1 .. Len(box'[c])  PROVE box'[c][i].cmd = c
    OBVIOUS
  <2>2. box'[c][i] \in {m \in Truthful' : m.cmd = c}
    BY ElementOfSeq
  <2>. QED  BY <2>2
<1>6. api' \subseteq Ops
  BY DEF TypeOK
<1>7. TypeOK'
  BY <1>1, <1>4, <1>5, <1>6 DEF TypeOK
<1>. QED  BY <1>1, <1>2, <1>7

\* The next question of a call of several.
LEMMA ContinueKeeps ==
  ASSUME ServicesInv, Continue
  PROVE  ServicesInv'
<1>. USE DEF ServicesInv
<1>0. /\ call # Idle /\ ask = "none" /\ Send(Again, air) /\ box' = Drained(Again.cmd)
      /\ UNCHANGED <<call, limits, target, result, api, crossed, calls, late>>
  BY DEF Continue, Write
<1>1. Proper(Again) /\ Again.cmd = Asked /\ Again.cmd # "kinBench" /\ Again.cmd \in Cmds
      /\ (call.op = "connect" => Again = Request("getParam", call.step))
  BY <1>0, AgainProper DEF Proper
<1>2. air \in Seq(Truthful)
  BY DEF Heard
<1>3. fw.activated => fw'.activated
  BY <1>0, <1>1, <1>2, SendFacts
<1>4. /\ \A d \in Cmds : box'[d] \in Seq({m \in Truthful' : m.cmd = d})
      /\ box' \in [Cmds -> Seq(Messages)]
      /\ Again.cmd # "license" => box'[Again.cmd] = <<>>
  BY <1>0, <1>1, <1>3, DrainedFacts
<1>5. /\ call' \in Calls /\ limits' \in Seq(Limits) /\ target' \in Nat /\ api' = api
      /\ crossed' \in BOOLEAN /\ calls' \in Nat /\ late' \in Nat
  BY <1>0 DEF TypeOK
<1>6. TypeOK' /\ Heard' /\ ask' = Asked
  BY <1>0, <1>1, <1>2, <1>4, <1>5, SentKeeps
<1>7. Asks'
  <2>1. ask' # "none"
    BY <1>1, <1>6 DEF Cmds
  <2>. QED  BY <1>0, <1>6, <2>1 DEF Asks, Asked, Invalid, InvalidTarget, Refused
<1>8. LimitsKnown'
  BY <1>0 DEF LimitsKnown
<1>9. Connecting'
  <2>1. CASE call.op # "connect"
    BY <1>0, <2>1 DEF Connecting
  <2>2. CASE call.op = "connect"
    <3>1. Again.cmd = "getParam" /\ Again.arg = call.step /\ call.step \in Joints
      <4>1. call.step \in Nat /\ call.step < N /\ N \in Nat
        BY <2>2, ServicesAssumption DEF Asks, TypeOK, Calls
      <4>. QED  BY <1>1, <2>2, <4>1 DEF Request, Joints
    <3>2. air = <<>>
      <4>1. air \in Seq(Current) /\ Len(air) + Len(box["getParam"]) <= 0 /\ box["getParam"] \in Seq(Current)
        BY <1>0, <2>2 DEF Connecting
      <4>2. Len(air) = 0
        BY <4>1
      <4>. QED  BY <4>1, <4>2, EmptySeq
    <3>3. air' \in Seq(Current') /\ Len(air') <= 1 /\ fw'.lim = fw.lim
      BY <1>0, <3>1, <3>2, ConnectAsks
    <3>4. box'["getParam"] = <<>>
      BY <1>4, <3>1
    <3>5. box'["getParam"] \in Seq(Current') /\ Len(box'["getParam"]) = 0
      BY <3>4
    <3>6. ask' # "none"
      BY <1>1, <1>6 DEF Cmds
    <3>7. \A k \in 1 .. Len(call'.got) : call'.got[k] = fw'.lim[k - 1]
      BY <1>0, <2>2, <3>3 DEF Connecting
    <3>8. Len(air') + Len(box'["getParam"]) <= 1
      BY <3>3, <3>5
    <3>. QED  BY <3>3, <3>5, <3>6, <3>7, <3>8 DEF Connecting
  <2>. QED  BY <2>1, <2>2
<1>10. Promises'
  BY <1>0, NoResultYet DEF Asks
<1>. QED  BY <1>6, <1>7, <1>8, <1>9, <1>10 DEF Promises

LEMMA ArgTypes ==
  ASSUME NEW op \in Ops, NEW arg \in Args(op)
  PROVE  arg \in UNION {Args(o) : o \in Ops}
OBVIOUS

\* A call that the local checks refuse changes nothing but how the last call ended.
LEMMA RefusedCallKeeps ==
  ASSUME ServicesInv, NEW op, NEW arg, call = Idle, Invalid(op, arg), calls' = calls + 1,
         result' = [op |-> op, arg |-> arg, end |-> "invalid", val |-> 0],
         UNCHANGED <<fw, air, box, ask, call, limits, target, crossed, lost, api, late>>
  PROVE  ServicesInv'
<1>. USE DEF ServicesInv
<1>1. TypeOK'
  BY DEF TypeOK
<1>2. Asks'
  <2>1. call.op = "none"
    BY DEF Idle
  <2>. QED  BY <2>1 DEF Asks
<1>3. LimitsKnown'
  BY DEF LimitsKnown
<1>4. Heard'
  <2>1. fw.activated => fw'.activated
    OBVIOUS
  <2>. QED  BY <2>1, StaysTrue DEF Heard
<1>5. Connecting'
  BY DEF Connecting, Idle
<1>6. op # "connect"
  BY DEF Invalid, InvalidTarget, InvalidStream, InvalidJoint, InvalidSetting
<1>7. result'.op = op /\ result'.end = "invalid"
  OBVIOUS
<1>8. TargetsAreInside'
  BY <1>7 DEF TargetsAreInside
<1>9. LimitsAreTheArms'
  BY <1>6, <1>7 DEF LimitsAreTheArms
<1>10. ActivationIsTrue'
  BY <1>7 DEF ActivationIsTrue
<1>. QED  BY <1>1, <1>2, <1>3, <1>4, <1>5, <1>8, <1>9, <1>10

\* A call begins: it is in progress, and its first question is sent.
LEMMA BegunCallKeeps ==
  ASSUME ServicesInv, NEW op \in Ops, NEW arg \in Args(op), call = Idle, ~Invalid(op, arg),
         call' = [Idle EXCEPT !.op = op, !.arg = arg, !.step = Step(op)], result' = NoResult,
         IF op = "connect"
         THEN Send(First(op, arg), Flushed) /\ box' = Empty /\ limits' = <<>>
         ELSE Write(First(op, arg)) /\ UNCHANGED limits,
         UNCHANGED <<target, api, late>>, crossed' \in BOOLEAN, calls' = calls + 1
  PROVE  ServicesInv'
<1>. USE DEF ServicesInv
<1>0. Proper(First(op, arg)) /\ First(op, arg).cmd \in Cmds
  BY FirstProper DEF Proper
<1>1. /\ call'.op = op /\ call'.arg = arg /\ call'.step = Step(op) /\ call'.got = <<>>
      /\ call'.tries = 0
      /\ call' = [op |-> op, arg |-> arg, step |-> Step(op), got |-> <<>>, tries |-> 0]
  BY DEF Idle
<1>2. /\ Step(op) \in {0, 1, 2} /\ (op # "dump" => Step(op) = 0) /\ (op = "dump" => Step(op) >= 1)
  BY DEF Step
<1>3. call' \in Calls
  <2>1. <<>> \in Seq(Gots) /\ Step(op) \in Nat
    BY <1>2
  <2>2. arg \in UNION {Args(o) : o \in Ops} /\ op \in Ops \cup {"none"} /\ 0 \in Nat
    BY ArgTypes
  <2>3. PICK as : as = UNION {Args(o) : o \in Ops}
    OBVIOUS
  <2>4. PICK gs : gs = Seq(Gots)
    OBVIOUS
  <2>5. Calls = [op : Ops \cup {"none"}, arg : as, step : Nat, got : gs, tries : Nat]
    BY <2>3, <2>4 DEF Calls
  <2>6. call' \in [op : Ops \cup {"none"}, arg : as, step : Nat, got : gs, tries : Nat]
    BY <1>1, <2>1, <2>2, <2>3, <2>4
  <2>. QED  BY <2>5, <2>6
<1>4. call' # Idle
  <2>1. op # "none"
    BY DEF Ops, Cmds
  <2>. QED  BY <1>1, <2>1 DEF Idle
<1>5. /\ limits' \in Seq(Limits) /\ target' \in Nat /\ api' = api
      /\ crossed' \in BOOLEAN /\ calls' \in Nat /\ late' \in Nat
  <2>1. limits' = <<>> \/ limits' = limits
    OBVIOUS
  <2>2. limits \in Seq(Limits) /\ target \in Nat /\ calls \in Nat /\ late \in Nat
    BY DEF TypeOK
  <2>3. limits' \in Seq(Limits)
    <3>1. <<>> \in Seq(Limits)
      OBVIOUS
    <3>. QED  BY <2>1, <2>2, <3>1
  <2>. QED  BY <2>2, <2>3
<1>6. TypeOK' /\ Heard' /\ ask' = First(op, arg).cmd
  <2>1. CASE op = "connect"
    <3>1. Send(First(op, arg), Flushed) /\ box' = Empty /\ Flushed \in Seq(Truthful)
      BY <2>1 DEF Flushed
    <3>2. \A d \in Cmds : box'[d] = <<>>
      BY <3>1 DEF Empty
    <3>3. \A d \in Cmds : box'[d] \in Seq({m \in Truthful' : m.cmd = d})
      <4>1. \A S : <<>> \in Seq(S)
        OBVIOUS
      <4>. QED  BY <3>2, <4>1
    <3>4. box' \in [Cmds -> Seq(Messages)]
      BY <3>1 DEF Empty
    <3>. QED  BY <1>0, <1>3, <1>5, <3>1, <3>3, <3>4, SentKeeps
  <2>2. CASE op # "connect"
    <3>1. Send(First(op, arg), air) /\ box' = Drained(First(op, arg).cmd) /\ air \in Seq(Truthful)
      BY <2>2 DEF Write, Heard
    <3>2. fw.activated => fw'.activated
      BY <1>0, <3>1, SendFacts
    <3>3. /\ \A d \in Cmds : box'[d] \in Seq({m \in Truthful' : m.cmd = d})
          /\ box' \in [Cmds -> Seq(Messages)]
      BY <1>0, <3>1, <3>2, DrainedFacts
    <3>. QED  BY <1>0, <1>3, <1>5, <3>1, <3>3, SentKeeps
  <2>. QED  BY <2>1, <2>2
<1>7. ~Invalid(op, arg)'
  <2>1. CASE op = "connect"
    BY <2>1 DEF Invalid, InvalidTarget, InvalidStream, InvalidJoint, InvalidSetting
  <2>2. CASE op # "connect"
    BY <2>2 DEF Invalid, InvalidTarget, Refused
  <2>. QED  BY <2>1, <2>2
<1>8. Asks'
  <2>1. Asked' = First(op, arg).cmd
    <3>1. ~(op = "activate" /\ Step(op) = 1) /\ ~(op = "capture" /\ Step(op) >= 1)
      BY <1>2
    <3>2. First(call'.op, call'.arg).cmd = First(op, arg).cmd
      BY <1>1
    <3>. QED  BY <1>1, <3>1, <3>2 DEF Asked
  <2>2. ask' # "none" /\ ask' = Asked'
    BY <1>0, <1>6, <2>1 DEF Cmds
  <2>3. ~Invalid(call.op, call.arg)'
    <3>1. call' = [op |-> op, arg |-> arg, step |-> Step(op), got |-> <<>>, tries |-> 0]
      BY <1>1
    <3>. QED  BY <1>1, <1>7 DEF Invalid, InvalidTarget, InvalidStream, InvalidJoint, InvalidSetting, Refused
  <2>4. call'.arg \in Args(call'.op) /\ call'.op \in Ops
    BY <1>1
  <2>5. op \in {"connect", "allParams"} =>
           call'.step < N /\ call'.got \in Seq(Limits) /\ Len(call'.got) = call'.step
    <3>1. <<>> \in Seq(Limits) /\ Len(<<>>) = 0 /\ 0 < N
      BY ServicesAssumption
    <3>. QED  BY <1>1, <1>2, <3>1
  <2>6. op \in {"capture", "dump"} => call'.got \in Seq(Byte)
    <3>1. <<>> \in Seq(Byte)
      OBVIOUS
    <3>. QED  BY <1>1, <3>1
  <2>. QED  BY <1>1, <1>2, <1>4, <2>2, <2>3, <2>4, <2>5, <2>6 DEF Asks
<1>9. LimitsKnown'
  BY <1>1 DEF LimitsKnown
<1>10. Connecting'
  <2>1. CASE op # "connect"
    BY <1>1, <2>1 DEF Connecting
  <2>2. CASE op = "connect"
    <3>1. First(op, arg).cmd = "getParam" /\ First(op, arg).arg = 0 /\ 0 \in Joints
      BY <2>2, ServicesAssumption DEF First, Request, Joints
    <3>2. Send(First(op, arg), <<>>) /\ box' = Empty
      BY <2>2 DEF Flushed
    <3>3. air' \in Seq(Current') /\ Len(air') <= 1
      BY <1>1, <1>2, <2>2, <3>1, <3>2, ConnectAsks
    <3>4. box'["getParam"] = <<>>
      BY <3>2 DEF Empty, Cmds
    <3>5. box'["getParam"] \in Seq(Current') /\ Len(box'["getParam"]) = 0
      BY <3>4
    <3>6. ask' # "none"
      BY <1>0, <1>6 DEF Cmds
    <3>7. \A k \in 1 .. Len(call'.got) : call'.got[k] = fw'.lim[k - 1]
      BY <1>1
    <3>8. Len(air') + Len(box'["getParam"]) <= 1
      BY <3>3, <3>5
    <3>. QED  BY <3>3, <3>5, <3>6, <3>7, <3>8 DEF Connecting
  <2>. QED  BY <2>1, <2>2
<1>11. Promises'
  BY NoResultYet
<1>. QED  BY <1>6, <1>8, <1>9, <1>10, <1>11 DEF Promises

LEMMA CallKeeps ==
  ASSUME ServicesInv, Call
  PROVE  ServicesInv'
<1>. DEFINE Begin(op, arg) ==
         IF Invalid(op, arg)
         THEN /\ result' = [op |-> op, arg |-> arg, end |-> "invalid", val |-> 0]
              /\ UNCHANGED <<fw, air, box, ask, call, limits, target, crossed, lost>>
         ELSE /\ call' = [Idle EXCEPT !.op = op, !.arg = arg, !.step = Step(op)]
              /\ result' = NoResult
              /\ crossed' = (op = "capture" /\ OnItsWay("logCtl") /\ OnItsWay("logRead"))
              /\ IF op = "connect"
                 THEN Send(First(op, arg), Flushed) /\ box' = Empty /\ limits' = <<>>
                 ELSE Write(First(op, arg)) /\ UNCHANGED limits
              /\ UNCHANGED target
<1>0. PICK op \in api : \E arg \in Args(op) : Begin(op, arg)
  BY DEF Call
<1>1. PICK arg \in Args(op) : Begin(op, arg)
  BY <1>0
<1>2. op \in Ops /\ call = Idle /\ calls' = calls + 1 /\ UNCHANGED <<api, late>>
      /\ (op = "capture" /\ OnItsWay("logCtl") /\ OnItsWay("logRead")) \in BOOLEAN
  BY DEF Call, ServicesInv, TypeOK, OnItsWay
<1>3. CASE Invalid(op, arg)
  BY <1>1, <1>2, <1>3, RefusedCallKeeps
<1>4. CASE ~Invalid(op, arg)
  BY <1>1, <1>2, <1>4, BegunCallKeeps
<1>. QED  BY <1>3, <1>4

\* A target that passed the local checks: numbers, inside the limits that are known.
LEMMA CheckedTarget ==
  ASSUME TypeOK, LimitsKnown, NEW op \in {"movej", "moveP"}, NEW q \in Targets, ~Invalid(op, q),
         NEW i \in 1 .. Len(q)
  PROVE  /\ q[i] # NaN
         /\ op = "movej" /\ limits # <<>> =>
               limits[i][1] # NaN /\ limits[i][2] # NaN
               /\ limits[i][1] <= q[i] /\ q[i] <= limits[i][2]
<1>1. ~Refused(q) /\ (op = "movej" => Len(q) = N)
  BY DEF Invalid, InvalidTarget
<1>2. q[i] # NaN
  BY <1>1 DEF Refused
<1>3. q[i] \in Int
  <2>1. q \in Seq(Num)
    BY ServicesAssumption
  <2>2. q[i] \in Num
    BY <2>1, ElementOfSeq
  <2>. QED  BY <1>2, <2>2 DEF Num
<1>4. ASSUME op = "movej", limits # <<>>
      PROVE  limits[i][1] # NaN /\ limits[i][2] # NaN
             /\ limits[i][1] <= q[i] /\ q[i] <= limits[i][2]
  <2>1. Len(limits) = N /\ Sane(limits) /\ Len(q) = N
    BY <1>1, <1>4 DEF LimitsKnown
  <2>2. limits[i] \in Num \X Num
    <3>1. limits \in Seq(Limits) /\ i \in 1 .. Len(limits)
      BY <2>1 DEF TypeOK
    <3>2. limits[i] \in Limits
      BY <3>1, ElementOfSeq
    <3>. QED  BY <3>2, ServicesAssumption
  <2>3. limits[i][1] # NaN /\ limits[i][2] # NaN
    BY <2>1 DEF Sane
  <2>4. limits[i][1] \in Int /\ limits[i][2] \in Int
    BY <2>2, <2>3 DEF Num
  <2>5. ~Lt(q[i], limits[i][1]) /\ ~Lt(limits[i][2], q[i])
    BY <1>1, <1>4, <2>1 DEF Refused
  <2>. QED  BY <1>2, <1>3, <2>3, <2>4, <2>5 DEF Lt
<1>. QED  BY <1>2, <1>4

\* The answer to connect's question, and the queue behind it.
LEMMA ConnectMail ==
  ASSUME ServicesInv, ask # "none", Mail # <<>>, call.op = "connect"
  PROVE  /\ ask = "getParam" /\ air = <<>> /\ Tail(Mail) = <<>>
         /\ Head(Mail).code = Ok => Head(Mail).val.lim = fw.lim[call.step]
<1>. USE DEF ServicesInv
<1>1. ask = "getParam"
  BY MailFacts DEF Asked, First, Request
<1>2. Mail = box["getParam"]
  BY <1>1 DEF Mail
<1>3. /\ air \in Seq(Current) /\ Mail \in Seq(Current) /\ Len(air) + Len(Mail) <= 1
  BY <1>1, <1>2 DEF Connecting
<1>4. Len(air) \in Nat /\ Len(Mail) \in Nat \ {0}
  BY <1>3, EmptySeq
<1>5. Len(air) = 0 /\ Len(Mail) = 1
  <2>1. PICK x, y : x = Len(air) /\ y = Len(Mail)
    OBVIOUS
  <2>2. x \in Nat /\ y \in Nat \ {0} /\ x + y <= 1
    BY <1>3, <1>4, <2>1
  <2>3. x = 0 /\ y = 1
    BY <2>2
  <2>. QED  BY <2>1, <2>3
<1>6. Head(Mail) \in Current /\ Tail(Mail) \in Seq(Current) /\ Len(Tail(Mail)) = 0
  BY <1>3, <1>5, HeadTailProperties
<1>7. air = <<>> /\ Tail(Mail) = <<>>
  BY <1>3, <1>5, <1>6, EmptySeq
<1>. QED  BY <1>1, <1>6, <1>7 DEF Current

\* The answer to a question about a joint, when it is no error.
LEMMA ParamMail ==
  ASSUME TypeOK, Asks, Heard, ask # "none", Mail # <<>>, Head(Mail).code = Ok,
         call.op \in {"connect", "allParams"}
  PROVE  /\ Head(Mail).val.lim \in Limits
         /\ Append(call.got, Head(Mail).val.lim) \in Seq(Limits)
         /\ Len(Append(call.got, Head(Mail).val.lim)) = call.step + 1
         /\ \A k \in 1 .. call.step : Append(call.got, Head(Mail).val.lim)[k] = call.got[k]
         /\ Append(call.got, Head(Mail).val.lim)[call.step + 1] = Head(Mail).val.lim
<1>1. ask = "getParam" /\ Head(Mail) \in Messages /\ Head(Mail).cmd = "getParam"
  BY MailFacts DEF Asked, First, Request, Truthful
<1>2. Head(Mail).val \in Vals("getParam")
  BY <1>1 DEF Messages
<1>3. Head(Mail).val.lim \in Limits
  BY <1>2 DEF Vals
<1>4. call.got \in Seq(Limits) /\ Len(call.got) = call.step
  BY DEF Asks
<1>. QED  BY <1>3, <1>4, AppendProperties

LEMMA TakenHeard ==
  ASSUME ServicesInv, Take
  PROVE  /\ Heard' /\ box' \in [Cmds -> Seq(Messages)]
         /\ box'[ask] = Tail(Mail)
         /\ \A c \in Cmds : \A i \in 1 .. Len(box'[c]) : box'[c][i].cmd = c
<1>. USE DEF ServicesInv
<1>0. /\ ask # "none" /\ Mail # <<>> /\ box' = [box EXCEPT ![ask] = Tail(box[ask])]
      /\ air' = air /\ fw' = fw
  BY DEF Take
<1>1. ask \in Cmds /\ Tail(Mail) \in Seq({m \in Truthful : m.cmd = ask}) /\ Mail = box[ask]
  BY <1>0, MailFacts DEF Mail
<1>2. box \in [Cmds -> Seq(Messages)]
  BY DEF TypeOK
<1>3. box'[ask] = Tail(Mail) /\ \A c \in Cmds : c # ask => box'[c] = box[c]
  BY <1>0, <1>1, <1>2
<1>4. \A c \in Cmds : box'[c] \in Seq({m \in Truthful : m.cmd = c})
  BY <1>1, <1>3 DEF Heard
<1>5. Heard'
  <2>1. fw.activated => fw'.activated
    BY <1>0
  <2>. QED  BY <1>0, <1>4, <2>1, StaysTrue DEF Heard
<1>6. Tail(Mail) \in Seq(Messages)
  <2>1. {m \in Truthful : m.cmd = ask} \subseteq Messages
    BY DEF Truthful
  <2>. QED  BY <1>1, <2>1, SeqMonotonic
<1>7. box' \in [Cmds -> Seq(Messages)]
  BY <1>0, <1>1, <1>2, <1>6
<1>8. ASSUME NEW c \in Cmds, NEW i \in 1 .. Len(box'[c])  PROVE box'[c][i].cmd = c
  <2>1. box'[c][i] \in {m \in Truthful : m.cmd = c}
    BY <1>4, <1>8, ElementOfSeq
  <2>. QED  BY <2>1
<1>. QED  BY <1>3, <1>5, <1>7, <1>8

LEMMA IdleType == Idle \in Calls
<1>1. "save" \in Ops /\ 0 \in Args("save")
  BY DEF Ops, Cmds, Args
<1>2. 0 \in UNION {Args(o) : o \in Ops}
  BY <1>1
<1>3. PICK as : as = UNION {Args(o) : o \in Ops}
  OBVIOUS
<1>4. PICK gs : gs = Seq(Gots)
  OBVIOUS
<1>5. <<>> \in gs
  BY <1>4
<1>6. Calls = [op : Ops \cup {"none"}, arg : as, step : Nat, got : gs, tries : Nat]
  BY <1>3, <1>4 DEF Calls
<1>. QED  BY <1>2, <1>3, <1>5, <1>6 DEF Idle

\* The call is over: what it reports is what the promises say.
LEMMA EndKeeps ==
  ASSUME ServicesInv, Take, Ends(Head(Mail))
  PROVE  ServicesInv'
<1>. USE DEF ServicesInv
<1>. DEFINE a == Head(Mail)
<1>0. /\ ask # "none" /\ Mail # <<>> /\ UNCHANGED <<fw, air, api, crossed, calls, late, lost>>
      /\ ask \in Cmds /\ call # Idle /\ call.op \in Ops
  BY MailFacts DEF Take
<1>1. PICK end, v : /\ Finish(end, v)
                    /\ call.op = "activate" /\ end = "ok" => fw.activated
  BY DEF Ends
<1>2. /\ call' = Idle /\ ask' = "none" /\ target' \in Nat
      /\ result' = [op |-> call.op, arg |-> call.arg, end |-> end, val |-> v]
      /\ result'.op = call.op /\ result'.arg = call.arg /\ result'.end = end /\ result'.val = v
  BY <1>1 DEF Finish, Ends
<1>3. \/ limits' = limits
      \/ /\ call.op = "connect" /\ call.step + 1 = N /\ a.code = Ok
         /\ limits' = Append(call.got, a.val.lim) /\ Sane(limits')
  BY DEF Ends
<1>. HIDE DEF a
<1>4. ASSUME limits' # limits
      PROVE  /\ call.op = "connect" /\ call.step + 1 = N /\ limits' \in Seq(Limits) /\ Len(limits') = N
             /\ Sane(limits') /\ a.code = Ok /\ limits' = Append(call.got, a.val.lim)
  BY <1>0, <1>3, <1>4, ParamMail DEF a
<1>5. call'.op = "none" /\ call' \in Calls
  BY <1>2, IdleType DEF Idle
<1>6. limits' \in Seq(Limits)
  BY <1>4 DEF TypeOK
<1>7. TypeOK'
  BY <1>0, <1>2, <1>5, <1>6, TakenHeard DEF TypeOK
<1>8. Asks'
  BY <1>2, <1>5 DEF Asks
<1>9. LimitsKnown'
  <2>1. CASE limits' = limits
    BY <1>5, <2>1 DEF LimitsKnown
  <2>2. CASE limits' # limits
    BY <1>4, <1>5, <2>2 DEF LimitsKnown
  <2>. QED  BY <2>1, <2>2
<1>10. Connecting'
  BY <1>5 DEF Connecting
<1>11. TargetsAreInside'
  <2>1. SUFFICES ASSUME call.op \in {"movej", "moveP"}, NEW i \in 1 .. Len(call.arg)
                 PROVE  /\ call.arg[i] # NaN
                        /\ call.op = "movej" /\ limits' # <<>> =>
                              limits'[i][1] # NaN /\ limits'[i][2] # NaN
                              /\ limits'[i][1] <= call.arg[i] /\ call.arg[i] <= limits'[i][2]
    BY <1>2 DEF TargetsAreInside
  <2>2. limits' = limits
    BY <1>4, <2>1
  <2>3. call.arg \in Targets /\ ~Invalid(call.op, call.arg)
    BY <1>0, <2>1 DEF Asks, Args
  <2>. QED  BY <2>1, <2>2, <2>3, CheckedTarget
<1>12. LimitsAreTheArms'
  <2>1. SUFFICES ASSUME call.op = "connect", limits' # <<>>
                 PROVE  Len(limits') = N /\ \A j \in Joints : limits'[j + 1] = fw.lim[j]
    BY <1>0, <1>2 DEF LimitsAreTheArms
  <2>2. limits' # limits
    BY <2>1 DEF LimitsKnown
  <2>3. /\ call.step + 1 = N /\ Len(limits') = N /\ a.code = Ok
        /\ limits' = Append(call.got, a.val.lim)
    BY <1>4, <2>2
  <2>4. a.val.lim = fw.lim[call.step]
    BY <1>0, <2>1, <2>3, ConnectMail DEF a
  <2>5. /\ \A k \in 1 .. call.step : limits'[k] = call.got[k]
        /\ limits'[call.step + 1] = a.val.lim
    <3>1. ask # "none" /\ Mail # <<>> /\ Head(Mail).code = Ok /\ call.op \in {"connect", "allParams"}
      BY <1>0, <2>1, <2>3 DEF a
    <3>2. TypeOK /\ Asks /\ Heard
      OBVIOUS
    <3>3. PICK l : l = Append(call.got, Head(Mail).val.lim)
      OBVIOUS
    <3>4. l[call.step + 1] = Head(Mail).val.lim /\ \A k \in 1 .. call.step : l[k] = call.got[k]
      BY <3>1, <3>2, <3>3, ParamMail
    <3>. QED  BY <2>3, <3>3, <3>4 DEF a
  <2>6. \A k \in 1 .. call.step : call.got[k] = fw.lim[k - 1]
    BY <2>1 DEF Connecting, Asks
  <2>7. call.step \in Nat /\ N \in Nat
    BY ServicesAssumption DEF TypeOK, Calls
  <2>8. ASSUME NEW j \in Joints  PROVE limits'[j + 1] = fw.lim[j]
    <3>1. j \in Nat /\ j < N
      BY <2>7 DEF Joints
    <3>2. CASE j = call.step
      BY <2>4, <2>5, <3>2
    <3>3. CASE j # call.step
      <4>1. j + 1 \in 1 .. call.step /\ (j + 1) - 1 = j
        BY <2>3, <2>7, <3>1, <3>3
      <4>. QED  BY <2>5, <2>6, <4>1
    <3>. QED  BY <3>2, <3>3
  <2>. QED  BY <2>3, <2>8
<1>13. ActivationIsTrue'
  BY <1>0, <1>1, <1>2 DEF ActivationIsTrue
<1>. QED  BY <1>7, <1>8, <1>9, <1>10, <1>11, <1>12, <1>13, TakenHeard

\* The call asks on.
LEMMA GoKeeps ==
  ASSUME ServicesInv, Take, Goes(Head(Mail))
  PROVE  ServicesInv'
<1>. USE DEF ServicesInv
<1>. DEFINE a == Head(Mail)
<1>0. /\ ask # "none" /\ Mail # <<>> /\ UNCHANGED <<fw, air, api, crossed, calls, late, lost>>
      /\ ask \in Cmds /\ call # Idle /\ call.op \in Ops /\ a \in Messages
  BY MailFacts DEF Take, Truthful
<1>. HIDE DEF a
<1>1. /\ result' = result /\ limits' = limits /\ target' \in Nat
      /\ ask' = IF call.op = "kinBench" THEN ask ELSE "none"
  BY DEF Goes
<1>2. PICK s, g :
          /\ s \in Nat
          /\ call' = [call EXCEPT !.step = s, !.got = g, !.tries = 0]
          /\ \/ /\ call.op \in {"connect", "allParams"} /\ a.code = Ok /\ s = call.step + 1 /\ s < N
                /\ g = Append(call.got, a.val.lim)
             \/ call.op \in {"payload", "enable"} /\ g = <<>>
             \/ call.op = "activate" /\ s = 1 /\ g = <<>>
             \/ call.op \in {"capture", "dump"} /\ s >= 1 /\ g \in Seq(Byte)
             \/ call.op = "kinBench" /\ g = <<a.val>>
  BY DEF Goes, a
<1>3. call \in Calls
  BY DEF TypeOK
<1>4. call'.op = call.op /\ call'.arg = call.arg /\ call'.step = s /\ call'.got = g
  BY <1>2, <1>3 DEF Calls
<1>5. call.op \in {"connect", "allParams"} =>
         /\ a.code = Ok /\ s = call.step + 1 /\ s < N /\ g = Append(call.got, a.val.lim)
         /\ g \in Seq(Limits) /\ Len(g) = s
  BY <1>0, <1>2, ParamMail DEF a
<1>6. g \in Seq(Gots)
  <2>1. Limits \subseteq Gots /\ Byte \subseteq Gots /\ AllVals \subseteq Gots
    BY DEF Gots
  <2>2. a.val \in AllVals
    BY <1>0 DEF Messages
  <2>3. <<>> \in Seq(Gots) /\ <<a.val>> \in Seq(AllVals)
    BY <2>2
  <2>. QED  BY <1>2, <1>5, <2>1, <2>3, SeqMonotonic
<1>7. call' \in Calls
  <2>1. PICK as : as = UNION {Args(o) : o \in Ops}
    OBVIOUS
  <2>2. PICK gs : gs = Seq(Gots)
    OBVIOUS
  <2>3. Calls = [op : Ops \cup {"none"}, arg : as, step : Nat, got : gs, tries : Nat]
    BY <2>1, <2>2 DEF Calls
  <2>4. g \in gs /\ 0 \in Nat
    BY <1>6, <2>2
  <2>. QED  BY <1>2, <1>3, <2>3, <2>4
<1>8. TypeOK'
  <2>1. ask' \in Cmds \cup {"none"}
    BY <1>0, <1>1
  <2>. QED  BY <1>0, <1>1, <1>7, <2>1, TakenHeard DEF TypeOK
<1>9. call' # Idle
  <2>1. call.op # "none"
    BY <1>0 DEF Ops, Cmds
  <2>. QED  BY <1>4, <2>1 DEF Idle
<1>10. Asks'
  <2>1. ~Invalid(call.op, call.arg)'
    <3>1. ~Invalid(call.op, call.arg)
      BY <1>0 DEF Asks
    <3>. QED  BY <1>1, <1>4, <3>1 DEF Invalid, InvalidTarget, InvalidStream, InvalidJoint, InvalidSetting, Refused
  <2>2. ask' \in {"none", Asked'}
    <3>1. CASE call.op = "kinBench"
      <4>1. ask = Asked /\ Asked = First(call.op, call.arg).cmd
        BY <1>0, <3>1, MailFacts DEF Asked
      <4>2. Asked' = First(call.op, call.arg).cmd
        BY <1>4, <3>1 DEF Asked
      <4>. QED  BY <1>1, <3>1, <4>1, <4>2
    <3>2. CASE call.op # "kinBench"
      BY <1>1, <3>2
    <3>. QED  BY <3>1, <3>2
  <2>3. ask' = "none" => call.op \in Asking /\ (call.op \in {"activate", "capture"} => s # 0)
    <3>1. "none" \notin Cmds
      BY DEF Cmds
    <3>. QED  BY <1>0, <1>1, <1>2, <3>1 DEF Asking, Several
  <2>4. call.op \in {"capture", "dump"} => g \in Seq(Byte) /\ s >= 1
    BY <1>2
  <2>5. call.op = "activate" => s = 1
    BY <1>2
  <2>6. call.arg \in Args(call.op) /\ result' = NoResult
    BY <1>0, <1>1 DEF Asks
  <2>. QED  BY <1>0, <1>4, <1>5, <1>9, <2>1, <2>2, <2>3, <2>4, <2>5, <2>6 DEF Asks
<1>11. LimitsKnown'
  BY <1>1, <1>4 DEF LimitsKnown
<1>12. Connecting'
  <2>1. CASE call.op # "connect"
    BY <1>4, <2>1 DEF Connecting
  <2>2. CASE call.op = "connect"
    <3>1. /\ ask = "getParam" /\ air = <<>> /\ Tail(Mail) = <<>> /\ a.val.lim = fw.lim[call.step]
          /\ g = Append(call.got, a.val.lim) /\ s = call.step + 1 /\ Len(g) = s
      BY <1>0, <1>5, <2>2, ConnectMail DEF a
    <3>2. air' = <<>> /\ box'["getParam"] = <<>>
      BY <1>0, <3>1, TakenHeard
    <3>3. air' \in Seq(Current') /\ box'["getParam"] \in Seq(Current')
          /\ Len(air') + Len(box'["getParam"]) <= 0
      <4>1. \A S : <<>> \in Seq(S)
        OBVIOUS
      <4>. QED  BY <3>2, <4>1
    <3>4. /\ \A k \in 1 .. call.step : g[k] = call.got[k]
          /\ g[call.step + 1] = a.val.lim
      <4>1. ask # "none" /\ Mail # <<>> /\ Head(Mail).code = Ok /\ call.op \in {"connect", "allParams"}
        BY <1>0, <1>5, <2>2 DEF a
      <4>2. TypeOK /\ Asks /\ Heard
        OBVIOUS
      <4>3. PICK l : l = Append(call.got, Head(Mail).val.lim)
        OBVIOUS
      <4>4. l[call.step + 1] = Head(Mail).val.lim /\ \A k \in 1 .. call.step : l[k] = call.got[k]
        BY <4>1, <4>2, <4>3, ParamMail
      <4>. QED  BY <3>1, <4>3, <4>4 DEF a
    <3>5. \A k \in 1 .. call.step : call.got[k] = fw.lim[k - 1]
      BY <2>2 DEF Connecting, Asks
    <3>6. call.step \in Nat
      BY <1>3 DEF Calls
    <3>7. ASSUME NEW k \in 1 .. s  PROVE g[k] = fw.lim[k - 1]
      <4>1. CASE k = call.step + 1
        BY <3>1, <3>4, <3>6, <4>1
      <4>2. CASE k # call.step + 1
        <5>1. k \in 1 .. call.step
          BY <3>1, <3>6, <3>7, <4>2
        <5>. QED  BY <3>4, <3>5, <5>1
      <4>. QED  BY <4>1, <4>2
    <3>8. \A k \in 1 .. Len(call'.got) : call'.got[k] = fw'.lim[k - 1]
      BY <1>0, <1>4, <3>1, <3>7
    <3>9. ask' = "none"
      BY <1>1, <2>2
    <3>. QED  BY <3>3, <3>8, <3>9 DEF Connecting
  <2>. QED  BY <2>1, <2>2
<1>13. Promises'
  BY <1>0, <1>1, NoResultYet DEF Asks
<1>. QED  BY <1>8, <1>10, <1>11, <1>12, <1>13, TakenHeard DEF Promises

LEMMA TakeKeeps ==
  ASSUME ServicesInv, Take
  PROVE  ServicesInv'
BY TakeFacts, EndKeeps, GoKeeps DEF ServicesInv

\* No answer in time: the log asks again, every other call is over.
LEMMA TimeoutKeeps ==
  ASSUME ServicesInv, Timeout
  PROVE  ServicesInv'
<1>. USE DEF ServicesInv
<1>0. /\ ask # "none" /\ ask' = "none" /\ UNCHANGED <<fw, air, box, limits, target, api, crossed, calls, lost>>
  BY DEF Timeout
<1>1. ask \in Cmds /\ call # Idle /\ call.op \in Ops /\ ask = Asked /\ call \in Calls
  BY <1>0 DEF TypeOK, Asks
<1>2. late' \in Nat
  <2>1. late' = late \/ late' = late + 1
    BY DEF Timeout
  <2>. QED  BY <2>1 DEF TypeOK
<1>3. Heard'
  <2>1. fw.activated => fw'.activated
    BY <1>0
  <2>. QED  BY <1>0, <2>1, StaysTrue DEF Heard
<1>4. call' \in Calls => TypeOK'
  BY <1>0, <1>2 DEF TypeOK
<1>5. CASE ask = "logRead" /\ call' = [call EXCEPT !.tries = call.tries + 1] /\ result' = result
  <2>1. PICK n \in Nat : n = call.tries + 1
    BY <1>1 DEF Calls
  <2>2. call' = [call EXCEPT !.tries = n]
    BY <1>5, <2>1
  <2>3. call' \in Calls
    <3>1. PICK as : as = UNION {Args(o) : o \in Ops}
      OBVIOUS
    <3>2. PICK gs : gs = Seq(Gots)
      OBVIOUS
    <3>3. Calls = [op : Ops \cup {"none"}, arg : as, step : Nat, got : gs, tries : Nat]
      BY <3>1, <3>2 DEF Calls
    <3>. QED  BY <1>1, <2>1, <2>2, <3>3
  <2>4. call'.op = call.op /\ call'.arg = call.arg /\ call'.step = call.step /\ call'.got = call.got
    BY <1>1, <2>2 DEF Calls
  <2>5. call.op \in {"capture", "dump"} /\ (call.op = "capture" => call.step >= 1)
    <3>1. \A op \in Ops : \A arg : op # "dump" => First(op, arg).cmd # "logRead"
      BY DEF First, Request, Ops, Cmds
    <3>. QED  BY <1>1, <1>5, <3>1 DEF Asked
  <2>6. call' # Idle
    <3>1. call.op # "none"
      BY <2>5
    <3>. QED  BY <2>4, <3>1 DEF Idle
  <2>7. Asks'
    <3>1. ~Invalid(call.op, call.arg)'
      <4>1. ~Invalid(call.op, call.arg)
        BY <1>1 DEF Asks
      <4>. QED  BY <1>0, <2>4, <4>1 DEF Invalid, InvalidTarget, InvalidStream, InvalidJoint, InvalidSetting, Refused
    <3>2. call.op = "capture" => call.step # 0
      <4>1. call.step \in Nat
        BY <1>1 DEF Calls
      <4>. QED  BY <2>5, <4>1
    <3>3. call.op \in Asking
      BY <2>5 DEF Asking, Several
    <3>4. call.arg \in Args(call.op) /\ result = NoResult
      BY <1>1 DEF Asks
    <3>5. /\ call.op \in {"capture", "dump"} => call.got \in Seq(Byte)
          /\ call.op = "dump" => call.step >= 1
      BY DEF Asks
    <3>. QED  BY <1>0, <1>1, <1>5, <2>4, <2>5, <2>6, <3>1, <3>2, <3>3, <3>4, <3>5 DEF Asks
  <2>8. LimitsKnown'
    BY <1>0, <2>4 DEF LimitsKnown
  <2>9. Connecting'
    BY <2>4, <2>5 DEF Connecting
  <2>10. Promises'
    BY <1>0, <1>5, PromisesStay DEF Promises
  <2>. QED  BY <1>3, <1>4, <2>3, <2>7, <2>8, <2>9, <2>10 DEF Promises
<1>6. ASSUME NEW end, NEW v, Finish(end, v), end = "ok" => call.op = "kinBench"
      PROVE  ServicesInv'
  <2>1. /\ call' = Idle
        /\ result' = [op |-> call.op, arg |-> call.arg, end |-> end, val |-> v]
        /\ result'.op = call.op /\ result'.arg = call.arg /\ result'.end = end
    BY <1>6 DEF Finish
  <2>2. call'.op = "none" /\ call' \in Calls
    BY <2>1, IdleType DEF Idle
  <2>3. Asks'
    BY <1>0, <2>1, <2>2 DEF Asks
  <2>4. LimitsKnown'
    BY <1>0, <2>2 DEF LimitsKnown
  <2>5. Connecting'
    BY <2>2 DEF Connecting
  <2>6. TargetsAreInside'
    <3>1. SUFFICES ASSUME call.op \in {"movej", "moveP"}, NEW i \in 1 .. Len(call.arg)
                   PROVE  /\ call.arg[i] # NaN
                          /\ call.op = "movej" /\ limits # <<>> =>
                                limits[i][1] # NaN /\ limits[i][2] # NaN
                                /\ limits[i][1] <= call.arg[i] /\ call.arg[i] <= limits[i][2]
      BY <1>0, <2>1 DEF TargetsAreInside
    <3>2. call.arg \in Targets /\ ~Invalid(call.op, call.arg)
      BY <1>1, <3>1 DEF Asks, Args
    <3>. QED  BY <3>1, <3>2, CheckedTarget
  <2>7. LimitsAreTheArms'
    <3>1. call.op = "connect" => limits' = <<>>
      BY <1>0 DEF LimitsKnown
    <3>. QED  BY <2>1, <3>1 DEF LimitsAreTheArms
  <2>8. ActivationIsTrue'
    BY <1>6, <2>1 DEF ActivationIsTrue
  <2>. QED  BY <1>3, <1>4, <2>2, <2>3, <2>4, <2>5, <2>6, <2>7, <2>8
<1>7. \/ ask = "logRead" /\ call' = [call EXCEPT !.tries = call.tries + 1] /\ result' = result
      \/ Half /\ Finish("ok", call.got)
      \/ Finish("timeout", 0)
  BY DEF Timeout
<1>8. Half => call.op = "kinBench"
  BY DEF Half
<1>. QED  BY <1>5, <1>6, <1>7, <1>8

LEMMA InitInv == Init => ServicesInv
<1>1. SUFFICES ASSUME Init  PROVE ServicesInv
  OBVIOUS
<1>2. /\ air = <<>> /\ box = Empty /\ ask = "none" /\ call = Idle /\ limits = <<>> /\ target = 0
      /\ result = NoResult /\ api \in Apis /\ crossed = FALSE /\ calls = 0 /\ late = 0 /\ lost = 0
  BY <1>1 DEF Init
<1>3. PICK first \in Limits, armed \in BOOLEAN, activated \in BOOLEAN, quirk \in {"none", "stuck", "err"} :
          fw = [armed |-> armed, activated |-> activated, q |-> 0,
                lim |-> [j \in Joints |-> IF j = 0 THEN first ELSE Factory],
                model |-> [b \in Units |-> "factory"], staged |-> {}, override |-> FALSE,
                ff |-> Unsigned, target |-> <<>>,
                capture |-> 0, want |-> 0, ticks |-> 0, quirk |-> quirk]
  BY <1>1 DEF Init
<1>4. fw \in Firmware /\ fw.ticks <= fw.want
  <2>1. [j \in Joints |-> IF j = 0 THEN first ELSE Factory] \in [Joints -> Limits]
    BY FactoryType
  <2>2. [b \in Units |-> "factory"] \in [Units -> {"factory", "set"}]
    OBVIOUS
  <2>3. Unsigned \in Signs
    BY DEF Unsigned, Signs
  <2>4. 0 \in 0 .. LogMax /\ 0 \in Nat /\ 0 <= 0
    BY ServicesAssumption
  <2>. QED  BY <1>3, <2>1, <2>2, <2>3, <2>4 DEF Firmware
<1>5. \A S : <<>> \in Seq(S)
  OBVIOUS
<1>6. \A c \in Cmds : box[c] = <<>>
  BY <1>2 DEF Empty
<1>7. box \in [Cmds -> Seq(Messages)]
  BY <1>2, <1>5 DEF Empty
<1>8. api \subseteq Ops
  BY <1>2, ServicesAssumption
<1>9. TypeOK
  <2>1. \A c \in Cmds : \A i \in 1 .. Len(box[c]) : box[c][i].cmd = c
    BY <1>6
  <2>2. call \in Calls /\ ask \in Cmds \cup {"none"}
    BY <1>2, IdleType
  <2>3. air \in Seq(Messages) /\ limits \in Seq(Limits)
    BY <1>2, <1>5
  <2>4. target \in Nat /\ crossed \in BOOLEAN /\ calls \in Nat /\ late \in Nat /\ lost \in Nat
    BY <1>2
  <2>. QED  BY <1>4, <1>7, <1>8, <2>1, <2>2, <2>3, <2>4 DEF TypeOK
<1>10. call.op = "none"
  BY <1>2 DEF Idle
<1>11. Asks /\ LimitsKnown /\ Connecting
  BY <1>2, <1>10 DEF Asks, LimitsKnown, Connecting
<1>12. Heard
  BY <1>2, <1>5, <1>6 DEF Heard
<1>13. result.op = "none"
  BY <1>2 DEF NoResult
<1>14. TargetsAreInside /\ LimitsAreTheArms /\ ActivationIsTrue
  BY <1>13 DEF TargetsAreInside, LimitsAreTheArms, ActivationIsTrue
<1>. QED  BY <1>9, <1>11, <1>12, <1>14 DEF ServicesInv

LEMMA StepKeeps ==
  ASSUME ServicesInv, [Next]_vars
  PROVE  ServicesInv'
<1>1. CASE UNCHANGED vars
  <2>1. /\ fw' = fw /\ air' = air /\ box' = box /\ ask' = ask /\ call' = call /\ limits' = limits
        /\ target' = target /\ result' = result /\ api' = api /\ calls' = calls /\ late' = late
        /\ lost' = lost /\ crossed' = crossed
    BY <1>1 DEF vars
  <2>2. TypeOK'
    BY <2>1 DEF ServicesInv, TypeOK
  <2>3. Asks' /\ LimitsKnown'
    BY <2>1 DEF ServicesInv, Asks, Asked, Invalid, InvalidTarget, Refused, LimitsKnown
  <2>4. Heard'
    BY <2>1, StaysTrue DEF ServicesInv, Heard
  <2>5. Current' = Current
    BY <2>1 DEF Current
  <2>6. Connecting'
    BY <2>1, <2>5 DEF ServicesInv, Connecting
  <2>7. Promises'
    BY <2>1, PromisesStay DEF ServicesInv, Promises
  <2>. QED  BY <2>2, <2>3, <2>4, <2>6, <2>7 DEF ServicesInv, Promises
<1>2. CASE Rest
  BY <1>1, <1>2 DEF Rest
<1>. QED  BY <1>1, <1>2, RecordKeeps, DeliverKeeps, CallKeeps, TakeKeeps, ContinueKeeps, TimeoutKeeps DEF Next

----------------------------------------------------------------------------
(* What holds of every behaviour.                                          *)

\* Every state of the services is of its types; a call in progress passed its checks and awaits
\* its own command; no answer on its way, however late, says more of the licence than is so.
THEOREM ServicesHold == Spec => []ServicesInv
<1>1. Init => ServicesInv
  BY InitInv
<1>2. ServicesInv /\ [Next]_vars => ServicesInv'
  BY StepKeeps
<1>. QED  BY <1>1, <1>2, PTL DEF Spec

\* A motion command that is sent has a target of numbers only, and inside the limits that are
\* known (precheck_q_ with what refresh_limits keeps), whatever pairs the arm reports.
THEOREM TargetsAreInsideHolds == Spec => []TargetsAreInside
<1>1. ServicesInv => TargetsAreInside
  BY DEF ServicesInv
<1>. QED  BY <1>1, ServicesHold, PTL

\* connect pairs the answers with the joints by position, and they are those joints' answers:
\* nothing of before is on its way, and a lost one ends the call.
THEOREM LimitsAreTheArmsHolds == Spec => []LimitsAreTheArms
<1>1. ServicesInv => LimitsAreTheArms
  BY DEF ServicesInv
<1>. QED  BY <1>1, ServicesHold, PTL

\* activate returns without an exception only when the licence is in effect, although code 2
\* says two things and the read back may be an older answer.
THEOREM ActivationIsTrueHolds == Spec => []ActivationIsTrue
<1>1. ServicesInv => ActivationIsTrue
  BY DEF ServicesInv
<1>. QED  BY <1>1, ServicesHold, PTL

----------------------------------------------------------------------------
(* A capture.  A chunk says neither where it starts nor which question it  *)
(* answers.  A capture that began with no answer to an earlier start on    *)
(* its way takes the answer to its own, and no earlier chunk comes after   *)
(* that; one that began with no answer to an earlier read on its way has   *)
(* none to fear.  What is on its way then, besides the answer awaited, are *)
(* older answers to the same question or to those before, as many as have  *)
(* been given up; their next offsets give them away.                       *)

Others(c) == {m \in Messages : m.cmd # c}

\* The only answer to a start is the last of all answers there are.
OneStart ==
    /\ \A i \in 1 .. Len(air) : air[i].cmd = "logCtl" => i = Len(air)
    /\ box["logCtl"] # <<>> => air = <<>>

\* Until its start is answered, a capture has strays of reads or of starts behind it, not of both.
Strays ==
    call.op = "capture" /\ call.step = 0 /\ ~crossed =>
        air \in Seq(Others("logRead")) \/ OneStart

\* The chunk at offset o of a capture of b bytes.
Cnt(b, o) == IF o >= b THEN 0 ELSE IF b - o < ChunkMax THEN b - o ELSE ChunkMax
ChunkAt(b, o) ==
    [total |-> b, next |-> IF o + Cnt(b, o) < b THEN o + Cnt(b, o) ELSE 0,
     bytes |-> [k \in 1 .. Cnt(b, o) |-> [of |-> fw.capture, at |-> o + k]]]

Reading == call.op = "capture" /\ call.step >= 1 /\ fw.quirk = "none" /\ ~crossed
\* The offset the call has come to.
At == IF call.step = 1 THEN 0 ELSE call.step - 2

\* An answer is the chunk of the offset asked for, or says that it is of an earlier one; once the
\* wait is over, it is of a capture of the length asked for.
FreshChunk(m) ==
    /\ m.code = Ok
    /\ \E b, o \in Nat :
          /\ m.val = ChunkAt(b, o) /\ b <= Bytes
          /\ o = At \/ (m.val.next # 0 /\ m.val.next <= At)
          /\ call.step >= 2 => b >= call.arg * SampleSize
Fresh == {m \in Messages : m.cmd = "logRead" => FreshChunk(m)}

\* Of two reads, the later one knows of as many bytes or more.
Older(m, n) == m.cmd = "logRead" /\ n.cmd = "logRead" => m.val.total <= n.val.total
Ordered(s) == \A i, j \in 1 .. Len(s) : i < j => Older(s[i], s[j])
Precedes(s, t) == \A i \in 1 .. Len(s), j \in 1 .. Len(t) : Older(s[i], t[j])

InCapture ==
    Reading =>
        /\ Len(call.got) = At
        /\ \A k \in 1 .. Len(call.got) : call.got[k] = [of |-> fw.capture, at |-> k]
        /\ call.step >= 2 => Bytes >= call.arg * SampleSize
        /\ air \in Seq(Fresh) /\ Ordered(air)
        /\ ask = "logRead" => box["logRead"] \in Seq(Fresh) /\ Precedes(box["logRead"], air)

\* A log that stands still, or is refused, never comes to an end.
Endless == {m \in Messages : m.cmd = "logRead" /\ m.code = Ok => m.val.next # 0}
Unfinished == fw.quirk # "none" => air \in Seq(Endless) /\ \A c \in Cmds : box[c] \in Seq(Endless)

LogInv == Strays /\ InCapture /\ Unfinished /\ CaptureIsWhole

----------------------------------------------------------------------------
LEMMA ChunkFacts ==
  ASSUME NEW b \in Nat, NEW o \in Nat
  PROVE  /\ Cnt(b, o) \in Nat /\ ChunkAt(b, o).total = b
         /\ ChunkAt(b, o).next \in Nat
         /\ ChunkAt(b, o).next # 0 => /\ ChunkAt(b, o).next = o + ChunkMax /\ Cnt(b, o) = ChunkMax
                                      /\ o + ChunkMax < b
         /\ ChunkAt(b, o).next = 0 => o + Cnt(b, o) >= b
         /\ o + ChunkMax < b => ChunkAt(b, o).next = o + ChunkMax
         /\ Len(ChunkAt(b, o).bytes) = Cnt(b, o)
         /\ \A k \in 1 .. Cnt(b, o) : ChunkAt(b, o).bytes[k] = [of |-> fw.capture, at |-> o + k]
<1>0. ChunkMax \in Nat \ {0}
  BY ServicesAssumption
<1>1. Cnt(b, o) \in Nat
  BY <1>0 DEF Cnt
<1>2. PICK c \in Nat : c = Cnt(b, o)
  BY <1>1
<1>3. ChunkAt(b, o) = [total |-> b, next |-> IF o + c < b THEN o + c ELSE 0,
                       bytes |-> [k \in 1 .. c |-> [of |-> fw.capture, at |-> o + k]]]
  BY <1>2 DEF ChunkAt
<1>4. /\ ChunkAt(b, o).total = b /\ ChunkAt(b, o).next = IF o + c < b THEN o + c ELSE 0
      /\ ChunkAt(b, o).bytes = [k \in 1 .. c |-> [of |-> fw.capture, at |-> o + k]]
  BY <1>3
<1>5. o + c < b => c = ChunkMax
  BY <1>0, <1>2 DEF Cnt
<1>6. o + ChunkMax < b => c = ChunkMax
  <2>1. o + ChunkMax < b => o < b /\ b - o >= ChunkMax
    BY <1>0
  <2>. QED  BY <1>0, <1>2, <2>1 DEF Cnt
<1>7. Len([k \in 1 .. c |-> [of |-> fw.capture, at |-> o + k]]) = c
  OBVIOUS
<1>8. \A k \in 1 .. c : ChunkAt(b, o).bytes[k] = [of |-> fw.capture, at |-> o + k]
  BY <1>4
<1>9. ChunkAt(b, o).next \in Nat /\ (ChunkAt(b, o).next = 0 => o + c >= b)
  <2>1. PICK x \in Nat : x = o + c
    OBVIOUS
  <2>2. ChunkAt(b, o).next = IF x < b THEN x ELSE 0
    BY <1>4, <2>1
  <2>3. CASE x < b
    <3>1. ChunkAt(b, o).next = x
      BY <2>2, <2>3
    <3>2. x = 0 => c = 0 /\ o = 0
      BY <2>1
    <3>3. x = 0 => FALSE
      BY <1>0, <1>5, <2>1, <2>3, <3>2
    <3>. QED  BY <3>1, <3>3
  <2>4. CASE ~(x < b)
    BY <2>1, <2>2, <2>4
  <2>. QED  BY <2>3, <2>4
<1>10. ChunkAt(b, o).next # 0 => ChunkAt(b, o).next = o + ChunkMax /\ c = ChunkMax /\ o + ChunkMax < b
  BY <1>4, <1>5
<1>11. o + ChunkMax < b => ChunkAt(b, o).next = o + ChunkMax
  BY <1>4, <1>6
<1>. QED  BY <1>1, <1>2, <1>4, <1>7, <1>8, <1>9, <1>10, <1>11

\* What the firmware answers to a read.
LEMMA ReadServed ==
  ASSUME TypeOK, NEW r, r.cmd = "logRead", r.arg \in Nat
  PROVE  /\ fw.quirk = "none" => Serve(r) = [fw |-> fw, code |-> Ok, val |-> ChunkAt(Bytes, r.arg)]
         /\ fw.quirk # "none" /\ Serve(r).code = Ok => Serve(r).val.next # 0
<1>1. fw.quirk \in {"none", "stuck", "err"}
  BY DEF TypeOK, Firmware
<1>2. ~Overridden(r) => Serve(r) = [fw |-> fw, code |-> Ok, val |-> Chunk(r.arg)]
  <2>1. Serve(r) = IF Overridden(r) THEN Refuse(ErrorOf(r.cmd)) ELSE ServeLog(r)
    BY DEF Serve
  <2>. QED  BY <2>1 DEF ServeLog, Done
<1>3. CASE fw.quirk = "none"
  <2>1. ~Overridden(r)
    BY <1>3 DEF Overridden
  <2>2. Chunk(r.arg) = ChunkAt(Bytes, r.arg)
    BY <1>3 DEF Chunk, ChunkAt, Cnt
  <2>. QED  BY <1>2, <1>3, <2>1, <2>2
<1>4. CASE fw.quirk = "stuck"
  <2>1. ~Overridden(r)
    BY <1>4 DEF Overridden
  <2>2. Chunk(r.arg).next = IF r.arg = 0 THEN 1 ELSE r.arg
    BY <1>4 DEF Chunk
  <2>. QED  BY <1>2, <1>4, <2>1, <2>2
<1>5. CASE fw.quirk = "err"
  <2>1. Overridden(r)
    BY <1>5 DEF Overridden
  <2>2. Serve(r).code = 1
    BY <2>1 DEF Serve, Refuse, ErrorOf
  <2>. QED  BY <1>5, <2>2 DEF Ok
<1>. QED  BY <1>1, <1>3, <1>4, <1>5

\* A question with one answer: it comes last, or it is lost.
LEMMA OneSent ==
  ASSUME TypeOK, NEW r, Proper(r), r.cmd # "kinBench", NEW before \in Seq(Messages), Send(r, before)
  PROVE  \/ air' = before
         \/ air' = Append(before, [cmd |-> r.cmd, code |-> Serve(r).code, val |-> Serve(r).val])
<1>. DEFINE m == [cmd |-> r.cmd, code |-> Serve(r).code, val |-> Serve(r).val]
            all == Answers(r, Serve(r))
<1>1. all = <<m>>
  BY DEF Answers
<1>2. \/ air' = before \o all
      \/ \E i \in 1 .. Len(all) : air' = before \o SubSeq(all, 1, i - 1) \o SubSeq(all, i + 1, Len(all))
  BY DEF Send
<1>. HIDE DEF m, all
<1>3. Len(all) = 1
  BY <1>1
<1>4. CASE air' = before \o all
  <2>1. before \o <<m>> = Append(before, m)
    OBVIOUS
  <2>. QED  BY <1>1, <1>4, <2>1 DEF m
<1>5. CASE \E i \in 1 .. Len(all) : air' = before \o SubSeq(all, 1, i - 1) \o SubSeq(all, i + 1, Len(all))
  <2>1. air' = before \o SubSeq(all, 1, 0) \o SubSeq(all, 2, 1)
    <3>1. PICK i \in 1 .. 1 : air' = before \o SubSeq(all, 1, i - 1) \o SubSeq(all, i + 1, Len(all))
      BY <1>3, <1>5
    <3>2. i = 1 /\ i - 1 = 0 /\ i + 1 = 2
      OBVIOUS
    <3>. QED  BY <1>3, <3>1, <3>2
  <2>2. SubSeq(all, 1, 0) = <<>> /\ SubSeq(all, 2, 1) = <<>>
    BY <1>1
  <2>3. before \o <<>> = before
    OBVIOUS
  <2>. QED  BY <2>1, <2>2, <2>3
<1>. QED  BY <1>2, <1>4, <1>5

----------------------------------------------------------------------------
(* Strays.                                                                 *)

LEMMA NoneOf ==
  ASSUME NEW c, NEW s \in Seq(Others(c))
  PROVE  s \in Seq(Messages) /\ \A i \in 1 .. Len(s) : s[i].cmd # c
<1>1. Others(c) \subseteq Messages
  BY DEF Others
<1>2. s \in Seq(Messages)
  BY <1>1, SeqMonotonic
<1>3. \A i \in 1 .. Len(s) : s[i] \in Others(c)
  BY ElementOfSeq
<1>. QED  BY <1>2, <1>3 DEF Others

LEMMA NoneOnItsWay ==
  ASSUME TypeOK, NEW c, ~OnItsWay(c)
  PROVE  air \in Seq(Others(c))
<1>1. air \in Seq(Messages)
  BY DEF TypeOK
<1>2. \A i \in 1 .. Len(air) : air[i] \in Messages
  BY <1>1, ElementOfSeq
<1>3. \A i \in 1 .. Len(air) : air[i] \in Others(c)
  BY <1>2 DEF OnItsWay, Others
<1>4. Len(air) \in Nat /\ air \in [1 .. Len(air) -> Others(c)]
  BY <1>1, <1>3
<1>. QED  BY <1>4, SeqDef

\* A capture begins.
LEMMA StartSent ==
  ASSUME TypeOK, NEW r, Proper(r), r.cmd = "logCtl", Send(r, air), box' = Drained(r.cmd),
         ~OnItsWay("logCtl") \/ ~OnItsWay("logRead")
  PROVE  air' \in Seq(Others("logRead")) \/ OneStart'
<1>1. CASE ~OnItsWay("logRead")
  <2>1. air \in Seq(Others("logRead"))
    BY <1>1, NoneOnItsWay
  <2>2. Others("logRead") \in SUBSET Messages
    BY DEF Others
  <2>3. \A m \in Messages : m.cmd = r.cmd => m \in Others("logRead")
    BY DEF Others
  <2>4. Answers(r, Serve(r)) \in Seq(Others("logRead"))
    BY <2>2, <2>3, AnswersFacts
  <2>. QED  BY <2>1, <2>4, SendKeeps
<1>2. CASE ~OnItsWay("logCtl")
  <2>1. air \in Seq(Messages) /\ Len(air) \in Nat /\ \A i \in 1 .. Len(air) : air[i].cmd # "logCtl"
    BY <1>2 DEF TypeOK, OnItsWay
  <2>2. PICK m : m = [cmd |-> r.cmd, code |-> Serve(r).code, val |-> Serve(r).val]
    OBVIOUS
  <2>3. air' = air \/ air' = Append(air, m)
    BY <2>1, <2>2, OneSent
  <2>4. /\ Len(Append(air, m)) = Len(air) + 1
        /\ \A i \in 1 .. Len(air) : Append(air, m)[i] = air[i]
    BY <2>1
  <2>5. \A i \in 1 .. Len(air') : air'[i].cmd = "logCtl" => i = Len(air')
    <3>1. CASE air' = air
      BY <2>1, <3>1
    <3>2. CASE air' = Append(air, m)
      <4>1. SUFFICES ASSUME NEW i \in 1 .. Len(air) + 1, air'[i].cmd = "logCtl"
                     PROVE  i = Len(air) + 1
        BY <2>4, <3>2
      <4>2. ~(i \in 1 .. Len(air))
        BY <2>1, <2>4, <3>2, <4>1
      <4>. QED  BY <2>1, <4>2
    <3>. QED  BY <2>3, <3>1, <3>2
  <2>6. box'["logCtl"] = <<>>
    BY DEF Drained, Listed, TypeOK, Cmds
  <2>. QED  BY <2>5, <2>6 DEF OneStart
<1>. QED  BY <1>1, <1>2

LEMMA DeliverBox ==
  ASSUME TypeOK, Deliver
  PROVE  /\ air \in Seq(Messages) /\ air # <<>> /\ air' = Tail(air) /\ Head(air) = air[1]
         /\ Head(air) \in Messages /\ Head(air).cmd \in Cmds
         /\ Len(air) \in Nat \ {0} /\ air' \in Seq(Messages) /\ Len(air') = Len(air) - 1
         /\ \A i \in 1 .. Len(air') : air'[i] = air[i + 1]
         /\ box'[Head(air).cmd] = Append(box[Head(air).cmd], Head(air))
         /\ \A c \in Cmds : c # Head(air).cmd => box'[c] = box[c]
         /\ UNCHANGED <<fw, ask, call, limits, target, result, api, crossed, calls, late, lost>>
<1>1. air \in Seq(Messages) /\ air # <<>> /\ air' = Tail(air) /\ box \in [Cmds -> Seq(Messages)]
  BY DEF TypeOK, Deliver
<1>2. /\ Head(air) = air[1] /\ Head(air) \in Messages /\ Tail(air) \in Seq(Messages)
      /\ Len(air) \in Nat \ {0} /\ Len(Tail(air)) = Len(air) - 1
      /\ \A i \in 1 .. Len(Tail(air)) : Tail(air)[i] = air[i + 1]
  BY <1>1, HeadTailProperties, EmptySeq
<1>3. Head(air).cmd \in Cmds
  BY <1>2 DEF Messages
<1>4. PICK a : a = Head(air)
  OBVIOUS
<1>5. box' = [box EXCEPT ![a.cmd] = Append(box[a.cmd], a)]
  BY <1>4 DEF Deliver
<1>6. box'[a.cmd] = Append(box[a.cmd], a) /\ \A c \in Cmds : c # a.cmd => box'[c] = box[c]
  BY <1>1, <1>3, <1>4, <1>5
<1>7. UNCHANGED <<fw, ask, call, limits, target, result, api, crossed, calls, late, lost>>
  BY DEF Deliver
<1>. QED  BY <1>1, <1>2, <1>3, <1>4, <1>6, <1>7

LEMMA StraysDelivered ==
  ASSUME TypeOK, Strays, Deliver
  PROVE  Strays'
<1>0. call' = call /\ crossed' = crossed /\ Others("logRead")' = Others("logRead")
  BY DEF Deliver, Others
<1>1. SUFFICES ASSUME air \in Seq(Others("logRead")) \/ OneStart
               PROVE  air' \in Seq(Others("logRead")) \/ OneStart'
  BY <1>0 DEF Strays
<1>2. PICK a : a = Head(air)
  OBVIOUS
<1>3. "logCtl" \in Cmds
  BY DEF Cmds
<1>4. /\ air \in Seq(Messages) /\ air # <<>> /\ air' = Tail(air) /\ a = air[1]
      /\ Len(air) \in Nat \ {0} /\ Len(air') = Len(air) - 1 /\ air' \in Seq(Messages)
      /\ \A i \in 1 .. Len(air') : air'[i] = air[i + 1]
      /\ "logCtl" # a.cmd => box'["logCtl"] = box["logCtl"]
  BY <1>2, <1>3, DeliverBox, SMTT(40)
<1>5. CASE air \in Seq(Others("logRead"))
  BY <1>4, <1>5, HeadTailProperties
<1>6. CASE OneStart
  <2>1. box["logCtl"] = <<>> /\ \A i \in 1 .. Len(air) : air[i].cmd = "logCtl" => i = Len(air)
    BY <1>4, <1>6 DEF OneStart
  <2>2. \A i \in 1 .. Len(air') : air'[i].cmd = "logCtl" => i = Len(air')
    <3>1. SUFFICES ASSUME NEW i \in 1 .. Len(air'), air'[i].cmd = "logCtl"  PROVE i = Len(air')
      OBVIOUS
    <3>2. i + 1 \in 1 .. Len(air) /\ air[i + 1].cmd = "logCtl"
      BY <1>4, <3>1
    <3>3. i + 1 = Len(air)
      BY <2>1, <3>2
    <3>4. i \in Int /\ Len(air') = Len(air) - 1
      BY <1>4, SMTT(40)
    <3>. QED  BY <3>3, <3>4
  <2>3. box'["logCtl"] # <<>> => air' = <<>>
    <3>1. SUFFICES ASSUME a.cmd = "logCtl"  PROVE air' = <<>>
      BY <1>4, <2>1
    <3>2. 1 \in 1 .. Len(air)
      BY <1>4, SMTT(40)
    <3>3. Len(air) = 1
      BY <1>4, <2>1, <3>1, <3>2
    <3>. QED  BY <1>4, <3>3, EmptySeq, SMTT(40)
  <2>. QED  BY <2>2, <2>3 DEF OneStart
<1>. QED  BY <1>1, <1>5, <1>6

\* Once the start of a capture is answered or given up, there is nothing left to say of strays.
LEMMA Begun ==
  ASSUME call'.op # "capture" \/ call'.step # 0
  PROVE  Strays'
BY DEF Strays

----------------------------------------------------------------------------
(* A log that is refused or stands still.                                  *)

LEMMA EndlessSent ==
  ASSUME TypeOK, fw.quirk # "none", NEW r, Proper(r), NEW before \in Seq(Endless), Send(r, before)
  PROVE  air' \in Seq(Endless) /\ fw'.quirk = fw.quirk
<1>1. r.cmd = "logRead" => r.arg \in Nat
  BY DEF Proper
<1>2. \A m \in Messages : m.cmd = r.cmd /\ m.code = Serve(r).code
         /\ (m.val = Serve(r).val \/ r.cmd = "kinBench") => m \in Endless
  BY <1>1, ReadServed DEF Endless
<1>3. Endless \in SUBSET Messages
  BY DEF Endless
<1>4. Answers(r, Serve(r)) \in Seq(Endless)
  BY <1>2, <1>3, AnswersFacts
<1>5. air' \in Seq(Endless) /\ fw' = Serve(r).fw
  BY <1>4, SendKeeps
<1>6. Serve(r).fw.quirk = fw.quirk
  BY ServeFacts DEF Served
<1>. QED  BY <1>5, <1>6

LEMMA BoxDrained ==
  ASSUME TypeOK, NEW r, r.cmd \in Cmds, box' \in {Drained(r.cmd), Empty}
  PROVE  \A c \in Cmds : box'[c] = box[c] \/ box'[c] = <<>>
<1>1. CASE box' = Drained(r.cmd)
  BY <1>1 DEF TypeOK, Drained
<1>2. CASE box' = Empty
  BY <1>2 DEF Empty
<1>. QED  BY <1>1, <1>2

LEMMA UnfinishedSent ==
  ASSUME TypeOK, Unfinished, NEW r, Proper(r), NEW before, before \in {air, <<>>},
         Send(r, before), box' \in {Drained(r.cmd), Empty}
  PROVE  Unfinished'
<1>1. Served(r, Serve(r)) /\ fw' = Serve(r).fw /\ r.cmd \in Cmds
  BY ServeFacts DEF Send, Proper
<1>2. fw'.quirk = fw.quirk
  BY <1>1 DEF Served
<1>3. SUFFICES ASSUME fw.quirk # "none"  PROVE air' \in Seq(Endless) /\ \A c \in Cmds : box'[c] \in Seq(Endless)
  BY <1>2 DEF Unfinished, Endless
<1>4. <<>> \in Seq(Endless)
  OBVIOUS
<1>5. air \in Seq(Endless) /\ \A c \in Cmds : box[c] \in Seq(Endless)
  BY <1>3 DEF Unfinished
<1>6. before \in Seq(Endless)
  BY <1>4, <1>5
<1>7. air' \in Seq(Endless)
  BY <1>3, <1>6, EndlessSent
<1>. QED  BY <1>1, <1>4, <1>5, <1>7, BoxDrained

LEMMA UnfinishedDelivered ==
  ASSUME TypeOK, Unfinished, Deliver
  PROVE  Unfinished'
<1>1. fw' = fw /\ air # <<>> /\ air' = Tail(air)
  BY DEF Deliver
<1>2. SUFFICES ASSUME fw.quirk # "none"  PROVE air' \in Seq(Endless) /\ \A c \in Cmds : box'[c] \in Seq(Endless)
  BY <1>1 DEF Unfinished, Endless
<1>3. air \in Seq(Endless) /\ \A c \in Cmds : box[c] \in Seq(Endless)
  BY <1>2 DEF Unfinished
<1>4. Head(air) \in Endless /\ Tail(air) \in Seq(Endless)
  BY <1>1, <1>3, HeadTailProperties
<1>5. \A c \in Cmds : Append(box[c], Head(air)) \in Seq(Endless)
  BY <1>3, <1>4, AppendProperties
<1>6. \A c \in Cmds : box'[c] = box[c] \/ box'[c] = Append(box[c], Head(air))
  BY DeliverBox
<1>. QED  BY <1>1, <1>3, <1>4, <1>5, <1>6

LEMMA UnfinishedTaken ==
  ASSUME ServicesInv, Unfinished, Take
  PROVE  Unfinished'
<1>0. TypeOK /\ Asks /\ Heard
  BY DEF ServicesInv
<1>1. /\ ask # "none" /\ Mail # <<>> /\ air' = air /\ fw' = fw
      /\ box' = [box EXCEPT ![ask] = Tail(box[ask])] /\ ask \in Cmds /\ Mail = box[ask]
  BY <1>0, MailFacts DEF Take, Mail
<1>2. SUFFICES ASSUME fw.quirk # "none"  PROVE air' \in Seq(Endless) /\ \A c \in Cmds : box'[c] \in Seq(Endless)
  BY <1>1 DEF Unfinished, Endless
<1>3. air \in Seq(Endless) /\ \A c \in Cmds : box[c] \in Seq(Endless)
  BY <1>2 DEF Unfinished
<1>4. Tail(box[ask]) \in Seq(Endless)
  BY <1>1, <1>3, HeadTailProperties
<1>5. \A c \in Cmds : box'[c] = box[c] \/ box'[c] = Tail(box[ask])
  BY <1>0, <1>1 DEF TypeOK
<1>. QED  BY <1>1, <1>3, <1>4, <1>5

----------------------------------------------------------------------------
(* What is read of a capture.                                              *)

\* The firmware and the call as far as a chunk tells of them.
LEMMA FreshStays ==
  ASSUME fw'.capture = fw.capture, fw'.quirk = fw.quirk, Bytes' \in Nat, Bytes \in Nat, Bytes <= Bytes',
         call'.step = call.step, call'.arg = call.arg
  PROVE  \A s \in Seq(Fresh) : s \in Seq(Fresh')
<1>1. At' = At
  BY DEF At
<1>2. \A b, o : ChunkAt(b, o)' = ChunkAt(b, o)
  BY DEF ChunkAt
<1>3. ASSUME NEW m, FreshChunk(m)
      PROVE  FreshChunk(m)'
  <2>1. PICK b \in Nat, o \in Nat :
          /\ m.val = ChunkAt(b, o) /\ b <= Bytes
          /\ o = At \/ (m.val.next # 0 /\ m.val.next <= At)
          /\ call.step >= 2 => b >= call.arg * SampleSize
    BY <1>3 DEF FreshChunk
  <2>2. b <= Bytes'
    BY <2>1
  <2>3. m.val = ChunkAt(b, o)'
    BY <1>2, <2>1
  <2>. QED  BY <1>1, <1>3, <2>1, <2>2, <2>3 DEF FreshChunk
<1>4. Fresh \subseteq Fresh'
  BY <1>3 DEF Fresh
<1>. QED  BY <1>4, SeqMonotonic

LEMMA FreshElements ==
  ASSUME NEW s \in Seq(Fresh)
  PROVE  s \in Seq(Messages) /\ \A i \in 1 .. Len(s) : s[i] \in Fresh
<1>1. Fresh \subseteq Messages
  BY DEF Fresh
<1>. QED  BY <1>1, SeqMonotonic, ElementOfSeq

\* A step that leaves the reading as it is.
LEMMA InCaptureStays ==
  ASSUME ServicesInv, InCapture, fw'.capture = fw.capture, fw'.quirk = fw.quirk, Bytes' \in Nat, Bytes <= Bytes',
         call'.op = call.op, call'.step = call.step, call'.arg = call.arg, call'.got = call.got,
         air' = air, ask' \in {ask, "none"}, box' = box, crossed' = crossed
  PROVE  InCapture'
<1>1. Bytes \in Nat
  BY BytesType DEF ServicesInv
<1>2. \A s \in Seq(Fresh) : s \in Seq(Fresh')
  BY <1>1, FreshStays
<1>3. SUFFICES ASSUME Reading  PROVE InCapture'
  BY DEF InCapture, Reading
<1>4. At' = At
  BY DEF At
<1>5. call'.step >= 2 => Bytes' >= call'.arg * SampleSize
  <2>1. SUFFICES ASSUME call.step >= 2  PROVE Bytes' >= call.arg * SampleSize
    OBVIOUS
  <2>2. Bytes >= call.arg * SampleSize
    BY <1>3, <2>1 DEF InCapture
  <2>3. call.arg \in Nat /\ SampleSize \in Nat
    BY <1>3, ServicesAssumption DEF Reading, ServicesInv, Asks, Args, Idle
  <2>4. call.arg * SampleSize \in Nat
    BY <2>3
  <2>. QED  BY <1>1, <2>2, <2>4
<1>6. /\ Len(call'.got) = At'
      /\ \A k \in 1 .. Len(call'.got) : call'.got[k] = [of |-> fw'.capture, at |-> k]
      /\ Ordered(air')
  BY <1>3, <1>4 DEF InCapture
<1>7. air' \in Seq(Fresh')
  BY <1>2, <1>3 DEF InCapture
<1>8. ask' = "logRead" => box'["logRead"] \in Seq(Fresh') /\ Precedes(box'["logRead"], air')
  BY <1>2, <1>3 DEF InCapture
<1>. QED  BY <1>5, <1>6, <1>7, <1>8 DEF InCapture, Ordered, Older, Precedes

LEMMA InCaptureDelivered ==
  ASSUME ServicesInv, InCapture, Deliver
  PROVE  InCapture'
<1>0. TypeOK
  BY DEF ServicesInv
<1>1. UNCHANGED <<fw, ask, call, crossed>>
  BY DEF Deliver
<1>2. Fresh' = Fresh /\ At' = At /\ Bytes' = Bytes /\ Reading' = Reading
  BY <1>1 DEF Fresh, FreshChunk, ChunkAt, At, Bytes, Reading
<1>3. SUFFICES ASSUME Reading  PROVE InCapture'
  BY <1>2 DEF InCapture
<1>4. PICK a : a = Head(air)
  OBVIOUS
<1>5. /\ air # <<>> /\ air' = Tail(air) /\ a = air[1] /\ a \in Messages
      /\ Len(air) \in Nat \ {0} /\ Len(air') = Len(air) - 1
      /\ \A i \in 1 .. Len(air') : air'[i] = air[i + 1]
      /\ a.cmd = "logRead" => box'["logRead"] = Append(box["logRead"], a)
      /\ a.cmd # "logRead" => box'["logRead"] = box["logRead"]
  <2>1. "logRead" \in Cmds
    BY DEF Cmds
  <2>. QED  BY <1>0, <1>4, <2>1, DeliverBox
<1>6. air \in Seq(Fresh) /\ Ordered(air)
  BY <1>3 DEF InCapture
<1>7. a \in Fresh /\ air' \in Seq(Fresh)
  BY <1>4, <1>5, <1>6, HeadTailProperties
<1>8. \A i \in 1 .. Len(air') : i + 1 \in 1 .. Len(air) /\ i \in Int /\ 1 < i + 1
  BY <1>5
<1>9. Ordered(air')
  <2>1. SUFFICES ASSUME NEW i \in 1 .. Len(air'), NEW j \in 1 .. Len(air'), i < j
                 PROVE  Older(air'[i], air'[j])
    BY DEF Ordered
  <2>2. i + 1 \in 1 .. Len(air) /\ j + 1 \in 1 .. Len(air) /\ i + 1 < j + 1
    BY <1>8, <2>1
  <2>3. Older(air[i + 1], air[j + 1])
    BY <1>6, <2>2 DEF Ordered
  <2>. QED  BY <1>5, <2>3
<1>10. \A j \in 1 .. Len(air') : Older(a, air'[j])
  <2>1. 1 \in 1 .. Len(air)
    BY <1>5
  <2>2. ASSUME NEW j \in 1 .. Len(air')  PROVE Older(a, air'[j])
    <3>1. j + 1 \in 1 .. Len(air) /\ 1 < j + 1
      BY <1>8, <2>2
    <3>2. Older(air[1], air[j + 1])
      BY <1>6, <2>1, <3>1 DEF Ordered
    <3>. QED  BY <1>5, <3>2
  <2>. QED  BY <2>2
<1>11. ASSUME ask = "logRead"
       PROVE  box'["logRead"] \in Seq(Fresh) /\ Precedes(box'["logRead"], air')
  <2>1. PICK q : q = box["logRead"]
    OBVIOUS
  <2>2. q \in Seq(Fresh) /\ Precedes(q, air) /\ Len(q) \in Nat
    BY <1>3, <1>11, <2>1 DEF InCapture
  <2>3. Precedes(q, air')
    <3>1. SUFFICES ASSUME NEW i \in 1 .. Len(q), NEW j \in 1 .. Len(air')  PROVE Older(q[i], air'[j])
      BY DEF Precedes
    <3>2. j + 1 \in 1 .. Len(air)
      BY <1>8
    <3>3. Older(q[i], air[j + 1])
      BY <2>2, <3>2 DEF Precedes
    <3>. QED  BY <1>5, <3>3
  <2>4. CASE a.cmd # "logRead"
    BY <1>5, <2>1, <2>2, <2>3, <2>4
  <2>5. CASE a.cmd = "logRead"
    <3>1. box'["logRead"] = Append(q, a)
      BY <1>5, <2>1, <2>5
    <3>2. /\ Append(q, a) \in Seq(Fresh) /\ Len(Append(q, a)) = Len(q) + 1
          /\ \A i \in 1 .. Len(q) : Append(q, a)[i] = q[i]
          /\ Append(q, a)[Len(q) + 1] = a
      BY <1>7, <2>2, AppendProperties
    <3>3. ASSUME NEW i \in 1 .. Len(q) + 1, NEW j \in 1 .. Len(air')
          PROVE  Older(Append(q, a)[i], air'[j])
      <4>1. CASE i = Len(q) + 1
        BY <1>10, <3>2, <4>1
      <4>2. CASE i # Len(q) + 1
        <5>1. i \in 1 .. Len(q)
          BY <2>2, <4>2
        <5>. QED  BY <2>3, <3>2, <5>1 DEF Precedes
      <4>. QED  BY <4>1, <4>2
    <3>. QED  BY <3>1, <3>2, <3>3 DEF Precedes
  <2>. QED  BY <2>4, <2>5
<1>12. ask' = "logRead" => box'["logRead"] \in Seq(Fresh') /\ Precedes(box'["logRead"], air')
  BY <1>1, <1>2, <1>11
<1>13. /\ Len(call'.got) = At'
       /\ \A k \in 1 .. Len(call'.got) : call'.got[k] = [of |-> fw'.capture, at |-> k]
       /\ call'.step >= 2 => Bytes' >= call'.arg * SampleSize
  BY <1>1, <1>2, <1>3 DEF InCapture
<1>14. air' \in Seq(Fresh')
  BY <1>2, <1>7
<1>. QED  BY <1>9, <1>12, <1>13, <1>14 DEF InCapture, Ordered, Precedes, Older

\* The next chunk is asked for.
LEMMA InCaptureAsked ==
  ASSUME ServicesInv, InCapture, Reading, Continue
  PROVE  InCapture'
<1>0. TypeOK /\ Asks
  BY DEF ServicesInv
<1>1. /\ ask = "none" /\ call # Idle /\ Send(Again, air) /\ box' = Drained(Again.cmd) /\ call' = call
  BY DEF Continue, Write
<1>2. call.step \in Nat /\ call.step >= 1 /\ At \in Nat /\ Bytes \in Nat
  BY <1>0, BytesType DEF TypeOK, Calls, Reading, At
<1>3. PICK r : r = Again
  OBVIOUS
<1>4. r.cmd = "logRead" /\ r.arg = At
  BY <1>3 DEF Reading, Again, Request, At
<1>5. Proper(r)
  BY <1>0, <1>1, <1>3, AgainProper
<1>6. Serve(r) = [fw |-> fw, code |-> Ok, val |-> ChunkAt(Bytes, At)]
  BY <1>0, <1>2, <1>4, ReadServed DEF Reading
<1>7. fw' = fw /\ ask' = "logRead"
  BY <1>1, <1>3, <1>4, <1>6 DEF Send
<1>8. PICK m : m = [cmd |-> "logRead", code |-> Ok, val |-> ChunkAt(Bytes, At)]
  OBVIOUS
<1>9. air \in Seq(Fresh) /\ Ordered(air) /\ air \in Seq(Messages) /\ \A i \in 1 .. Len(air) : air[i] \in Fresh
  BY FreshElements DEF InCapture
<1>10. air' = air \/ air' = Append(air, m)
  BY <1>0, <1>1, <1>3, <1>4, <1>5, <1>6, <1>8, <1>9, OneSent
<1>11. m \in Fresh
  <2>1. m \in Messages
    <3>1. Served(r, Serve(r)) /\ r.cmd \in Cmds
      BY <1>0, <1>5, ServeFacts DEF Proper
    <3>2. ChunkAt(Bytes, At) \in AllVals /\ ChunkAt(Bytes, At) \in Vals("logRead")
      BY <1>4, <1>6, <3>1 DEF Served
    <3>. QED  BY <1>4, <1>8, <3>1, <3>2 DEF Messages
  <2>2. call.step >= 2 => Bytes >= call.arg * SampleSize
    BY DEF InCapture
  <2>3. FreshChunk(m)
    BY <1>2, <1>8, <2>2 DEF FreshChunk
  <2>. QED  BY <2>1, <2>3 DEF Fresh
<1>12. ASSUME NEW i \in 1 .. Len(air)  PROVE Older(air[i], m)
  <2>1. SUFFICES ASSUME air[i].cmd = "logRead"  PROVE air[i].val.total <= m.val.total
    BY DEF Older
  <2>2. PICK b \in Nat, o \in Nat : air[i].val = ChunkAt(b, o) /\ b <= Bytes
    BY <1>9, <2>1 DEF Fresh, FreshChunk
  <2>3. air[i].val.total = b
    BY <2>2, ChunkFacts
  <2>4. m.val.total = Bytes
    BY <1>2, <1>8, ChunkFacts
  <2>. QED  BY <2>2, <2>3, <2>4
<1>13. air' \in Seq(Fresh) /\ Ordered(air')
  <2>1. /\ Append(air, m) \in Seq(Fresh) /\ Len(Append(air, m)) = Len(air) + 1 /\ Len(air) \in Nat
        /\ \A i \in 1 .. Len(air) : Append(air, m)[i] = air[i]
        /\ Append(air, m)[Len(air) + 1] = m
    BY <1>9, <1>11, AppendProperties
  <2>2. CASE air' = air
    BY <1>9, <2>2
  <2>3. CASE air' = Append(air, m)
    <3>1. ASSUME NEW i \in 1 .. Len(air) + 1, NEW j \in 1 .. Len(air) + 1, i < j
          PROVE  Older(Append(air, m)[i], Append(air, m)[j])
      <4>1. i \in 1 .. Len(air)
        BY <2>1, <3>1
      <4>2. CASE j = Len(air) + 1
        BY <1>12, <2>1, <4>1, <4>2
      <4>3. CASE j # Len(air) + 1
        <5>1. j \in 1 .. Len(air)
          BY <2>1, <4>3
        <5>. QED  BY <1>9, <2>1, <3>1, <4>1, <5>1 DEF Ordered
      <4>. QED  BY <4>2, <4>3
    <3>. QED  BY <2>1, <2>3, <3>1 DEF Ordered
  <2>. QED  BY <1>10, <2>2, <2>3
<1>14. box'["logRead"] = <<>>
  BY <1>0, <1>1, <1>3, <1>4 DEF Drained, Listed, TypeOK, Cmds
<1>15. Fresh' = Fresh /\ At' = At /\ Bytes' = Bytes
  BY <1>1, <1>7 DEF Fresh, FreshChunk, ChunkAt, At, Bytes
<1>16. /\ Len(call'.got) = At'
       /\ \A k \in 1 .. Len(call'.got) : call'.got[k] = [of |-> fw'.capture, at |-> k]
       /\ call'.step >= 2 => Bytes' >= call'.arg * SampleSize
  BY <1>1, <1>7, <1>15 DEF InCapture
<1>17. <<>> \in Seq(Fresh') /\ Precedes(<<>>, air')
  <2>1. <<>> \in Seq(Fresh') /\ Len(<<>>) = 0
    OBVIOUS
  <2>. QED  BY <2>1 DEF Precedes
<1>18. air' \in Seq(Fresh') /\ Ordered(air')
  BY <1>13, <1>15
<1>. QED  BY <1>14, <1>16, <1>17, <1>18 DEF InCapture, Ordered, Precedes, Older

\* How a capture takes an answer.
CaptureGoes(a, step, got) ==
    /\ call' = [call EXCEPT !.step = step, !.got = got, !.tries = 0] /\ result' = result
LEMMA CaptureTakes ==
  ASSUME ServicesInv, Take, call.op = "capture", NEW a, a = Head(Mail)
  PROVE  /\ UNCHANGED <<fw, air, crossed>> /\ ask' = "none"
         /\ \/ /\ call.step = 0 /\ ask = "logCtl" /\ CaptureGoes(a, 1, <<>>)
            \/ \E end, v : end # "ok" /\ Finish(end, v)
            \/ /\ call.step = 1 /\ ask = "logRead" /\ a.code = Ok
               /\ a.val.total >= call.arg * SampleSize /\ CaptureGoes(a, 2, <<>>)
            \/ /\ call.step = 1 /\ ask = "logRead" /\ a.code = Ok /\ CaptureGoes(a, 1, <<>>)
            \/ /\ call.step >= 2 /\ ask = "logRead" /\ a.code = Ok /\ a.val.next = 0
               /\ \E end : Finish(end, call.got \o a.val.bytes)
            \/ /\ call.step >= 2 /\ ask = "logRead" /\ a.code = Ok /\ a.val.next # 0
               /\ ~(a.val.next <= call.step - 2)
               /\ CaptureGoes(a, 2 + a.val.next, call.got \o a.val.bytes)
<1>0. TypeOK /\ Asks /\ Heard
  BY DEF ServicesInv
<1>1. /\ ask # "none" /\ Mail # <<>> /\ UNCHANGED <<fw, air, crossed>>
      /\ ask' = IF call.op = "kinBench" /\ ~Half THEN ask ELSE "none"
      /\ IF a.code # Ok /\ call.op \in Several /\ ~Starting
         THEN Finish("rejected", 0) /\ UNCHANGED <<limits, target>>
         ELSE \/ Answered(a) \/ Probed(a) \/ Solved(a) \/ Benched(a) \/ Enabled(a)
              \/ Param(a) \/ Payload(a) \/ Activated(a) \/ Started(a) \/ Captured(a)
  BY DEF Take
<1>2. ask' = "none" /\ call.op \in Several /\ call.step \in Nat
  BY <1>0, <1>1 DEF Several, TypeOK, Calls
<1>3. ask = IF call.step >= 1 THEN "logRead" ELSE "logCtl"
  BY <1>0, <1>1, MailFacts DEF Asked, First, Request
<1>4. Starting <=> call.step = 0
  BY DEF Starting
<1>5. CASE a.code # Ok /\ ~Starting
  BY <1>1, <1>2, <1>5
<1>6. CASE ~(a.code # Ok /\ ~Starting)
  <2>1. Started(a) \/ Captured(a)
    BY <1>1, <1>6 DEF Answered, Several, Probed, Solved, Benched, Enabled, Param, Payload, Activated
  <2>2. ASSUME Started(a)
        PROVE  \/ /\ call.step = 0 /\ ask = "logCtl" /\ CaptureGoes(a, 1, <<>>)
               \/ \E end, v : end # "ok" /\ Finish(end, v)
    <3>1. call.step = 0
      BY <1>4, <2>2 DEF Started
    <3>2. \/ Finish("rejected", 0) \/ Advance(1, <<>>)
      BY <2>2 DEF Started
    <3>. QED  BY <1>3, <3>1, <3>2 DEF Advance, CaptureGoes
  <2>3. ASSUME Captured(a), Polled(a)
        PROVE  \/ \E end, v : end # "ok" /\ Finish(end, v)
               \/ /\ call.step = 1 /\ ask = "logRead" /\ a.code = Ok
                  /\ a.val.total >= call.arg * SampleSize /\ CaptureGoes(a, 2, <<>>)
               \/ /\ call.step = 1 /\ ask = "logRead" /\ a.code = Ok /\ CaptureGoes(a, 1, <<>>)
    <3>1. call.step = 1 /\ a.code = Ok /\ ask = "logRead"
      BY <1>3, <1>4, <1>6, <2>3 DEF Polled
    <3>2. Want = call.arg * SampleSize
      BY DEF Want
    <3>. QED  BY <2>3, <3>1, <3>2 DEF Polled, Advance, CaptureGoes
  <2>4. ASSUME Captured(a), Read(a)
        PROVE  \/ \E end, v : end # "ok" /\ Finish(end, v)
               \/ /\ call.step >= 2 /\ ask = "logRead" /\ a.code = Ok /\ a.val.next = 0
                  /\ \E end : Finish(end, call.got \o a.val.bytes)
               \/ /\ call.step >= 2 /\ ask = "logRead" /\ a.code = Ok /\ a.val.next # 0
                  /\ ~(a.val.next <= call.step - 2)
                  /\ CaptureGoes(a, 2 + a.val.next, call.got \o a.val.bytes)
    <3>1. call.step >= 2 /\ a.code = Ok /\ ask = "logRead"
      BY <1>2, <1>3, <1>4, <1>6, <2>4 DEF Read
    <3>2. CASE a.val.next = 0
      BY <2>4, <3>1, <3>2 DEF Read
    <3>3. CASE a.val.next # 0 /\ Backward(a)
      BY <2>4, <3>3 DEF Read
    <3>4. CASE a.val.next # 0 /\ ~Backward(a)
      BY <2>4, <3>1, <3>4 DEF Read, Backward, Advance, CaptureGoes
    <3>. QED  BY <3>2, <3>3, <3>4
  <2>5. Captured(a) => Polled(a) \/ Read(a)
    BY DEF Captured
  <2>. QED  BY <1>1, <1>2, <2>1, <2>2, <2>3, <2>4, <2>5
<1>. QED  BY <1>5, <1>6

\* The answer taken while a capture is read.
LEMMA TakenIsFresh ==
  ASSUME ServicesInv, InCapture, Reading, Take, ask = "logRead", NEW a, a = Head(Mail)
  PROVE  /\ a \in Fresh /\ a.cmd = "logRead"
         /\ \A j \in 1 .. Len(air) : Older(a, air[j])
<1>1. /\ Mail = box["logRead"] /\ Mail # <<>>
      /\ Mail \in Seq(Fresh) /\ Precedes(Mail, air)
  BY DEF Take, Mail, InCapture
<1>2. a \in Fresh /\ a = Mail[1] /\ Len(Mail) \in Nat \ {0}
  BY <1>1, HeadTailProperties, EmptySeq
<1>3. 1 \in 1 .. Len(Mail)
  BY <1>2
<1>4. \A j \in 1 .. Len(air) : Older(a, air[j])
  BY <1>1, <1>2, <1>3 DEF Precedes
<1>5. a.cmd = "logRead"
  BY <1>1, MailFacts DEF ServicesInv, Take
<1>. QED  BY <1>2, <1>4, <1>5

\* The fields of a call that asks on.
LEMMA GoneOn ==
  ASSUME TypeOK, NEW s \in Nat, NEW g, NEW a, CaptureGoes(a, s, g)
  PROVE  call'.op = call.op /\ call'.arg = call.arg /\ call'.step = s /\ call'.got = g
BY DEF CaptureGoes, TypeOK, Calls

\* What is on its way when the total, or a chunk, has been accepted: the offset stays, or goes to
\* the next one that the chunk names.
LEMMA StillFresh ==
  ASSUME ServicesInv, InCapture, Reading, Take, ask = "logRead", NEW a, a = Head(Mail), a.code = Ok,
         fw' = fw, call'.arg = call.arg, call'.step \in Nat, At' \in Nat,
         At' = At \/ (a.val.next > At /\ At' = a.val.next),
         call'.step >= 2 => call.step >= 2 \/ a.val.total >= call.arg * SampleSize
  PROVE  air \in Seq(Fresh')
<1>0. TypeOK /\ call.step \in Nat /\ call.step >= 1 /\ Bytes \in Nat /\ At \in Nat
      /\ ChunkMax \in Nat \ {0} /\ call.arg \in Nat /\ SampleSize \in Nat
  <2>1. TypeOK /\ Bytes \in Nat
    BY BytesType DEF ServicesInv
  <2>2. call.step \in Nat /\ call.step >= 1
    BY <2>1 DEF TypeOK, Calls, Reading
  <2>3. At \in Nat
    BY <2>2 DEF At
  <2>4. call.arg \in Nat
    BY ServicesAssumption DEF ServicesInv, Reading, Asks, Args, Idle
  <2>. QED  BY <2>1, <2>2, <2>3, <2>4, ServicesAssumption
<1>1. a \in Fresh /\ a.cmd = "logRead" /\ \A j \in 1 .. Len(air) : Older(a, air[j])
  BY TakenIsFresh
<1>2. PICK ba \in Nat, oa \in Nat :
        /\ a.val = ChunkAt(ba, oa) /\ ba <= Bytes
        /\ oa = At \/ (a.val.next # 0 /\ a.val.next <= At)
  BY <1>1 DEF Fresh, FreshChunk
<1>3. air \in Seq(Fresh) /\ air \in Seq(Messages) /\ \A i \in 1 .. Len(air) : air[i] \in Fresh
  BY FreshElements DEF InCapture
<1>4. Bytes' = Bytes /\ \A b, o : ChunkAt(b, o)' = ChunkAt(b, o)
  BY DEF Bytes, ChunkAt
<1>5. /\ a.val.total = ba /\ a.val.next \in Nat
      /\ a.val.next # 0 => a.val.next = oa + ChunkMax /\ oa + ChunkMax < ba
  <2>1. PICK ca : ca = ChunkAt(ba, oa)
    OBVIOUS
  <2>2. /\ ca.total = ba /\ ca.next \in Nat
        /\ ca.next # 0 => ca.next = oa + ChunkMax /\ oa + ChunkMax < ba
    BY <2>1, ChunkFacts
  <2>. QED  BY <1>2, <2>1, <2>2
<1>6. PICK w \in Nat : w = call.arg * SampleSize
  BY <1>0
<1>7. ASSUME NEW i \in 1 .. Len(air), NEW m, m = air[i], m.cmd = "logRead"
      PROVE  FreshChunk(m)'
  <2>1. m.code = Ok
    BY <1>3, <1>7 DEF Fresh, FreshChunk
  <2>2. PICK b \in Nat, o \in Nat :
          /\ m.val = ChunkAt(b, o) /\ b <= Bytes
          /\ o = At \/ (m.val.next # 0 /\ m.val.next <= At)
          /\ call.step >= 2 => b >= w
    BY <1>3, <1>6, <1>7 DEF Fresh, FreshChunk
  <2>3. /\ m.val.total = b /\ m.val.next \in Nat
        /\ o + ChunkMax < b => m.val.next = o + ChunkMax
    <3>1. PICK ca : ca = ChunkAt(b, o)
      OBVIOUS
    <3>2. /\ ca.total = b /\ ca.next \in Nat
          /\ o + ChunkMax < b => ca.next = o + ChunkMax
      BY <3>1, ChunkFacts
    <3>. QED  BY <2>2, <3>1, <3>2
  <2>4. ba <= b
    BY <1>1, <1>5, <1>7, <2>3 DEF Older
  <2>5. call'.step >= 2 => b >= w
    BY <1>5, <1>6, <2>2, <2>4
  <2>6. o = At' \/ (m.val.next # 0 /\ m.val.next <= At')
    <3>1. CASE At' = At
      BY <2>2, <3>1
    <3>2. CASE a.val.next > At /\ At' = a.val.next
      <4>1. oa = At /\ At' = At + ChunkMax /\ At + ChunkMax < ba
        BY <1>0, <1>2, <1>5, <3>2
      <4>2. CASE o = At
        <5>1. o + ChunkMax < b
          BY <1>0, <2>4, <4>1, <4>2
        <5>2. m.val.next = At'
          BY <2>3, <4>1, <4>2, <5>1
        <5>. QED  BY <1>0, <4>1, <5>2
      <4>3. CASE m.val.next # 0 /\ m.val.next <= At
        BY <1>0, <2>3, <4>1, <4>3
      <4>. QED  BY <2>2, <4>2, <4>3
    <3>. QED  BY <3>1, <3>2
  <2>7. m.val = ChunkAt(b, o)' /\ b <= Bytes'
    BY <1>4, <2>2
  <2>8. call'.step >= 2 => b >= call'.arg * SampleSize
    BY <1>6, <2>5
  <2>. QED  BY <2>1, <2>2, <2>6, <2>7, <2>8 DEF FreshChunk
<1>8. \A i \in 1 .. Len(air) : air[i] \in Fresh'
  <2>1. \A i \in 1 .. Len(air) : air[i] \in Messages
    BY <1>3, ElementOfSeq
  <2>2. Messages' = Messages
    BY DEF Messages, AllVals, Vals
  <2>3. ASSUME NEW i \in 1 .. Len(air)  PROVE air[i] \in Fresh'
    <3>1. PICK m : m = air[i]
      OBVIOUS
    <3>2. m \in Messages' /\ (m.cmd = "logRead" => FreshChunk(m)')
      BY <1>7, <2>1, <2>2, <3>1
    <3>3. m \in Fresh'
      BY <3>2 DEF Fresh
    <3>. QED  BY <3>1, <3>3
  <2>. QED  BY <2>3
<1>9. Len(air) \in Nat /\ air \in [1 .. Len(air) -> Fresh']
  BY <1>3, <1>8
<1>. QED  BY <1>9, SeqDef

\* s is the n bytes of capture f that follow byte o.
Are(s, f, o, n) == s \in Seq(Byte) /\ Len(s) = n /\ \A k \in 1 .. n : s[k] = [of |-> f, at |-> o + k]

LEMMA Joined ==
  ASSUME NEW f, NEW o \in Nat, NEW c \in Nat, NEW got, NEW t, Are(got, f, 0, o), Are(t, f, o, c)
  PROVE  Are(got \o t, f, 0, o + c)
<1>0. got \in Seq(Byte) /\ Len(got) = o /\ t \in Seq(Byte) /\ Len(t) = c
  BY DEF Are
<1>1. /\ Len(got \o t) = o + c /\ got \o t \in Seq(Byte)
      /\ \A k \in 1 .. o + c : (got \o t)[k] = IF k <= o THEN got[k] ELSE t[k - o]
  BY <1>0, ConcatProperties
<1>2. ASSUME NEW k \in 1 .. o + c  PROVE (got \o t)[k] = [of |-> f, at |-> 0 + k]
  <2>1. CASE k <= o
    <3>1. k \in 1 .. o
      BY <2>1
    <3>2. got[k] = [of |-> f, at |-> 0 + k]
      BY <3>1 DEF Are
    <3>. QED  BY <1>1, <2>1, <3>2
  <2>2. CASE ~(k <= o)
    <3>1. k - o \in 1 .. c /\ o + (k - o) = 0 + k
      BY <2>2
    <3>2. t[k - o] = [of |-> f, at |-> o + (k - o)]
      BY <3>1 DEF Are
    <3>. QED  BY <1>1, <2>2, <3>1, <3>2
  <2>. QED  BY <2>1, <2>2
<1>. QED  BY <1>1, <1>2 DEF Are

\* The bytes of a chunk, and what they make of the bytes before them.
LEMMA ChunkJoined ==
  ASSUME NEW b \in Nat, NEW o \in Nat, NEW t, t = ChunkAt(b, o).bytes, t \in Seq(Byte),
         NEW f, f = fw.capture, NEW got, Are(got, f, 0, o)
  PROVE  Are(got \o t, f, 0, o + Cnt(b, o))
<1>1. PICK c \in Nat : c = Cnt(b, o)
  BY ChunkFacts
<1>2. Are(t, f, o, c)
  <2>1. Len(ChunkAt(b, o).bytes) = Cnt(b, o)
    BY ChunkFacts
  <2>2. \A k \in 1 .. Cnt(b, o) : ChunkAt(b, o).bytes[k] = [of |-> fw.capture, at |-> o + k]
    <3>1. b \in Nat /\ o \in Nat
      OBVIOUS
    <3>. QED  BY <3>1, ChunkFacts, Zenon
  <2>. QED  BY <1>1, <2>1, <2>2, Zenon DEF Are
<1>. QED  BY <1>1, <1>2, Joined, Zenon

\* No chunk is on its way when a capture begins to be read: the answer to its start has come, and
\* with it all that was sent before, or there was none.
LEMMA NoOldChunk ==
  ASSUME Strays, ~crossed, Take, call.op = "capture", call.step = 0, ask = "logCtl"
  PROVE  air \in Seq(Others("logRead"))
<1>1. box["logCtl"] # <<>>
  BY DEF Take, Mail
<1>2. CASE OneStart
  <2>1. air = <<>>
    BY <1>1, <1>2 DEF OneStart
  <2>. QED  BY <2>1
<1>. QED  BY <1>2 DEF Strays

\* The data of a capture when its last chunk has been taken.
LEMMA LastChunk ==
  ASSUME ServicesInv, InCapture, Reading, Take, ask = "logRead", call.step >= 2,
         NEW a, a = Head(Mail), a.code = Ok, a.val.next = 0
  PROVE  /\ Len(call.got \o a.val.bytes) >= call.arg * SampleSize
         /\ \A k \in 1 .. Len(call.got \o a.val.bytes) :
               (call.got \o a.val.bytes)[k] = [of |-> fw.capture, at |-> k]
<1>1. a \in Fresh /\ a.cmd = "logRead"
  BY TakenIsFresh
<1>2. PICK b \in Nat, o \in Nat :
        /\ a.val = ChunkAt(b, o) /\ b >= call.arg * SampleSize
        /\ o = At \/ (a.val.next # 0 /\ a.val.next <= At)
  BY <1>1 DEF Fresh, FreshChunk
<1>3. PICK v : v = ChunkAt(b, o)
  OBVIOUS
<1>4. Cnt(b, o) \in Nat /\ o + Cnt(b, o) >= b
  BY <1>2, <1>3, ChunkFacts
<1>5. o = At /\ call.got \in Seq(Byte) /\ Len(call.got) = o
      /\ \A k \in 1 .. Len(call.got) : call.got[k] = [of |-> fw.capture, at |-> k]
  BY <1>2 DEF InCapture, ServicesInv, Asks, Reading
<1>6. a.val.bytes \in Seq(Byte)
  <2>1. a \in Messages
    BY <1>1 DEF Fresh
  <2>2. a.val \in Vals("logRead")
    BY <1>1, <2>1 DEF Messages
  <2>. QED  BY <2>2 DEF Vals, Chunks
<1>7. PICK s : s = call.got \o a.val.bytes
  OBVIOUS
<1>8. s = call.got \o ChunkAt(b, o).bytes /\ ChunkAt(b, o).bytes \in Seq(Byte)
  BY <1>2, <1>6, <1>7
<1>9. Len(s) = o + Cnt(b, o) /\ \A k \in 1 .. o + Cnt(b, o) : s[k] = [of |-> fw.capture, at |-> k]
  <2>1. PICK f, got, t : f = fw.capture /\ got = call.got /\ t = ChunkAt(b, o).bytes
    OBVIOUS
  <2>2. t \in Seq(Byte) /\ s = got \o t
    BY <1>8, <2>1
  <2>3. Are(got, f, 0, o)
    BY <1>5, <2>1 DEF Are
  <2>4. Are(got \o t, f, 0, o + Cnt(b, o))
    BY <2>1, <2>2, <2>3, ChunkJoined, Zenon
  <2>5. Are(s, f, 0, o + Cnt(b, o))
    BY <2>2, <2>4
  <2>. QED  BY <1>4, <2>1, <2>5 DEF Are
<1>10. PICK w \in Nat : w = call.arg * SampleSize
  <2>1. call.arg \in Nat
    BY ServicesAssumption DEF ServicesInv, Reading, Asks, Args, Idle
  <2>. QED  BY <2>1, ServicesAssumption
<1>11. Len(s) >= w
  BY <1>2, <1>4, <1>9, <1>10
<1>. QED  BY <1>7, <1>9, <1>10, <1>11

LEMMA CaptureTaken ==
  ASSUME ServicesInv, Strays, InCapture, Unfinished, Take, call.op = "capture", ~crossed
  PROVE  InCapture' /\ CaptureIsWhole'
<1>0. TypeOK /\ call # Idle /\ result = NoResult /\ call.step \in Nat /\ Bytes \in Nat /\ call.got \in Seq(Byte)
  <2>1. TypeOK /\ call # Idle /\ call.got \in Seq(Byte)
    BY MailFacts DEF ServicesInv, Take, Asks
  <2>2. result = NoResult
    BY <2>1 DEF ServicesInv, Asks
  <2>3. call.step \in Nat /\ Bytes \in Nat
    BY <2>1, BytesType DEF TypeOK, Calls
  <2>. QED  BY <2>1, <2>2, <2>3
<1>1. PICK a : a = Head(Mail)
  OBVIOUS
<1>2. fw' = fw /\ air' = air /\ ask' = "none" /\ crossed' = crossed
  BY <1>1, CaptureTakes
<1>3. ASSUME NEW s \in Nat, NEW g, CaptureGoes(a, s, g)
      PROVE  CaptureIsWhole'
  BY <1>0, <1>3 DEF CaptureGoes, CaptureIsWhole, WholeOrNothing, NoResult
<1>4. ASSUME NEW end, NEW v, Finish(end, v)
      PROVE  /\ InCapture' /\ result'.op = "capture" /\ result'.arg = call.arg
             /\ result'.end = end /\ result'.val = v
  BY <1>4 DEF Finish, InCapture, Reading, Idle
<1>5. CASE call.step = 0 /\ ask = "logCtl" /\ CaptureGoes(a, 1, <<>>)
  <2>1. call'.step = 1 /\ call'.got = <<>> /\ 1 \in Nat
    BY <1>0, <1>5, GoneOn
  <2>2. air \in Seq(Others("logRead"))
    BY <1>5, NoOldChunk
  <2>3. air \in Seq(Messages) /\ \A i \in 1 .. Len(air) : air[i].cmd # "logRead"
    BY <2>2, NoneOf
  <2>4. Others("logRead") \subseteq Fresh'
    BY DEF Others, Fresh, Messages, AllVals, Vals
  <2>5. air' \in Seq(Fresh')
    BY <1>2, <2>2, <2>4, SeqMonotonic
  <2>6. Ordered(air')
    BY <1>2, <2>3 DEF Ordered, Older
  <2>7. At' = 0 /\ Len(call'.got) = 0
    BY <2>1 DEF At
  <2>8. \A k \in 1 .. Len(call'.got) : call'.got[k] = [of |-> fw'.capture, at |-> k]
    BY <2>7
  <2>9. InCapture'
    BY <1>2, <2>1, <2>5, <2>6, <2>7, <2>8 DEF InCapture, Ordered, Older
  <2>10. CaptureIsWhole'
    BY <1>3, <1>5, <2>1
  <2>. QED  BY <2>9, <2>10
<1>6. CASE \E end, v : end # "ok" /\ Finish(end, v)
  BY <1>4, <1>6 DEF CaptureIsWhole, WholeOrNothing
<1>7. CASE fw.quirk # "none" /\ call.step >= 1
  <2>1. InCapture'
    BY <1>2, <1>7 DEF InCapture, Reading
  <2>2. ask = "logRead" /\ a.code = Ok => a.val.next # 0
    <3>1. SUFFICES ASSUME ask = "logRead"  PROVE a.code = Ok => a.val.next # 0
      OBVIOUS
    <3>2. Mail \in Seq(Endless) /\ Mail # <<>>
      BY <1>7, <3>1 DEF Unfinished, Mail, Take, Cmds
    <3>3. a \in Endless
      BY <1>1, <3>2, HeadTailProperties
    <3>4. a.cmd = "logRead"
      BY <1>1, <3>1, MailFacts DEF ServicesInv, Take
    <3>. QED  BY <3>3, <3>4 DEF Endless
  <2>3. \/ \E end, v : end # "ok" /\ Finish(end, v)
        \/ \E s, g : CaptureGoes(a, s, g)
    BY <1>1, <1>7, <2>2, CaptureTakes
  <2>4. CaptureIsWhole'
    <3>1. CASE \E s, g : CaptureGoes(a, s, g)
      BY <1>0, <3>1 DEF CaptureGoes, CaptureIsWhole, WholeOrNothing, NoResult
    <3>. QED  BY <1>6, <2>3, <3>1
  <2>. QED  BY <2>1, <2>4
<1>8. CASE fw.quirk = "none" /\ call.step >= 1 /\ ask = "logRead" /\ a.code = Ok
  <2>0. Reading
    BY <1>8 DEF Reading
  <2>1. a \in Fresh /\ a.cmd = "logRead"
    BY <1>1, <1>8, <2>0, TakenIsFresh
  <2>2. PICK b \in Nat, o \in Nat :
          /\ a.val = ChunkAt(b, o) /\ b <= Bytes
          /\ o = At \/ (a.val.next # 0 /\ a.val.next <= At)
          /\ call.step >= 2 => b >= call.arg * SampleSize
    BY <2>1 DEF Fresh, FreshChunk
  <2>3. PICK v : v = ChunkAt(b, o)
    OBVIOUS
  <2>4. /\ v.total = b /\ v.next \in Nat
        /\ v.next # 0 => v.next = o + ChunkMax /\ Cnt(b, o) = ChunkMax
    BY <2>3, ChunkFacts
  <2>5. PICK w \in Nat : w = call.arg * SampleSize
    <3>1. call.arg \in Nat
      BY <2>0, ServicesAssumption DEF ServicesInv, Reading, Asks, Args, Idle
    <3>. QED  BY <3>1, ServicesAssumption
  <2>6. Ordered(air) /\ Bytes' = Bytes
    BY <1>2, <2>0 DEF InCapture, Bytes
  <2>7. CASE call.step = 1 /\ a.val.total >= call.arg * SampleSize /\ CaptureGoes(a, 2, <<>>)
    <3>1. call'.step = 2 /\ call'.arg = call.arg /\ call'.got = <<>> /\ 2 \in Nat
      BY <1>0, <2>7, GoneOn
    <3>2. At' = 0 /\ At = 0
      BY <2>7, <3>1 DEF At
    <3>3. air \in Seq(Fresh')
      BY <1>1, <1>2, <1>8, <2>0, <2>7, <3>1, <3>2, StillFresh
    <3>4. Bytes' >= call'.arg * SampleSize
      BY <1>0, <2>2, <2>3, <2>4, <2>5, <2>6, <2>7, <3>1
    <3>5. Len(call'.got) = 0 /\ \A k \in 1 .. Len(call'.got) : call'.got[k] = [of |-> fw'.capture, at |-> k]
      BY <3>1
    <3>6. InCapture'
      BY <1>2, <2>6, <3>2, <3>3, <3>4, <3>5 DEF InCapture, Ordered, Older
    <3>. QED  BY <1>3, <2>7, <3>1, <3>6
  <2>8. CASE call.step = 1 /\ CaptureGoes(a, 1, <<>>)
    <3>1. call'.step = 1 /\ call'.arg = call.arg /\ call'.got = <<>> /\ 1 \in Nat
      BY <1>0, <2>8, GoneOn
    <3>2. At' = 0 /\ At = 0
      BY <2>8, <3>1 DEF At
    <3>3. air \in Seq(Fresh')
      BY <1>1, <1>2, <1>8, <2>0, <3>1, <3>2, StillFresh
    <3>5. Len(call'.got) = 0 /\ \A k \in 1 .. Len(call'.got) : call'.got[k] = [of |-> fw'.capture, at |-> k]
      BY <3>1
    <3>6. InCapture'
      BY <1>2, <2>6, <3>1, <3>2, <3>3, <3>5 DEF InCapture, Ordered, Older
    <3>. QED  BY <1>3, <2>8, <3>1, <3>6
  <2>9. CASE call.step >= 2 /\ a.val.next = 0 /\ \E end : Finish(end, call.got \o a.val.bytes)
    <3>1. PICK end : Finish(end, call.got \o a.val.bytes)
      BY <2>9
    <3>2. /\ Len(call.got \o a.val.bytes) >= call.arg * SampleSize
          /\ \A k \in 1 .. Len(call.got \o a.val.bytes) :
                (call.got \o a.val.bytes)[k] = [of |-> fw.capture, at |-> k]
      BY <1>1, <1>8, <2>0, <2>9, LastChunk
    <3>3. PICK g : g = call.got \o a.val.bytes
      OBVIOUS
    <3>4. InCapture' /\ result'.op = "capture" /\ result'.arg = call.arg /\ result'.val = g
      BY <1>4, <3>1, <3>3
    <3>5. CaptureIsWhole'
      BY <1>2, <3>2, <3>3, <3>4 DEF CaptureIsWhole, WholeOrNothing
    <3>. QED  BY <3>4, <3>5
  <2>10. CASE /\ call.step >= 2 /\ a.val.next # 0 /\ ~(a.val.next <= call.step - 2)
              /\ CaptureGoes(a, 2 + a.val.next, call.got \o a.val.bytes)
    <3>1. PICK s \in Nat : s = 2 + a.val.next
      BY <2>2, <2>3, <2>4
    <3>2. PICK g : g = call.got \o a.val.bytes
      OBVIOUS
    <3>3. call'.step = s /\ call'.arg = call.arg /\ call'.got = g
      BY <1>0, <2>10, <3>1, <3>2, GoneOn
    <3>4. At = call.step - 2 /\ At \in Nat /\ At' = a.val.next /\ s >= 2 /\ a.val.next > At
      <4>1. At = call.step - 2 /\ At \in Nat
        BY <1>0, <2>10 DEF At
      <4>2. a.val.next \in Nat \ {0}
        BY <2>2, <2>3, <2>4, <2>10
      <4>3. s >= 3 /\ s - 2 = a.val.next
        BY <3>1, <4>2
      <4>4. At' = s - 2
        BY <3>3, <4>3 DEF At
      <4>. QED  BY <2>10, <4>1, <4>2, <4>3, <4>4
    <3>5. o = At /\ a.val.next = At + ChunkMax /\ Cnt(b, o) = ChunkMax
      BY <2>2, <2>3, <2>4, <2>10, <3>4
    <3>6. air \in Seq(Fresh')
      <4>1. At' \in Nat
        BY <2>2, <2>3, <2>4, <3>4
      <4>2. call'.step \in Nat
        BY <3>1, <3>3
      <4>. QED  BY <1>1, <1>2, <1>8, <2>0, <2>10, <3>3, <3>4, <4>1, <4>2, StillFresh
    <3>7. Len(g) = o + Cnt(b, o) /\ \A k \in 1 .. o + Cnt(b, o) : g[k] = [of |-> fw.capture, at |-> k]
      <4>1. PICK f, got, t : f = fw.capture /\ got = call.got /\ t = ChunkAt(b, o).bytes
        OBVIOUS
      <4>2. t \in Seq(Byte)
        <5>1. a.val \in Vals("logRead")
          BY <1>8, <2>1 DEF Messages, Fresh
        <5>. QED  BY <2>2, <4>1, <5>1 DEF Vals, Chunks
      <4>3. g = got \o t
        BY <2>2, <3>2, <4>1
      <4>4. Are(got, f, 0, o)
        BY <1>0, <2>0, <3>5, <4>1 DEF InCapture, Are
      <4>5. Are(got \o t, f, 0, o + Cnt(b, o))
        BY <4>1, <4>2, <4>4, ChunkJoined, Zenon
      <4>6. Are(g, f, 0, o + Cnt(b, o)) /\ Cnt(b, o) \in Nat
        BY <4>3, <4>5, ChunkFacts
      <4>. QED  BY <4>1, <4>6 DEF Are
    <3>8. Bytes' >= call'.arg * SampleSize
      BY <2>0, <2>6, <2>10, <3>3 DEF InCapture
    <3>9. Len(g) = At'
      BY <3>4, <3>5, <3>7
    <3>10. InCapture'
      BY <1>2, <2>6, <3>3, <3>6, <3>7, <3>8, <3>9 DEF InCapture, Ordered, Older
    <3>. QED  BY <1>3, <2>10, <3>1, <3>10
  <2>. QED  BY <1>1, <1>6, <1>8, <2>7, <2>8, <2>9, <2>10, CaptureTakes
<1>. QED
  <2>1. fw.quirk = "none" \/ fw.quirk # "none"
    OBVIOUS
  <2>2. CASE call.step = 0
    BY <1>0, <1>1, <1>5, <1>6, <2>2, CaptureTakes
  <2>3. CASE call.step >= 1 /\ fw.quirk = "none"
    BY <1>1, <1>6, <1>8, <2>3, CaptureTakes
  <2>4. CASE call.step >= 1 /\ fw.quirk # "none"
    BY <1>7, <2>4
  <2>. QED  BY <1>0, <2>1, <2>2, <2>3, <2>4

----------------------------------------------------------------------------
(* The steps.                                                              *)

LEMMA NoCapture ==
  ASSUME call'.op # "capture"
  PROVE  InCapture'
BY DEF InCapture, Reading

LEMMA NoCaptured ==
  ASSUME result'.op # "capture" \/ result'.end # "ok"
  PROVE  CaptureIsWhole'
BY DEF CaptureIsWhole, WholeOrNothing

LEMMA NothingCaptured ==
  ASSUME result' = NoResult
  PROVE  CaptureIsWhole'
BY DEF CaptureIsWhole, WholeOrNothing, NoResult

LEMMA RecordKeepsLog ==
  ASSUME ServicesInv, LogInv, Record
  PROVE  LogInv'
<1>. USE DEF LogInv
<1>0. /\ TypeOK
      /\ air' = air /\ box' = box /\ ask' = ask /\ call' = call /\ result' = result /\ crossed' = crossed
  BY DEF ServicesInv, Record
<1>1. PICK t : t = fw.ticks + 1
  OBVIOUS
<1>2. fw' = [fw EXCEPT !.ticks = t]
  BY <1>1 DEF Record
<1>3. fw'.ticks = t /\ fw'.capture = fw.capture /\ fw'.quirk = fw.quirk
  BY <1>0, <1>2 DEF TypeOK, Firmware
<1>4. fw.ticks \in Nat /\ SampleSize \in Nat /\ Bytes \in Nat
  BY <1>0, BytesType
<1>5. Bytes' = t * SampleSize /\ Bytes = fw.ticks * SampleSize
  BY <1>3 DEF Bytes
<1>6. Bytes' \in Nat /\ Bytes <= Bytes'
  <2>1. t * SampleSize = fw.ticks * SampleSize + SampleSize
    BY <1>1, <1>4
  <2>. QED  BY <1>4, <1>5, <2>1
<1>7. Strays'
  BY <1>0 DEF Strays, OneStart, Others
<1>8. InCapture'
  BY <1>0, <1>3, <1>6, InCaptureStays
<1>9. Unfinished'
  BY <1>0, <1>3 DEF Unfinished, Endless
<1>10. CaptureIsWhole'
  BY <1>0, <1>3 DEF CaptureIsWhole, WholeOrNothing
<1>. QED  BY <1>7, <1>8, <1>9, <1>10

LEMMA DeliverKeepsLog ==
  ASSUME ServicesInv, LogInv, Deliver
  PROVE  LogInv'
<1>. USE DEF LogInv
<1>0. TypeOK /\ crossed' = crossed /\ fw' = fw /\ result' = result
  BY DEF ServicesInv, Deliver
<1>1. Strays'
  BY <1>0, StraysDelivered
<1>2. InCapture'
  BY InCaptureDelivered
<1>3. Unfinished'
  BY <1>0, UnfinishedDelivered
<1>4. CaptureIsWhole'
  BY <1>0 DEF CaptureIsWhole, WholeOrNothing
<1>. QED  BY <1>1, <1>2, <1>3, <1>4

LEMMA CallKeepsLog ==
  ASSUME ServicesInv, LogInv, Call
  PROVE  LogInv'
<1>. DEFINE Begin(op, arg) ==
         IF Invalid(op, arg)
         THEN /\ result' = [op |-> op, arg |-> arg, end |-> "invalid", val |-> 0]
              /\ UNCHANGED <<fw, air, box, ask, call, limits, target, crossed, lost>>
         ELSE /\ call' = [Idle EXCEPT !.op = op, !.arg = arg, !.step = Step(op)]
              /\ result' = NoResult
              /\ crossed' = (op = "capture" /\ OnItsWay("logCtl") /\ OnItsWay("logRead"))
              /\ IF op = "connect"
                 THEN Send(First(op, arg), Flushed) /\ box' = Empty /\ limits' = <<>>
                 ELSE Write(First(op, arg)) /\ UNCHANGED limits
              /\ UNCHANGED target
<1>0. PICK op \in api : \E arg \in Args(op) : Begin(op, arg)
  BY DEF Call
<1>1. PICK arg \in Args(op) : Begin(op, arg)
  BY <1>0
<1>2. op \in Ops /\ call = Idle /\ ask = "none" /\ TypeOK
  BY DEF Call, ServicesInv, TypeOK, Asks
<1>3. CASE Invalid(op, arg)
  <2>1. /\ result' = [op |-> op, arg |-> arg, end |-> "invalid", val |-> 0]
        /\ fw' = fw /\ air' = air /\ box' = box /\ ask' = ask /\ call' = call
    BY <1>1, <1>3
  <2>2. Strays' /\ Unfinished'
    BY <1>2, <2>1, Begun DEF LogInv, Idle, Unfinished, Endless
  <2>3. InCapture'
    BY <1>2, <2>1, NoCapture DEF Idle
  <2>4. CaptureIsWhole'
    BY <2>1, NoCaptured
  <2>. QED  BY <2>2, <2>3, <2>4 DEF LogInv
<1>4. CASE ~Invalid(op, arg)
  <2>1. /\ call' = [Idle EXCEPT !.op = op, !.arg = arg, !.step = Step(op)] /\ result' = NoResult
        /\ crossed' = (op = "capture" /\ OnItsWay("logCtl") /\ OnItsWay("logRead"))
        /\ IF op = "connect"
           THEN Send(First(op, arg), Flushed) /\ box' = Empty
           ELSE Write(First(op, arg))
    BY <1>1, <1>4
  <2>2. call'.op = op /\ call'.step = Step(op)
    BY <2>1 DEF Idle
  <2>3. InCapture'
    BY <2>2 DEF InCapture, Reading, Step
  <2>4. CaptureIsWhole'
    BY <2>1, NothingCaptured
  <2>5. PICK r : r = First(op, arg)
    OBVIOUS
  <2>6. Proper(r)
    BY <1>2, <1>4, <2>5, FirstProper
  <2>7. Unfinished'
    <3>1. CASE op = "connect"
      <4>1. Send(r, <<>>) /\ box' = Empty
        BY <2>1, <2>5, <3>1 DEF Flushed
      <4>. QED  BY <1>2, <2>6, <4>1, UnfinishedSent DEF LogInv
    <3>2. CASE op # "connect"
      <4>1. Send(r, air) /\ box' = Drained(r.cmd)
        BY <2>1, <2>5, <3>2 DEF Write
      <4>. QED  BY <1>2, <2>6, <4>1, UnfinishedSent DEF LogInv
    <3>. QED  BY <3>1, <3>2
  <2>8. Strays'
    <3>1. CASE op # "capture"
      BY <2>2, <3>1, Begun
    <3>2. CASE op = "capture"
      <4>1. r.cmd = "logCtl" /\ Send(r, air) /\ box' = Drained(r.cmd)
        BY <2>1, <2>5, <3>2 DEF Write, First, Request
      <4>2. SUFFICES ASSUME ~crossed'  PROVE air' \in Seq(Others("logRead")) \/ OneStart'
        BY DEF Strays, Others
      <4>3. ~OnItsWay("logCtl") \/ ~OnItsWay("logRead")
        BY <2>1, <3>2, <4>2
      <4>. QED  BY <1>2, <2>6, <4>1, <4>3, StartSent
    <3>. QED  BY <3>1, <3>2
  <2>. QED  BY <2>3, <2>4, <2>7, <2>8 DEF LogInv
<1>. QED  BY <1>3, <1>4

LEMMA ContinueKeepsLog ==
  ASSUME ServicesInv, LogInv, Continue
  PROVE  LogInv'
<1>0. /\ call # Idle /\ ask = "none" /\ Send(Again, air) /\ box' = Drained(Again.cmd)
      /\ call' = call /\ result' = result /\ crossed' = crossed
  BY DEF Continue, Write
<1>1. PICK r : r = Again
  OBVIOUS
<1>2. TypeOK /\ Asks /\ Proper(r)
  BY <1>0, <1>1, AgainProper DEF ServicesInv
<1>3. Strays' /\ Unfinished'
  BY <1>0, <1>1, <1>2, Begun, UnfinishedSent DEF LogInv, Asks
<1>4. CaptureIsWhole'
  BY <1>0, <1>2, NothingCaptured DEF Asks
<1>5. InCapture'
  <2>1. CASE Reading
    BY <2>1, InCaptureAsked DEF LogInv
  <2>2. CASE ~Reading
    <3>1. fw'.quirk = fw.quirk
      BY <1>0, <1>1, <1>2, ServeFacts DEF Send, Served
    <3>. QED  BY <1>0, <2>2, <3>1 DEF InCapture, Reading
  <2>. QED  BY <2>1, <2>2
<1>. QED  BY <1>3, <1>4, <1>5 DEF LogInv

LEMMA TakeKeepsLog ==
  ASSUME ServicesInv, LogInv, Take
  PROVE  LogInv'
<1>0. TypeOK /\ Asks /\ Heard /\ crossed' = crossed /\ call # Idle /\ call \in Calls /\ result = NoResult
  BY MailFacts DEF ServicesInv, Take, TypeOK, Asks
<1>2. Unfinished'
  BY UnfinishedTaken DEF LogInv
<1>3. CASE call.op = "capture"
  <2>1. Strays'
    <3>1. PICK a : a = Head(Mail)
      OBVIOUS
    <3>2. ASSUME NEW s \in Nat, NEW g, CaptureGoes(a, s, g), s # 0  PROVE Strays'
      BY <1>0, <3>2, GoneOn, Begun
    <3>3. ASSUME NEW end, NEW v, Finish(end, v)  PROVE Strays'
      BY <3>3, Begun DEF Finish, Idle
    <3>4. \/ a.val.next \in Nat /\ 2 + a.val.next \in Nat /\ 2 + a.val.next # 0
          \/ ~(ask = "logRead" /\ a.code = Ok)
      <4>1. SUFFICES ASSUME ask = "logRead", a.code = Ok  PROVE a.val.next \in Nat
        OBVIOUS
      <4>2. a \in Messages /\ a.cmd = "logRead"
        BY <1>0, <3>1, <4>1, MailFacts DEF Take, Truthful
      <4>3. a.val \in Vals("logRead")
        BY <4>1, <4>2 DEF Messages
      <4>. QED  BY <4>3 DEF Vals, Chunks
    <3>. QED  BY <1>3, <3>1, <3>2, <3>3, <3>4, CaptureTakes
  <2>2. CASE ~crossed
    BY <1>2, <1>3, <2>1, <2>2, CaptureTaken DEF LogInv
  <2>3. CASE crossed
    BY <1>0, <1>2, <2>1, <2>3 DEF LogInv, InCapture, Reading, CaptureIsWhole
  <2>. QED  BY <2>2, <2>3
<1>4. CASE call.op # "capture"
  <2>1. PICK a : a = Head(Mail)
    OBVIOUS
  <2>2. Ends(a) \/ Goes(a)
    BY <1>0, <2>1, TakeFacts
  <2>3. CASE Ends(a)
    <3>1. call' = Idle /\ result'.op = call.op
      BY <2>3 DEF Ends, Finish
    <3>2. InCapture' /\ CaptureIsWhole'
      BY <1>4, <3>1, NoCapture, NoCaptured DEF Idle
    <3>. QED  BY <1>2, <3>1, <3>2, Begun DEF LogInv, Idle
  <2>4. CASE Goes(a)
    <3>1. PICK s, g : call' = [call EXCEPT !.step = s, !.got = g, !.tries = 0]
      BY <2>4 DEF Goes
    <3>2. call'.op = call.op /\ result' = result
      BY <1>0, <2>4, <3>1 DEF Calls, Goes
    <3>3. InCapture' /\ CaptureIsWhole'
      BY <1>0, <1>4, <3>2, NoCapture, NothingCaptured
    <3>. QED  BY <1>2, <1>4, <3>2, <3>3, Begun DEF LogInv
  <2>. QED  BY <2>2, <2>3, <2>4
<1>. QED  BY <1>3, <1>4

LEMMA TimeoutKeepsLog ==
  ASSUME ServicesInv, LogInv, Timeout
  PROVE  LogInv'
<1>0. /\ TypeOK /\ ask # "none" /\ ask' = "none" /\ fw' = fw /\ air' = air /\ box' = box
      /\ call \in Calls /\ crossed' = crossed
  BY DEF ServicesInv, TypeOK, Timeout
<1>2. Unfinished'
  BY <1>0 DEF LogInv, Unfinished, Endless
<1>3. CASE ask = "logRead" /\ call' = [call EXCEPT !.tries = call.tries + 1] /\ result' = result
  <2>1. call'.op = call.op /\ call'.step = call.step /\ call'.arg = call.arg /\ call'.got = call.got
    BY <1>0, <1>3 DEF Calls
  <2>2. Bytes' = Bytes /\ Bytes \in Nat
    BY <1>0, BytesType DEF Bytes
  <2>3. Bytes' \in Nat /\ Bytes <= Bytes' /\ fw'.capture = fw.capture /\ fw'.quirk = fw.quirk
    BY <1>0, <2>2
  <2>4. InCapture'
    BY <1>0, <2>1, <2>3, InCaptureStays DEF LogInv
  <2>5. CaptureIsWhole'
    BY <1>0, <1>3 DEF LogInv, CaptureIsWhole, WholeOrNothing
  <2>6. Strays'
    BY <1>0, <2>1, Begun, <1>3 DEF ServicesInv, Asks, Asked, First, Request, Idle
  <2>. QED  BY <1>2, <2>4, <2>5, <2>6 DEF LogInv
<1>4. CASE IF Half THEN Finish("ok", call.got) ELSE Finish("timeout", 0)
  <2>1. call' = Idle /\ (result'.op # "capture" \/ result'.end # "ok")
    BY <1>4 DEF Half, Finish
  <2>2. InCapture' /\ CaptureIsWhole'
    BY <2>1, NoCapture, NoCaptured DEF Idle
  <2>3. Strays'
    BY <2>1, Begun DEF Idle
  <2>. QED  BY <1>2, <2>2, <2>3 DEF LogInv
<1>. QED  BY <1>3, <1>4 DEF Timeout

LEMMA StepKeepsLog ==
  ASSUME ServicesInv, LogInv, [Next]_vars
  PROVE  LogInv'
<1>1. CASE UNCHANGED vars
  <2>1. /\ fw' = fw /\ air' = air /\ box' = box /\ ask' = ask /\ call' = call /\ result' = result
        /\ crossed' = crossed
    BY <1>1 DEF vars
  <2>2. Strays' /\ Unfinished' /\ CaptureIsWhole'
    BY <2>1 DEF LogInv, Strays, OneStart, Others, Unfinished, Endless, CaptureIsWhole, WholeOrNothing
  <2>3. Bytes' = Bytes /\ Bytes \in Nat
    BY <2>1, BytesType DEF Bytes, ServicesInv
  <2>4. Bytes' \in Nat /\ Bytes <= Bytes' /\ fw'.capture = fw.capture /\ fw'.quirk = fw.quirk
    BY <2>1, <2>3
  <2>5. InCapture'
    BY <2>1, <2>4, InCaptureStays DEF LogInv
  <2>. QED  BY <2>2, <2>5 DEF LogInv
<1>2. CASE Rest
  BY <1>1, <1>2 DEF Rest
<1>. QED  BY <1>1, <1>2, RecordKeepsLog, DeliverKeepsLog, CallKeepsLog, ContinueKeepsLog,
             TakeKeepsLog, TimeoutKeepsLog DEF Next

LEMMA InitLog == Init => LogInv
<1>1. SUFFICES ASSUME Init  PROVE LogInv
  OBVIOUS
<1>2. air = <<>> /\ box = Empty /\ ask = "none" /\ call = Idle /\ result = NoResult
  BY <1>1 DEF Init
<1>3. \A c \in Cmds : box[c] = <<>>
  BY <1>2 DEF Empty
<1>4. \A S : <<>> \in Seq(S)
  OBVIOUS
<1>5. Strays
  BY <1>2 DEF Strays, Idle
<1>6. Unfinished
  BY <1>2, <1>3, <1>4 DEF Unfinished
<1>7. InCapture /\ CaptureIsWhole
  BY <1>2 DEF InCapture, Reading, Idle, CaptureIsWhole, WholeOrNothing, NoResult
<1>. QED  BY <1>5, <1>6, <1>7 DEF LogInv

\* What capture returns as a success is of the capture it started, from its first byte on without
\* a gap, and no shorter than the ticks asked for -- although a chunk says neither where it starts
\* nor which question it answers, the firmware records on while it is read, reads are repeated, and
\* any number of answers are lost or late (LogReader::fetch).  The one exception is a capture that
\* began with answers to an earlier start and to an earlier read both on their way (crossed).
THEOREM CaptureIsWholeHolds == Spec => []CaptureIsWhole
<1>1. Init => LogInv
  BY InitLog
<1>2. ServicesInv /\ LogInv /\ [Next]_vars => LogInv'
  BY StepKeepsLog
<1>3. LogInv => CaptureIsWhole
  BY DEF LogInv
<1>. QED  BY <1>1, <1>2, <1>3, ServicesHold, PTL DEF Spec
=============================================================================
