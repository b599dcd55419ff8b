-------------------------- MODULE SerialLink_proofs --------------------------
(***************************************************************************)
(* What holds of SerialLink for every stream, every set of writers and all *)
(* bounds: close finds nobody inside, the downlink carries frames that are *)
(* whole or cut, never mixed, and the frames read are those of one pass    *)
(* over the stream, however it was cut into chunks.                        *)
(***************************************************************************)
EXTENDS SerialLink, FiniteSetTheorems, SequenceTheorems, WellFoundedInduction, TLAPS

----------------------------------------------------------------------------
(* Nobody is inside when the descriptor goes. *)

WriterPhases == {"idle", "writing", "failed", "done"}

Outside == wpc \in [Writers -> WriterPhases] /\ NobodyInside

\* No step of anybody lets a thread in after closed_ was set, and close sets it under both locks
\* only (read_frame, write_frame, close).
LEMMA OutsideStays == Outside /\ [Next]_vars => Outside'
<1> SUFFICES ASSUME Outside, [Next]_vars PROVE Outside'
  OBVIOUS
<1> USE DEF Outside, NobodyInside, ReadLocked, WriteLocked, WriterPhases, others, readVars, writeVars
<1>1. CASE Reader
  BY <1>1 DEF Reader, Enter, Assemble, Tick, ReadChunk, ReadNothing, ReadFails
<1>2. ASSUME NEW w \in Writers, Writer(w) PROVE Outside'
  <2>1. CASE BeginWrite(w)
    BY <2>1 DEF BeginWrite
  <2>2. CASE PutBytes(w)
    BY <2>2 DEF PutBytes
  <2>3. CASE WriteFails(w) \/ EndWrite(w)
    BY <2>3 DEF WriteFails, EndWrite
  <2>4. QED
    BY <1>2, <2>1, <2>2, <2>3 DEF Writer
<1>3. CASE MarkClosed \/ CloseDescriptor
  BY <1>3 DEF MarkClosed, CloseDescriptor
<1>4. CASE Arrive \/ Elapse \/ Unplug
  BY <1>4 DEF Arrive, Elapse, Unplug
<1>5. CASE UNCHANGED vars
  BY <1>5 DEF vars
<1>6. QED
  BY <1>1, <1>2, <1>3, <1>4, <1>5 DEF Next

\* The descriptor is closed, and its number free for another file, only when no thread is
\* inside read_frame or write_frame (SerialTransport::close).
THEOREM NobodyIsInside == Spec => []NobodyInside
<1>1. Init => Outside
  BY DEF Init, Outside, NobodyInside, WriterPhases
<1>2. Outside => NobodyInside
  BY DEF Outside
<1>3. QED
  BY <1>1, <1>2, OutsideStays, PTL DEF Spec

----------------------------------------------------------------------------
(* The frames on the downlink. *)

Piece == [who : Writers, bytes : 1..FrameSize]
WTyped ==
  /\ wpc \in [Writers -> WriterPhases]
  /\ sent \in [Writers -> 0..FrameSize]
  /\ line \in Seq(Piece)
OneWriter == \A v, w \in Writers : wpc[v] = "writing" /\ wpc[w] = "writing" => v = w
Counted ==
  \A w \in Writers : /\ wpc[w] = "idle" => sent[w] = 0
                     /\ wpc[w] = "failed" => sent[w] < FrameSize
                     /\ wpc[w] = "done" => sent[w] = FrameSize
OneEach == \A m, n \in 1..Len(line) : line[m].who = line[n].who => m = n
AllThere == \A n \in 1..Len(line) : line[n].bytes = sent[line[n].who]
OnLine == \A w \in Writers : sent[w] > 0 => \E n \in 1..Len(line) : line[n].who = w
AtTheEnd == \A w \in Writers : wpc[w] = "writing" /\ sent[w] > 0 => line[Len(line)].who = w

LineInv == /\ WTyped /\ OneWriter /\ Counted
           /\ OneEach /\ AllThere /\ OnLine /\ AtTheEnd

\* A writer's first bytes open a piece of their own at the end of the line (write_frame).
LEMMA FirstBytes ==
  ASSUME LineInv, NEW w \in Writers, PutBytes(w), sent[w] = 0 PROVE LineInv'
<1>1. PICK n \in 1..(FrameSize - sent[w]) : /\ sent' = [sent EXCEPT ![w] = @ + n]
                                            /\ line' = Append(line, [who |-> w, bytes |-> n])
  <2>1. ~(sent[w] > 0)
    OBVIOUS
  <2>2. QED
    BY <2>1, Zenon DEF PutBytes
<1>2. /\ FrameSize \in Nat /\ sent[w] = 0 /\ n \in 1..FrameSize /\ sent'[w] = n
      /\ wpc' = wpc /\ wpc[w] = "writing"
  BY <1>1, LinkAssumption DEF PutBytes, LineInv, WTyped
<1>3. [who |-> w, bytes |-> n] \in Piece
  BY <1>2 DEF Piece
<1>4. /\ line' \in Seq(Piece) /\ Len(line') = Len(line) + 1 /\ Len(line) \in Nat
      /\ line'[Len(line) + 1] = [who |-> w, bytes |-> n]
      /\ \A m \in 1..Len(line) : line'[m] = line[m] /\ line[m] \in Piece
  BY <1>1, <1>3 DEF LineInv, WTyped
<1>5. \A m \in 1..Len(line) : line[m].who # w /\ line[m].who \in Writers /\ line[m].bytes > 0
  <2>1. \A m \in 1..Len(line) : line[m].who \in Writers /\ line[m].bytes \in 1..FrameSize
    BY <1>4 DEF Piece
  <2>2. QED
    BY <2>1, <1>2 DEF LineInv, AllThere
<1>6. \A v \in Writers : v # w => sent'[v] = sent[v] /\ wpc[v] # "writing"
  BY <1>1, <1>2 DEF LineInv, OneWriter, WTyped
<1>7. WTyped'
  BY <1>1, <1>2, <1>4 DEF LineInv, WTyped
<1>8. OneWriter' /\ Counted'
  BY <1>2, <1>6 DEF LineInv, OneWriter, Counted
<1>9. OneEach'
  BY <1>4, <1>5 DEF LineInv, OneEach
<1>10. AllThere'
  BY <1>2, <1>4, <1>5, <1>6 DEF LineInv, AllThere
<1>11. OnLine'
  <2>1. SUFFICES ASSUME NEW v \in Writers, sent'[v] > 0
                 PROVE \E m \in 1..Len(line') : line'[m].who = v
    BY DEF OnLine
  <2>2. CASE v = w
    BY <2>2, <1>4
  <2>3. CASE v # w
    BY <2>1, <2>3, <1>4, <1>6 DEF LineInv, OnLine
  <2>4. QED
    BY <2>2, <2>3
<1>12. AtTheEnd'
  BY <1>2, <1>4, <1>6 DEF AtTheEnd
<1>13. QED
  BY <1>7, <1>8, <1>9, <1>10, <1>11, <1>12 DEF LineInv

\* Its later bytes make that piece longer.
LEMMA MoreBytes ==
  ASSUME LineInv, NEW w \in Writers, PutBytes(w), sent[w] > 0 PROVE LineInv'
<1> DEFINE e == Len(line)
<1>1. /\ e \in Nat /\ e \in 1..e /\ line[e].who = w
      /\ \A m \in 1..e : line[m] \in Piece
      /\ wpc' = wpc /\ wpc[w] = "writing"
  BY DEF PutBytes, LineInv, WTyped, OnLine, AtTheEnd
<1>2. PICK n \in 1..(FrameSize - sent[w]) : /\ sent' = [sent EXCEPT ![w] = @ + n]
                                            /\ line' = [line EXCEPT ![e].bytes = @ + n]
  BY <1>1 DEF PutBytes
<1>3. /\ FrameSize \in Nat /\ sent[w] \in 1..FrameSize /\ sent[w] + n \in 1..FrameSize
      /\ sent'[w] = sent[w] + n /\ line[e].bytes = sent[w]
  <2>1. sent' = [sent EXCEPT ![w] = @ + n]
    BY <1>2
  <2>2. QED
    BY <1>1, <2>1, LinkAssumption DEF LineInv, WTyped, AllThere
<1>4. [line[e] EXCEPT !.bytes = @ + n] = [who |-> w, bytes |-> sent[w] + n]
  BY <1>1, <1>3 DEF Piece
<1>5. line' = [line EXCEPT ![e] = [who |-> w, bytes |-> sent[w] + n]]
  BY <1>2, <1>4
<1>6. [who |-> w, bytes |-> sent[w] + n] \in Piece
  BY <1>3 DEF Piece
<1>7. /\ line' \in Seq(Piece) /\ Len(line') = e
      /\ line'[e] = [who |-> w, bytes |-> sent[w] + n]
      /\ \A m \in 1..e : m # e => line'[m] = line[m]
  BY <1>1, <1>5, <1>6 DEF LineInv, WTyped
<1>8. \A m \in 1..e : line'[m].who = line[m].who /\ line[m].who \in Writers
  BY <1>1, <1>7 DEF Piece
<1>9. \A v \in Writers : v # w => sent'[v] = sent[v] /\ wpc[v] # "writing"
  <2>1. sent' = [sent EXCEPT ![w] = @ + n]
    BY <1>2
  <2>2. QED
    BY <1>1, <2>1 DEF LineInv, OneWriter, WTyped
<1>10. WTyped'
  <2>1. sent' = [sent EXCEPT ![w] = @ + n]
    BY <1>2
  <2>2. QED
    BY <1>1, <1>3, <1>7, <2>1 DEF LineInv, WTyped
<1>11. OneWriter' /\ Counted'
  BY <1>1, <1>9 DEF LineInv, OneWriter, Counted
<1>12. OneEach'
  BY <1>7, <1>8 DEF LineInv, OneEach
<1>13. AllThere'
  <2>1. SUFFICES ASSUME NEW m \in 1..e PROVE line'[m].bytes = sent'[line'[m].who]
    BY <1>7 DEF AllThere
  <2>2. CASE m = e
    BY <2>2, <1>3, <1>7
  <2>3. CASE m # e
    <3>1. line[m].who # w
      BY <2>3, <1>1 DEF LineInv, OneEach
    <3>2. QED
      BY <2>3, <3>1, <1>7, <1>8, <1>9 DEF LineInv, AllThere
  <2>4. QED
    BY <2>2, <2>3
<1>14. OnLine'
  BY <1>1, <1>7, <1>8, <1>9 DEF LineInv, OnLine
<1>15. AtTheEnd'
  BY <1>1, <1>7, <1>8, <1>9 DEF AtTheEnd
<1>16. QED
  BY <1>10, <1>11, <1>12, <1>13, <1>14, <1>15 DEF LineInv

\* The other steps of a writer leave the line as it is.
LEMMA NoBytes ==
  ASSUME LineInv, NEW w \in Writers, BeginWrite(w) \/ WriteFails(w) \/ EndWrite(w) PROVE LineInv'
<1>1. sent' = sent /\ line' = line
  BY DEF BeginWrite, WriteFails, EndWrite, writeVars
<1>2. WTyped'
  BY <1>1 DEF LineInv, WTyped, WriterPhases, BeginWrite, WriteFails, EndWrite
<1>3. OneWriter'
  BY DEF LineInv, WTyped, OneWriter, WriteLocked, BeginWrite, WriteFails, EndWrite
<1>4. Counted' /\ AtTheEnd'
  BY <1>1, LinkAssumption
     DEF LineInv, WTyped, Counted, AtTheEnd, BeginWrite, WriteFails, EndWrite
<1>5. (OneEach /\ AllThere /\ OnLine)'
  BY <1>1 DEF LineInv, OneEach, AllThere, OnLine
<1>6. QED
  BY <1>2, <1>3, <1>4, <1>5 DEF LineInv

LEMMA LineInvStays == LineInv /\ [Next]_vars => LineInv'
<1> SUFFICES ASSUME LineInv, [Next]_vars PROVE LineInv'
  OBVIOUS
<1>1. ASSUME NEW w \in Writers, Writer(w) PROVE LineInv'
  <2>1. CASE PutBytes(w)
    <3>1. sent[w] = 0 \/ sent[w] > 0
      BY DEF LineInv, WTyped
    <3>2. QED
      BY <2>1, <3>1, FirstBytes, MoreBytes
  <2>2. CASE BeginWrite(w) \/ WriteFails(w) \/ EndWrite(w)
    BY <2>2, NoBytes
  <2>3. QED
    BY <1>1, <2>1, <2>2 DEF Writer
<1>2. ASSUME UNCHANGED writeVars PROVE LineInv'
  BY <1>2 DEF writeVars, LineInv, WTyped, OneWriter, Counted, OneEach, AllThere, OnLine, AtTheEnd
<1>3. CASE Reader
  BY <1>2, <1>3 DEF Reader, others, Enter, Assemble, Tick, ReadChunk, ReadNothing, ReadFails
<1>4. CASE MarkClosed \/ CloseDescriptor \/ Arrive \/ Elapse \/ Unplug
  BY <1>2, <1>4 DEF MarkClosed, CloseDescriptor, Arrive, Elapse, Unplug
<1>5. CASE UNCHANGED vars
  BY <1>2, <1>5 DEF vars
<1>6. QED
  BY <1>1, <1>3, <1>4, <1>5 DEF Next

LEMMA LineInvMeans == LineInv => WritesAreWhole
<1> SUFFICES ASSUME LineInv, NEW w \in Writers
             PROVE /\ Cardinality(Bytes(w)) <= 1
                   /\ wpc[w] = "failed" => \A n \in Bytes(w) : line[n].bytes < FrameSize
                   /\ wpc[w] = "done" => \E n \in Bytes(w) : line[n].bytes = FrameSize
  BY DEF WritesAreWhole
<1>1. Cardinality(Bytes(w)) <= 1
  <2>1. CASE Bytes(w) = {}
    BY <2>1, FS_EmptySet
  <2>2. ASSUME NEW n \in Bytes(w) PROVE Cardinality(Bytes(w)) <= 1
    <3>1. Bytes(w) = {n}
      BY DEF Bytes, LineInv, OneEach
    <3>2. Cardinality(Bytes(w)) = 1
      BY <3>1, FS_Singleton, Zenon
    <3>3. QED
      BY <3>2
  <2>3. QED
    BY <2>1, <2>2
<1>2. \A n \in Bytes(w) : line[n].bytes = sent[w]
  BY DEF Bytes, LineInv, AllThere
<1>3. wpc[w] = "done" => Bytes(w) # {}
  BY LinkAssumption DEF Bytes, LineInv, Counted, OnLine
<1>4. QED
  BY <1>1, <1>2, <1>3 DEF LineInv, Counted

\* Whatever the driver takes at a time, wherever a write breaks off and however many threads
\* write: write_frame says of a frame what the line has of it.
THEOREM FramesAreNeverMixed == Spec => []WritesAreWhole
<1>1. Init => LineInv
  BY LinkAssumption
     DEF Init, LineInv, WTyped, WriterPhases, Piece, OneWriter, Counted, OneEach, AllThere,
         OnLine, AtTheEnd
<1>2. QED
  BY <1>1, LineInvStays, LineInvMeans, PTL DEF Spec
----------------------------------------------------------------------------
(* The frames returned are those of one pass over the stream.              *)

\* Every set of numbers has a least one: what an induction over data needs, and no more.
LEMMA LeastOne ==
  ASSUME NEW T, T \subseteq Nat, T # {}
  PROVE  \E x \in T : \A y \in T : x <= y
<1>. DEFINE Below == {p \in Nat \X Nat : p[1] < p[2]}
<1>1. IsWellFoundedOn(Below, Nat)
  BY NatLessThanWellFounded DEF OpToRel
<1>2. \A x, y \in Nat : <<y, x>> \in Below <=> y < x
  OBVIOUS
<1>. HIDE DEF Below
<1>3. PICK x \in T : \A y \in T : ~ (<<y, x>> \in Below)
  BY <1>1, WFMin
<1>4. \A y \in T : ~ (y < x)
  BY <1>2, <1>3
<1>. QED  BY <1>4

\* Induction from the end of something back to its start.
LEMMA BackToZero ==
  ASSUME NEW T, T \subseteq Nat, NEW top \in T, \A n \in Nat : n + 1 \in T => n \in T
  PROVE  0 \in T
<1>1. PICK x \in T : \A y \in T : x <= y
  BY LeastOne
<1>2. CASE x # 0
  <2>1. x - 1 \in Nat /\ (x - 1) + 1 \in T
    BY <1>1, <1>2
  <2>2. x - 1 \in T
    BY <2>1
  <2>. QED  BY <1>1, <2>1, <2>2
<1>. QED  BY <1>1, <1>2

\* One turn of the pass, the rest of it given.
Turn(f, i) ==
  IF i > Len(stream) THEN <<>>
  ELSE IF stream[i] # SOF THEN f[i + 1]
  ELSE IF ~Whole(i) THEN <<>>
  ELSE IF Intact(Frame(i)) THEN <<i>> \o f[i + Size(i)]
  ELSE f[i + 1]

LEMMA SizeIsSome ==
  ASSUME stream \in Seq(Nat), NEW i \in Nat, Whole(i)
  PROVE  Size(i) \in Nat /\ Size(i) >= 5
<1>1. i + 2 \in 1 .. Len(stream)
  BY DEF Whole
<1>2. stream[i + 2] \in Nat
  BY <1>1
<1>. QED  BY <1>2 DEF Size


\* A turn looks only ahead, and gives a sequence of positions when what is ahead is one.
LEMMA TurnLooksAhead ==
  ASSUME stream \in Seq(Nat), NEW f, NEW g, NEW i \in Nat, \A j \in Nat : j > i => f[j] = g[j]
  PROVE  Turn(f, i) = Turn(g, i)
<1>1. Whole(i) => i + Size(i) \in Nat /\ i + Size(i) > i
  BY SizeIsSome
<1>2. f[i + 1] = g[i + 1] /\ (Whole(i) => f[i + Size(i)] = g[i + Size(i)])
  BY <1>1
<1>. QED  BY <1>2 DEF Turn

LEMMA TurnType ==
  ASSUME stream \in Seq(Nat), NEW f, NEW i \in Nat, \A j \in Nat : j > i => f[j] \in Seq(Nat)
  PROVE  Turn(f, i) \in Seq(Nat)
<1>1. Whole(i) => i + Size(i) \in Nat /\ i + Size(i) > i
  BY SizeIsSome
<1>2. f[i + 1] \in Seq(Nat) /\ (Whole(i) => f[i + Size(i)] \in Seq(Nat))
  BY <1>1
<1>3. <<>> \in Seq(Nat) /\ <<i>> \in Seq(Nat)
  OBVIOUS
<1>4. Whole(i) => <<i>> \o f[i + Size(i)] \in Seq(Nat)
  BY <1>2, <1>3, ConcatProperties
<1>. QED  BY <1>2, <1>3, <1>4 DEF Turn

\* A function that is right from some position on exists, from the end of the stream back to the
\* start of it.
LEMMA PassExists ==
  ASSUME stream \in Seq(Nat)
  PROVE  \E f \in [Nat -> Seq(Nat)] : \A i \in Nat : f[i] = Turn(f, i)
<1>. DEFINE RightFrom(f, n) == \A i \in Nat : i >= n => f[i] = Turn(f, i)
            T == {n \in Nat : \E f \in [Nat -> Seq(Nat)] : RightFrom(f, n)}
<1>1. Len(stream) + 1 \in T
  <2>1. PICK f : f = [i \in Nat |-> <<>>]
    OBVIOUS
  <2>2. f \in [Nat -> Seq(Nat)]
    BY <2>1
  <2>3. RightFrom(f, Len(stream) + 1)
    BY <2>1 DEF Turn
  <2>4. Len(stream) + 1 \in Nat
    OBVIOUS
  <2>. HIDE DEF RightFrom
  <2>. QED  BY <2>2, <2>3, <2>4
<1>2. ASSUME NEW n \in Nat, n + 1 \in T  PROVE n \in T
  <2>1. PICK f \in [Nat -> Seq(Nat)] : RightFrom(f, n + 1)
    BY <1>2
  <2>2. PICK t : t = Turn(f, n)
    OBVIOUS
  <2>3. t \in Seq(Nat)
    BY <2>2, TurnType
  <2>4. PICK g : g = [i \in Nat |-> IF i = n THEN t ELSE f[i]]
    OBVIOUS
  <2>5. g \in [Nat -> Seq(Nat)]
    BY <2>3, <2>4
  <2>6. \A i \in Nat : i >= n => Turn(g, i) = Turn(f, i)
    <3>1. SUFFICES ASSUME NEW i \in Nat, i >= n  PROVE Turn(g, i) = Turn(f, i)
      OBVIOUS
    <3>2. \A j \in Nat : j > i => g[j] = f[j]
      BY <2>4, <3>1
    <3>. QED  BY <3>2, TurnLooksAhead
  <2>7. RightFrom(g, n)
    <3>1. SUFFICES ASSUME NEW i \in Nat, i >= n  PROVE g[i] = Turn(g, i)
      OBVIOUS
    <3>2. CASE i = n
      <4>1. Turn(g, i) = Turn(f, i) /\ g[i] = t
        BY <2>4, <2>6, <3>1, <3>2
      <4>. QED  BY <2>2, <3>2, <4>1
    <3>3. CASE i # n
      <4>1. i >= n + 1 /\ g[i] = f[i]
        BY <2>4, <3>1, <3>3
      <4>. QED  BY <2>1, <2>6, <3>1, <4>1
    <3>. QED  BY <3>2, <3>3
  <2>. HIDE DEF RightFrom
  <2>. QED  BY <2>5, <2>7
<1>3. 0 \in T
  <2>1. T \subseteq Nat /\ \A n \in Nat : n + 1 \in T => n \in T
    BY <1>2
  <2>. HIDE DEF T
  <2>. QED  BY <1>1, <2>1, BackToZero
<1>. QED  BY <1>3

\* Decode is what its recursive definition says, and a sequence of positions.
LEMMA DecodeFacts ==
  ASSUME stream \in Seq(Nat)
  PROVE  \A i \in Nat : Decode[i] = Turn(Decode, i) /\ Decode[i] \in Seq(Nat)
<1>1. PICK f \in [Nat -> Seq(Nat)] : \A i \in Nat : f[i] = Turn(f, i)
  BY PassExists
<1>2. f = [i \in Nat |-> Turn(f, i)]
  BY <1>1
<1>3. Decode = CHOOSE d : d = [i \in Nat |-> Turn(d, i)]
  BY DEF Decode, Turn
<1>4. Decode = [i \in Nat |-> Turn(Decode, i)]
  BY <1>2, <1>3
<1>5. \A i \in Nat : Decode[i] = Turn(Decode, i)
  BY <1>4
<1>. DEFINE T == {n \in Nat : \A i \in Nat : i >= n => Decode[i] \in Seq(Nat)}
<1>. HIDE DEF Decode
<1>6. Len(stream) + 1 \in T
  <2>1. \A i \in Nat : i >= Len(stream) + 1 => Turn(Decode, i) = <<>>
    BY DEF Turn
  <2>2. <<>> \in Seq(Nat)
    OBVIOUS
  <2>3. \A i \in Nat : i >= Len(stream) + 1 => Decode[i] \in Seq(Nat)
    BY <1>5, <2>1, <2>2
  <2>4. Len(stream) + 1 \in Nat
    OBVIOUS
  <2>. QED  BY <2>3, <2>4
<1>7. ASSUME NEW n \in Nat, n + 1 \in T  PROVE n \in T
  <2>1. \A j \in Nat : j > n => Decode[j] \in Seq(Nat)
    BY <1>7
  <2>2. Decode[n] \in Seq(Nat)
    BY <1>5, <2>1, TurnType
  <2>. QED  BY <2>1, <2>2
<1>8. 0 \in T
  <2>1. T \subseteq Nat /\ \A n \in Nat : n + 1 \in T => n \in T
    BY <1>7
  <2>. HIDE DEF T
  <2>. QED  BY <1>6, <2>1, BackToZero
<1>. QED  BY <1>5, <1>8

----------------------------------------------------------------------------
PassInv ==
  /\ stream \in Streams
  /\ here \in 1 .. Len(stream) + 1 /\ got \in 1 .. here /\ head \in 1 .. got
  /\ out \in Seq(Nat)
  /\ AsIfInOnePass

\* What the head of the buffer says is what the pass finds there: noise and a bad frame are a step
\* of one byte, a frame is a step of its size.
LEMMA NoiseStep ==
  ASSUME PassInv, ~Empty, ~AtSof
  PROVE  head + 1 <= got /\ Decode[head] = Decode[head + 1]
<1>1. stream \in Seq(Nat)
  BY LinkAssumption DEF PassInv
<1>2. head \in Nat /\ head + 1 <= got /\ head <= Len(stream) /\ stream[head] # SOF
  BY <1>1 DEF PassInv, Empty, AtSof
<1>3. Turn(Decode, head) = Decode[head + 1]
  BY <1>1, <1>2 DEF Turn
<1>. QED  BY <1>1, <1>2, <1>3, DecodeFacts

LEMMA FrameStep ==
  ASSUME PassInv, Complete
  PROVE  /\ Size(head) \in Nat /\ Size(head) >= 5 /\ head + Size(head) <= got
         /\ Intact(Frame(head)) => Decode[head] = <<head>> \o Decode[head + Size(head)]
         /\ ~Intact(Frame(head)) => Decode[head] = Decode[head + 1]
<1>1. stream \in Seq(Nat) /\ Len(stream) \in Nat
  BY LinkAssumption DEF PassInv
<1>2. /\ head \in Nat /\ got \in Nat /\ got <= Len(stream) + 1
      /\ head <= Len(stream) /\ stream[head] = SOF /\ got - head >= 3
  BY <1>1 DEF PassInv, Empty, AtSof, Partial, Complete
<1>3. Size(head) \in Nat /\ Size(head) >= 5
  <2>1. head + 2 \in 1 .. Len(stream)
    BY <1>1, <1>2
  <2>2. stream[head + 2] \in Nat
    BY <1>1, <2>1
  <2>. QED  BY <2>2 DEF Size
<1>4. head + Size(head) <= got
  BY <1>2, <1>3 DEF Partial, Complete
<1>5. Whole(head)
  BY <1>1, <1>2, <1>3, <1>4 DEF Whole
<1>6. /\ Intact(Frame(head)) => Turn(Decode, head) = <<head>> \o Decode[head + Size(head)]
      /\ ~Intact(Frame(head)) => Turn(Decode, head) = Decode[head + 1]
  BY <1>1, <1>2, <1>5 DEF Turn
<1>. QED  BY <1>1, <1>2, <1>3, <1>4, <1>6, DecodeFacts

LEMMA PassInvStays == PassInv /\ [Next]_vars => PassInv'
<1>. SUFFICES ASSUME PassInv, [Next]_vars  PROVE PassInv'
  OBVIOUS
<1>0. /\ stream \in Seq(Nat) /\ stream \in Streams /\ Len(stream) \in Nat
      /\ here \in Nat /\ got \in Nat /\ head \in Nat /\ out \in Seq(Nat)
      /\ 1 <= head /\ head <= got /\ got <= here /\ here <= Len(stream) + 1
  BY LinkAssumption DEF PassInv
<1>1. \A i \in Nat : Decode[i] \in Seq(Nat)
  BY <1>0, DecodeFacts
<1>2. ASSUME stream' = stream  PROVE Decode' = Decode
  BY <1>2 DEF Decode, Whole, Frame, Size
<1>3. ASSUME stream' = stream, UNCHANGED <<head, out, cut>>,
             here' \in Nat, got' \in Nat, head <= got', got' <= here', here' <= Len(stream) + 1
      PROVE  PassInv'
  <2>1. AsIfInOnePass'
    BY <1>2, <1>3 DEF PassInv, AsIfInOnePass
  <2>. QED  BY <1>0, <1>3, <2>1 DEF PassInv
<1>4. ASSUME stream' = stream, UNCHANGED <<here, got>>, head' = head + 1, head + 1 <= got, out' = out,
             cut' = {} => cut = {} /\ Decode[head] = Decode[head + 1]
      PROVE  PassInv'
  <2>1. AsIfInOnePass'
    BY <1>2, <1>4 DEF PassInv, AsIfInOnePass
  <2>. QED  BY <1>0, <1>4, <2>1 DEF PassInv
<1>5. ASSUME TakeFrame, stream' = stream, UNCHANGED <<here, got>>  PROVE PassInv'
  <2>1. /\ Size(head) \in Nat /\ Size(head) >= 5 /\ head + Size(head) <= got
        /\ Decode[head] = <<head>> \o Decode[head + Size(head)]
    BY <1>5, FrameStep DEF TakeFrame
  <2>2. out' = Append(out, head) /\ head' = head + Size(head) /\ cut' = cut
    BY <1>5 DEF TakeFrame
  <2>3. PICK rest : rest = Decode[head + Size(head)]
    OBVIOUS
  <2>4. Append(out, head) \o rest = out \o (<<head>> \o rest)
    <3>1. head + Size(head) \in Nat
      BY <1>0, <2>1
    <3>2. rest \in Seq(Nat) /\ <<head>> \in Seq(Nat)
      BY <1>0, <1>1, <2>3, <3>1
    <3>3. Append(out, head) = out \o <<head>>
      BY <1>0, AppendIsConcat
    <3>. QED  BY <1>0, <3>2, <3>3, ConcatAssociative
  <2>5. AsIfInOnePass'
    BY <1>2, <1>5, <2>1, <2>2, <2>3, <2>4 DEF PassInv, AsIfInOnePass
  <2>6. out' \in Seq(Nat)
    BY <1>0, <2>2
  <2>. QED  BY <1>0, <1>5, <2>1, <2>2, <2>5, <2>6 DEF PassInv
<1>6. CASE Assemble
  <2>1. stream' = stream /\ UNCHANGED <<here, got>>
    BY <1>6 DEF Assemble, others
  <2>2. CASE SkipNoise
    BY <1>4, <2>1, <2>2, NoiseStep DEF SkipNoise
  <2>3. CASE BadFrame
    <3>1. Size(head) >= 5 /\ Size(head) \in Nat /\ head + Size(head) <= got /\ Decode[head] = Decode[head + 1]
      BY <2>3, FrameStep DEF BadFrame
    <3>2. head + 1 <= got
      BY <1>0, <3>1
    <3>. QED  BY <1>4, <2>1, <2>3, <3>1, <3>2 DEF BadFrame
  <2>4. CASE TakeFrame
    BY <1>5, <2>1, <2>4
  <2>5. CASE UNCHANGED readVars
    BY <1>0, <1>3, <2>1, <2>5 DEF readVars
  <2>. QED  BY <1>6, <2>2, <2>3, <2>4, <2>5 DEF Assemble
<1>7. CASE Tick
  <2>1. stream' = stream /\ UNCHANGED <<here, got>>
    BY <1>7 DEF Tick, others
  <2>2. CASE DropHeader
    <3>1. head' = head + 1 /\ cut' = cut \cup {head} /\ out' = out /\ ~Empty
      BY <2>2 DEF DropHeader, Expired, AtSof
    <3>2. head + 1 <= got
      BY <1>0, <3>1 DEF Empty
    <3>3. cut' # {}
      BY <3>1
    <3>. QED  BY <1>4, <2>1, <3>1, <3>2, <3>3
  <2>3. CASE KeepAge
    BY <1>0, <1>3, <2>1, <2>3 DEF KeepAge
  <2>. QED  BY <1>7, <2>2, <2>3 DEF Tick
<1>8. CASE ReadChunk
  <2>1. stream' = stream /\ here' = here /\ UNCHANGED <<head, out, cut>> /\ got' = got + WantBytes
        /\ here > got
    BY <1>8 DEF ReadChunk, others, readVars
  <2>2. WantBytes \in Nat /\ WantBytes <= here - got
    BY <1>0, <2>1, LinkAssumption DEF WantBytes
  <2>3. got' \in Nat /\ head <= got' /\ got' <= here'
    BY <1>0, <2>1, <2>2
  <2>. QED  BY <1>0, <1>3, <2>1, <2>3
<1>9. CASE Arrive
  <2>1. PICK n \in 1 .. (Len(stream) + 1 - here) : here' = here + n
    BY <1>9 DEF Arrive
  <2>2. here' \in Nat /\ got <= here' /\ here' <= Len(stream) + 1
    BY <1>0, <2>1
  <2>3. stream' = stream /\ got' = got /\ UNCHANGED <<head, out, cut>>
    BY <1>9 DEF Arrive, readVars
  <2>. QED  BY <1>0, <1>3, <2>2, <2>3
<1>10. CASE Enter \/ ReadNothing \/ ReadFails \/ MarkClosed \/ CloseDescriptor \/ Elapse \/ Unplug
  <2>1. UNCHANGED <<stream, here, got, head, out, cut>>
    BY <1>10 DEF Enter, ReadNothing, ReadFails, MarkClosed, CloseDescriptor, Elapse, Unplug, others, readVars
  <2>. QED  BY <1>0, <1>3, <2>1
<1>11. ASSUME NEW w \in Writers, Writer(w)  PROVE PassInv'
  <2>1. UNCHANGED <<stream, here, got, head, out, cut>>
    BY <1>11 DEF Writer, BeginWrite, PutBytes, WriteFails, EndWrite, readVars
  <2>. QED  BY <1>0, <1>3, <2>1
<1>12. CASE UNCHANGED vars
  <2>1. UNCHANGED <<stream, here, got, head, out, cut>>
    BY <1>12 DEF vars, readVars
  <2>. QED  BY <1>0, <1>3, <2>1
<1>. QED  BY <1>6, <1>7, <1>8, <1>9, <1>10, <1>11, <1>12 DEF Next, Reader

LEMMA PassInvHolds == Spec => []PassInv
<1>1. Init => PassInv
  <2>1. SUFFICES ASSUME Init  PROVE PassInv
    OBVIOUS
  <2>2. stream \in Seq(Nat) /\ stream \in Streams /\ here = 1 /\ got = 1 /\ head = 1 /\ out = <<>>
    BY <2>1, LinkAssumption DEF Init
  <2>3. Decode[1] \in Seq(Nat)
    BY <2>2, DecodeFacts
  <2>4. out \o Decode[head] = Decode[1]
    BY <2>2, <2>3
  <2>. QED  BY <2>2, <2>4 DEF PassInv, AsIfInOnePass
<1>. QED  BY <1>1, PassInvStays, PTL DEF Spec

\* However the bytes are cut into chunks and whenever they come, and whatever is noise, torn or
\* damaged among them: the frames read_frame returned, and those a single pass over the rest finds,
\* are those of a single pass over the whole stream, as long as tick dropped no header.
THEOREM AsIfInOnePassHolds == Spec => []AsIfInOnePass
<1>1. PassInv => AsIfInOnePass
  BY DEF PassInv
<1>. QED  BY <1>1, PassInvHolds, PTL

----------------------------------------------------------------------------
(* No frame is lost.                                                       *)

\* A turn that leaves the frames returned alone loses none if the byte it passes, when it passes one,
\* is not the first of a frame, or its header is noted as dropped.
LEMMA NothingReturned ==
  ASSUME PassInv, NoFrameIsLost, stream' = stream, out' = out, cut \subseteq cut',
         \/ head' = head
         \/ head' = head + 1 /\ (head \in Frames => head \in cut')
  PROVE  NoFrameIsLost'
<1>1. Frames' = Frames /\ \A i : Size(i)' = Size(i)
  BY DEF Frames, Whole, Frame, Size
<1>2. \A k : Taken(k)' = Taken(k)
  BY <1>1 DEF Taken
<1>3. /\ \A k \in 1..Len(out) : out[k] \in Frames /\ Taken(k) \subseteq 1..head - 1
      /\ \A k, l \in 1..Len(out) : k < l => out[k] + Size(out[k]) <= out[l]
      /\ \A i \in Frames : i < head => i \in cut \/ \E k \in 1..Len(out) : i \in Taken(k)
  BY DEF NoFrameIsLost
<1>4. head \in Nat /\ head' \in Nat /\ head <= head'
  BY LinkAssumption DEF PassInv
<1>5. \A k \in 1..Len(out) : out[k] \in Frames /\ Taken(k) \subseteq 1..head' - 1
  BY <1>3, <1>4
<1>6. \A i \in Frames : i < head' => i \in cut' \/ \E k \in 1..Len(out) : i \in Taken(k)
  <2>1. SUFFICES ASSUME NEW i \in Frames, i < head'
                 PROVE i \in cut' \/ \E k \in 1..Len(out) : i \in Taken(k)
    OBVIOUS
  <2>2. CASE i < head
    BY <1>3, <2>2
  <2>3. CASE ~ (i < head)
    <3>1. i \in Int
      BY DEF Frames
    <3>2. i = head /\ head' = head + 1
      BY <1>4, <2>1, <2>3, <3>1
    <3>. QED  BY <3>2
  <2>. QED  BY <2>2, <2>3
<1>7. NoFrameIsLost' <=>
        /\ \A k \in 1..Len(out) : out[k] \in Frames /\ Taken(k) \subseteq 1..head' - 1
        /\ \A k, l \in 1..Len(out) : k < l => out[k] + Size(out[k]) <= out[l]
        /\ \A i \in Frames : i < head' => i \in cut' \/ \E k \in 1..Len(out) : i \in Taken(k)
  BY <1>1, <1>2 DEF NoFrameIsLost
<1>. QED  BY <1>3, <1>5, <1>6, <1>7

\* A frame that is returned is intact, begins behind the last one, and takes with it only what
\* is part of it.
LEMMA OneMoreReturned ==
  ASSUME PassInv, NoFrameIsLost, TakeFrame, stream' = stream
  PROVE  NoFrameIsLost'
<1>0. /\ stream \in Seq(Nat) /\ Len(stream) \in Nat /\ head \in Nat /\ head >= 1
      /\ got <= Len(stream) + 1 /\ got \in Nat /\ out \in Seq(Nat)
  BY LinkAssumption DEF PassInv
<1>1. Frames' = Frames /\ \A i : Size(i)' = Size(i)
  BY DEF Frames, Whole, Frame, Size
<1>2. PICK z \in Nat : z = Size(head) /\ z >= 5 /\ head + z <= got
  BY FrameStep DEF TakeFrame
<1>3. out' = Append(out, head) /\ head' = head + z /\ cut' = cut /\ Intact(Frame(head)) /\ Complete
  BY <1>2 DEF TakeFrame
<1>4. head \in Frames
  <2>1. stream[head] = SOF
    BY <1>3 DEF Complete, AtSof
  <2>2. head \in 1..Len(stream) /\ head + 2 <= Len(stream) /\ head + z - 1 <= Len(stream)
    BY <1>0, <1>2
  <2>. QED  BY <1>2, <1>3, <2>1, <2>2 DEF Frames, Whole
<1>5. PICK n \in Nat : n = Len(out)
  BY <1>0
<1>6. /\ Len(out') = n + 1 /\ out'[n + 1] = head
      /\ \A k \in 1..n : out'[k] = out[k]
  BY <1>0, <1>3, <1>5
<1>7. /\ \A k \in 1..n : out[k] \in Frames /\ Taken(k) \subseteq 1..head - 1
      /\ \A k, l \in 1..n : k < l => out[k] + Size(out[k]) <= out[l]
      /\ \A i \in Frames : i < head => i \in cut \/ \E k \in 1..n : i \in Taken(k)
  BY <1>5 DEF NoFrameIsLost
<1>8. /\ \A k \in 1..n : Taken(k)' = Taken(k)
      /\ Taken(n + 1)' = head .. head + z - 1
  BY <1>1, <1>2, <1>6 DEF Taken
<1>9. \A k \in 1..n : out[k] + Size(out[k]) <= head
  <2>1. SUFFICES ASSUME NEW k \in 1..n  PROVE out[k] + Size(out[k]) <= head
    OBVIOUS
  <2>2. out[k] \in Frames /\ Taken(k) \subseteq 1..head - 1
    BY <1>7
  <2>3. PICK x \in Nat, y \in Nat : x = out[k] /\ y = Size(out[k]) /\ y >= 5
    <3>1. out[k] \in Nat /\ Whole(out[k])
      BY <2>2 DEF Frames
    <3>. QED  BY <1>0, <3>1, SizeIsSome
  <2>4. x + y - 1 \in x .. x + y - 1
    BY <2>3
  <2>5. x + y - 1 \in 1..head - 1
    BY <2>2, <2>3, <2>4 DEF Taken
  <2>. QED  BY <1>0, <2>3, <2>5
<1>10. \A k \in 1..n + 1 : out'[k] \in Frames /\ Taken(k)' \subseteq 1..head' - 1
  <2>1. SUFFICES ASSUME NEW k \in 1..n + 1
                 PROVE out'[k] \in Frames /\ Taken(k)' \subseteq 1..head' - 1
    OBVIOUS
  <2>2. CASE k = n + 1
    <3>1. out'[k] \in Frames
      BY <1>4, <1>6, <2>2, Zenon
    <3>2. Taken(k)' = head .. head + z - 1
      BY <1>8, <2>2, Zenon
    <3>3. head .. head + z - 1 \subseteq 1..head' - 1
      <4>1. head' - 1 = head + z - 1
        BY <1>0, <1>2, <1>3
      <4>2. head .. head + z - 1 \subseteq 1..head + z - 1
        BY <1>0
      <4>. QED  BY <4>1, <4>2
    <3>. QED  BY <3>1, <3>2, <3>3
  <2>3. CASE k \in 1..n
    <3>1. 1..head - 1 \subseteq 1..head' - 1
      BY <1>0, <1>2, <1>3
    <3>. QED  BY <1>6, <1>7, <1>8, <2>3, <3>1
  <2>. QED  BY <2>2, <2>3
<1>11. \A k, l \in 1..n + 1 : k < l => out'[k] + Size(out'[k]) <= out'[l]
  <2>1. SUFFICES ASSUME NEW k \in 1..n + 1, NEW l \in 1..n + 1, k < l
                 PROVE out'[k] + Size(out'[k]) <= out'[l]
    OBVIOUS
  <2>2. k \in 1..n /\ out'[k] = out[k]
    BY <1>6, <2>1
  <2>3. CASE l = n + 1
    BY <1>6, <1>9, <2>2, <2>3
  <2>4. CASE l # n + 1
    <3>1. l \in 1..n
      BY <2>4
    <3>. QED  BY <1>6, <1>7, <2>1, <2>2, <3>1
  <2>. QED  BY <2>3, <2>4
<1>12. \A i \in Frames : i < head' => i \in cut' \/ \E k \in 1..n + 1 : i \in Taken(k)'
  <2>1. SUFFICES ASSUME NEW i \in Frames, i < head'
                 PROVE i \in cut' \/ \E k \in 1..n + 1 : i \in Taken(k)'
    OBVIOUS
  <2>2. i \in Int
    BY DEF Frames
  <2>3. CASE i < head
    <3>1. i \in cut \/ \E k \in 1..n : i \in Taken(k)'
      BY <1>7, <1>8, <2>3
    <3>2. 1..n \subseteq 1..n + 1
      OBVIOUS
    <3>. QED  BY <1>3, <3>1, <3>2
  <2>4. CASE ~ (i < head)
    <3>1. i \in head .. head + z - 1
      BY <1>0, <1>3, <2>1, <2>2, <2>4
    <3>2. n + 1 \in 1..n + 1
      OBVIOUS
    <3>. QED  BY <1>8, <3>1, <3>2
  <2>. QED  BY <2>3, <2>4
<1>13. NoFrameIsLost' <=>
         /\ \A k \in 1..n + 1 : out'[k] \in Frames /\ Taken(k)' \subseteq 1..head' - 1
         /\ \A k, l \in 1..n + 1 : k < l => out'[k] + Size(out'[k]) <= out'[l]
         /\ \A i \in Frames : i < head' => i \in cut' \/ \E k \in 1..n + 1 : i \in Taken(k)'
  BY <1>1, <1>6 DEF NoFrameIsLost
<1>. QED  BY <1>10, <1>11, <1>12, <1>13

LEMMA NoFrameIsLostStays == PassInv /\ NoFrameIsLost /\ [Next]_vars => NoFrameIsLost'
<1>. SUFFICES ASSUME PassInv, NoFrameIsLost, [Next]_vars  PROVE NoFrameIsLost'
  OBVIOUS
<1>1. ASSUME stream' = stream, UNCHANGED <<head, out, cut>>  PROVE NoFrameIsLost'
  BY <1>1, NothingReturned
<1>2. CASE Assemble
  <2>1. stream' = stream
    BY <1>2 DEF Assemble, others
  <2>2. CASE SkipNoise
    <3>1. head' = head + 1 /\ UNCHANGED <<out, cut>> /\ head \notin Frames
      BY <2>2 DEF SkipNoise, AtSof, Frames
    <3>. QED  BY <2>1, <3>1, NothingReturned
  <2>3. CASE BadFrame
    <3>1. head' = head + 1 /\ UNCHANGED <<out, cut>> /\ head \notin Frames
      BY <2>3 DEF BadFrame, Frames
    <3>. QED  BY <2>1, <3>1, NothingReturned
  <2>4. CASE TakeFrame
    BY <2>1, <2>4, OneMoreReturned
  <2>5. CASE UNCHANGED readVars
    BY <1>1, <2>1, <2>5 DEF readVars
  <2>. QED  BY <1>2, <2>2, <2>3, <2>4, <2>5 DEF Assemble
<1>3. CASE Tick
  <2>1. stream' = stream
    BY <1>3 DEF Tick, others
  <2>2. CASE DropHeader
    <3>1. head' = head + 1 /\ cut' = cut \cup {head} /\ out' = out
      BY <2>2 DEF DropHeader
    <3>2. head \in cut' /\ cut \subseteq cut'
      BY <3>1
    <3>. QED  BY <2>1, <3>1, <3>2, NothingReturned
  <2>3. CASE KeepAge
    BY <1>1, <2>1, <2>3 DEF KeepAge
  <2>. QED  BY <1>3, <2>2, <2>3 DEF Tick
<1>4. CASE Enter \/ ReadChunk \/ ReadNothing \/ ReadFails \/ MarkClosed \/ CloseDescriptor
           \/ Arrive \/ Elapse \/ Unplug
  <2>1. UNCHANGED <<stream, head, out, cut>>
    BY <1>4 DEF Enter, ReadChunk, ReadNothing, ReadFails, MarkClosed, CloseDescriptor, Arrive,
                Elapse, Unplug, others, readVars
  <2>. QED  BY <1>1, <2>1
<1>5. ASSUME NEW w \in Writers, Writer(w)  PROVE NoFrameIsLost'
  <2>1. UNCHANGED <<stream, head, out, cut>>
    BY <1>5 DEF Writer, BeginWrite, PutBytes, WriteFails, EndWrite, readVars
  <2>. QED  BY <1>1, <2>1
<1>6. CASE UNCHANGED vars
  <2>1. UNCHANGED <<stream, head, out, cut>>
    BY <1>6 DEF vars, readVars
  <2>. QED  BY <1>1, <2>1
<1>. QED  BY <1>2, <1>3, <1>4, <1>5, <1>6 DEF Next, Reader

\* For every stream, every cut into chunks and all delays, tick included: read_frame returns
\* intact frames only, in order and without a byte in common, and passes no other one but what tick
\* dropped the header of, or what is the inside of one it returned.
THEOREM NoFrameIsLostHolds == Spec => []NoFrameIsLost
<1>1. Init => NoFrameIsLost
  <2>1. SUFFICES ASSUME Init  PROVE NoFrameIsLost
    OBVIOUS
  <2>2. head = 1 /\ out = <<>>
    BY <2>1 DEF Init
  <2>3. \A i \in Frames : ~ (i < head)
    BY <2>2 DEF Frames
  <2>. QED  BY <2>2, <2>3 DEF NoFrameIsLost
<1>2. Spec => []PassInv
  BY PassInvHolds
<1>. QED  BY <1>1, <1>2, NoFrameIsLostStays, PTL DEF Spec
=============================================================================
