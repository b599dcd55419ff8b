----------------------------- MODULE SerialLink -----------------------------
(***************************************************************************)
(* One serial link: the frame reader (framing.cpp) inside the read loop of *)
(* SerialTransport, the writers, and close (transport.cpp).                *)
(*                                                                         *)
(* The bytes the device sends are a sequence chosen at the start.  Nothing *)
(* is ever changed in it, so the reader's buffer is the interval of its    *)
(* positions head .. got - 1, what lies in the driver got .. here - 1, and *)
(* a frame is named by the position of its first byte.  Time is the age of *)
(* the partial frame at the head of the buffer.                            *)
(***************************************************************************)
EXTENDS Integers, Sequences, FiniteSets

CONSTANTS
  Streams,      \* byte sequences the device may send
  SOF,          \* first byte of a frame
  Intact(_),    \* unpack_frame on a byte sequence: the length fits and so does the CRC
  PartialMax,   \* kPartialMaxS
  ChunkMax,     \* kReadChunkMax
  Writers,      \* threads that write frames
  FrameSize     \* bytes of a frame on the downlink

ASSUME LinkAssumption ==
  /\ Streams \subseteq Seq(Nat)
  /\ SOF \in Nat
  /\ PartialMax \in Nat /\ ChunkMax \in Nat \ {0} /\ FrameSize \in Nat \ {0}

VARIABLES
  stream,     \* what the device sends, first byte to last
  here,       \* the first position that has not reached the driver
  got,        \* the first position that has not been read
  head,       \* the first position in the reader's buffer
  age,        \* time since partial_since_, or -1
  out,        \* frames returned, oldest first
  cut,        \* headers dropped by tick
  rpc,        \* the reader thread: outside, in the loop of read_frame, gone
  wpc,        \* the writers: idle, in write_frame, with its outcome
  sent,       \* bytes of its frame a writer has put on the line
  line,       \* the downlink: [who, bytes], oldest first
  closing,    \* close(): not called, closed_ set, descriptor closed
  gone        \* the device has left the bus

readVars  == <<head, age, out, cut>>
writeVars == <<wpc, sent, line>>
vars == <<stream, here, got, readVars, rpc, writeVars, closing, gone>>

Init ==
  /\ stream \in Streams
  /\ here = 1 /\ got = 1 /\ head = 1
  /\ age = -1
  /\ out = <<>> /\ cut = {}
  /\ rpc = "out"
  /\ wpc = [w \in Writers |-> "idle"]
  /\ sent = [w \in Writers |-> 0]
  /\ line = <<>>
  /\ closing = "open" /\ gone = FALSE

----------------------------------------------------------------------------
(* FrameReader: what the byte at the head of the buffer says. *)

Size(i) == 3 + stream[i + 2] + 2
Frame(i) == SubSeq(stream, i, i + Size(i) - 1)

Empty == head = got
AtSof == ~Empty /\ stream[head] = SOF
Partial == AtSof /\ (got - head >= 3 => got - head < Size(head))
Complete == AtSof /\ ~Partial

\* try_assemble, one turn of its loop: noise is noted and dropped, a partial frame stays, a
\* frame is returned, and after a bad CRC only this SOF is dropped: partial_since_ stays.
SkipNoise ==
  /\ ~Empty /\ ~AtSof
  /\ head' = head + 1
  /\ UNCHANGED <<age, out, cut>>

TakeFrame ==
  /\ Complete /\ Intact(Frame(head))
  /\ out' = Append(out, head)
  /\ head' = head + Size(head)
  /\ age' = -1
  /\ UNCHANGED cut

\* Mutant: after a bad CRC all that was read as a frame is dropped.
BadFrame_DropsAll ==
  /\ Complete /\ ~Intact(Frame(head))
  /\ head' = head + Size(head)
  /\ UNCHANGED <<age, out, cut>>

BadFrame ==
  /\ Complete /\ ~Intact(Frame(head))
  /\ head' = head + 1
  /\ UNCHANGED <<age, out, cut>>

\* tick: a partial frame starts to age; one that is too old loses its SOF, and the next turn
\* of the loop looks at what follows.
Expired == AtSof /\ age > PartialMax
\* Mutant: with the header goes all that has been read behind it.
DropHeader_All ==
  /\ Expired
  /\ head' = got
  /\ cut' = cut \cup {head}
  /\ age' = -1
  /\ UNCHANGED out

DropHeader ==
  /\ Expired
  /\ head' = head + 1
  /\ cut' = cut \cup {head}
  /\ age' = IF head + 1 < got /\ stream[head + 1] = SOF THEN 0 ELSE -1
  /\ UNCHANGED out

\* Mutant: every tick starts the window again.
KeepAge_Restarts ==
  /\ ~Expired
  /\ age' = IF AtSof THEN 0 ELSE -1
  /\ UNCHANGED <<head, out, cut>>

KeepAge ==
  /\ ~Expired
  /\ age' = IF ~AtSof THEN -1 ELSE IF age < 0 THEN 0 ELSE age
  /\ UNCHANGED <<head, out, cut>>

----------------------------------------------------------------------------
(* SerialTransport::read_frame, called for ever by the reader thread.  In the loop it holds
   rlock_. *)

ReadLocked == rpc \in {"assemble", "tick", "read"}
others == <<stream, here, writeVars, closing, gone>>

\* The lock, and the check of closed_ under it.
Enter ==
  /\ rpc = "out"
  /\ rpc' = IF closing = "open" THEN "assemble" ELSE "dead"
  /\ UNCHANGED <<got, readVars, others>>

Assemble ==
  /\ rpc = "assemble"
  /\ \/ SkipNoise /\ UNCHANGED rpc
     \/ BadFrame /\ UNCHANGED rpc
     \/ TakeFrame /\ rpc' = "out"
     \/ (Empty \/ Partial) /\ rpc' = "tick" /\ UNCHANGED readVars
  /\ UNCHANGED <<got, others>>

Tick ==
  /\ rpc = "tick"
  /\ \/ DropHeader /\ rpc' = "assemble"
     \/ KeepAge /\ rpc' = "read"
  /\ UNCHANGED <<got, others>>

\* read_chunk: all that has arrived, up to ChunkMax.
WantBytes == IF here - got < ChunkMax THEN here - got ELSE ChunkMax
ReadChunk ==
  /\ rpc = "read" /\ ~gone
  /\ here > got
  /\ got' = got + WantBytes
  /\ rpc' = "assemble"
  /\ UNCHANGED <<readVars, others>>

\* Nothing there: another turn, or the window is over and read_frame returns empty.
ReadNothing ==
  /\ rpc = "read" /\ ~gone
  /\ here = got
  /\ rpc' \in {"assemble", "out"}
  /\ UNCHANGED <<got, readVars, others>>

\* The device is gone: poll or read fails, and the exception ends the thread.
ReadFails ==
  /\ rpc = "read" /\ gone
  /\ rpc' = "dead"
  /\ UNCHANGED <<got, readVars, others>>

Reader == Enter \/ Assemble \/ Tick \/ ReadChunk \/ ReadNothing \/ ReadFails

----------------------------------------------------------------------------
(* SerialTransport::write_frame, under wlock_. *)

WriteLocked == \E w \in Writers : wpc[w] = "writing"

\* Mutant: no wlock_.
BeginWrite_NoLock(w) ==
  /\ wpc[w] = "idle"
  /\ wpc' = [wpc EXCEPT ![w] = IF closing = "open" THEN "writing" ELSE "failed"]
  /\ UNCHANGED <<sent, line, stream, here, got, readVars, rpc, closing, gone>>

BeginWrite(w) ==
  /\ wpc[w] = "idle" /\ ~WriteLocked
  /\ wpc' = [wpc EXCEPT ![w] = IF closing = "open" THEN "writing" ELSE "failed"]
  /\ UNCHANGED <<sent, line, stream, here, got, readVars, rpc, closing, gone>>

\* write() takes part of what is left.
PutBytes(w) ==
  /\ wpc[w] = "writing" /\ ~gone /\ sent[w] < FrameSize
  /\ \E n \in 1..(FrameSize - sent[w]) :
       /\ sent' = [sent EXCEPT ![w] = @ + n]
       /\ line' = IF sent[w] > 0 /\ line[Len(line)].who = w
                  THEN [line EXCEPT ![Len(line)].bytes = @ + n]
                  ELSE Append(line, [who |-> w, bytes |-> n])
  /\ UNCHANGED <<wpc, stream, here, got, readVars, rpc, closing, gone>>

\* The deadline of kWriteTimeoutS, or an error of poll or write, with bytes left.
WriteFails(w) ==
  /\ wpc[w] = "writing" /\ sent[w] < FrameSize
  /\ wpc' = [wpc EXCEPT ![w] = "failed"]
  /\ UNCHANGED <<sent, line, stream, here, got, readVars, rpc, closing, gone>>

\* All bytes are in the driver; a tcdrain that fails is only counted.
EndWrite(w) ==
  /\ wpc[w] = "writing" /\ sent[w] = FrameSize
  /\ wpc' = [wpc EXCEPT ![w] = "done"]
  /\ UNCHANGED <<sent, line, stream, here, got, readVars, rpc, closing, gone>>

Writer(w) == BeginWrite(w) \/ PutBytes(w) \/ WriteFails(w) \/ EndWrite(w)

----------------------------------------------------------------------------
(* close: closed_ is set under both locks, and the descriptor closed after their release. *)

\* Mutant: close takes the writers' lock only.
MarkClosed_NoReadLock ==
  /\ closing = "open" /\ ~WriteLocked
  /\ closing' = "marked"
  /\ UNCHANGED <<stream, here, got, readVars, rpc, writeVars, gone>>

MarkClosed ==
  /\ closing = "open" /\ ~ReadLocked /\ ~WriteLocked
  /\ closing' = "marked"
  /\ UNCHANGED <<stream, here, got, readVars, rpc, writeVars, gone>>

CloseDescriptor ==
  /\ closing = "marked"
  /\ closing' = "closed"
  /\ UNCHANGED <<stream, here, got, readVars, rpc, writeVars, gone>>

(* The device and the clock. *)
Arrive ==
  /\ here <= Len(stream) /\ ~gone
  /\ \E n \in 1..(Len(stream) + 1 - here) : here' = here + n
  /\ UNCHANGED <<stream, got, readVars, rpc, writeVars, closing, gone>>

Elapse ==
  /\ age \in 0..PartialMax
  /\ age' = age + 1
  /\ UNCHANGED <<stream, here, got, head, out, cut, rpc, writeVars, closing, gone>>

Unplug ==
  /\ ~gone
  /\ gone' = TRUE
  /\ UNCHANGED <<stream, here, got, readVars, rpc, writeVars, closing>>

Next ==
  \/ Reader \/ (\E w \in Writers : Writer(w))
  \/ MarkClosed \/ CloseDescriptor \/ Arrive \/ Elapse \/ Unplug

Spec == Init /\ [][Next]_vars
\* The reader thread runs and time passes.
FairSpec == Spec /\ WF_vars(Reader) /\ WF_vars(Elapse)

----------------------------------------------------------------------------
(* Properties *)

Positions == 1..(Len(stream) + 1)

TypeOK ==
  /\ stream \in Streams
  /\ here \in Positions /\ got \in 1..here /\ head \in 1..got
  /\ age \in -1..(PartialMax + 1)
  /\ out \in Seq(Positions) /\ cut \subseteq Positions
  /\ rpc \in {"out", "assemble", "tick", "read", "dead"}
  /\ wpc \in [Writers -> {"idle", "writing", "failed", "done"}]
  /\ sent \in [Writers -> 0..FrameSize]
  /\ line \in Seq([who : Writers, bytes : 1..FrameSize])
  /\ closing \in {"open", "marked", "closed"}
  /\ gone \in BOOLEAN

\* The reference: the frames of a byte sequence, read in one pass from position i.
Whole(i) == i + 2 <= Len(stream) /\ i + Size(i) - 1 <= Len(stream)
Decode[i \in Nat] ==
  IF i > Len(stream) THEN <<>>
  ELSE IF stream[i] # SOF THEN Decode[i + 1]
  ELSE IF ~Whole(i) THEN <<>>
  ELSE IF Intact(Frame(i)) THEN <<i>> \o Decode[i + Size(i)]
  ELSE Decode[i + 1]

\* However the bytes are cut into chunks and whenever they come, as long as no header got too
\* old the frames returned are those of the one-pass reading of the whole stream.
AsIfInOnePass == cut = {} => out \o Decode[head] = Decode[1]

\* A frame that write_frame reports as failed is not whole on the line, and one it returns from
\* is; the bytes of two frames are never mixed.
Bytes(w) == {n \in 1..Len(line) : line[n].who = w}
WritesAreWhole ==
  \A w \in Writers :
    /\ Cardinality(Bytes(w)) <= 1
    /\ wpc[w] = "failed" => \A n \in Bytes(w) : line[n].bytes < FrameSize
    /\ wpc[w] = "done" => \E n \in Bytes(w) : line[n].bytes = FrameSize

\* Nobody is inside read or write when the descriptor is closed: its number may be another
\* file's by then.
NobodyInside == closing # "open" => ~ReadLocked /\ ~WriteLocked

Frames == {i \in 1..Len(stream) : stream[i] = SOF /\ Whole(i) /\ Intact(Frame(i))}

\* Whatever tick drops, only intact frames are returned, in order, and no byte is part of two; and
\* of the frames that the reader has passed none is lost, unless its own header was dropped or it
\* is part of a frame that was returned.
Taken(k) == out[k] .. out[k] + Size(out[k]) - 1
NoFrameIsLost ==
  /\ \A k \in 1..Len(out) : out[k] \in Frames /\ Taken(k) \subseteq 1..head - 1
  /\ \A k, l \in 1..Len(out) : k < l => out[k] + Size(out[k]) <= out[l]
  /\ \A i \in Frames : i < head => i \in cut \/ \E k \in 1..Len(out) : i \in Taken(k)

\* No header, however false, holds up the whole frames behind it for ever.
Waiting == \E i \in Frames : head <= i /\ here >= i + Size(i)
NoLockup == []<>(~Waiting \/ gone \/ closing # "open")
=============================================================================
