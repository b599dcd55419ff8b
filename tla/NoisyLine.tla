------------------------------ MODULE NoisyLine ------------------------------
(***************************************************************************)
(* A frame on its way from pack_frame to unpack_frame (protocol.cpp), over *)
(* a line that turns over some of its bits.  The damage is a burst: bits   *)
(* in a row, in the order in which the checksum takes them, of which the   *)
(* first and the last are turned over and any of those between them.       *)
(***************************************************************************)
EXTENDS Codec

CONSTANTS Samples,       \* frames that are sent: pairs <<command, payload>>
          BurstMax       \* bits of a burst

ASSUME NoiseAssumption ==
    /\ Samples \subseteq Byte \X Seq(Byte) /\ \A s \in Samples : Len(s[2]) <= 255
    /\ BurstMax \in 1 .. 8

VARIABLES sent,      \* the pair that was packed
          frame,     \* its frame
          flips,     \* the bits the line has turned over
          got,       \* what unpack_frame made of it
          phase      \* "idle", "line" or "read"
vars == <<sent, frame, flips, got, phase>>

Init == sent = None /\ frame = None /\ flips = {} /\ got = None /\ phase = "idle"

Write ==
    /\ phase # "line" /\ phase' = "line"
    /\ \E s \in Samples : sent' = s /\ frame' = pack_frame(s[1], s[2])
    /\ flips' = {} /\ got' = None

InARow(bits) == \A m, n \in bits : m - n < BurstMax
Noise ==
    /\ phase = "line"
    /\ \E n \in 0 .. 8 * Len(frame) - 1 : InARow(flips \cup {n}) /\ flips' = flips \cup {n}
    /\ UNCHANGED <<sent, frame, got, phase>>

Read ==
    /\ phase = "line" /\ phase' = "read"
    /\ got' = unpack_frame(Damaged(frame, flips))
    /\ UNCHANGED <<sent, frame, flips>>

Next == Write \/ Noise \/ Read
Spec == Init /\ [][Next]_vars

\* A frame is read as it was packed, and one that a burst has damaged, wherever it hits -- the
\* header, the payload, the checksum or the seam between them -- is not taken for a frame.
BurstsAreSeen == phase = "read" => got = IF flips = {} THEN sent ELSE None

\* decode_status reads each byte of what it takes for a state frame once, and none behind its
\* end; no status bit of the flag word reads as a fault.
StateFrameIsRead == phase = "idle" => AllIsRead
=============================================================================
