------------------------------- MODULE Codec -------------------------------
(***************************************************************************)
(* The bytes of a frame and of a state frame and the firmware's version    *)
(* text (protocol.cpp), as pure functions with real byte values.  A byte   *)
(* is a number, a text a sequence of one-character strings; no number in a *)
(* text has more than nine digits.                                         *)
(***************************************************************************)
EXTENDS Integers, Sequences, FiniteSets, SequencesExt

CONSTANT MinVersion     \* min_firmware_: <<major, minor, patch>>

Byte == 0 .. 255

ASSUME CodecAssumption == MinVersion \in Nat \X Nat \X Nat

Sof == 165
None == <<>>      \* std::nullopt, or an exception

----------------------------------------------------------------------------
(* Frames. *)

Bit(x, k) == (x \div 2^k) % 2
ByteOf(b) == b[0] + 2 * b[1] + 4 * b[2] + 8 * b[3] + 16 * b[4] + 32 * b[5] + 64 * b[6] + 128 * b[7]

\* Bit n of a sequence of bytes, from 0, the highest of a byte first.
BitAt(bytes, n) == Bit(bytes[1 + n \div 8], 7 - (n % 8))

\* crc16_ccitt_false: the register is shifted once for each bit, and what falls out of it, the bit
\* added, is added at the places of 0x1021.  (The code adds all bits of a byte before it shifts
\* the first of them out; none of them is looked at, or changed, before its turn.)
Taps == {0, 5, 12}
Feed(reg, bit) ==
    LET out == (reg[15] + bit) % 2
        shifted == [k \in 0 .. 15 |-> IF k = 0 THEN 0 ELSE reg[k - 1]]
    IN [k \in 0 .. 15 |-> IF k \in Taps THEN (shifted[k] + out) % 2 ELSE shifted[k]]
Registers(bytes) ==
    LET reg[n \in 0 .. 8 * Len(bytes)] == IF n = 0 THEN [k \in 0 .. 15 |-> 1]
                                          ELSE Feed(reg[n - 1], BitAt(bytes, n - 1))
    IN reg
crc16(bytes) ==
    LET crc == Registers(bytes)[8 * Len(bytes)]
    IN ByteOf(crc) + 256 * ByteOf([k \in 0 .. 7 |-> crc[8 + k]])

pack_frame(cmd, payload) ==
    LET body == <<Sof, cmd, Len(payload)>> \o payload
        crc == crc16(body)
    IN IF Len(payload) > 255 THEN None ELSE body \o <<crc % 256, crc \div 256>>

\* Mutant: the header is not covered by the check.
Covered_Payload(f) == SubSeq(f, 4, 3 + f[3])
Covered(f) == SubSeq(f, 1, 3 + f[3])

unpack_frame(f) ==
    IF Len(f) < 5 \/ f[1] # Sof THEN None
    ELSE IF Len(f) # f[3] + 5 THEN None
    ELSE IF crc16(Covered(f)) # f[4 + f[3]] + 256 * f[5 + f[3]] THEN None
    ELSE <<f[2], SubSeq(f, 4, 3 + f[3])>>

\* The frame with the bits of flips turned over; a bit is named as in BitAt.
Damaged(f, flips) ==
    [i \in 1 .. Len(f) |->
        ByteOf([k \in 0 .. 7 |-> IF 8 * (i - 1) + 7 - k \in flips THEN 1 - Bit(f[i], k)
                                 ELSE Bit(f[i], k)])]

----------------------------------------------------------------------------
(* The state frame: which lengths are one, and which bytes are read as what. *)

Joints(len) == (len - 4) \div 21
Rest(len) == len - 4 - 21 * Joints(len)

\* Mutant: what is left behind the joints is not looked at.
RestFits_Any(len) == TRUE
RestFits(len) == Rest(len) \in {0, 2}

\* decode_status: the fields it reads, as <<offset, width>>: flags and seq, five floats and the
\* error byte of each joint, and in the new layout joint_fault.
JointFields(off) == {<<off + 4 * k, 4>> : k \in 0 .. 4} \cup {<<off + 20, 1>>}
decode_status(len) ==
    IF len < 4 \/ Joints(len) # 7 \/ ~RestFits(len) THEN None
    ELSE <<{<<0, 2>>, <<2, 2>>} \cup (UNION {JointFields(4 + 21 * i) : i \in 0 .. Joints(len) - 1})
           \cup IF Rest(len) = 2 THEN {<<len - 2, 2>>} ELSE {}>>

\* RobotState: the fault names, the mode and the two status bits of the flag word.
flag_names(flags) == {k \in 0 .. 5 : Bit(flags, k) = 1}
mode(flags) == (flags \div 64) % 8
enabled(flags) == Bit(flags, 9) = 1
cart_busy(flags) == Bit(flags, 10) = 1

----------------------------------------------------------------------------
(* The version text of the firmware, behind its prefix. *)

Digits == <<"0", "1", "2", "3", "4", "5", "6", "7", "8", "9">>
IsDigit(c) == \E d \in 1 .. 10 : Digits[d] = c
Value(c) == (CHOOSE d \in 1 .. 10 : Digits[d] = c) - 1
Number(s) == FoldLeft(LAMBDA n, c : 10 * n + Value(c), 0, s)

\* The position of the first c in s, or the one behind its end.
Find(s, c) == CHOOSE i \in 1 .. Len(s) + 1 : /\ i = Len(s) + 1 \/ s[i] = c
                                             /\ \A j \in 1 .. i - 1 : s[j] # c
Split(s) == FoldLeft(LAMBDA parts, c :
                        IF c = "." THEN Append(parts, <<>>)
                        ELSE [parts EXCEPT ![Len(parts)] = Append(@, c)], <<<<>>>>, s)

\* parse_firmware_version: everything up to the first dash, in three parts, all of digits.
parse_version(text) ==
    LET dash == Find(text, "-")
        parts == Split(SubSeq(text, 1, dash - 1))
    IN IF Len(parts) # 3 THEN None
       ELSE IF \E p \in 1 .. 3 : parts[p] = <<>> \/ \E i \in 1 .. Len(parts[p]) : ~IsDigit(parts[p][i])
       THEN None
       ELSE <<[nums |-> [p \in 1 .. 3 |-> Number(parts[p])],
               variant |-> SubSeq(text, dash + 1, Len(text))]>>

\* FirmwareVersion::operator<.
Older(a, b) == IF a[1] # b[1] THEN a[1] < b[1]
               ELSE IF a[2] # b[2] THEN a[2] < b[2] ELSE a[3] < b[3]

\* connect: what is let in.
Vetted(text) ==
    LET v == parse_version(text)
    IN v # None /\ ~Older(v[1].nums, MinVersion) /\ v[1].variant = <<"7", "J">>

----------------------------------------------------------------------------
(* Properties of these functions. *)

\* Of every payload that is taken for a state frame each byte is read, once and by one field, and
\* none behind its end; and the flag word is what its names, mode and bits say, so that no
\* status bit reads as a fault.
ReadOnce(len) ==
    \A b \in 0 .. 255 :
        Cardinality({f \in decode_status(len)[1] : f[1] <= b /\ b < f[1] + f[2]})
          = IF b < len THEN 1 ELSE 0
Reading(flags) ==
    LET named(k) == IF k \in flag_names(flags) THEN 2^k ELSE 0
    IN named(0) + named(1) + named(2) + named(3) + named(4) + named(5) + 64 * mode(flags)
       + (IF enabled(flags) THEN 512 ELSE 0) + (IF cart_busy(flags) THEN 1024 ELSE 0)
AllIsRead ==
    /\ \A len \in 0 .. 255 : decode_status(len) # None => ReadOnce(len)
    /\ \A flags \in 0 .. 2^11 - 1 : Reading(flags) = flags

\* A text is let in exactly when it is three numbers at least as great, compared as one number
\* each and not as text, and a 7J: 1.10.0 comes after 1.9.0.
Worth(n) == 10000 * n[1] + 100 * n[2] + n[3]
GateHolds ==
    \A major, minor, patch \in {"0", "1", "9"}, ten \in BOOLEAN, variant \in {"7J", "1J", ""} :
        LET m == IF ten THEN <<"1", minor>> ELSE <<minor>>
            tail == CASE variant = "7J" -> <<"-", "7", "J">>
                      [] variant = "1J" -> <<"-", "1", "J">>
                      [] OTHER -> <<>>
        IN Vetted(<<major, ".">> \o m \o <<".", patch>> \o tail)
           <=> /\ variant = "7J"
               /\ Worth(<<Number(<<major>>), Number(m), Number(<<patch>>)>>) >= Worth(MinVersion)
=============================================================================
