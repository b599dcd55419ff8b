---------------------------- MODULE MCNoisyLine ----------------------------
EXTENDS NoisyLine
\* No payload, one byte, and bytes that look like a header.
MCSamples == {<<1, <<>>>>, <<16, <<3>>>>, <<67, <<165, 1, 255>>>>}
\* The known vector of tests/smoke_test.cpp: 0x29B1 for the text 123456789.
ASSUME KnownVector == crc16([i \in 1 .. 9 |-> 48 + i]) = 10673
\* What connect lets in, at the versions GateHolds lists.
ASSUME GateIsNumeric == GateHolds
MCMinVersion == <<1, 9, 0>>
=============================================================================
