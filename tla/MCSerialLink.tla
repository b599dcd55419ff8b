---------------------------- MODULE MCSerialLink ----------------------------
EXTENDS SerialLink, Codec
CONSTANTS w1, w2
MCMinVersion == <<1, 9, 0>>
Status == <<Sof, 1, 0, 193, 169>>
Trap == <<Sof, 2, 2, Sof, 1, 157, 105>>      \* its payload looks like a header
Torn == SubSeq(Trap, 1, 4)
Noise == <<4>>
FalseHeader == <<Sof, 1, 3>>
\* Frames alone, behind noise, behind a header that is false, torn, or inside another frame.
MCStreams == {Noise \o Status \o Status, FalseHeader \o Status, Torn \o Status, Trap \o Status,
              <<Sof>> \o Trap, Torn \o Noise \o Status}
MCIntact(f) == f \in {Status, Trap}
\* They are what pack_frame makes, and of all that can be cut out of the streams unpack_frame takes
\* these two and nothing else.
ASSUME PackedFrames == Status = pack_frame(1, <<>>) /\ Trap = pack_frame(2, <<Sof, 1>>)
ASSUME IntactFrames == \A s \in MCStreams : \A i, j \in 1 .. Len(s) :
    LET f == SubSeq(s, i, j) IN unpack_frame(f) # None <=> MCIntact(f)
MCWriters == {w1, w2}
=============================================================================
