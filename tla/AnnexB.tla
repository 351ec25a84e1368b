------------------------------- MODULE AnnexB -------------------------------
(***************************************************************************)
(* The byte formats of video (internal/avgrabber/convert.go): the Annex-B  *)
(* payload of a frame is split into NAL units and packed again as AVCC,    *)
(* without the parameter sets.  Bytes are numbers below 256; positions     *)
(* count from 1.                                                           *)
(***************************************************************************)
EXTENDS Integers, Sequences, FiniteSetsExt

annexBStartCodeLen(data, i) ==
  IF i + 3 <= Len(data) /\ data[i] = 0 /\ data[i + 1] = 0 /\ data[i + 2] = 0 /\ data[i + 3] = 1 THEN 4
  ELSE IF i + 2 <= Len(data) /\ data[i] = 0 /\ data[i + 1] = 0 /\ data[i + 2] = 1 THEN 3
  ELSE 0

\* The walk over the payload: the unit that begins at start ends before the next
\* start code, or with the payload.
\* splitAnnexB_Short knows the start code of three bytes only.
splitAnnexB_Short(data) ==
  LET n == Len(data)
      from[start \in 1 .. n + 1] ==
        LET codes == {i \in start .. n : annexBStartCodeLen(data, i) = 3} IN
        IF codes = {} THEN IF start <= n THEN <<SubSeq(data, start, n)>> ELSE <<>>
        ELSE LET i == Min(codes) IN
             (IF i > start THEN <<SubSeq(data, start, i - 1)>> ELSE <<>>) \o from[i + 3]
  IN from[1]
splitAnnexB(data) ==
  LET n == Len(data)
      from[start \in 1 .. n + 1] ==
        LET codes == {i \in start .. n : annexBStartCodeLen(data, i) > 0} IN
        IF codes = {} THEN IF start <= n THEN <<SubSeq(data, start, n)>> ELSE <<>>
        ELSE LET i == Min(codes) IN
             (IF i > start THEN <<SubSeq(data, start, i - 1)>> ELSE <<>>)
               \o from[i + annexBStartCodeLen(data, i)]
  IN from[1]

\* The type in a unit's first byte, and the types of parameter sets.
nalType(nal, codec) == IF codec = "h264" THEN nal[1] % 32 ELSE (nal[1] % 128) \div 2
ParamTypes(codec) == IF codec = "h264" THEN {7, 8} ELSE {32, 33, 34}
isParamSetNALU(nal, codec) == Len(nal) > 0 /\ nalType(nal, codec) \in ParamTypes(codec)

\* A unit behind its length in four bytes.
Prefixed(nal) == <<0, 0, 0, Len(nal)>> \o nal

\* The units of nals, except those at the positions in skip, one after the other.
Packed(nals, skip) ==
  LET from[i \in 1 .. Len(nals) + 1] ==
        IF i > Len(nals) THEN <<>>
        ELSE (IF i \in skip THEN <<>> ELSE Prefixed(nals[i])) \o from[i + 1]
  IN from[1]

videoPayloadToAVCC(data, codec) ==
  LET nalus == splitAnnexB(data) IN
  IF nalus = <<>> THEN Prefixed(data)
  ELSE Packed(nalus, {i \in DOMAIN nalus : isParamSetNALU(nalus[i], codec)})
=============================================================================
