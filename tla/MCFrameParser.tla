---------------------------- MODULE MCFrameParser ----------------------------
(* Instances of FrameParser for TLC: bytes of three bits.                  *)
EXTENDS FrameParser, SequencesExt, Bitwise

CONSTANT Drivers, MaxData    \* of this run

XorTable == [a \in Byte, b \in Byte |-> a ^^ b] @@ <<>>
ExclusiveOr(bytes) == FoldLeft(LAMBDA a, b : XorTable[a, b], 0, bytes)

Start == {CMD_STX, 1}
Datas == UNION {[1 .. n -> Start] : n \in 0 .. MaxData}

Parser == "Tarvos" :> TarvosParser @@ "Metis" :> MetisParser @@ "MetisE" :> MetisEParser
          @@ "Thyone" :> ThyoneParser @@ "Proteus" :> ProteusParser

Parsers_MC  == {Parser[d] : d \in Drivers}
Payloads_MC == Datas
=============================================================================
