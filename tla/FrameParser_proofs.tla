-------------------------- MODULE FrameParser_proofs --------------------------
(***************************************************************************)
(* The parsers handle what the module sends, for every size of a byte,     *)
(* every checksum and every set of frames that fit.                        *)
(***************************************************************************)
EXTENDS FrameParser, SequenceTheorems, TLAPS

(* The checksum is a byte; the frames of the module fit every parser: its  *)
(* buffer, its count, the index of its loop and the length field.          *)
FramesFit ==
    /\ \A bytes \in Seq(Byte) : Checksum(bytes) \in Byte
    /\ \A p \in Parsers, data \in Payloads :
         LET n == p.header + Len(data) + 1
         IN  /\ n <= p.capacity /\ n < p.counts /\ n <= p.indices
             /\ Len(data) < (IF p.header = 3 THEN Base ELSE Base * Base)

(* What the parser relies on in a frame.                                   *)
IsFrame(f) ==
    /\ f \in Seq(Byte)
    /\ Len(f) >= Overhead
    /\ f[1] = CMD_STX
    /\ Len(f) = Overhead + f[3] + (IF parser.header = 3 THEN 0 ELSE f[4] * Base)
    /\ f[Len(f)] = Checksum(SubSeq(f, 1, Len(f) - 1))
    /\ Len(f) <= parser.capacity /\ Len(f) < parser.counts /\ Len(f) <= parser.indices

-----------------------------------------------------------------------------
(* Bytes, parsers and frames.                                              *)
LEMMA Bytes ==
    /\ Base \in Nat /\ Base > 2 /\ Byte \subseteq Nat /\ CMD_STX \in Byte
    /\ Noises \subseteq Byte /\ Commands \subseteq Byte /\ Payloads \subseteq Seq(Byte)
  BY FrameAssumption DEF Byte, CMD_STX

LEMMA ParserFacts ==
    ASSUME NEW p \in Parsers
    PROVE  /\ p.header \in {3, 4} /\ p.capacity \in Nat /\ p.counts \in Nat \ {0}
           /\ p.indices \in Nat /\ p.cleared \in BOOLEAN /\ p.restarts \in BOOLEAN
  BY FrameAssumption DEF ParserType

(* A number is its two digits.                                             *)
LEMMA Digits ==
    ASSUME NEW n \in Nat, NEW b \in Nat, b > 2
    PROVE  /\ n % b \in 0 .. b - 1 /\ n \div b \in Nat
           /\ (n % b) + (n \div b) * b = n
           /\ n < b * b => n \div b \in 0 .. b - 1
<1>1. n % b \in 0 .. b - 1 /\ n \div b \in Nat /\ (n % b) + (n \div b) * b = n
  BY SMT
<1>2. ASSUME n < b * b PROVE n \div b \in 0 .. b - 1
  <2> DEFINE d == n \div b
  <2>1. d \in Nat /\ d * b <= n
    BY <1>1
  <2> HIDE DEF d
  <2>2. d < b
    BY <2>1, <1>2, SMT
  <2> QED
    BY <2>1, <2>2 DEF d
<1> QED
  BY <1>1, <1>2

LEMMA LengthFieldIs ==
    ASSUME FramesFit, parser \in Parsers, NEW data \in Payloads
    PROVE  /\ Len(data) \in Nat
           /\ LengthField(Len(data)) \in Seq(Byte)
           /\ Len(LengthField(Len(data))) = parser.header - 2
           /\ parser.header = 3 => LengthField(Len(data))[1] = Len(data)
           /\ parser.header = 4 =>
                LengthField(Len(data))[1] + LengthField(Len(data))[2] * Base = Len(data)
<1> DEFINE n == Len(data)
<1>1. n \in Nat
  BY Bytes
<1>2. n < (IF parser.header = 3 THEN Base ELSE Base * Base)
  BY DEF FramesFit
<1> HIDE DEF n
<1>3. CASE parser.header = 3
  <2>1. LengthField(n) = <<n>>
    BY <1>3 DEF LengthField
  <2>2. n \in Byte
    BY <1>1, <1>2, <1>3, Bytes DEF Byte
  <2> QED
    BY <2>1, <2>2, <1>1, <1>3 DEF n
<1>4. CASE parser.header = 4
  <2>1. LengthField(n) = <<n % Base, n \div Base>>
    BY <1>4 DEF LengthField
  <2>2. n % Base \in Byte /\ n \div Base \in Byte /\ (n % Base) + (n \div Base) * Base = n
    <3>1. n < Base * Base
      BY <1>2, <1>4
    <3>2. /\ n % Base \in 0 .. Base - 1 /\ n \div Base \in 0 .. Base - 1
          /\ (n % Base) + (n \div Base) * Base = n
      BY <3>1, <1>1, Bytes, Digits
    <3> QED
      BY <3>2 DEF Byte
  <2> QED
    BY <2>1, <2>2, <1>1, <1>4 DEF n
<1> QED
  BY <1>3, <1>4, ParserFacts

LEMMA BodyIs ==
    ASSUME FramesFit, parser \in Parsers, NEW cmd \in Commands, NEW data \in Payloads
    PROVE  /\ Body(cmd, data) \in Seq(Byte)
           /\ Len(Body(cmd, data)) = parser.header + Len(data)
           /\ Body(cmd, data)[1] = CMD_STX
           /\ \A i \in 1 .. parser.header - 2 :
                Body(cmd, data)[2 + i] = LengthField(Len(data))[i]
<1> DEFINE field == LengthField(Len(data))
           start == <<CMD_STX, cmd>>
<1>1. field \in Seq(Byte) /\ Len(field) = parser.header - 2 /\ data \in Seq(Byte)
  BY LengthFieldIs, Bytes
<1>2. start \in Seq(Byte) /\ Len(start) = 2 /\ start[1] = CMD_STX
  BY Bytes
<1>3. Body(cmd, data) = (start \o field) \o data
  BY DEF Body
<1>4. parser.header \in {3, 4} /\ Len(data) \in Nat
  BY ParserFacts, LengthFieldIs
<1> HIDE DEF field, start
<1>5. /\ start \o field \in Seq(Byte) /\ Len(start \o field) = parser.header
      /\ (start \o field)[1] = CMD_STX
      /\ \A i \in 1 .. parser.header - 2 : (start \o field)[2 + i] = field[i]
  <2> DEFINE both == start \o field
  <2>1. /\ both \in Seq(Byte) /\ Len(both) = Len(start) + Len(field)
        /\ \A i \in 1 .. Len(start) : both[i] = start[i]
        /\ \A i \in 1 .. Len(field) : both[Len(start) + i] = field[i]
    <3>1. start \in Seq(Byte) /\ field \in Seq(Byte)
      BY <1>1, <1>2
    <3>2. /\ start \o field \in Seq(Byte)
          /\ Len(start \o field) = Len(start) + Len(field)
      BY <3>1
    <3>3. \A i \in 1 .. Len(start) : (start \o field)[i] = start[i]
      BY <3>1
    <3>4. \A i \in 1 .. Len(field) : (start \o field)[Len(start) + i] = field[i]
      <4>1. Len(start) \in Nat /\ Len(field) \in Nat
        BY <3>1
      <4> QED
        BY <3>1, <4>1
    <3> QED
      BY <3>2, <3>3, <3>4
  <2> HIDE DEF both
  <2>2. both[1] = CMD_STX
    BY <2>1, <1>2
  <2>3. Len(both) = parser.header
    BY <2>1, <1>1, <1>2, <1>4
  <2>4. \A i \in 1 .. parser.header - 2 : both[2 + i] = field[i]
    BY <2>1, <1>1, <1>2
  <2> QED
    BY <2>1, <2>2, <2>3, <2>4 DEF both
<1> DEFINE head == start \o field
<1> HIDE DEF head
<1>6. /\ head \o data \in Seq(Byte) /\ Len(head \o data) = parser.header + Len(data)
      /\ \A i \in 1 .. parser.header : (head \o data)[i] = head[i]
  BY <1>1, <1>4, <1>5 DEF head
<1> QED
  BY <1>3, <1>4, <1>5, <1>6 DEF head, field

(* What the module sends is a frame.                                       *)
LEMMA FrameIs ==
    ASSUME FramesFit, parser \in Parsers, NEW cmd \in Commands, NEW data \in Payloads
    PROVE  IsFrame(Frame(cmd, data))
<1> DEFINE body == Body(cmd, data)
           f == Append(body, Checksum(body))
<1>1. /\ body \in Seq(Byte) /\ Len(body) = parser.header + Len(data) /\ body[1] = CMD_STX
      /\ \A i \in 1 .. parser.header - 2 : body[2 + i] = LengthField(Len(data))[i]
  BY BodyIs
<1>2. Checksum(body) \in Byte
  BY <1>1 DEF FramesFit
<1>3. parser.header \in {3, 4} /\ Len(data) \in Nat
  BY ParserFacts, LengthFieldIs
<1> HIDE DEF body
<1>4. /\ f \in Seq(Byte) /\ Len(f) = Len(body) + 1 /\ f[Len(f)] = Checksum(body)
      /\ \A i \in 1 .. Len(body) : f[i] = body[i]
  BY <1>1, <1>2, <1>3
<1>5. SubSeq(f, 1, Len(f) - 1) = body
  BY <1>1, <1>2, <1>3, <1>4
<1>6. /\ Len(f) <= parser.capacity /\ Len(f) < parser.counts /\ Len(f) <= parser.indices
  BY <1>1, <1>3, <1>4 DEF FramesFit
<1> HIDE DEF f
<1>7. Len(f) = Overhead + f[3] + (IF parser.header = 3 THEN 0 ELSE f[4] * Base)
  <2>1. CASE parser.header = 3
    <3>1. f[3] = Len(data)
      BY <2>1, <1>1, <1>3, <1>4, LengthFieldIs
    <3> QED
      BY <2>1, <3>1, <1>1, <1>3, <1>4 DEF Overhead
  <2>2. CASE parser.header = 4
    <3>1. f[3] = LengthField(Len(data))[1] /\ f[4] = LengthField(Len(data))[2]
      BY <2>2, <1>1, <1>3, <1>4
    <3>2. f[3] + f[4] * Base = Len(data) /\ f[3] \in Nat /\ f[4] \in Nat
      <4>1. f[3] + f[4] * Base = Len(data)
        BY <2>2, <3>1, LengthFieldIs
      <4>2. f[3] \in Byte /\ f[4] \in Byte
        BY <2>2, <1>1, <1>3, <1>4
      <4> QED
        BY <4>1, <4>2, Bytes
    <3>3. f[4] * Base \in Nat
      BY <3>2, Bytes
    <3> QED
      BY <2>2, <3>2, <3>3, <1>1, <1>3, <1>4 DEF Overhead
  <2> QED
    BY <2>1, <2>2, <1>3
<1>8. f[1] = CMD_STX /\ Len(f) >= Overhead
  <2>1. Len(body) >= parser.header /\ Len(body) \in Nat /\ 1 \in 1 .. Len(body)
    BY <1>1, <1>3
  <2>2. f[1] = CMD_STX
    BY <2>1, <1>1, <1>4
  <2>3. Len(f) >= Overhead
    BY <2>1, <1>3, <1>4 DEF Overhead
  <2> QED
    BY <2>2, <2>3
<1> QED
  BY <1>4, <1>5, <1>6, <1>7, <1>8 DEF IsFrame, Frame, f, body

-----------------------------------------------------------------------------
(* Types.                                                                  *)
USE DEF Phases

LEMMA StoredTyped ==
    ASSUME TypeOK, NEW b \in Byte
    PROVE  Stored(b) \in Seq(Byte)
<1>1. rxBuffer \in Seq(Byte)
  BY DEF TypeOK
<1>2. Append(rxBuffer, b) \in Seq(Byte)
  BY <1>1
<1>3. <<>> \in Seq(Byte)
  OBVIOUS
<1> QED
  BY <1>2, <1>3 DEF Stored

LEMMA NarrowTyped ==
    ASSUME NEW n \in Int, parser \in Parsers
    PROVE  Narrow(n) \in 0 .. parser.counts - 1
<1>1. parser.counts \in Nat \ {0}
  BY ParserFacts
<1> DEFINE c == parser.counts
<1> HIDE DEF c
<1>2. n % c \in 0 .. c - 1
  BY <1>1 DEF c
<1> QED
  BY <1>2 DEF Narrow, c

LEMMA ParserTyped ==
    ASSUME TypeOK, NEW b \in Byte, HandleRxByte(b)
    PROVE  /\ rxByteCounter' \in Nat /\ rxBuffer' \in Seq(Byte)
           /\ bytesToReceive' \in 0 .. parser.counts - 1
           /\ stuck' \in BOOLEAN /\ handled' \in Seq(Seq(Byte))
<1>1. /\ rxByteCounter \in Nat /\ rxBuffer \in Seq(Byte)
      /\ bytesToReceive \in 0 .. parser.counts - 1
      /\ stuck \in BOOLEAN /\ handled \in Seq(Seq(Byte)) /\ parser \in Parsers
  BY DEF TypeOK
<1>2. parser.counts \in Nat \ {0} /\ parser.header \in {3, 4}
  BY <1>1, ParserFacts
<1>3. 0 \in 0 .. parser.counts - 1
  BY <1>2
<1>4. Stored(b) \in Seq(Byte)
  BY StoredTyped
<1>5. <<b>> \in Seq(Byte) /\ <<CMD_STX>> \in Seq(Byte) /\ <<>> \in Seq(Byte)
  BY Bytes
<1>6. Append(handled, Stored(b)) \in Seq(Seq(Byte))
  BY <1>1, <1>4
<1>7. CASE AwaitStart(b)
  <2>1. CASE b = CMD_STX
    <3>1. /\ rxByteCounter' = 1 /\ rxBuffer' = <<b>> /\ bytesToReceive' = 0
          /\ stuck' = stuck /\ handled' = handled
      BY <2>1, <1>7 DEF AwaitStart
    <3> QED
      BY <3>1, <1>1, <1>3, <1>5
  <2>2. CASE b # CMD_STX
    BY <2>2, <1>7, <1>1 DEF AwaitStart
  <2> QED
    BY <2>1, <2>2
<1>8. CASE TakeCommand(b)
  BY <1>8, <1>1, <1>4 DEF TakeCommand
<1>9. CASE TakeLength(b)
  <2> DEFINE step == IF rxByteCounter = 2 THEN b ELSE b * Base
             rest == IF rxByteCounter = parser.header - 1 THEN Overhead ELSE 0
  <2>1. b \in Nat /\ Base \in Nat
    BY Bytes
  <2>2. b * Base \in Nat
    BY <2>1
  <2>3. step \in Int /\ rest \in Int
    BY <2>1, <2>2, <1>2 DEF Overhead
  <2> HIDE DEF step, rest
  <2>4. bytesToReceive + step + rest \in Int
    BY <2>3, <1>1, <1>2
  <2>5. Narrow(bytesToReceive + step + rest) \in 0 .. parser.counts - 1
    BY <2>4, <1>1, NarrowTyped
  <2>6. bytesToReceive' = Narrow(bytesToReceive + step + rest)
    BY <1>9 DEF TakeLength, step, rest
  <2> QED
    BY <2>5, <2>6, <1>9, <1>1, <1>4 DEF TakeLength
<1>10. CASE TakeData(b)
  BY <1>10, <1>1, <1>4 DEF TakeData
<1>11. CASE TakeLast(b)
  <2>1. CASE bytesToReceive > parser.indices
    BY <2>1, <1>11, <1>1 DEF TakeLast, received
  <2>2. CASE ~(bytesToReceive > parser.indices)
    <3>1. handled' = Append(handled, Stored(b)) \/ handled' = handled
      BY <2>2, <1>11 DEF TakeLast
    <3>2. /\ rxByteCounter' = 0 /\ rxBuffer' = <<>> /\ bytesToReceive' = 0
          /\ stuck' = stuck
      BY <2>2, <1>11 DEF TakeLast
    <3> QED
      BY <3>1, <3>2, <1>1, <1>3, <1>5, <1>6
  <2> QED
    BY <2>1, <2>2
<1>12. CASE StartAgain(b)
  BY <1>12, <1>1, <1>3, <1>5 DEF StartAgain
<1> QED
  BY <1>7, <1>8, <1>9, <1>10, <1>11, <1>12 DEF HandleRxByte

LEMMA InitTyped == Init => TypeOK
<1> SUFFICES ASSUME Init PROVE TypeOK
  OBVIOUS
<1>1. parser \in Parsers
  BY DEF Init
<1>2. 0 \in 0 .. parser.counts - 1
  BY <1>1, ParserFacts
<1>3. <<>> \in Seq(Byte) /\ <<>> \in Seq(Seq(Byte))
  OBVIOUS
<1> QED
  BY <1>1, <1>2, <1>3 DEF Init, TypeOK

(* What clears the parser, or does not.                                    *)
LEMMA ClearTyped ==
    ASSUME TypeOK, ClearReceiveBuffers
    PROVE  /\ rxByteCounter' \in Nat /\ rxBuffer' \in Seq(Byte)
           /\ bytesToReceive' \in 0 .. parser.counts - 1
<1>1. 0 \in 0 .. parser.counts - 1 /\ <<>> \in Seq(Byte)
  BY ParserFacts DEF TypeOK
<1>2. CASE parser.cleared
  <2>1. rxByteCounter' = 0 /\ bytesToReceive' = 0 /\ rxBuffer' = <<>>
    BY <1>2 DEF ClearReceiveBuffers
  <2> QED
    BY <2>1, <1>1
<1>3. CASE ~parser.cleared
  BY <1>3 DEF ClearReceiveBuffers, TypeOK, received
<1> QED
  BY <1>2, <1>3

LEMMA StepTyped ==
    ASSUME FramesFit, TypeOK, [Next]_vars
    PROVE  TypeOK'
<1> USE DEF TypeOK
<1>1. <<>> \in Seq(Byte) /\ <<>> \in Seq(Seq(Byte))
  OBVIOUS
<1>2. CASE UNCHANGED vars
  BY <1>2 DEF vars, received
<1>3. ASSUME sending # <<>> PROVE Head(sending) \in Byte /\ Tail(sending) \in Seq(Byte)
  BY <1>3
<1>4. CASE Receive
  <2>1. HandleRxByte(Head(sending)) /\ Head(sending) \in Byte /\ sending' \in Seq(Byte)
    BY <1>3, <1>4 DEF Receive
  <2>2. /\ rxByteCounter' \in Nat /\ rxBuffer' \in Seq(Byte)
        /\ bytesToReceive' \in 0 .. parser.counts - 1
        /\ stuck' \in BOOLEAN /\ handled' \in Seq(Seq(Byte))
    BY <2>1, ParserTyped
  <2> QED
    BY <2>1, <2>2, <1>4 DEF Receive
<1>5. CASE Miss
  BY <1>3, <1>5 DEF Miss, received
<1>6. CASE Spoil
  <2>1. sending' \in Seq(Byte)
    <3>1. Tail(sending) \in Seq(Byte)
      BY <1>3, <1>6 DEF Spoil
    <3>2. ASSUME NEW b \in Noises PROVE <<b>> \o Tail(sending) \in Seq(Byte)
      <4>1. <<b>> \in Seq(Byte)
        BY Bytes
      <4> QED
        BY <3>1, <4>1
    <3> QED
      BY <3>1, <3>2, <1>6 DEF Spoil
  <2>2. /\ noise' \in Nat /\ clean' = FALSE /\ current' = <<>> /\ handled' = <<>>
    BY <1>6 DEF Spoil
  <2>3. /\ UNCHANGED <<parser, stuck, phase, resets>>
        /\ UNCHANGED <<rxByteCounter, bytesToReceive, rxBuffer>>
    BY <1>6 DEF Spoil, received
  <2> QED
    BY <2>1, <2>2, <2>3, <1>1
<1>7. ASSUME NEW cmd \in Commands, NEW data \in Payloads, Send(cmd, data)
      PROVE  TypeOK'
  <2>1. Frame(cmd, data) \in Seq(Byte)
    BY FrameIs DEF IsFrame
  <2> QED
    BY <2>1, <1>1, <1>7 DEF Send, received
<1>8. CASE LowerReset
  <2>1. sending' \in Seq(Byte)
    <3>1. ASSUME NEW n \in 0 .. Len(sending) PROVE SubSeq(sending, 1, n) \in Seq(Byte)
      BY <3>1
    <3> QED
      BY <3>1, <1>8 DEF LowerReset
  <2> QED
    BY <2>1, <1>1, <1>8 DEF LowerReset, Cut, received
<1>9. CASE RaiseReset
  <2>1. clean' \in BOOLEAN
    BY <1>9, ParserFacts DEF RaiseReset
  <2> QED
    BY <2>1, <1>1, <1>9, ClearTyped DEF RaiseReset
<1>10. CASE Clear
  BY <1>1, <1>10, ClearTyped DEF Clear, Cut
<1>11. CASE Close
  BY <1>1, <1>11 DEF Close, Cut, received
<1>12. CASE Open
  BY <1>1, <1>12 DEF Open, Cut, received
<1> QED
  BY <1>2, <1>4, <1>5, <1>6, <1>7, <1>8, <1>9, <1>10, <1>11, <1>12 DEF Next, ModuleSends, Main

(* The state stays what the parser's variables can hold; the count stays   *)
(* below what its type has room for (ProteusIII.c:248-253, Metis.c:149).   *)
THEOREM TypeCorrect == ASSUME FramesFit PROVE Spec => []TypeOK
<1>1. Init => TypeOK
  BY InitTyped
<1>2. TypeOK /\ [Next]_vars => TypeOK'
  BY StepTyped
<1> QED
  BY <1>1, <1>2, PTL DEF Spec

-----------------------------------------------------------------------------
(* How much of the frame begun last is behind.                             *)
Behind == Len(current) - Len(sending)

(* What is still to come is the rest of the frame begun last.              *)
Coming ==
    /\ Behind \in 0 .. Len(current)
    /\ \A i \in 1 .. Len(sending) : sending[i] = current[Behind + i]

(* The parser has n bytes of the frame, and counts to its length once it   *)
(* has read it.                                                            *)
Has(n) ==
    /\ rxByteCounter = n
    /\ n > 0 => /\ Len(rxBuffer) = n
                /\ \A i \in 1 .. n : rxBuffer[i] = current[i]
                /\ bytesToReceive = IF n < 3 THEN 0
                                    ELSE IF n < parser.header THEN current[3]
                                    ELSE Len(current)

(* The parser has what is behind, and no more than the module has sent     *)
(* has been handled; a closed UART receives nothing.                       *)
Following ==
    /\ rxByteCounter = 0 \/ (phase # "closed" /\ sending # <<>>)
    /\ phase # "closed" => /\ sending # <<>> => Has(Behind)
                           /\ handled = IF sending = <<>> THEN <<current>> ELSE <<>>

(* While nothing was cut or spoilt the parser follows the module.          *)
InStep ==
    clean => \/ current = <<>> /\ sending = <<>> /\ rxByteCounter = 0
             \/ current # <<>> /\ IsFrame(current) /\ Coming /\ Following

IInv == TypeOK /\ InStep

(* The next byte to come, and what remains.                                *)
LEMMA NextByte ==
    ASSUME TypeOK, Coming, sending # <<>>, sending' = Tail(sending), current' = current
    PROVE  /\ Behind \in 0 .. Len(current) - 1
           /\ Head(sending) = current[Behind + 1] /\ Head(sending) \in Byte
           /\ Behind' = Behind + 1
           /\ Coming'
           /\ sending' = <<>> <=> Behind + 1 = Len(current)
<1>1. sending \in Seq(Byte) /\ current \in Seq(Byte)
  BY DEF TypeOK
<1>2. Len(sending) \in Nat \ {0} /\ Len(current) \in Nat
  BY <1>1, EmptySeq
<1>3. /\ Head(sending) \in Byte /\ Tail(sending) \in Seq(Byte)
      /\ Len(Tail(sending)) = Len(sending) - 1
      /\ \A i \in 1 .. Len(Tail(sending)) : Tail(sending)[i] = sending[i + 1]
  BY <1>1, HeadTailProperties
<1>4. Head(sending) = sending[1]
  BY <1>1
<1>5. Behind \in 0 .. Len(current) - 1
  BY <1>2 DEF Coming, Behind
<1>6. Head(sending) = current[Behind + 1]
  BY <1>2, <1>4 DEF Coming
<1>7. Behind' = Behind + 1
  BY <1>2, <1>3 DEF Behind
<1>8. \A i \in 1 .. Len(sending') : sending'[i] = current[Behind + 1 + i]
  <2> SUFFICES ASSUME NEW i \in 1 .. Len(sending')
               PROVE  sending'[i] = current[Behind + 1 + i]
    OBVIOUS
  <2>1. i \in 1 .. Len(Tail(sending)) /\ i + 1 \in 1 .. Len(sending)
    BY <1>2, <1>3
  <2>2. sending'[i] = sending[i + 1]
    BY <2>1, <1>3
  <2>3. sending[i + 1] = current[Behind + (i + 1)]
    BY <2>1 DEF Coming
  <2>4. Behind + (i + 1) = Behind + 1 + i
    BY <2>1, <1>5, <1>2
  <2> QED
    BY <2>2, <2>3, <2>4
<1>9. Coming'
  BY <1>2, <1>5, <1>7, <1>8 DEF Coming
<1>10. sending' = <<>> <=> Behind + 1 = Len(current)
  <2>1. sending' = <<>> <=> Len(sending') = 0
    BY <1>3, EmptySeq
  <2>2. Len(sending') = Len(sending) - 1
    BY <1>3
  <2> QED
    BY <2>1, <2>2, <1>2 DEF Behind
<1> QED
  BY <1>3, <1>5, <1>6, <1>7, <1>9, <1>10

(* A buffer that has n bytes of the frame, and the next.                   *)
LEMMA OneMore ==
    ASSUME NEW f \in Seq(Byte), NEW bytes \in Seq(Byte), NEW n \in 0 .. Len(f) - 1,
           Len(bytes) = n, \A i \in 1 .. n : bytes[i] = f[i]
    PROVE  /\ Append(bytes, f[n + 1]) \in Seq(Byte)
           /\ Len(Append(bytes, f[n + 1])) = n + 1
           /\ \A i \in 1 .. n + 1 : Append(bytes, f[n + 1])[i] = f[i]
<1>1. Len(f) \in Nat /\ n + 1 \in 1 .. Len(f)
  OBVIOUS
<1>2. f[n + 1] \in Byte
  BY <1>1
<1>3. /\ Append(bytes, f[n + 1]) \in Seq(Byte)
      /\ Len(Append(bytes, f[n + 1])) = n + 1
  BY <1>2
<1>4. \A i \in 1 .. n + 1 : Append(bytes, f[n + 1])[i] = f[i]
  BY <1>1, <1>2
<1> QED
  BY <1>3, <1>4

(* The numbers of a frame.                                                 *)
LEMMA FrameNumbers ==
    ASSUME TypeOK, IsFrame(current)
    PROVE  /\ Len(current) \in Nat /\ Overhead = parser.header + 1
           /\ parser.header \in {3, 4} /\ Len(current) >= Overhead
           /\ current[1] = CMD_STX /\ current[3] \in Nat
           /\ parser.header = 4 => current[4] \in Nat /\ current[4] * Base \in Nat
           /\ Len(current) = Overhead + current[3]
                 + (IF parser.header = 3 THEN 0 ELSE current[4] * Base)
           /\ Len(current) <= parser.capacity /\ Len(current) < parser.counts
           /\ Len(current) <= parser.indices
           /\ parser.capacity \in Nat /\ parser.counts \in Nat /\ parser.indices \in Nat
<1>1. parser \in Parsers /\ current \in Seq(Byte)
  BY DEF TypeOK
<1>2. /\ parser.header \in {3, 4} /\ Overhead = parser.header + 1
      /\ parser.capacity \in Nat /\ parser.counts \in Nat /\ parser.indices \in Nat
  BY <1>1, ParserFacts DEF Overhead
<1>3. Len(current) \in Nat /\ Len(current) >= Overhead
  BY <1>1 DEF IsFrame
<1>4. current[3] \in Nat /\ (parser.header = 4 => current[4] \in Nat)
  <2>1. 3 \in 1 .. Len(current) /\ (parser.header = 4 => 4 \in 1 .. Len(current))
    BY <1>2, <1>3
  <2>2. current[3] \in Byte /\ (parser.header = 4 => current[4] \in Byte)
    BY <2>1, <1>1
  <2> QED
    BY <2>2, Bytes
<1>5. parser.header = 4 => current[4] * Base \in Nat
  BY <1>4, Bytes
<1> QED
  BY <1>2, <1>3, <1>4, <1>5 DEF IsFrame

(* A count that the type has room for is kept.                             *)
LEMMA NarrowKeeps ==
    ASSUME TypeOK, NEW n \in Nat, n < parser.counts
    PROVE  Narrow(n) = n
<1> DEFINE c == parser.counts
<1>1. c \in Nat \ {0} /\ n < c
  BY ParserFacts DEF TypeOK
<1> HIDE DEF c
<1>2. n % c = n
  BY <1>1
<1> QED
  BY <1>2 DEF Narrow, c

(* With each byte of a frame but the last the parser has one more.         *)
LEMMA ByteTaken ==
    ASSUME TypeOK, IsFrame(current), NEW n \in 0 .. Len(current) - 2, Has(n),
           HandleRxByte(current[n + 1]), current' = current, parser' = parser
    PROVE  Has(n + 1)' /\ handled' = handled
<1> DEFINE f == current
           b == current[n + 1]
<1>1. f \in Seq(Byte) /\ rxBuffer \in Seq(Byte) /\ Len(f) \in Nat
  BY FrameNumbers DEF TypeOK
<1>2. rxByteCounter = n /\ n < parser.capacity /\ n + 1 < Len(f)
  BY FrameNumbers DEF Has
<1>3. ~StartAgain(b)
  BY <1>2, FrameNumbers DEF StartAgain
<1>4. CASE n = 0
  <2>1. AwaitStart(b) /\ b = CMD_STX
    BY <1>2, <1>3, <1>4, FrameNumbers
       DEF HandleRxByte, TakeCommand, TakeLength, TakeData, TakeLast
  <2>2. /\ rxByteCounter' = 1 /\ rxBuffer' = <<b>> /\ bytesToReceive' = 0
        /\ handled' = handled
    BY <2>1 DEF AwaitStart
  <2>3. Len(rxBuffer') = 1 /\ rxBuffer'[1] = b
    BY <2>2
  <2>4. \A i \in 1 .. 1 : rxBuffer'[i] = f[i]
    BY <2>3, <1>4
  <2> QED
    BY <2>2, <2>3, <2>4, <1>4 DEF Has
<1>5. CASE n > 0
  <2>1. /\ Len(rxBuffer) = n /\ \A i \in 1 .. n : rxBuffer[i] = f[i]
        /\ bytesToReceive = IF n < 3 THEN 0 ELSE IF n < parser.header THEN f[3] ELSE Len(f)
    BY <1>5 DEF Has
  <2>2. bytesToReceive \in Nat /\ bytesToReceive <= Len(f) /\ bytesToReceive <= parser.capacity
    <3>1. f[3] <= Len(f)
      BY FrameNumbers
    <3> QED
      BY <2>1, <3>1, FrameNumbers
  <2>3. Stored(b) = Append(rxBuffer, b)
    BY <2>2 DEF Stored
  <2>4. /\ Len(Stored(b)) = n + 1
        /\ \A i \in 1 .. n + 1 : Stored(b)[i] = f[i]
    <3>1. n \in 0 .. Len(f) - 1
      BY <1>1
    <3> HIDE DEF f
    <3> QED
      BY <3>1, <1>1, <2>1, <2>3, OneMore DEF f
  <2>5. CASE n = 1
    <3>1. TakeCommand(b)
      BY <1>2, <1>3, <2>5, FrameNumbers
         DEF HandleRxByte, AwaitStart, TakeLength, TakeData, TakeLast
    <3> QED
      BY <3>1, <1>2, <2>1, <2>4, <2>5 DEF TakeCommand, Has
  <2>6. CASE n \in 2 .. parser.header - 1
    <3>1. TakeLength(b)
      BY <1>2, <1>3, <2>6, FrameNumbers
         DEF HandleRxByte, AwaitStart, TakeCommand, TakeData, TakeLast
    <3>2. bytesToReceive' = IF n + 1 < parser.header THEN f[3] ELSE Len(f)
      <4>1. CASE n = 2 /\ parser.header = 3
        <5>1. bytesToReceive' = Narrow(0 + f[3] + Overhead)
          BY <4>1, <3>1, <1>2, <2>1 DEF TakeLength
        <5>2. 0 + f[3] + Overhead = Len(f)
          BY <4>1, FrameNumbers
        <5> QED
          BY <4>1, <5>1, <5>2, FrameNumbers, NarrowKeeps
      <4>2. CASE n = 2 /\ parser.header = 4
        <5>1. bytesToReceive' = Narrow(0 + f[3] + 0)
          BY <4>2, <3>1, <1>2, <2>1 DEF TakeLength
        <5>2. 0 + f[3] + 0 = f[3] /\ f[3] \in Nat /\ f[3] < parser.counts
          BY <4>2, FrameNumbers
        <5> QED
          BY <4>2, <5>1, <5>2, NarrowKeeps
      <4>3. CASE n = 3 /\ parser.header = 4
        <5>1. bytesToReceive' = Narrow(f[3] + f[4] * Base + Overhead)
          BY <4>3, <3>1, <1>2, <2>1 DEF TakeLength
        <5>2. f[3] + f[4] * Base + Overhead = Len(f)
          <6> DEFINE high == f[4] * Base
          <6>1. /\ Len(f) = Overhead + f[3] + high
                /\ high \in Nat /\ f[3] \in Nat /\ Overhead \in Nat
            BY <4>3, FrameNumbers
          <6> HIDE DEF high
          <6>2. f[3] + high + Overhead = Len(f)
            BY <6>1
          <6> QED
            BY <6>2 DEF high
        <5> QED
          BY <4>3, <5>1, <5>2, FrameNumbers, NarrowKeeps
      <4> QED
        BY <4>1, <4>2, <4>3, <2>6, FrameNumbers
    <3>3. ~(n + 1 < 3)
      BY <2>6
    <3> QED
      BY <3>1, <3>2, <3>3, <1>2, <2>4 DEF TakeLength, Has
  <2>7. CASE n >= parser.header
    <3>1. bytesToReceive = Len(f)
      BY <2>1, <2>7, FrameNumbers
    <3>2. ~Complete
      BY <3>1, <1>1, <1>2 DEF Complete
    <3>3. TakeData(b)
      BY <3>2, <1>2, <1>3, <2>7, FrameNumbers
         DEF HandleRxByte, AwaitStart, TakeCommand, TakeLength, TakeLast
    <3>4. ~(n + 1 < 3) /\ ~(n + 1 < parser.header)
      BY <2>7, FrameNumbers
    <3> QED
      BY <3>1, <3>3, <3>4, <1>2, <2>4 DEF TakeData, Has
  <2> QED
    BY <1>5, <2>5, <2>6, <2>7, FrameNumbers
<1> QED
  BY <1>4, <1>5

(* With the last byte the frame is handled.                                *)
LEMMA LastByteTaken ==
    ASSUME TypeOK, IsFrame(current), Has(Len(current) - 1), clean, handled = <<>>,
           HandleRxByte(current[Len(current)])
    PROVE  rxByteCounter' = 0 /\ handled' = <<current>>
<1> DEFINE f == current
           n == Len(current) - 1
           b == current[Len(current)]
<1>1. f \in Seq(Byte) /\ rxBuffer \in Seq(Byte) /\ Len(f) \in Nat
  BY FrameNumbers DEF TypeOK
<1>2. /\ n \in Nat /\ n >= parser.header /\ n > 0 /\ n < parser.capacity
      /\ ~(n < 3) /\ ~(n < parser.header)
  BY FrameNumbers
<1>3. /\ rxByteCounter = n /\ Len(rxBuffer) = n /\ bytesToReceive = Len(f)
      /\ \A i \in 1 .. n : rxBuffer[i] = f[i]
  BY <1>2 DEF Has
<1>4. TakeLast(b)
  BY <1>1, <1>2, <1>3, FrameNumbers
     DEF HandleRxByte, AwaitStart, TakeCommand, TakeLength, TakeData, StartAgain, Complete
<1>5. Stored(b) = f
  <2>1. Stored(b) = Append(rxBuffer, b)
    BY <1>3, FrameNumbers DEF Stored
  <2>2. b = f[n + 1] /\ n \in 0 .. Len(f) - 1
    BY <1>1, <1>2
  <2>3. /\ Append(rxBuffer, f[n + 1]) \in Seq(Byte)
        /\ Len(Append(rxBuffer, f[n + 1])) = n + 1
        /\ \A i \in 1 .. n + 1 : Append(rxBuffer, f[n + 1])[i] = f[i]
    <3> HIDE DEF f, n
    <3> QED
      BY <2>2, <1>1, <1>3, OneMore
  <2>4. n + 1 = Len(f)
    BY <1>1
  <2> HIDE DEF n, b, f
  <2> QED
    BY <2>1, <2>2, <2>3, <2>4, <1>1, SeqEqual
<1>6. Matches(f) = {TRUE}
  <2>1. bytesToReceive \in 1 .. Len(f)
    BY <1>1, <1>2, <1>3
  <2>2. f[Len(f)] = Checksum(SubSeq(f, 1, Len(f) - 1))
    BY DEF IsFrame
  <2> QED
    BY <2>1, <2>2, <1>3 DEF Matches
<1>7. ~(bytesToReceive > parser.indices)
  BY <1>1, <1>3, FrameNumbers
<1>8. rxByteCounter' = 0 /\ handled' = Append(handled, f)
  BY <1>4, <1>5, <1>6, <1>7 DEF TakeLast
<1> QED
  BY <1>8

-----------------------------------------------------------------------------
(* Every step keeps the parser in step with the module.                    *)
LEMMA FollowsNothing ==
    ASSUME current' = <<>>, clean' => sending' = <<>> /\ rxByteCounter' = 0
    PROVE  InStep'
  BY DEF InStep

LEMMA ReceiveFollows ==
    ASSUME IInv, Receive
    PROVE  InStep'
<1> SUFFICES ASSUME clean PROVE InStep'
  BY DEF InStep, Receive
<1>1. /\ HandleRxByte(Head(sending)) /\ sending' = Tail(sending) /\ sending # <<>>
      /\ phase # "closed" /\ phase' = phase /\ parser' = parser /\ current' = current
      /\ clean' = clean
  BY DEF Receive
<1>2. TypeOK /\ current # <<>> /\ IsFrame(current) /\ Coming /\ Following
  BY <1>1 DEF IInv, InStep
<1>3. /\ Behind \in 0 .. Len(current) - 1
      /\ Head(sending) = current[Behind + 1]
      /\ Behind' = Behind + 1 /\ Coming'
      /\ sending' = <<>> <=> Behind + 1 = Len(current)
  BY <1>1, <1>2, NextByte
<1>4. Has(Behind) /\ handled = <<>>
  BY <1>1, <1>2 DEF Following
<1>5. IsFrame(current)'
  BY <1>1, <1>2 DEF IsFrame, Overhead
<1>6. Len(current) \in Nat
  BY <1>2, FrameNumbers
<1>7. CASE sending' = <<>>
  <2>1. Behind = Len(current) - 1 /\ Behind + 1 = Len(current)
    BY <1>3, <1>6, <1>7
  <2>2. Has(Len(current) - 1) /\ HandleRxByte(current[Len(current)])
    BY <2>1, <1>1, <1>3, <1>4
  <2>3. rxByteCounter' = 0 /\ handled' = <<current>>
    BY <2>2, <1>2, <1>4, LastByteTaken
  <2>4. Following'
    BY <2>3, <1>1, <1>7 DEF Following
  <2> QED
    BY <2>4, <1>1, <1>2, <1>3, <1>5 DEF InStep
<1>8. CASE sending' # <<>>
  <2>1. Behind \in 0 .. Len(current) - 2
    BY <1>3, <1>6, <1>8
  <2>2. PICK n \in 0 .. Len(current) - 2 : n = Behind
    BY <2>1
  <2>3. Has(n) /\ HandleRxByte(current[n + 1])
    BY <2>2, <1>1, <1>3, <1>4
  <2>4. Has(n + 1)' /\ handled' = handled
    BY <2>3, <1>1, <1>2, ByteTaken
  <2>5. Has(Behind)'
    BY <2>2, <2>4, <1>3 DEF Has
  <2>6. Following'
    BY <2>4, <2>5, <1>1, <1>4, <1>8 DEF Following
  <2> QED
    BY <2>6, <1>1, <1>2, <1>3, <1>5 DEF InStep
<1> QED
  BY <1>7, <1>8

LEMMA MissFollows ==
    ASSUME IInv, Miss
    PROVE  InStep'
<1> SUFFICES ASSUME clean PROVE InStep'
  BY DEF InStep, Miss
<1>1. /\ sending' = Tail(sending) /\ sending # <<>> /\ phase = "closed"
      /\ phase' = phase /\ parser' = parser /\ current' = current /\ clean' = clean
      /\ rxByteCounter' = rxByteCounter
  BY DEF Miss, received
<1>2. TypeOK /\ current # <<>> /\ IsFrame(current) /\ Coming /\ Following
  BY <1>1 DEF IInv, InStep
<1>3. Coming'
  BY <1>1, <1>2, NextByte
<1>4. IsFrame(current)'
  BY <1>1, <1>2 DEF IsFrame, Overhead
<1>5. Following'
  BY <1>1, <1>2 DEF Following
<1> QED
  BY <1>1, <1>2, <1>3, <1>4, <1>5 DEF InStep

LEMMA SendFollows ==
    ASSUME FramesFit, IInv, NEW cmd \in Commands, NEW data \in Payloads, Send(cmd, data)
    PROVE  InStep'
<1> SUFFICES ASSUME clean PROVE InStep'
  BY DEF InStep, Send
<1> DEFINE f == Frame(cmd, data)
<1>1. /\ sending = <<>> /\ sending' = f /\ current' = f /\ handled' = <<>>
      /\ phase' = phase /\ parser' = parser /\ clean' = clean
      /\ rxByteCounter' = rxByteCounter
  BY DEF Send, received
<1>2. TypeOK /\ parser \in Parsers
  BY DEF IInv, TypeOK
<1>3. IsFrame(f)
  BY <1>2, FrameIs
<1> HIDE DEF f
<1>4. IsFrame(current)'
  BY <1>1, <1>3 DEF IsFrame, Overhead
<1>5. f \in Seq(Byte) /\ Len(f) \in Nat /\ f # <<>>
  <2>1. f \in Seq(Byte) /\ Len(f) >= Overhead
    BY <1>3 DEF IsFrame
  <2>2. Overhead \in Nat /\ Overhead > 0
    BY <1>2, ParserFacts DEF Overhead
  <2> QED
    BY <2>1, <2>2
<1>6. Behind' = 0
  BY <1>1, <1>5 DEF Behind
<1>7. Coming'
  <2>1. \A i \in 1 .. Len(f) : f[i] = f[0 + i]
    OBVIOUS
  <2> QED
    BY <2>1, <1>1, <1>5, <1>6 DEF Coming
<1>8. rxByteCounter = 0
  BY <1>1 DEF IInv, InStep, Following
<1>9. Has(Behind)'
  BY <1>1, <1>6, <1>8 DEF Has
<1>10. Following'
  BY <1>1, <1>5, <1>8, <1>9 DEF Following
<1> QED
  BY <1>1, <1>4, <1>5, <1>7, <1>10 DEF InStep

LEMMA SilentIsBetween ==
    ASSUME IInv, clean, sending = <<>>
    PROVE  rxByteCounter = 0
  BY DEF IInv, InStep, Following

LEMMA ResetFollows ==
    ASSUME IInv, LowerReset \/ RaiseReset
    PROVE  InStep'
<1>1. CASE LowerReset
  <2>1. current' = <<>> /\ rxByteCounter' = rxByteCounter /\ (clean' => clean /\ sending = <<>>)
    BY <1>1 DEF LowerReset, Cut, received
  <2>2. ASSUME sending = <<>> PROVE sending' = <<>>
    <3>1. ASSUME NEW n \in 0 .. Len(sending) PROVE SubSeq(sending, 1, n) = <<>>
      <4>1. Len(sending) = 0
        BY <2>2
      <4>2. n = 0
        BY <3>1, <4>1
      <4> QED
        BY <4>2, SubSeqEmpty
    <3> QED
      BY <3>1, <1>1 DEF LowerReset
  <2> QED
    BY <2>1, <2>2, SilentIsBetween, FollowsNothing
<1>2. CASE RaiseReset
  <2>1. current' = <<>> /\ sending = <<>> /\ sending' = <<>>
    BY <1>2 DEF RaiseReset
  <2>2. clean' => rxByteCounter' = 0
    <3>1. CASE parser.cleared
      BY <3>1, <1>2 DEF RaiseReset, ClearReceiveBuffers
    <3>2. CASE ~parser.cleared
      <4>1. clean' => clean
        BY <3>2, <1>2 DEF RaiseReset
      <4>2. rxByteCounter' = rxByteCounter
        BY <3>2, <1>2 DEF RaiseReset, ClearReceiveBuffers, received
      <4> QED
        BY <4>1, <4>2, <2>1, SilentIsBetween
    <3> QED
      BY <3>1, <3>2
  <2> QED
    BY <2>1, <2>2, FollowsNothing
<1> QED
  BY <1>1, <1>2

LEMMA ClosingFollows ==
    ASSUME IInv, Clear \/ Close \/ Open
    PROVE  InStep'
<1>1. /\ current' = <<>> /\ sending' = sending /\ (clean' => clean /\ sending = <<>>)
  BY DEF Clear, Close, Open, Cut
<1>2. rxByteCounter' = rxByteCounter \/ rxByteCounter' = 0
  BY DEF Clear, Close, Open, ClearReceiveBuffers, received
<1> QED
  BY <1>1, <1>2, SilentIsBetween, FollowsNothing

LEMMA StepFollows ==
    ASSUME FramesFit, IInv, [Next]_vars
    PROVE  InStep'
<1>1. CASE UNCHANGED vars
  <2>1. UNCHANGED <<parser, rxByteCounter, bytesToReceive, rxBuffer, phase, sending,
                    clean, current, handled>>
    BY <1>1 DEF vars, received
  <2> QED
    BY <2>1 DEF IInv, InStep, IsFrame, Overhead, Coming, Behind, Following, Has
<1>2. CASE Spoil
  BY <1>2, FollowsNothing DEF Spoil
<1> QED
  BY <1>1, <1>2, ReceiveFollows, MissFollows, SendFollows, ResetFollows, ClosingFollows
     DEF Next, ModuleSends, Main

(* The parser follows the module.                                          *)
THEOREM Invariance == ASSUME FramesFit PROVE Spec => []IInv
<1>1. Init => IInv
  BY InitTyped DEF IInv, InStep, Init
<1>2. IInv /\ [Next]_vars => IInv'
  BY StepTyped, StepFollows DEF IInv
<1> QED
  BY <1>1, <1>2, PTL DEF Spec

(* Of a module whose frames fit the parser, every frame is handled when    *)
(* its last byte arrives, once, whole, and nothing else is handled, unless *)
(* something was cut or spoilt (HandleRxByte, ProteusIII.c:616-676); after *)
(* PinReset the Proteus drivers follow whatever was before (:886-910).     *)
THEOREM HandlesFrames == ASSUME FramesFit PROVE Spec => []WholeFrames
<1>1. IInv => WholeFrames
  BY DEF IInv, InStep, Following, WholeFrames
<1> QED
  BY <1>1, Invariance, PTL
=============================================================================
