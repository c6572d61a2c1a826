----------------------------- MODULE FrameParser -----------------------------
(***************************************************************************)
(* The parser of bytes that every driver of a binary protocol has, the     *)
(* function HandleRxByte(s), between the receive interrupt and             *)
(* HandleRxPacket, and what starts it anew: PinReset, Deinit and Init. The *)
(* models of the drivers take it that a frame of the module arrives whole  *)
(* or not at all; here is what that rests on.                              *)
(* Source lines are those of ProteusIII.c; the other parsers differ in     *)
(* what a record of Parsers says.                                          *)
(***************************************************************************)
EXTENDS Integers, Sequences

CONSTANTS
    Base,          \* how many values a byte has; 256 in the code
    Checksum(_),   \* of a sequence of bytes: their exclusive or in the code
    Commands,      \* what a frame is about
    Payloads,      \* the data of the frames of the module
    Parsers,       \* the parsers of the drivers, see ParserType
    Noises,        \* bytes that others may become on the line
    MaxNoise,      \* bound: how many do, or are lost
    MaxResets      \* bound: calls of PinReset and Deinit

Byte == 0 .. Base - 1
CMD_STX == 2

(* header: bytes before the data; capacity: sizeof(rxBuffer); counts:      *)
(* values of bytesToReceive; indices: values of the index of the loop that *)
(* computes the checksum; cleared: by PinReset and Deinit; restarts: when  *)
(* the buffer is full.                                                     *)
ParserType == [header : {3, 4}, capacity : Nat, counts : Nat \ {0}, indices : Nat,
               cleared : BOOLEAN, restarts : BOOLEAN]

ASSUME FrameAssumption ==
    /\ Base \in Nat /\ Base > CMD_STX
    /\ Commands \subseteq Byte /\ Payloads \subseteq Seq(Byte)
    /\ Parsers \subseteq ParserType /\ Noises \subseteq Byte
    /\ MaxNoise \in Nat /\ MaxResets \in Nat

(* The parsers of the drivers, in terms of Base.                           *)
Bytewise == [header |-> 3, capacity |-> Base + 3, counts |-> Base, indices |-> Base,
             cleared |-> FALSE, restarts |-> FALSE]
Wide     == [Bytewise EXCEPT !.header = 4, !.counts = Base * Base,
                             !.indices = Base * Base]

TarvosParser  == Bytewise
MetisParser   == [Bytewise EXCEPT !.capacity = Base + 2]
ThyoneParser  == Wide
ProteusParser == [Wide EXCEPT !.cleared = TRUE]
MetisEParser  == [Wide EXCEPT !.capacity = Base + 4, !.indices = Base,
                              !.restarts = TRUE]

VARIABLES
    parser,                    \* whose driver this is; does not change
    rxByteCounter, bytesToReceive, rxBuffer,
    stuck,                     \* the checksum's loop never ends
    phase,                     \* the main thread: "up", "low": the reset pin
                               \* is held, "closing", "closed", "opened"
    sending,                   \* what the module has still to send of a frame
    clean,                     \* history: nothing was cut or spoilt since the
                               \* parser was cleared
    current,                   \* history: while clean, the frame begun last,
                               \* <<>> since a reset
    handled,                   \* history: the frames handled since it was begun
    noise, resets              \* bounded counters

received == <<rxByteCounter, bytesToReceive, rxBuffer>>
vars == <<parser, received, stuck, phase, sending, current, handled, clean, noise, resets>>

Init ==
    /\ parser \in Parsers
    /\ rxByteCounter = 0 /\ bytesToReceive = 0 /\ rxBuffer = <<>>
    /\ stuck = FALSE
    /\ phase = "closed"
    /\ sending = <<>> /\ current = <<>> /\ handled = <<>>
    /\ clean = TRUE /\ noise = 0 /\ resets = 0

-----------------------------------------------------------------------------
(* Frames: start byte, command, length, data, checksum.                    *)
LengthField(n) == IF parser.header = 3 THEN <<n>> ELSE <<n % Base, n \div Base>>

Body(cmd, data) == <<CMD_STX, cmd>> \o LengthField(Len(data)) \o data

Frame(cmd, data) == Append(Body(cmd, data), Checksum(Body(cmd, data)))

(* What all bytes but the data take.                                       *)
Overhead == parser.header + 1

-----------------------------------------------------------------------------
(* HandleRxByte, one byte at a time. What a byte leads to depends on       *)
(* rxByteCounter, the number of those of the frame before it.              *)
(* Of a frame longer than the buffer, what is stored does not matter: the  *)
(* checksum is computed beyond it.                                         *)
Stored(b) == IF bytesToReceive <= parser.capacity THEN Append(rxBuffer, b) ELSE <<>>

AwaitStart(b) ==
    /\ rxByteCounter = 0
    /\ IF b = CMD_STX
       THEN rxByteCounter' = 1 /\ rxBuffer' = <<b>>
       ELSE UNCHANGED <<rxByteCounter, rxBuffer>>
    /\ bytesToReceive' = IF b = CMD_STX THEN 0 ELSE bytesToReceive
    /\ UNCHANGED <<stuck, handled>>

TakeCommand(b) ==
    /\ rxByteCounter = 1
    /\ rxByteCounter' = 2 /\ rxBuffer' = Stored(b)
    /\ UNCHANGED <<bytesToReceive, stuck, handled>>

(* The width of bytesToReceive.                                            *)
Narrow(n) == n % parser.counts

(* The length has one byte or two, the less significant first.             *)
TakeLength(b) ==
    /\ rxByteCounter \in 2 .. parser.header - 1
    /\ rxByteCounter' = rxByteCounter + 1 /\ rxBuffer' = Stored(b)
    /\ bytesToReceive' =
         Narrow(bytesToReceive + (IF rxByteCounter = 2 THEN b ELSE b * Base)
                  + (IF rxByteCounter = parser.header - 1 THEN Overhead ELSE 0))
    /\ UNCHANGED <<stuck, handled>>

(* Mutant of Complete: off by one.                                         *)
CompleteLate == rxByteCounter >= bytesToReceive

Complete == rxByteCounter + 1 >= bytesToReceive

TakeData(b) ==
    /\ rxByteCounter >= parser.header /\ ~Complete
    /\ ~(parser.restarts /\ rxByteCounter >= parser.capacity)
    /\ rxByteCounter' = rxByteCounter + 1 /\ rxBuffer' = Stored(b)
    /\ UNCHANGED <<bytesToReceive, stuck, handled>>

(* The checksum is compared with the last of the bytes counted. Outside    *)
(* the buffer, before it if the count is 0, there is any byte.             *)
Matches(bytes) ==
    IF bytesToReceive \in 1 .. Len(bytes)
    THEN {Checksum(SubSeq(bytes, 1, bytesToReceive - 1)) = bytes[bytesToReceive]}
    ELSE BOOLEAN

(* Mutant of TakeLast: a frame with a wrong checksum is not dropped.       *)
TakeLastKeeping(b) ==
    /\ rxByteCounter >= parser.header /\ Complete
    /\ \E right \in Matches(Stored(b)) :
         IF right
         THEN /\ rxByteCounter' = 0 /\ bytesToReceive' = 0 /\ rxBuffer' = <<>>
              /\ handled' = IF clean THEN Append(handled, Stored(b)) ELSE handled
         ELSE UNCHANGED <<received, handled>>
    /\ UNCHANGED stuck

(* The last byte: HandleRxPacket if the checksum is right, and the next    *)
(* frame. An index that cannot reach the count never ends the loop.        *)
TakeLast(b) ==
    /\ rxByteCounter >= parser.header /\ Complete
    /\ ~(parser.restarts /\ rxByteCounter >= parser.capacity)
    /\ IF bytesToReceive > parser.indices
       THEN /\ stuck' = TRUE
            /\ UNCHANGED <<received, handled>>
       ELSE /\ rxByteCounter' = 0 /\ bytesToReceive' = 0
            /\ rxBuffer' = <<>>
            /\ \E right \in Matches(Stored(b)) :
                 handled' = IF right /\ clean THEN Append(handled, Stored(b)) ELSE handled
            /\ UNCHANGED stuck

(* Metis-E starts again when its buffer is full, and finds the start byte  *)
(* of the frame before.                                                    *)
StartAgain(b) ==
    /\ parser.restarts /\ rxByteCounter >= parser.capacity
    /\ rxByteCounter' = 1 /\ bytesToReceive' = 0 /\ rxBuffer' = <<CMD_STX>>
    /\ UNCHANGED <<stuck, handled>>

HandleRxByte(b) ==
    \/ AwaitStart(b) \/ TakeCommand(b) \/ TakeLength(b)
    \/ TakeData(b) \/ TakeLast(b) \/ StartAgain(b)

(* The next byte of the module arrives, while the UART is open.            *)
Receive ==
    /\ sending # <<>> /\ phase # "closed" /\ ~stuck
    /\ HandleRxByte(Head(sending))
    /\ sending' = Tail(sending)
    /\ UNCHANGED <<parser, phase, current, clean, noise, resets>>

-----------------------------------------------------------------------------
(* The line and the module.                                                *)
Miss ==
    /\ sending # <<>> /\ phase = "closed"
    /\ sending' = Tail(sending)
    /\ UNCHANGED <<parser, received, stuck, phase, current, handled, clean, noise, resets>>

Spoil ==
    /\ sending # <<>> /\ noise < MaxNoise
    /\ noise' = noise + 1
    /\ clean' = FALSE /\ current' = <<>> /\ handled' = <<>>
    /\ \/ sending' = Tail(sending)
       \/ \E b \in Noises \ {Head(sending)} : sending' = <<b>> \o Tail(sending)
    /\ UNCHANGED <<parser, received, stuck, phase, resets>>

Send(cmd, data) ==
    /\ sending = <<>> /\ phase # "low"
    /\ sending' = Frame(cmd, data)
    /\ current' = IF clean THEN Frame(cmd, data) ELSE <<>>
    /\ handled' = <<>>
    /\ UNCHANGED <<parser, received, stuck, phase, clean, noise, resets>>

-----------------------------------------------------------------------------
(* The main thread, which an interrupt that never ends does not let run.   *)
(* What is cut short is no frame any more.                                 *)
Cut == /\ clean' = (clean /\ sending = <<>>)
       /\ current' = <<>> /\ handled' = <<>>

(* Mutant of ClearReceiveBuffers: the counter is not reset.                *)
ClearLength ==
    /\ bytesToReceive' = 0
    /\ UNCHANGED <<rxByteCounter, rxBuffer>>

ClearReceiveBuffers ==
    IF parser.cleared
    THEN rxByteCounter' = 0 /\ bytesToReceive' = 0 /\ rxBuffer' = <<>>
    ELSE UNCHANGED received

(* PinReset, or Init after uartInit: the module is cut off; what it had    *)
(* sent by then arrives while the pin is low.                              *)
LowerReset ==
    /\ ~stuck
    /\ \/ phase = "up" /\ resets < MaxResets /\ resets' = resets + 1
       \/ phase = "opened" /\ UNCHANGED resets
    /\ phase' = "low"
    /\ \E n \in 0 .. Len(sending) : sending' = SubSeq(sending, 1, n)
    /\ Cut
    /\ UNCHANGED <<parser, received, stuck, noise>>

RaiseReset ==
    /\ phase = "low" /\ sending = <<>> /\ ~stuck
    /\ phase' = "up"
    /\ ClearReceiveBuffers
    /\ clean' = (clean \/ parser.cleared)
    /\ current' = <<>> /\ handled' = <<>>
    /\ UNCHANGED <<parser, stuck, sending, resets, noise>>

(* Deinit clears, then closes the UART; Init opens it, then resets.        *)
Clear ==
    /\ phase = "up" /\ ~stuck /\ resets < MaxResets
    /\ resets' = resets + 1
    /\ phase' = "closing"
    /\ ClearReceiveBuffers
    /\ Cut
    /\ UNCHANGED <<parser, stuck, sending, noise>>

Close ==
    /\ phase = "closing" /\ ~stuck
    /\ phase' = "closed"
    /\ Cut
    /\ UNCHANGED <<parser, received, stuck, sending, resets, noise>>

Open ==
    /\ phase = "closed"
    /\ phase' = "opened"
    /\ Cut
    /\ UNCHANGED <<parser, received, stuck, sending, resets, noise>>

Main == LowerReset \/ RaiseReset \/ Clear \/ Close \/ Open

ModuleSends == \E cmd \in Commands, data \in Payloads : Send(cmd, data)

Next == Receive \/ Miss \/ Spoil \/ ModuleSends \/ Main

(* Bytes that were sent arrive, and the module always has more to say.     *)
Spec == Init /\ [][Next]_vars /\ WF_vars(Receive) /\ WF_vars(ModuleSends)
-----------------------------------------------------------------------------
Phases == {"up", "low", "closing", "closed", "opened"}

TypeOK ==
    /\ parser \in Parsers
    /\ rxByteCounter \in Nat /\ rxBuffer \in Seq(Byte)
    /\ bytesToReceive \in 0 .. parser.counts - 1
    /\ stuck \in BOOLEAN /\ phase \in Phases
    /\ sending \in Seq(Byte) /\ current \in Seq(Byte) /\ handled \in Seq(Seq(Byte))
    /\ clean \in BOOLEAN /\ noise \in Nat /\ resets \in Nat

(* Every frame the module sends is handled when its last byte arrives,     *)
(* once, whole, and nothing else is handled: unless something was cut or   *)
(* spoilt since the parser was cleared. PinReset clears the parsers of the *)
(* Proteus family, so that after it they miss nothing, whatever was before *)
(* (ProteusIII.c:886-910).                                                 *)
WholeFrames ==
    phase = "up" /\ clean /\ current # <<>> =>
        handled = IF sending = <<>> THEN <<current>> ELSE <<>>

(* A parser that is out of step looks for a start byte again: it waits for *)
(* no more bytes than a length it was told, though no time ends the wait.  *)
(* (Where the index of the loop is narrower than the count, in Metis-E, it *)
(* may not.)                                                               *)
Resumes == parser.indices >= parser.counts /\ <>[](phase = "up")
               => []<>(rxByteCounter = 0)
=============================================================================
