--------------------------- MODULE UartDma_proofs ---------------------------
(***************************************************************************)
(* Proofs about UartDma for every number of UARTs, every size of the DMA   *)
(* buffer and both platforms: types; that the handler of PendSV never uses *)
(* what is not there; that nothing is left in the buffer; and that each    *)
(* UART is a byte stream.                                                  *)
(***************************************************************************)
EXTENDS UartDma, TLAPS

(* What the main thread may have still to do.                              *)
Remaining ==
    {<<>>,
     <<"setHandler", "setDma", "enableIdle", "enableStream">>,
     <<"setDma", "enableIdle", "enableStream">>,
     <<"enableIdle", "enableStream">>,
     <<"enableStream">>,
     <<"disableStream", "disableIdle", "disableDma", "resetDma", "resetHandler">>,
     <<"disableIdle", "disableDma", "resetDma", "resetHandler">>,
     <<"disableDma", "resetDma", "resetHandler">>,
     <<"resetDma", "resetHandler">>,
     <<"resetHandler">>}

(* Where a UART is between closed and open: the step that comes next.      *)
Stage(u) ==
    IF main.uart = u /\ main.steps # <<>> THEN Head(main.steps)
    ELSE IF Closed(u) THEN "closed" ELSE "open"

(* What is set up of a UART at each stage.                                 *)
Shape(u) ==
    /\ rxByteHandlerP[u] =
         IF Stage(u) \in {"closed", "setHandler"} THEN "NULL" ELSE "driver"
    /\ dmaRx[u] =
         IF Stage(u) \in {"closed", "setHandler", "setDma", "resetHandler"}
         THEN "NULL" ELSE "DMA"
    /\ enabled[u] =
         IF Stage(u) \in {"enableStream", "open", "disableStream", "disableIdle"}
         THEN Events
         ELSE IF Stage(u) \in {"enableIdle", "disableDma"} THEN {"HT", "TC"} ELSE {}
    /\ streaming[u] <=> Stage(u) \in {"open", "disableStream"}
    /\ Stage(u) \in {"enableIdle", "enableStream"} =>
         write[u] = 0 /\ dmaLastReadPos[u] = 0
    /\ Stage(u) # "closed" => u \in Served

Stages ==
    /\ main \in [uart : Uarts, steps : Remaining]
    /\ \A u \in Uarts : Shape(u)

(* PendSV_Handler has UART u still before it.                              *)
WillTest(u) ==
    \/ handler.at \in {"test", "clear"} /\ handler.uart <= u
    \/ handler.at \in {"look", "deliver", "store"} /\ handler.uart < u

(* PendSV_Handler is at UART u with bytes to hand over.                    *)
Serving(u) == handler.at \in {"deliver", "store"} /\ handler.uart = u

(* Whoever triggered is looked after, and has a DMA stream. As long as     *)
(* this is so the main thread waits. The buffer of a UART that is being    *)
(* opened is empty: the handler has nothing to store for it.               *)
Ready ==
    /\ \A u \in Uarts : triggered[u] =>
         chip = "F4" /\ dmaRx[u] = "DMA" /\ (pendSV \/ WillTest(u))
    /\ chip = "L0" =>
         /\ pendSV => dmaRx[1] = "DMA"
         /\ handler.at \in {"idle", "look", "deliver", "store"}
         /\ handler.uart = 1
    /\ At("clear") => triggered[handler.uart]
    /\ handler.at \in {"look", "deliver", "store"} => dmaRx[handler.uart] = "DMA"
    /\ \A u \in Uarts : Serving(u) => Stage(u) \notin {"enableIdle", "enableStream"}

(* The control: true whatever the order of opening and closing.            *)
Control == TypeOK /\ Stages /\ Ready

-----------------------------------------------------------------------------
(* UARTs are closed one at a time, and the clock of the controller runs    *)
(* while a stream needs it.                                                *)
Closing == {"disableStream", "disableIdle", "disableDma", "resetDma", "resetHandler"}
Clocked ==
    /\ \A u \in Uarts : Stage(u) \in Closing =>
         \A v \in Uarts \ {u} : Stage(v) = "closed"
    /\ \A u \in Uarts :
         Stage(u) \in {"enableIdle", "enableStream", "open", "disableStream"} => dmaClock

(* The cell d after position p, and how far q is after p.                  *)
Cell(p, d)     == IF p + d < Size THEN p + d ELSE p + d - Size
Distance(p, q) == IF q >= p THEN q - p ELSE q - p + Size

(* The buffer of UART u is in use.                                         *)
Streaming(u) == Stage(u) \in {"open", "disableStream", "disableIdle", "disableDma",
                              "resetDma"}

(* The bytes between the last position and that of the DMA are those that  *)
(* came since; a handler under way has handed over the first of them, up   *)
(* to where it is, and goes as far as it looked.                           *)
Unread(u) ==
    /\ taken[u] <= received[u] /\ received[u] - taken[u] <= MaxLead
    /\ write[u] = Cell(dmaLastReadPos[u], received[u] - taken[u])
    /\ \A d \in 0 .. received[u] - taken[u] - 1 :
          WE_dmaRxBuffer[u][Cell(dmaLastReadPos[u], d)] = taken[u] + d + 1
Handed(u) ==
    LET count == Distance(dmaLastReadPos[u], handler.pos)
        done  == Len(delivered[u]) - taken[u]
    IN  IF Serving(u)
        THEN /\ count <= received[u] - taken[u]
             /\ At("deliver") => /\ done \in 0 .. count - 1
                                 /\ handler.from = Cell(dmaLastReadPos[u], done)
             /\ At("store") => done = count
        ELSE done = 0
Data ==
    /\ \A u \in Uarts : Streaming(u) => Unread(u) /\ Handed(u)
    /\ \A u \in Uarts : Serving(u) => Streaming(u)

(* What came before the line was found idle is handed over, or someone has *)
(* been told.                                                              *)
Noticed ==
    \A u \in Uarts : streaming[u] /\ quiet[u] =>
        \/ Len(delivered[u]) = received[u]
        \/ "IDLE" \in flags[u]
        \/ triggered[u]
        \/ chip = "L0" /\ pendSV
        \/ At("look") /\ handler.uart = u
        \/ Serving(u) /\ handler.pos = write[u]

IInv == Control /\ Clocked /\ Data /\ Noticed
-----------------------------------------------------------------------------
(* What the proofs use of the assumptions on the constants.                *)
LEMMA Params ==
    /\ Last \in Nat /\ Last >= 1 /\ Size \in Nat /\ Size >= 2
    /\ MaxLead \in Nat /\ MaxLead <= Size - 1 /\ MaxLead >= 1
    /\ MaxSessions \in Nat /\ 1 \in Uarts /\ 0 \in 0 .. Size - 1
    /\ Chips \subseteq {"F4", "L0"}
  BY UartDmaAssumption DEF Uarts

(* What is left to do after a step, by the name of the step.               *)
LEMMA StepsLeft ==
    ASSUME NEW steps \in Remaining, steps # <<>>
    PROVE  /\ Tail(steps) \in Remaining
           /\ Head(steps) \in {"setHandler", "setDma", "enableIdle", "enableStream"}
                                \cup Closing
           /\ Head(steps) = "setHandler" =>
                Tail(steps) # <<>> /\ Head(Tail(steps)) = "setDma"
           /\ Head(steps) = "setDma" =>
                Tail(steps) # <<>> /\ Head(Tail(steps)) = "enableIdle"
           /\ Head(steps) = "enableIdle" =>
                Tail(steps) # <<>> /\ Head(Tail(steps)) = "enableStream"
           /\ Head(steps) = "enableStream" => Tail(steps) = <<>>
           /\ Head(steps) = "disableStream" =>
                Tail(steps) # <<>> /\ Head(Tail(steps)) = "disableIdle"
           /\ Head(steps) = "disableIdle" =>
                Tail(steps) # <<>> /\ Head(Tail(steps)) = "disableDma"
           /\ Head(steps) = "disableDma" =>
                Tail(steps) # <<>> /\ Head(Tail(steps)) = "resetDma"
           /\ Head(steps) = "resetDma" =>
                Tail(steps) # <<>> /\ Head(Tail(steps)) = "resetHandler"
           /\ Head(steps) = "resetHandler" => Tail(steps) = <<>>
  <1>1. CASE steps = <<"setHandler", "setDma", "enableIdle", "enableStream">>
        BY <1>1 DEF Remaining, Closing
  <1>2. CASE steps = <<"setDma", "enableIdle", "enableStream">>
        BY <1>2 DEF Remaining, Closing
  <1>3. CASE steps = <<"enableIdle", "enableStream">>
        BY <1>3 DEF Remaining, Closing
  <1>4. CASE steps = <<"enableStream">>
        BY <1>4 DEF Remaining, Closing
  <1>5. CASE steps = <<"disableStream", "disableIdle", "disableDma", "resetDma", "resetHandler">>
        BY <1>5 DEF Remaining, Closing
  <1>6. CASE steps = <<"disableIdle", "disableDma", "resetDma", "resetHandler">>
        BY <1>6 DEF Remaining, Closing
  <1>7. CASE steps = <<"disableDma", "resetDma", "resetHandler">>
        BY <1>7 DEF Remaining, Closing
  <1>8. CASE steps = <<"resetDma", "resetHandler">>
        BY <1>8 DEF Remaining, Closing
  <1>9. CASE steps = <<"resetHandler">>
        BY <1>9 DEF Remaining, Closing
  <1>10. QED  BY <1>1, <1>2, <1>3, <1>4, <1>5, <1>6, <1>7, <1>8, <1>9 DEF Remaining

(* The stage of the UART the main thread is busy with moves on, that of    *)
(* the others stays.                                                       *)
LEMMA StageMoves ==
    ASSUME Stages, NEW step, Doing(step), Done, NEW u, u = main.uart,
           \A v \in Uarts \ {u} : rxByteHandlerP'[v] = rxByteHandlerP[v]
    PROVE  /\ main' \in [uart : Uarts, steps : Remaining] /\ main'.uart = u
           /\ u \in Uarts
           /\ Stage(u) = step
           /\ \A v \in Uarts \ {u} : Stage(v)' = Stage(v)
           /\ step = "setHandler" => Stage(u)' = "setDma"
           /\ step = "setDma" => Stage(u)' = "enableIdle"
           /\ step = "enableIdle" => Stage(u)' = "enableStream"
           /\ step = "enableStream" =>
                Stage(u)' = IF rxByteHandlerP'[u] = "NULL" THEN "closed" ELSE "open"
           /\ step = "disableStream" => Stage(u)' = "disableIdle"
           /\ step = "disableIdle" => Stage(u)' = "disableDma"
           /\ step = "disableDma" => Stage(u)' = "resetDma"
           /\ step = "resetDma" => Stage(u)' = "resetHandler"
           /\ step = "resetHandler" =>
                Stage(u)' = IF rxByteHandlerP'[u] = "NULL" THEN "closed" ELSE "open"
  <1>1. /\ main \in [uart : Uarts, steps : Remaining]
        /\ main.steps # <<>> /\ Head(main.steps) = step
        BY DEF Stages, Doing
  <1>2. main' = [uart |-> u, steps |-> Tail(main.steps)]
        BY <1>1 DEF Done
  <1>3. main'.uart = u /\ main'.steps = Tail(main.steps)
        /\ Tail(main.steps) \in Remaining /\ u \in Uarts
        BY <1>1, <1>2, StepsLeft
  <1>4. \A v \in Uarts \ {u} : Stage(v)' = Stage(v)
        BY <1>1, <1>3 DEF Stage, Closed
  <1>5. QED  BY <1>1, <1>2, <1>3, <1>4, StepsLeft DEF Stage, Closed

-----------------------------------------------------------------------------
(* Types. The cell after a cell is one.                                    *)
LEMMA AfterCell == ASSUME NEW p \in 0 .. Size - 1 PROVE After(p) \in 0 .. Size - 1
  BY Params DEF After

(* Where PendSV_Handler may be.                                            *)
Handlers == [at : {"idle", "test", "clear", "look", "deliver", "store"},
             uart : Uarts, pos : 0 .. Size - 1, from : 0 .. Size - 1]

(* It may be nowhere ...                                                   *)
LEMMA InactiveType == Inactive \in Handlers
  BY Params DEF Inactive, Handlers

(* ... or go on to the next UART.                                          *)
LEMMA NextUartType == ASSUME TypeOK PROVE NextUart \in Handlers
  <1>1. handler.uart \in Uarts  BY DEF TypeOK
  <1>2. handler.uart # Last => handler.uart + 1 \in Uarts
        BY <1>1, Params DEF Uarts
  <1>3. QED  BY <1>2, InactiveType, Params DEF NextUart, Inactive, Handlers

(* The hardware and the interrupts keep the types.                         *)
LEMMA HardwareType ==
    ASSUME TypeOK, UNCHANGED chip, NEW u \in Uarts,
           Receive(u) \/ LineIdle(u) \/ \E event \in Events : Interrupt(u, event)
    PROVE  TypeOK'
  <1>1. CASE Receive(u)
    <2>0. /\ received' = [received EXCEPT ![u] = received[u] + 1]
          /\ write' = IF dmaClock THEN [write EXCEPT ![u] = After(write[u])] ELSE write
          BY <1>1 DEF Receive
    <2>1. /\ write[u] \in 0 .. Size - 1
          /\ received' \in [Uarts -> Nat] /\ received'[u] \in Nat
      <3>1. /\ received \in [Uarts -> Nat]
            /\ write \in [Uarts -> 0 .. Size - 1]   BY DEF TypeOK
      <3>2. received[u] + 1 \in Nat /\ write[u] \in 0 .. Size - 1   BY <3>1
      <3>3. QED  BY <2>0, <3>1, <3>2
    <2>2. Reached(After(write[u])) \subseteq Events   BY DEF Reached, Events
    <2>3. WE_dmaRxBuffer' \in [Uarts -> [0 .. Size - 1 -> Nat]]
      <3>1. [WE_dmaRxBuffer[u] EXCEPT ![write[u]] = received'[u]]
              \in [0 .. Size - 1 -> Nat]
            BY <2>1 DEF TypeOK
      <3>2. QED  BY <1>1, <3>1 DEF Receive, TypeOK
    <2>4. write' \in [Uarts -> 0 .. Size - 1]
          BY <2>0, <2>1, AfterCell DEF TypeOK
    <2>5. flags' \in [Uarts -> SUBSET Events]
      <3>1. \/ flags' = flags
            \/ flags' = [flags EXCEPT ![u] = flags[u] \cup Reached(After(write[u]))]
            BY <1>1 DEF Receive
      <3>2. flags \in [Uarts -> SUBSET Events]   BY DEF TypeOK
      <3>3. QED  BY <2>2, <3>1, <3>2
    <2>6. quiet' \in [Uarts -> BOOLEAN]   BY <1>1 DEF Receive, TypeOK
    <2>7. QED  BY <1>1, <2>1, <2>3, <2>4, <2>5, <2>6 DEF Receive, TypeOK, statics
  <1>2. CASE LineIdle(u)
    <2>1. flags' \in [Uarts -> SUBSET Events] /\ quiet' \in [Uarts -> BOOLEAN]
          BY <1>2 DEF LineIdle, TypeOK, Events
    <2>2. QED  BY <1>2, <2>1 DEF LineIdle, TypeOK, statics, history
  <1>3. ASSUME NEW event \in Events, Interrupt(u, event)  PROVE TypeOK'
    <2>1. flags' \in [Uarts -> SUBSET Events] /\ triggered' \in [Uarts -> BOOLEAN]
          BY <1>3 DEF Interrupt, Triggered, TypeOK
    <2>2. QED  BY <1>3, <2>1 DEF Interrupt, TypeOK, hardware, statics, history
  <1>4. QED  BY <1>1, <1>2, <1>3

(* The handler of PendSV keeps the types.                                  *)
LEMMA HandlerType == ASSUME TypeOK, UNCHANGED chip, PendSVHandler PROVE TypeOK'
  <1>0. /\ handler \in Handlers /\ NextUart \in Handlers /\ Inactive \in Handlers
        /\ handler.uart \in Uarts /\ handler.from \in 0 .. Size - 1
        /\ handler.pos \in 0 .. Size - 1
        BY NextUartType, InactiveType DEF TypeOK, Handlers
  <1>1. CASE Enter \/ EnterL0
    <2>1. handler' \in Handlers   BY <1>0, <1>1 DEF Enter, EnterL0, Handlers
    <2>2. QED  BY <1>1, <2>1 DEF Enter, EnterL0, TypeOK, hardware, statics, history, Handlers
  <1>2. CASE TestTrigger
    <2>1. handler' \in Handlers   BY <1>0, <1>2 DEF TestTrigger, Handlers
    <2>2. QED  BY <1>2, <2>1 DEF TestTrigger, TypeOK, hardware, statics, history, Handlers
  <1>3. CASE ClearTrigger
    <2>1. handler' \in Handlers   BY <1>0, <1>3 DEF ClearTrigger, Handlers
    <2>2. triggered' \in [Uarts -> BOOLEAN]   BY <1>3 DEF ClearTrigger, TypeOK
    <2>3. QED  BY <1>3, <2>1, <2>2 DEF ClearTrigger, TypeOK, hardware, statics, history,
                  Handlers
  <1>4. CASE Look
    <2>1. write[handler.uart] \in 0 .. Size - 1
          /\ dmaLastReadPos[handler.uart] \in 0 .. Size - 1
          BY <1>0 DEF TypeOK
    <2>2. handler' \in Handlers   BY <1>0, <1>4, <2>1 DEF Look, Handlers
    <2>3. QED  BY <1>4, <2>2 DEF Look, TypeOK, hardware, statics, history, Handlers
  <1>5. CASE Deliver
    <2>1. handler' \in Handlers   BY <1>0, <1>5, AfterCell DEF Deliver, Handlers
    <2>2. delivered' \in [Uarts -> Seq(Nat)]
      <3>0. WE_dmaRxBuffer[handler.uart] \in [0 .. Size - 1 -> Nat]
            BY <1>0 DEF TypeOK
      <3>1. WE_dmaRxBuffer[handler.uart][handler.from] \in Nat
            BY <1>0, <3>0
      <3>2. Append(delivered[handler.uart], WE_dmaRxBuffer[handler.uart][handler.from])
              \in Seq(Nat)
            BY <1>0, <3>1 DEF TypeOK
      <3>3. QED  BY <1>5, <3>2 DEF Deliver, TypeOK
    <2>3. QED  BY <1>5, <2>1, <2>2 DEF Deliver, TypeOK, hardware, statics, Handlers
  <1>6. CASE StorePosition
    <2>1. dmaLastReadPos' \in [Uarts -> 0 .. Size - 1]
          BY <1>0, <1>6 DEF StorePosition, TypeOK
    <2>2. taken' \in [Uarts -> Nat]
      <3>1. Len(delivered[handler.uart]) \in Nat   BY <1>0 DEF TypeOK
      <3>2. QED  BY <1>6, <3>1 DEF StorePosition, TypeOK
    <2>3. handler' \in Handlers   BY <1>0, <1>6 DEF StorePosition
    <2>4. QED  BY <1>6, <2>1, <2>2, <2>3 DEF StorePosition, TypeOK, hardware, Handlers
  <1>7. QED  BY <1>1, <1>2, <1>3, <1>4, <1>5, <1>6 DEF PendSVHandler

(* Opening and closing keep the types.                                     *)
LEMMA MainType ==
    ASSUME TypeOK, Stages, UNCHANGED chip, MainThread
    PROVE  TypeOK'
  <1>0. main.uart \in Uarts   BY DEF Stages
  <1>1. ASSUME NEW u \in Uarts, Open(u) \/ Close(u)  PROVE TypeOK'
    <2>1. sessions' \in 0 .. MaxSessions
      <3>1. sessions \in 0 .. MaxSessions   BY DEF TypeOK
      <3>2. \/ sessions' = sessions
            \/ sessions < MaxSessions /\ sessions' = sessions + 1
            BY <1>1 DEF Open, Close
      <3>3. QED  BY <3>1, <3>2, Params
    <2>2. QED  BY <1>1, <2>1 DEF Open, Close, TypeOK, hardware, statics, history
  <1>2. CASE SetHandler("setHandler", "driver") \/ SetHandler("resetHandler", "NULL")
    <2>1. rxByteHandlerP' \in [Uarts -> {"NULL", "driver"}]
          BY <1>2 DEF SetHandler, TypeOK
    <2>2. QED  BY <1>2, <2>1 DEF SetHandler, TypeOK, hardware, history
  <1>3. CASE SetDma
    <2>1. dmaRx' \in [Uarts -> {"NULL", "DMA"}]
          BY <1>3 DEF SetDma, TypeOK
    <2>2. dmaLastReadPos' \in [Uarts -> 0 .. Size - 1] /\ write' \in [Uarts -> 0 .. Size - 1]
          BY <1>3, Params DEF SetDma, TypeOK
    <2>3. enabled' \in [Uarts -> SUBSET Events]
          BY <1>3 DEF SetDma, TypeOK, Events
    <2>4. QED  BY <1>3, <2>1, <2>2, <2>3 DEF SetDma, TypeOK, history
  <1>4. CASE EnableIdle \/ DisableIdle
    <2>1. enabled' \in [Uarts -> SUBSET Events]
      <3>1. enabled \in [Uarts -> SUBSET Events]   BY DEF TypeOK
      <3>2. \/ enabled' = [enabled EXCEPT ![main.uart] = @ \cup {"IDLE"}]
            \/ enabled' = [enabled EXCEPT ![main.uart] = @ \ {"IDLE"}]
            BY <1>4 DEF EnableIdle, DisableIdle
      <3>3. QED  BY <3>1, <3>2 DEF Events
    <2>2. QED  BY <1>4, <2>1 DEF EnableIdle, DisableIdle, TypeOK, hardware, statics, history
  <1>5. CASE EnableStream
    <2>1. streaming' \in [Uarts -> BOOLEAN]   BY <1>5 DEF EnableStream, TypeOK
    <2>2. delivered' \in [Uarts -> Seq(Nat)]
      <3>1. <<>> \in Seq(Nat)   OBVIOUS
      <3>2. delivered \in [Uarts -> Seq(Nat)]   BY DEF TypeOK
      <3>3. delivered' = [delivered EXCEPT ![main.uart] = <<>>]
            BY <1>5 DEF EnableStream
      <3>4. QED  BY <3>1, <3>2, <3>3
    <2>3. received' \in [Uarts -> Nat] /\ taken' \in [Uarts -> Nat]
          BY <1>5 DEF EnableStream, TypeOK
    <2>4. QED  BY <1>5, <2>1, <2>2, <2>3 DEF EnableStream, TypeOK, statics
  <1>6. CASE DisableStream
    <2>1. streaming' \in [Uarts -> BOOLEAN] /\ flags' \in [Uarts -> SUBSET Events]
          BY <1>6 DEF DisableStream, TypeOK, Ended, Events
    <2>2. QED  BY <1>6, <2>1 DEF DisableStream, TypeOK, statics, history
  <1>7. CASE DisableDma
    <2>1. enabled' \in [Uarts -> SUBSET Events]
          BY <1>7 DEF DisableDma, TypeOK
    <2>2. QED  BY <1>7, <2>1 DEF DisableDma, TypeOK, statics, history
  <1>8. CASE ResetDma
    <2>1. dmaRx' \in [Uarts -> {"NULL", "DMA"}]
          /\ dmaLastReadPos' \in [Uarts -> 0 .. Size - 1]
          BY <1>8, Params DEF ResetDma, TypeOK
    <2>2. QED  BY <1>8, <2>1 DEF ResetDma, TypeOK, hardware, history
  <1>9. QED  BY <1>1, <1>2, <1>3, <1>4, <1>5, <1>6, <1>7, <1>8 DEF MainThread
-----------------------------------------------------------------------------
(* Stages.                                                                 *)

(* A UART of which nothing changes keeps its shape.                        *)
LEMMA ShapeKept ==
    ASSUME NEW v \in Uarts, Shape(v), Stage(v)' = Stage(v), UNCHANGED chip,
           rxByteHandlerP'[v] = rxByteHandlerP[v], dmaRx'[v] = dmaRx[v],
           enabled'[v] = enabled[v], streaming'[v] = streaming[v],
           Stage(v) \in {"enableIdle", "enableStream"} =>
             write'[v] = write[v] /\ dmaLastReadPos'[v] = dmaLastReadPos[v]
    PROVE  Shape(v)'
  BY DEF Shape, Served

(* Neither the hardware nor an interrupt moves a stage.                    *)
LEMMA StageStays ==
    ASSUME UNCHANGED <<main, rxByteHandlerP>>, NEW v
    PROVE  Stage(v)' = Stage(v)
  BY DEF Stage, Closed

(* The hardware and the interrupts keep the table of stages.               *)
LEMMA HardwareStages ==
    ASSUME TypeOK, Stages, UNCHANGED chip, NEW u \in Uarts,
           Receive(u) \/ LineIdle(u) \/ \E event \in Events : Interrupt(u, event)
    PROVE  Stages'
  <1>1. UNCHANGED <<main, rxByteHandlerP, dmaRx, enabled, streaming, dmaLastReadPos>>
        BY DEF Receive, LineIdle, Interrupt, statics, hardware
  <1>2. ASSUME NEW v \in Uarts  PROVE Shape(v)'
    <2>1. Shape(v) /\ Stage(v)' = Stage(v)   BY <1>1, StageStays DEF Stages
    <2>2. Stage(v) \in {"enableIdle", "enableStream"} => ~streaming[v]
          BY <2>1 DEF Shape
    <2>3. ~streaming[v] => write'[v] = write[v]
          BY DEF Receive, LineIdle, Interrupt, hardware, TypeOK
    <2>4. QED  BY <1>1, <2>1, <2>2, <2>3, ShapeKept
  <1>3. QED  BY <1>1, <1>2 DEF Stages

(* The handler stores the position of a UART that is not being opened.     *)
LEMMA HandlerStages ==
    ASSUME TypeOK, Stages, Ready, UNCHANGED chip, PendSVHandler
    PROVE  Stages'
  <1>1. UNCHANGED <<main, rxByteHandlerP, dmaRx, enabled, streaming, write>>
        BY DEF PendSVHandler, Enter, EnterL0, TestTrigger, ClearTrigger, Look, Deliver,
               StorePosition, statics, hardware
  <1>2. ASSUME NEW v \in Uarts  PROVE Shape(v)'
    <2>1. Shape(v) /\ Stage(v)' = Stage(v)   BY <1>1, StageStays DEF Stages
    <2>2. Stage(v) \in {"enableIdle", "enableStream"} =>
            dmaLastReadPos'[v] = dmaLastReadPos[v]
          BY DEF Ready, Serving, At, PendSVHandler, Enter, EnterL0, TestTrigger,
                 ClearTrigger, Look, Deliver, StorePosition, statics, TypeOK
    <2>3. QED  BY <1>1, <2>1, <2>2, ShapeKept
  <1>3. QED  BY <1>1, <1>2 DEF Stages

(* Opening begins with a closed UART and closing with an open one.         *)
LEMMA BeginStages ==
    ASSUME TypeOK, Stages, UNCHANGED chip, NEW u \in Uarts, Open(u) \/ Close(u)
    PROVE  /\ Stages'
           /\ main'.uart = u
           /\ Open(u) => Stage(u) = "closed" /\ Stage(u)' = "setHandler"
           /\ Close(u) => Stage(u) = "open" /\ Stage(u)' = "disableStream"
           /\ \A v \in Uarts \ {u} : Stage(v)' = Stage(v)
  <1>1. /\ UNCHANGED <<rxByteHandlerP, dmaRx, enabled, streaming, write, dmaLastReadPos>>
        /\ main.steps = <<>>
        BY DEF Open, Close, statics, hardware
  <1>2. \/ /\ Open(u) /\ u \in Served /\ Closed(u)
           /\ main' = [uart |-> u, steps |-> OpenSteps]
        \/ /\ Close(u) /\ ~Closed(u)
           /\ main' = [uart |-> u, steps |-> CloseSteps]
        BY DEF Open, Close
  <1>3. /\ OpenSteps \in Remaining /\ OpenSteps # <<>> /\ Head(OpenSteps) = "setHandler"
        /\ CloseSteps \in Remaining /\ CloseSteps # <<>>
        /\ Head(CloseSteps) = "disableStream"
        BY DEF OpenSteps, CloseSteps, Remaining
  <1>4. main'.uart = u /\ main'.steps # <<>> /\ main' \in [uart : Uarts, steps : Remaining]
        BY <1>2, <1>3
  <1>5. \A v \in Uarts : Stage(v) = IF Closed(v) THEN "closed" ELSE "open"
        BY <1>1 DEF Stage
  <1>6. \A v \in Uarts \ {u} : Stage(v)' = Stage(v)
        BY <1>1, <1>4, <1>5 DEF Stage, Closed
  <1>7. \A v \in Uarts \ {u} : Shape(v)'
        BY <1>1, <1>6, ShapeKept DEF Stages
  <1>8. CASE Open(u)
    <2>1. main'.steps = OpenSteps /\ Stage(u) = "closed"
          BY <1>2, <1>5, <1>8 DEF Open, Close
    <2>2. Stage(u)' = "setHandler"   BY <1>3, <1>4, <2>1 DEF Stage
    <2>3. Shape(u) /\ u \in Served   BY <1>8 DEF Stages, Open
    <2>4. Shape(u)'   BY <1>1, <2>1, <2>2, <2>3 DEF Shape, Served
    <2>5. ~Close(u)   BY <1>8 DEF Open, Close
    <2>6. QED  BY <1>4, <1>6, <1>7, <2>1, <2>2, <2>4, <2>5 DEF Stages
  <1>9. CASE Close(u)
    <2>1. main'.steps = CloseSteps /\ Stage(u) = "open"
          BY <1>2, <1>5, <1>9 DEF Open, Close
    <2>2. Stage(u)' = "disableStream"   BY <1>3, <1>4, <2>1 DEF Stage
    <2>3. Shape(u)   BY DEF Stages
    <2>4. Shape(u)'   BY <1>1, <2>1, <2>2, <2>3 DEF Shape, Served
    <2>5. ~Open(u)   BY <1>9 DEF Open, Close
    <2>6. QED  BY <1>4, <1>6, <1>7, <2>1, <2>2, <2>4, <2>5 DEF Stages
  <1>10. QED  BY <1>8, <1>9

(* The steps of opening and closing, each of which sets up, or takes away, *)
(* what the table of stages says.                                          *)
Setting == \/ SetHandler("setHandler", "driver") \/ SetHandler("resetHandler", "NULL")
           \/ SetDma \/ EnableIdle \/ EnableStream
           \/ DisableStream \/ DisableIdle \/ DisableDma \/ ResetDma

(* They leave all UARTs alone but one.                                     *)
LEMMA SettingOne ==
    ASSUME TypeOK, Setting
    PROVE  \A v \in Uarts \ {main.uart} :
             /\ rxByteHandlerP'[v] = rxByteHandlerP[v] /\ dmaRx'[v] = dmaRx[v]
             /\ enabled'[v] = enabled[v] /\ streaming'[v] = streaming[v]
             /\ write'[v] = write[v] /\ dmaLastReadPos'[v] = dmaLastReadPos[v]
             /\ flags'[v] = flags[v] /\ received'[v] = received[v]
             /\ delivered'[v] = delivered[v] /\ taken'[v] = taken[v]
  <1> SUFFICES ASSUME NEW v \in Uarts \ {main.uart}
               PROVE  /\ rxByteHandlerP'[v] = rxByteHandlerP[v] /\ dmaRx'[v] = dmaRx[v]
                      /\ enabled'[v] = enabled[v] /\ streaming'[v] = streaming[v]
                      /\ write'[v] = write[v] /\ dmaLastReadPos'[v] = dmaLastReadPos[v]
                      /\ flags'[v] = flags[v] /\ received'[v] = received[v]
                      /\ delivered'[v] = delivered[v] /\ taken'[v] = taken[v]
      OBVIOUS
  <1> USE DEF TypeOK, statics, hardware, history
  <1>1. CASE SetHandler("setHandler", "driver") \/ SetHandler("resetHandler", "NULL")
        BY <1>1 DEF SetHandler
  <1>2. CASE SetDma         BY <1>2 DEF SetDma
  <1>3. CASE EnableIdle     BY <1>3 DEF EnableIdle
  <1>4. CASE EnableStream   BY <1>4 DEF EnableStream
  <1>5. CASE DisableStream  BY <1>5 DEF DisableStream
  <1>6. CASE DisableIdle    BY <1>6 DEF DisableIdle
  <1>7. CASE DisableDma     BY <1>7 DEF DisableDma
  <1>8. CASE ResetDma       BY <1>8 DEF ResetDma
  <1>9. QED  BY <1>1, <1>2, <1>3, <1>4, <1>5, <1>6, <1>7, <1>8 DEF Setting

(* Which step it is.                                                       *)
LEMMA SettingDoes ==
    ASSUME Setting
    PROVE  Undisturbed /\ Done /\ \E step : Doing(step)
  BY DEF Setting, SetHandler, SetDma, EnableIdle, EnableStream, DisableStream,
         DisableIdle, DisableDma, ResetDma, Doing

(* Where each step leads from and to.                                      *)
LEMMA SettingMoves ==
    ASSUME TypeOK, Stages, Setting, NEW u, u = main.uart
    PROVE  /\ main' \in [uart : Uarts, steps : Remaining] /\ main'.uart = u /\ u \in Uarts
           /\ \A v \in Uarts \ {u} : Stage(v)' = Stage(v)
           /\ SetHandler("setHandler", "driver") =>
                Stage(u) = "setHandler" /\ Stage(u)' = "setDma"
           /\ SetDma => Stage(u) = "setDma" /\ Stage(u)' = "enableIdle"
           /\ EnableIdle => Stage(u) = "enableIdle" /\ Stage(u)' = "enableStream"
           /\ EnableStream => Stage(u) = "enableStream" /\ Stage(u)' = "open"
           /\ DisableStream => Stage(u) = "disableStream" /\ Stage(u)' = "disableIdle"
           /\ DisableIdle => Stage(u) = "disableIdle" /\ Stage(u)' = "disableDma"
           /\ DisableDma => Stage(u) = "disableDma" /\ Stage(u)' = "resetDma"
           /\ ResetDma => Stage(u) = "resetDma" /\ Stage(u)' = "resetHandler"
           /\ SetHandler("resetHandler", "NULL") =>
                Stage(u) = "resetHandler" /\ Stage(u)' = "closed"
  <1>1. PICK step : Doing(step)   BY SettingDoes
  <1>2. Done   BY SettingDoes
  <1>3. \A v \in Uarts \ {u} : rxByteHandlerP'[v] = rxByteHandlerP[v]   BY SettingOne
  <1>4. /\ main' \in [uart : Uarts, steps : Remaining] /\ main'.uart = u /\ u \in Uarts
        /\ \A v \in Uarts \ {u} : Stage(v)' = Stage(v)
        BY <1>1, <1>2, <1>3, StageMoves
  <1>5. SetHandler("setHandler", "driver") =>
          Stage(u) = "setHandler" /\ Stage(u)' = "setDma"
        BY <1>2, <1>3, StageMoves DEF SetHandler
  <1>6. SetDma => Stage(u) = "setDma" /\ Stage(u)' = "enableIdle"
        BY <1>2, <1>3, StageMoves DEF SetDma
  <1>7. EnableIdle => Stage(u) = "enableIdle" /\ Stage(u)' = "enableStream"
        BY <1>2, <1>3, StageMoves DEF EnableIdle
  <1>8. ASSUME EnableStream PROVE Stage(u) = "enableStream" /\ Stage(u)' = "open"
    <2>1. Stage(u) = "enableStream" /\ rxByteHandlerP' = rxByteHandlerP
          BY <1>2, <1>3, <1>8, StageMoves DEF EnableStream, statics
    <2>2. rxByteHandlerP[u] # "NULL"   BY <1>4, <2>1 DEF Stages, Shape
    <2>3. rxByteHandlerP'[u] # "NULL"   BY <2>1, <2>2
    <2>4. QED  BY <1>2, <1>3, <1>8, <2>1, <2>3, StageMoves DEF EnableStream
  <1>9. DisableStream => Stage(u) = "disableStream" /\ Stage(u)' = "disableIdle"
        BY <1>2, <1>3, StageMoves DEF DisableStream
  <1>10. DisableIdle => Stage(u) = "disableIdle" /\ Stage(u)' = "disableDma"
        BY <1>2, <1>3, StageMoves DEF DisableIdle
  <1>11. DisableDma => Stage(u) = "disableDma" /\ Stage(u)' = "resetDma"
        BY <1>2, <1>3, StageMoves DEF DisableDma
  <1>12. ResetDma => Stage(u) = "resetDma" /\ Stage(u)' = "resetHandler"
        BY <1>2, <1>3, StageMoves DEF ResetDma
  <1>13. ASSUME SetHandler("resetHandler", "NULL")
         PROVE  Stage(u) = "resetHandler" /\ Stage(u)' = "closed"
    <2>1. rxByteHandlerP'[u] = "NULL"   BY <1>4, <1>13 DEF SetHandler, TypeOK
    <2>2. QED  BY <1>2, <1>3, <1>13, <2>1, StageMoves DEF SetHandler
  <1>14. QED  BY <1>4, <1>5, <1>6, <1>7, <1>8, <1>9, <1>10, <1>11, <1>12, <1>13

(* Each step keeps the table: where it leads the UART has the shape the    *)
(* table gives.                                                            *)
LEMMA SettingStages ==
    ASSUME TypeOK, Stages, UNCHANGED chip, Setting
    PROVE  Stages'
  <1>0. PICK u \in Uarts : u = main.uart   BY DEF Stages
  <1>1. /\ main' \in [uart : Uarts, steps : Remaining]
        /\ \A v \in Uarts \ {u} : Stage(v)' = Stage(v)
        BY <1>0, SettingMoves
  <1>2. \A v \in Uarts \ {u} : Shape(v)'
        BY <1>0, <1>1, SettingOne, ShapeKept DEF Stages
  <1>3. Shape(u)   BY DEF Stages
  <1>4. Served' = Served   BY DEF Served
  <1>5. Shape(u)'
    <2> USE DEF TypeOK, statics, hardware, history
    <2>1. CASE SetHandler("setHandler", "driver")
      <3>1. rxByteHandlerP' = [rxByteHandlerP EXCEPT ![u] = "driver"]
            BY <1>0, <2>1 DEF SetHandler
      <3>2. Stage(u) = "setHandler" /\ Stage(u)' = "setDma"   BY <1>0, <2>1, SettingMoves
      <3>3. QED  BY <1>3, <1>4, <2>1, <3>1, <3>2 DEF SetHandler, Shape
    <2>2. CASE SetHandler("resetHandler", "NULL")
      <3>1. rxByteHandlerP' = [rxByteHandlerP EXCEPT ![u] = "NULL"]
            BY <1>0, <2>2 DEF SetHandler
      <3>2. Stage(u) = "resetHandler" /\ Stage(u)' = "closed"   BY <1>0, <2>2, SettingMoves
      <3>3. QED  BY <1>3, <1>4, <2>2, <3>1, <3>2 DEF SetHandler, Shape
    <2>3. CASE SetDma
      <3>1. Stage(u) = "setDma" /\ Stage(u)' = "enableIdle"   BY <1>0, <2>3, SettingMoves
      <3>2. /\ dmaRx' = [dmaRx EXCEPT ![u] = "DMA"]
            /\ dmaLastReadPos' = [dmaLastReadPos EXCEPT ![u] = 0]
            /\ write' = [write EXCEPT ![u] = 0]
            /\ enabled' = [enabled EXCEPT ![u] = @ \cup {"HT", "TC"}]
            /\ UNCHANGED <<rxByteHandlerP, streaming>>
            BY <1>0, <2>3 DEF SetDma
      <3>3. /\ dmaRx'[u] = "DMA" /\ dmaLastReadPos'[u] = 0 /\ write'[u] = 0
            /\ enabled'[u] = enabled[u] \cup {"HT", "TC"}
            BY <3>2
      <3>4. enabled[u] = {}   BY <1>3, <3>1 DEF Shape
      <3>5. QED  BY <1>3, <1>4, <3>1, <3>2, <3>3, <3>4 DEF Shape
    <2>4. CASE EnableIdle
      <3>1. Stage(u) = "enableIdle" /\ Stage(u)' = "enableStream"
            BY <1>0, <2>4, SettingMoves
      <3>2. /\ enabled' = [enabled EXCEPT ![u] = @ \cup {"IDLE"}]
            /\ UNCHANGED <<rxByteHandlerP, dmaRx, streaming, write, dmaLastReadPos>>
            BY <1>0, <2>4 DEF EnableIdle
      <3>3. enabled[u] = {"HT", "TC"}   BY <1>3, <3>1 DEF Shape
      <3>4. enabled'[u] = Events   BY <3>2, <3>3 DEF Events
      <3>5. QED  BY <1>3, <1>4, <3>1, <3>2, <3>4 DEF Shape
    <2>5. CASE EnableStream
      <3>1. Stage(u) = "enableStream" /\ Stage(u)' = "open"   BY <1>0, <2>5, SettingMoves
      <3>2. /\ streaming' = [streaming EXCEPT ![u] = TRUE]
            /\ UNCHANGED <<rxByteHandlerP, dmaRx, enabled>>
            BY <1>0, <2>5 DEF EnableStream
      <3>3. streaming'[u] = TRUE   BY <3>2
      <3>4. QED  BY <1>3, <1>4, <3>1, <3>2, <3>3 DEF Shape
    <2>6. CASE DisableStream
      <3>1. Stage(u) = "disableStream" /\ Stage(u)' = "disableIdle"
            BY <1>0, <2>6, SettingMoves
      <3>2. /\ streaming' = [streaming EXCEPT ![u] = FALSE]
            /\ UNCHANGED <<rxByteHandlerP, dmaRx, enabled>>
            BY <1>0, <2>6 DEF DisableStream
      <3>3. streaming'[u] = FALSE   BY <3>2
      <3>4. QED  BY <1>3, <1>4, <3>1, <3>2, <3>3 DEF Shape
    <2>7. CASE DisableIdle
      <3>1. Stage(u) = "disableIdle" /\ Stage(u)' = "disableDma"
            BY <1>0, <2>7, SettingMoves
      <3>2. /\ enabled' = [enabled EXCEPT ![u] = @ \ {"IDLE"}]
            /\ UNCHANGED <<rxByteHandlerP, dmaRx, streaming>>
            BY <1>0, <2>7 DEF DisableIdle
      <3>3. enabled[u] = Events   BY <1>3, <3>1 DEF Shape
      <3>4. enabled'[u] = {"HT", "TC"}   BY <3>2, <3>3 DEF Events
      <3>5. QED  BY <1>3, <1>4, <3>1, <3>2, <3>4 DEF Shape
    <2>8. CASE DisableDma
      <3>1. Stage(u) = "disableDma" /\ Stage(u)' = "resetDma"   BY <1>0, <2>8, SettingMoves
      <3>2. /\ enabled' = [enabled EXCEPT ![u] = @ \ {"TC", "HT"}]
            /\ UNCHANGED <<rxByteHandlerP, dmaRx, streaming>>
            BY <1>0, <2>8 DEF DisableDma
      <3>3. enabled[u] = {"HT", "TC"}   BY <1>3, <3>1 DEF Shape
      <3>4. enabled'[u] = {}   BY <3>2, <3>3
      <3>5. QED  BY <1>3, <1>4, <3>1, <3>2, <3>4 DEF Shape
    <2>9. CASE ResetDma
      <3>1. Stage(u) = "resetDma" /\ Stage(u)' = "resetHandler"
            BY <1>0, <2>9, SettingMoves
      <3>2. /\ dmaRx' = [dmaRx EXCEPT ![u] = "NULL"]
            /\ UNCHANGED <<rxByteHandlerP, enabled, streaming>>
            BY <1>0, <2>9 DEF ResetDma
      <3>3. dmaRx'[u] = "NULL"   BY <3>2
      <3>4. QED  BY <1>3, <1>4, <3>1, <3>2, <3>3 DEF Shape
    <2>10. QED  BY <2>1, <2>2, <2>3, <2>4, <2>5, <2>6, <2>7, <2>8, <2>9 DEF Setting
  <1>6. QED  BY <1>1, <1>2, <1>5 DEF Stages

-----------------------------------------------------------------------------
(* Whoever triggered is looked after.                                      *)

(* An interrupt comes from a UART with a DMA stream.                       *)
LEMMA HardwareReady ==
    ASSUME TypeOK, Stages, Ready, UNCHANGED chip, NEW u \in Uarts,
           Receive(u) \/ LineIdle(u) \/ \E event \in Events : Interrupt(u, event)
    PROVE  Ready'
  <1>1. UNCHANGED <<main, rxByteHandlerP, dmaRx, handler>>
        BY DEF Receive, LineIdle, Interrupt, statics
  <1>2. \A v \in Uarts : Stage(v)' = Stage(v)   BY <1>1, StageStays
  <1>3. CASE Receive(u) \/ LineIdle(u)
    <2>1. UNCHANGED <<triggered, pendSV>>   BY <1>3 DEF Receive, LineIdle
    <2>2. handler.uart \in Uarts   BY DEF TypeOK
    <2>3. QED  BY <1>1, <1>2, <2>1, <2>2 DEF Ready, WillTest, Serving, At
  <1>4. ASSUME NEW event \in Events, Interrupt(u, event)  PROVE Ready'
    <2>1. dmaRx[u] = "DMA" /\ u \in Served
      <3>1. event \in enabled[u] /\ Shape(u)
            BY <1>4 DEF Interrupt, Requested, Stages
      <3>2. QED  BY <3>1 DEF Shape
    <2>2. pendSV' = TRUE /\ triggered' = Triggered(u)   BY <1>4 DEF Interrupt
    <2>3. handler.uart \in Uarts /\ chip \in Chips   BY DEF TypeOK
    <2>4. CASE chip = "L0"
          BY <1>1, <1>2, <2>1, <2>2, <2>3, <2>4 DEF Ready, Triggered, Served, Serving, At
    <2>5. CASE chip # "L0"
      <3>1. chip = "F4"   BY <2>3, <2>5, Params
      <3>2. triggered' = [triggered EXCEPT ![u] = TRUE]   BY <2>2, <2>5 DEF Triggered
      <3>3. \A v \in Uarts : triggered'[v] => dmaRx'[v] = "DMA"
            BY <1>1, <2>1, <3>2 DEF Ready, TypeOK
      <3>4. At("clear")' => triggered'[handler'.uart]
            BY <1>1, <2>3, <3>2 DEF Ready, TypeOK, At
      <3>5. QED  BY <1>1, <1>2, <2>2, <2>3, <3>1, <3>3, <3>4 DEF Ready, Serving, WillTest
    <2>6. QED  BY <2>4, <2>5
  <1>5. QED  BY <1>3, <1>4

(* The handler passes no UART that triggered.                              *)
LEMMA PendSVReady ==
    ASSUME TypeOK, Stages, Ready, UNCHANGED chip, PendSVHandler
    PROVE  Ready'
  <1>1. UNCHANGED <<main, rxByteHandlerP, dmaRx>>
        BY DEF PendSVHandler, Enter, EnterL0, TestTrigger, ClearTrigger, Look, Deliver,
               StorePosition, statics
  <1>2. \A v \in Uarts : Stage(v)' = Stage(v)   BY <1>1, StageStays
  <1>3. /\ handler \in Handlers /\ handler.uart \in Uarts
        /\ chip = "F4" \/ chip = "L0"
        BY Params DEF TypeOK, Handlers
  <1>4. Inactive.at = "idle" /\ Inactive.uart = 1   BY DEF Inactive
  <1>5. /\ chip = "L0" \/ handler.uart = Last => NextUart.at = "idle" /\ NextUart.uart = 1
        /\ chip # "L0" /\ handler.uart # Last =>
             NextUart.at = "test" /\ NextUart.uart = handler.uart + 1
        BY <1>3 DEF NextUart, Inactive
  <1>6. CASE Enter
    <2>1. /\ handler'.at = "test" /\ handler'.uart = 1 /\ chip = "F4"
          /\ UNCHANGED triggered
          BY <1>6 DEF Enter, Inactive
    <2>2. \A u \in Uarts : 1 <= u   BY DEF Uarts
    <2>3. QED  BY <1>1, <1>2, <2>1, <2>2 DEF Ready, WillTest, Serving, At
  <1>7. CASE EnterL0
    <2>1. /\ handler'.at = "look" /\ handler'.uart = 1 /\ chip = "L0"
          /\ pendSV /\ pendSV' = FALSE /\ UNCHANGED triggered
          BY <1>7 DEF EnterL0, Inactive
    <2>2. QED  BY <1>1, <1>2, <2>1 DEF Ready, Serving, At
  <1>8. CASE TestTrigger
    <2>1. /\ handler.at = "test" /\ UNCHANGED <<triggered, pendSV>> /\ chip = "F4"
          BY <1>3, <1>8 DEF TestTrigger, At, Ready
    <2>2. CASE triggered[handler.uart]
      <3>1. handler'.at = "clear" /\ handler'.uart = handler.uart
            BY <1>3, <1>8, <2>2 DEF TestTrigger, Handlers
      <3>2. QED  BY <1>1, <1>2, <2>1, <2>2, <3>1 DEF Ready, WillTest, Serving, At
    <2>3. CASE ~triggered[handler.uart]
      <3>1. handler' = NextUart   BY <1>8, <2>3 DEF TestTrigger
      <3>2. \A u \in Uarts : triggered[u] =>
              dmaRx[u] = "DMA" /\ (pendSV \/ handler.uart < u)
            BY <1>3, <2>1, <2>3 DEF Ready, WillTest, Uarts
      <3>3. \A u \in Uarts : triggered'[u] => pendSV' \/ WillTest(u)'
            BY <1>3, <1>5, <2>1, <3>1, <3>2, Params DEF WillTest, Uarts
      <3>4. handler'.at \in {"idle", "test"}   BY <1>5, <2>1, <3>1
      <3>5. QED  BY <1>1, <1>2, <2>1, <3>2, <3>3, <3>4 DEF Ready, Serving, At
    <2>4. QED  BY <2>2, <2>3
  <1>9. CASE ClearTrigger
    <2>1. /\ handler.at = "clear" /\ UNCHANGED pendSV /\ chip = "F4"
          /\ handler'.at = "look" /\ handler'.uart = handler.uart
          /\ triggered' = [triggered EXCEPT ![handler.uart] = FALSE]
          BY <1>3, <1>9 DEF ClearTrigger, At, Ready, Handlers
    <2>2. dmaRx[handler.uart] = "DMA"   BY <1>3, <2>1 DEF Ready, Serving, At
    <2>3. \A u \in Uarts : triggered'[u] => triggered[u] /\ u # handler.uart
          BY <1>3, <2>1 DEF TypeOK
    <2>4. \A u \in Uarts : triggered'[u] => dmaRx[u] = "DMA" /\ (pendSV' \/ WillTest(u)')
          BY <1>3, <2>1, <2>3 DEF Ready, WillTest, Uarts
    <2>5. QED  BY <1>1, <1>2, <2>1, <2>2, <2>4 DEF Ready, Serving, At
  <1>10. CASE Look
    <2>1. /\ handler.at = "look" /\ UNCHANGED <<pendSV, triggered, write, dmaLastReadPos>>
          BY <1>10 DEF Look, At, hardware, statics
    <2>2. CASE write[handler.uart] = dmaLastReadPos[handler.uart]
      <3>1. handler' = NextUart   BY <1>10, <2>2 DEF Look
      <3>2. \A u \in Uarts : triggered'[u] => pendSV' \/ WillTest(u)'
            BY <1>3, <1>5, <2>1, <3>1, Params DEF Ready, WillTest, Uarts
      <3>3. QED  BY <1>1, <1>2, <1>3, <1>5, <2>1, <3>1, <3>2 DEF Ready, Serving, At
    <2>3. CASE write[handler.uart] # dmaLastReadPos[handler.uart]
      <3>1. handler'.at = "deliver" /\ handler'.uart = handler.uart
            BY <1>3, <1>10, <2>3 DEF Look, Handlers
      <3>2. Stage(handler.uart) \notin {"enableIdle", "enableStream"}
            BY <1>3, <2>3 DEF Stages, Shape
      <3>3. \A u \in Uarts : Serving(u)' => Stage(u)' \notin {"enableIdle", "enableStream"}
            BY <1>2, <3>1, <3>2 DEF Serving
      <3>4. QED  BY <1>1, <2>1, <3>1, <3>3 DEF Ready, WillTest, Serving, At
    <2>4. QED  BY <2>2, <2>3
  <1>11. CASE Deliver
    <2>1. /\ handler.at = "deliver" /\ UNCHANGED <<pendSV, triggered>>
          /\ handler'.at \in {"deliver", "store"} /\ handler'.uart = handler.uart
          BY <1>3, <1>11 DEF Deliver, At, Handlers
    <2>2. \A u \in Uarts : Serving(u)' => Stage(u)' \notin {"enableIdle", "enableStream"}
          BY <1>2, <2>1 DEF Ready, Serving
    <2>3. QED  BY <1>1, <2>1, <2>2 DEF Ready, WillTest, Serving, At
  <1>12. CASE StorePosition
    <2>1. /\ handler.at = "store" /\ UNCHANGED <<pendSV, triggered>>
          /\ handler' = NextUart
          BY <1>12 DEF StorePosition, At
    <2>2. \A u \in Uarts : triggered'[u] => pendSV' \/ WillTest(u)'
          BY <1>3, <1>5, <2>1, Params DEF Ready, WillTest, Uarts
    <2>3. QED  BY <1>1, <1>2, <1>3, <1>5, <2>1, <2>2 DEF Ready, Serving, At
  <1>13. QED  BY <1>6, <1>7, <1>8, <1>9, <1>10, <1>11, <1>12 DEF PendSVHandler

(* The main thread runs when no one is to be looked after.                 *)
LEMMA MainReady ==
    ASSUME TypeOK, Ready, UNCHANGED chip, MainThread
    PROVE  Ready'
  <1>1. Undisturbed /\ UNCHANGED <<handler, pendSV, triggered>>
        BY DEF MainThread, Open, Close, SetHandler, SetDma, EnableIdle, EnableStream,
               DisableStream, DisableIdle, DisableDma, ResetDma, Doing
  <1>2. \A u \in Uarts : ~triggered[u]   BY <1>1 DEF Undisturbed, Ready, WillTest, At
  <1>3. QED  BY <1>1, <1>2 DEF Undisturbed, Ready, Serving, At

(* The main thread keeps the stages.                                       *)
LEMMA MainStages ==
    ASSUME TypeOK, Stages, UNCHANGED chip, MainThread
    PROVE  Stages'
  BY BeginStages, SettingStages DEF MainThread, Setting

(* At the start all UARTs are closed.                                      *)
LEMMA ControlInit == ASSUME Init PROVE Control
  <1>1. TypeOK
    <2>1. /\ WE_dmaRxBuffer \in [Uarts -> [0 .. Size - 1 -> Nat]]
          /\ enabled \in [Uarts -> SUBSET Events] /\ flags \in [Uarts -> SUBSET Events]
          BY DEF Init
    <2>2. handler \in Handlers /\ sessions \in 0 .. MaxSessions
          BY InactiveType, Params DEF Init
    <2>3. delivered \in [Uarts -> Seq(Nat)]   BY DEF Init
    <2>4. /\ write \in [Uarts -> 0 .. Size - 1]
          /\ dmaLastReadPos \in [Uarts -> 0 .. Size - 1]
          BY Params DEF Init
    <2>5. QED  BY <2>1, <2>2, <2>3, <2>4 DEF Init, TypeOK, Handlers
  <1>2. Stages
    <2>1. main.steps = <<>> /\ main \in [uart : Uarts, steps : Remaining]
          BY Params DEF Init, Remaining
    <2>2. \A u \in Uarts : Stage(u) = "closed"   BY <2>1 DEF Init, Stage, Closed
    <2>3. QED  BY <2>1, <2>2 DEF Init, Stages, Shape
  <1>3. Ready   BY DEF Init, Ready, Serving, Inactive, At
  <1>4. QED  BY <1>1, <1>2, <1>3 DEF Control

(* Every step keeps the control.                                           *)
LEMMA ControlKept == ASSUME Control, Next PROVE Control'
  <1> USE DEF Control
  <1>1. UNCHANGED chip   BY DEF Next
  <1>2. ASSUME NEW u \in Uarts,
               Receive(u) \/ LineIdle(u) \/ \E event \in Events : Interrupt(u, event)
        PROVE  Control'
        BY <1>1, <1>2, HardwareType, HardwareStages, HardwareReady
  <1>3. CASE PendSVHandler   BY <1>1, <1>3, HandlerType, HandlerStages, PendSVReady
  <1>4. CASE MainThread      BY <1>1, <1>4, MainType, MainStages, MainReady
  <1>5. QED  BY <1>2, <1>3, <1>4 DEF Next

(* What does not change keeps.                                             *)
LEMMA ControlStutters == ASSUME Control, UNCHANGED vars PROVE Control'
  <1>1. TypeOK'   BY DEF Control, TypeOK, vars, moving, hardware, statics, history
  <1>2. Stages'
        BY DEF Control, Stages, Shape, Stage, Closed, Served, vars, moving, hardware, statics
  <1>3. Ready'
        BY DEF Control, Ready, WillTest, Serving, At, Stage, Closed, vars, moving, hardware, statics
  <1>4. QED  BY <1>1, <1>2, <1>3 DEF Control

(* The control at every state, whatever the order of opening and closing.  *)
THEOREM Controlled == Spec => []Control
  <1>1. Control /\ [Next]_vars => Control'   BY ControlKept, ControlStutters
  <1>2. QED  BY <1>1, ControlInit, PTL DEF Spec

(* Every variable keeps its type, whoever preempts whom (TypeOK).          *)
THEOREM TypeCorrect == Spec => []TypeOK
  BY Controlled, PTL DEF Control

(* PendSV_Handler never looks at a DMA stream that is gone, nor calls a    *)
(* byte handler that is gone, however UARTs are opened and closed.         *)
THEOREM HandlersReady == Spec => []HandlerReady
  <1>1. Control => HandlerReady
    <2> SUFFICES ASSUME Control PROVE HandlerReady   OBVIOUS
    <2>1. handler.uart \in Uarts /\ Shape(handler.uart)
          BY DEF Control, TypeOK, Stages
    <2>2. QED  BY <2>1 DEF Control, HandlerReady, Ready, Shape, At
  <1>2. QED  BY <1>1, Controlled, PTL
-----------------------------------------------------------------------------
(* The cells of the buffer: stepping from one to the next.                 *)
LEMMA Ring ==
    ASSUME NEW p \in 0 .. Size - 1
    PROVE  /\ Cell(p, 0) = p
           /\ \A d \in 0 .. Size - 1 : Cell(p, d) \in 0 .. Size - 1
           /\ \A d \in 0 .. Size - 2 : After(Cell(p, d)) = Cell(p, d + 1)
           /\ \A d \in 0 .. Size - 1 : Distance(p, Cell(p, d)) = d
  BY Params DEF Cell, Distance, After

(* A distance leads where it should.                                       *)
LEMMA RingDistance ==
    ASSUME NEW p \in 0 .. Size - 1, NEW q \in 0 .. Size - 1
    PROVE  Distance(p, q) \in 0 .. Size - 1 /\ Cell(p, Distance(p, q)) = q
  BY Params DEF Cell, Distance

(* Cells may be counted from another cell.                                 *)
LEMMA RingShift ==
    ASSUME NEW p \in 0 .. Size - 1, NEW d \in 0 .. Size - 1, NEW e \in 0 .. Size - 1,
           d + e <= Size - 1
    PROVE  Cell(Cell(p, d), e) = Cell(p, d + e)
  BY Params DEF Cell

(* Cells within one round differ.                                          *)
LEMMA RingOnce ==
    ASSUME NEW p \in 0 .. Size - 1, NEW d \in 0 .. Size - 1, NEW e \in 0 .. Size - 1
    PROVE  Cell(p, d) = Cell(p, e) <=> d = e
  BY Params DEF Cell

(* From here on UARTs are closed when no other is open. The clock goes on  *)
(* while a stream needs it: it is switched off by the closing of a UART,   *)
(* and then the others are closed.                                         *)
LEMMA ClockedKept ==
    ASSUME Control, Clocked, Next, ~Together
    PROVE  Clocked'
  <1> USE DEF Control
  <1>0. UNCHANGED chip   BY DEF Next
  <1>1. CASE UNCHANGED <<main, rxByteHandlerP, dmaClock>>
    <2>1. \A v \in Uarts : Stage(v)' = Stage(v)   BY <1>1, StageStays
    <2>2. QED  BY <1>1, <2>1 DEF Clocked
  <1>2. ASSUME NEW u \in Uarts, Open(u) \/ Close(u)  PROVE Clocked'
    <2>1. /\ UNCHANGED dmaClock
          /\ main.steps = <<>>
          /\ Close(u) => \A v \in Uarts \ {u} : Closed(v)
          BY <1>2 DEF Open, Close, hardware
    <2>2. \A v \in Uarts : Stage(v) = IF Closed(v) THEN "closed" ELSE "open"
          BY <2>1 DEF Stage
    <2>3. /\ Open(u) => Stage(u)' = "setHandler"
          /\ Close(u) => Stage(u) = "open" /\ Stage(u)' = "disableStream"
          /\ \A v \in Uarts \ {u} : Stage(v)' = Stage(v)
          BY <1>0, <1>2, BeginStages
    <2>4. QED  BY <1>2, <2>1, <2>2, <2>3 DEF Clocked, Closing
  <1>3. CASE Setting
    <2>0. PICK u \in Uarts : u = main.uart   BY DEF Stages
    <2>1. /\ \A v \in Uarts \ {u} : Stage(v)' = Stage(v)
          /\ \A v \in Uarts \ {u} : Stage(v) \in {"closed", "open"}
          BY <1>3, <2>0, SettingMoves DEF Stage
    <2>2. CASE SetHandler("setHandler", "driver") \/ SetHandler("resetHandler", "NULL")
      <3>1. UNCHANGED dmaClock   BY <2>2 DEF SetHandler, hardware
      <3>2. Stage(u)' \in {"setDma", "closed"}   BY <1>3, <2>0, <2>2, SettingMoves
      <3>3. QED  BY <2>1, <3>1, <3>2 DEF Clocked, Closing
    <2>3. CASE SetDma
      <3>1. dmaClock'   BY <2>3 DEF SetDma
      <3>2. Stage(u)' = "enableIdle"   BY <1>3, <2>0, <2>3, SettingMoves
      <3>3. QED  BY <2>1, <3>1, <3>2 DEF Clocked, Closing
    <2>4. CASE EnableIdle \/ EnableStream
      <3>1. UNCHANGED dmaClock   BY <2>4 DEF EnableIdle, EnableStream, hardware
      <3>2. /\ Stage(u) \in {"enableIdle", "enableStream"}
            /\ Stage(u)' \in {"enableStream", "open"}
            BY <1>3, <2>0, <2>4, SettingMoves
      <3>3. QED  BY <2>1, <3>1, <3>2 DEF Clocked, Closing
    <2>5. CASE DisableStream \/ DisableIdle \/ ResetDma
      <3>1. UNCHANGED dmaClock   BY <2>5 DEF DisableStream, DisableIdle, ResetDma, hardware
      <3>2. /\ Stage(u) \in Closing
            /\ Stage(u)' \in {"disableIdle", "disableDma", "resetHandler"}
            BY <1>3, <2>0, <2>5, SettingMoves DEF Closing
      <3>3. QED  BY <2>1, <3>1, <3>2 DEF Clocked, Closing
    <2>6. CASE DisableDma
      <3>1. Stage(u) = "disableDma" /\ Stage(u)' = "resetDma"
            BY <1>3, <2>0, <2>6, SettingMoves
      <3>2. \A v \in Uarts \ {u} : Stage(v) = "closed"   BY <3>1 DEF Clocked, Closing
      <3>3. QED  BY <2>1, <3>1, <3>2 DEF Clocked, Closing
    <2>7. QED  BY <1>3, <2>2, <2>3, <2>4, <2>5, <2>6 DEF Setting
  <1>4. CASE PendSVHandler
        BY <1>1, <1>4
        DEF PendSVHandler, Enter, EnterL0, TestTrigger, ClearTrigger, Look, Deliver,
            StorePosition, statics, hardware
  <1>5. ASSUME NEW u \in Uarts,
               Receive(u) \/ LineIdle(u) \/ \E event \in Events : Interrupt(u, event)
        PROVE  Clocked'
        BY <1>1, <1>5 DEF Receive, LineIdle, Interrupt, statics, hardware
  <1>6. QED  BY <1>2, <1>3, <1>4, <1>5 DEF Next, MainThread, Setting

(* What is known of the data of a UART that is in use.                     *)
LEMMA DataTypes ==
    ASSUME TypeOK, NEW u \in Uarts
    PROVE  /\ write[u] \in 0 .. Size - 1 /\ dmaLastReadPos[u] \in 0 .. Size - 1
           /\ received[u] \in Nat /\ taken[u] \in Nat
           /\ delivered[u] \in Seq(Nat) /\ Len(delivered[u]) \in Nat
           /\ WE_dmaRxBuffer[u] \in [0 .. Size - 1 -> Nat]
           /\ handler.pos \in 0 .. Size - 1 /\ handler.from \in 0 .. Size - 1
           /\ handler.uart \in Uarts /\ triggered[u] \in BOOLEAN
           /\ streaming[u] \in BOOLEAN /\ quiet[u] \in BOOLEAN
           /\ flags[u] \subseteq Events /\ enabled[u] \subseteq Events
  <1>1. handler \in Handlers   BY DEF TypeOK, Handlers
  <1>2. handler.pos \in 0 .. Size - 1 /\ handler.from \in 0 .. Size - 1
        /\ handler.uart \in Uarts
        BY <1>1 DEF Handlers
  <1>3. delivered[u] \in Seq(Nat) /\ Len(delivered[u]) \in Nat   BY DEF TypeOK
  <1>4. flags[u] \in SUBSET Events /\ enabled[u] \in SUBSET Events   BY DEF TypeOK
  <1>5. QED  BY <1>2, <1>3, <1>4 DEF TypeOK

(* A UART whose data do not change, and whose bytes are not being handed   *)
(* over, or are by a handler that does not move.                           *)
LEMMA DataStays ==
    ASSUME NEW u \in Uarts, Unread(u), Handed(u),
           WE_dmaRxBuffer'[u] = WE_dmaRxBuffer[u], write'[u] = write[u],
           dmaLastReadPos'[u] = dmaLastReadPos[u], received'[u] = received[u],
           taken'[u] = taken[u], delivered'[u] = delivered[u],
           Serving(u)' <=> Serving(u), Serving(u) => handler' = handler
    PROVE  Unread(u)' /\ Handed(u)'
  <1>1. Unread(u)'   BY DEF Unread
  <1>2. CASE Serving(u)
        BY <1>1, <1>2 DEF Handed, Serving, At
  <1>3. CASE ~Serving(u)
        BY <1>1, <1>3 DEF Handed, Serving, At
  <1>4. QED  BY <1>1, <1>2, <1>3

(* A byte that arrives: it is stored behind those that are unread.         *)
LEMMA ReceiveData ==
    ASSUME Control, Clocked, Data, UNCHANGED chip, NEW u \in Uarts, Receive(u)
    PROVE  Data'
  <1> USE DEF Control
  <1>1. \A v \in Uarts : Stage(v)' = Stage(v)
        BY StageStays DEF Receive, statics
  <1>2. /\ UNCHANGED <<handler, taken, delivered, dmaLastReadPos>>
        /\ streaming[u] /\ received[u] - taken[u] < MaxLead
        /\ received' = [received EXCEPT ![u] = @ + 1]
        BY DEF Receive, statics
  <1>3. Shape(u)   BY DEF Stages
  <1>4. Streaming(u) /\ dmaClock   BY <1>2, <1>3 DEF Shape, Streaming, Clocked
  <1>5. /\ write' = [write EXCEPT ![u] = After(@)]
        /\ WE_dmaRxBuffer' = [WE_dmaRxBuffer EXCEPT
                                ![u] = [@ EXCEPT ![write[u]] = received'[u]]]
        BY <1>4 DEF Receive
  <1>6. ASSUME NEW v \in Uarts \ {u}, Streaming(v)'  PROVE Unread(v)' /\ Handed(v)'
    <2>1. Unread(v) /\ Handed(v)   BY <1>1, <1>6 DEF Data, Streaming
    <2>2. /\ WE_dmaRxBuffer'[v] = WE_dmaRxBuffer[v] /\ write'[v] = write[v]
          /\ received'[v] = received[v]
          BY <1>2, <1>5 DEF TypeOK
    <2>3. Serving(v)' <=> Serving(v)   BY <1>2 DEF Serving
    <2>4. QED  BY <1>2, <2>1, <2>2, <2>3, DataStays
  <1>7. Unread(u)' /\ Handed(u)'
    <2>0. PICK n, p : n = received[u] - taken[u] /\ p = dmaLastReadPos[u]   OBVIOUS
    <2>1. Unread(u) /\ Handed(u)   BY <1>4 DEF Data
    <2>2. /\ n \in 0 .. Size - 2 /\ n + 1 <= MaxLead /\ p \in 0 .. Size - 1
          /\ write[u] = Cell(p, n) /\ taken[u] \in Nat /\ received[u] \in Nat
          /\ WE_dmaRxBuffer[u] \in [0 .. Size - 1 -> Nat]
          /\ received[u] = taken[u] + n
      <3>1. /\ p \in 0 .. Size - 1 /\ taken[u] \in Nat /\ received[u] \in Nat
            /\ WE_dmaRxBuffer[u] \in [0 .. Size - 1 -> Nat]
            BY <2>0, DataTypes
      <3>2. n \in Nat /\ n < MaxLead /\ write[u] = Cell(p, n)
            BY <1>2, <2>0, <2>1, <3>1 DEF Unread
      <3>3. n \in 0 .. Size - 2 /\ n + 1 <= MaxLead   BY <3>2, Params
      <3>4. received[u] = taken[u] + n   BY <2>0, <3>1
      <3>5. QED  BY <3>1, <3>2, <3>3, <3>4
    <2>3. /\ received'[u] = received[u] + 1 /\ taken'[u] = taken[u]
          /\ dmaLastReadPos'[u] = p
          /\ received'[u] - taken'[u] = n + 1
      <3>1. received'[u] = received[u] + 1 /\ taken'[u] = taken[u]
            BY <1>2 DEF TypeOK
      <3>2. QED  BY <1>2, <2>0, <2>2, <3>1
    <2>4. write'[u] = Cell(p, n + 1)
      <3>1. write'[u] = After(write[u])   BY <1>5 DEF TypeOK
      <3>2. QED  BY <2>2, <3>1, Ring
    <2>5. WE_dmaRxBuffer'[u] = [WE_dmaRxBuffer[u] EXCEPT ![Cell(p, n)] = received[u] + 1]
          BY <1>5, <2>2, <2>3 DEF TypeOK
    <2>6. \A d \in 0 .. n : WE_dmaRxBuffer'[u][Cell(p, d)] = taken[u] + d + 1
      <3> SUFFICES ASSUME NEW d \in 0 .. n
                   PROVE  WE_dmaRxBuffer'[u][Cell(p, d)] = taken[u] + d + 1
          OBVIOUS
      <3>1. d \in 0 .. Size - 1 /\ n \in 0 .. Size - 1   BY <2>2, Params
      <3>2. Cell(p, d) \in 0 .. Size - 1 /\ Cell(p, n) \in 0 .. Size - 1
            BY <2>2, <3>1, Ring
      <3>3. CASE d = n   BY <2>2, <2>5, <3>2, <3>3
      <3>4. CASE d # n
        <4>1. Cell(p, d) # Cell(p, n)   BY <2>2, <3>1, <3>4, RingOnce
        <4>2. d \in 0 .. n - 1   BY <2>2, <3>4
        <4>3. WE_dmaRxBuffer[u][Cell(p, d)] = taken[u] + d + 1
              BY <2>0, <2>1, <4>2 DEF Unread
        <4>4. QED  BY <2>2, <2>5, <3>2, <4>1, <4>3
      <3>5. QED  BY <3>3, <3>4
    <2>7. Unread(u)'
      <3>1. n \in Nat /\ n + 1 - 1 = n   BY <2>2
      <3>2. taken'[u] <= received'[u] /\ received'[u] - taken'[u] <= MaxLead
            BY <2>2, <2>3, Params
      <3>3. \A d \in 0 .. received'[u] - taken'[u] - 1 :
              WE_dmaRxBuffer'[u][Cell(dmaLastReadPos'[u], d)] = taken'[u] + d + 1
            BY <2>3, <2>6, <3>1
      <3>4. QED  BY <2>3, <2>4, <3>2, <3>3 DEF Unread
    <2>8. Handed(u)'
      <3>1. received'[u] - taken'[u] >= received[u] - taken[u]   BY <2>0, <2>2, <2>3
      <3>2. Distance(dmaLastReadPos[u], handler.pos) \in Nat
        <4>1. dmaLastReadPos[u] \in 0 .. Size - 1 /\ handler.pos \in 0 .. Size - 1
              BY DataTypes
        <4>2. Distance(dmaLastReadPos[u], handler.pos) \in 0 .. Size - 1   BY <4>1, RingDistance
        <4>3. QED  BY <4>2
      <3>3. n \in Int /\ n + 1 \in Int   BY <2>2
      <3>4. QED  BY <1>2, <2>0, <2>1, <2>2, <2>3, <3>1, <3>2, <3>3 DEF Handed, Serving, At
    <2>9. QED  BY <2>7, <2>8
  <1>8. \A v \in Uarts : Serving(v)' => Streaming(v)'
        BY <1>1, <1>2 DEF Data, Serving, Streaming
  <1>9. QED  BY <1>6, <1>7, <1>8 DEF Data

(* Steps that touch neither the buffers nor the bytes handed over.         *)
LEMMA IdleData ==
    ASSUME Control, Data,
           UNCHANGED <<main, rxByteHandlerP, WE_dmaRxBuffer, write, dmaLastReadPos,
                       received, taken, delivered>>,
           handler' = handler \/ \A v \in Uarts : ~Serving(v) /\ ~Serving(v)'
    PROVE  Data'
  <1>1. \A v \in Uarts : Stage(v)' = Stage(v)   BY StageStays
  <1>2. \A v \in Uarts : Serving(v)' <=> Serving(v)   BY DEF Serving
  <1>3. ASSUME NEW v \in Uarts, Streaming(v)'  PROVE Unread(v)' /\ Handed(v)'
    <2>1. Unread(v) /\ Handed(v)   BY <1>1, <1>3 DEF Data, Streaming
    <2>2. Serving(v) => handler' = handler   OBVIOUS
    <2>3. QED  BY <1>2, <2>1, <2>2, DataStays
  <1>4. QED  BY <1>1, <1>2, <1>3 DEF Data, Streaming

(* PendSV_Handler looks how far the DMA has got.                           *)
LEMMA LookData ==
    ASSUME Control, Data, UNCHANGED chip, Look
    PROVE  Data'
  <1> USE DEF Control
  <1>0. UNCHANGED <<main, rxByteHandlerP, WE_dmaRxBuffer, write, dmaLastReadPos,
                    received, taken, delivered>> /\ At("look")
        BY DEF Look, hardware, statics, history
  <1>1. PICK u \in Uarts : u = handler.uart   BY DEF TypeOK
  <1>2. \A v \in Uarts : ~Serving(v)   BY <1>0 DEF Serving, At
  <1>3. NextUart.at \in {"idle", "test"}   BY <1>1 DEF NextUart, Inactive
  <1>4. CASE write[u] = dmaLastReadPos[u]
    <2>1. handler' = NextUart   BY <1>1, <1>4 DEF Look
    <2>2. \A v \in Uarts : ~Serving(v)'   BY <1>3, <2>1 DEF Serving
    <2>3. QED  BY <1>0, <1>2, <2>2, IdleData
  <1>5. CASE write[u] # dmaLastReadPos[u]
    <2>1. /\ handler'.at = "deliver" /\ handler'.uart = u /\ handler'.pos = write[u]
          /\ handler'.from = dmaLastReadPos[u]
          BY <1>1, <1>5 DEF Look, TypeOK
    <2>2. \A v \in Uarts : Serving(v)' <=> v = u   BY <2>1 DEF Serving
    <2>3. \A v \in Uarts : Stage(v)' = Stage(v)   BY <1>0, StageStays
    <2>4. Streaming(u)
      <3>1. dmaRx[u] = "DMA" /\ Shape(u)   BY <1>0, <1>1 DEF Ready, At, Stages
      <3>2. Stage(u) \in {"closed", "setHandler", "setDma", "enableIdle", "enableStream",
                          "open"} \cup Closing
        <4>1. main.steps \in Remaining   BY DEF Stages
        <4>2. QED  BY <4>1, StepsLeft DEF Stage
      <3>3. QED  BY <1>5, <3>1, <3>2 DEF Shape, Streaming, Closing
    <2>5. ASSUME NEW v \in Uarts \ {u}, Streaming(v)'  PROVE Unread(v)' /\ Handed(v)'
      <3>1. Unread(v) /\ Handed(v)   BY <2>3, <2>5 DEF Data, Streaming
      <3>2. ~Serving(v) /\ ~Serving(v)'   BY <1>2, <2>2
      <3>3. QED  BY <1>0, <3>1, <3>2, DataStays
    <2>6. Unread(u) /\ Handed(u)   BY <2>4 DEF Data
    <2>7. Unread(u)'   BY <1>0, <2>6 DEF Unread
    <2>8. Handed(u)'
      <3>0. PICK n : n = received[u] - taken[u]   OBVIOUS
      <3>1. /\ n \in 0 .. Size - 1 /\ write[u] = Cell(dmaLastReadPos[u], n)
            /\ dmaLastReadPos[u] \in 0 .. Size - 1 /\ Len(delivered[u]) = taken[u]
            BY <1>2, <2>6, <3>0, DataTypes, Params DEF Unread, Handed
      <3>2. /\ Distance(dmaLastReadPos[u], write[u]) = n
            /\ Cell(dmaLastReadPos[u], 0) = dmaLastReadPos[u]
            BY <3>1, Ring
      <3>3. n # 0   BY <1>5, <3>1, <3>2
      <3>4. Len(delivered[u]) - taken[u] = 0   BY <3>1, DataTypes
      <3>5. QED  BY <1>0, <2>1, <2>2, <3>0, <3>1, <3>2, <3>3, <3>4 DEF Handed, At
    <2>9. QED  BY <2>2, <2>3, <2>4, <2>5, <2>7, <2>8 DEF Data, Streaming
  <1>6. QED  BY <1>4, <1>5

(* A byte is handed over: the next one of those that came.                 *)
LEMMA DeliverNext ==
    ASSUME Control, Data, Deliver, NEW u, u = handler.uart
    PROVE  /\ Streaming(u) /\ u \in Uarts /\ Len(delivered[u]) \in Nat
           /\ Len(delivered[u]) < received[u]
           /\ delivered' = [delivered EXCEPT ![u] = Append(@, Len(delivered[u]) + 1)]
  <1> USE DEF Control
  <1>1. /\ At("deliver") /\ u \in Uarts /\ Serving(u)
        BY DEF Deliver, At, Serving, TypeOK
  <1>2. Streaming(u) /\ Unread(u) /\ Handed(u)   BY <1>1 DEF Data
  <1>3. PICK p, done : p = dmaLastReadPos[u] /\ done = Len(delivered[u]) - taken[u]
        OBVIOUS
  <1>4. /\ p \in 0 .. Size - 1 /\ handler.pos \in 0 .. Size - 1
        /\ taken[u] \in Nat /\ received[u] \in Nat /\ Len(delivered[u]) \in Nat
        BY <1>1, <1>3, DataTypes
  <1>5. Distance(p, handler.pos) \in 0 .. Size - 1   BY <1>4, RingDistance
  <1>6. /\ done \in 0 .. Distance(p, handler.pos) - 1 /\ handler.from = Cell(p, done)
        /\ Distance(p, handler.pos) <= received[u] - taken[u]
        BY <1>1, <1>2, <1>3 DEF Handed
  <1>7. done \in 0 .. received[u] - taken[u] - 1 /\ Len(delivered[u]) = taken[u] + done
        BY <1>3, <1>4, <1>5, <1>6
  <1>8. WE_dmaRxBuffer[u][handler.from] = taken[u] + done + 1
        BY <1>2, <1>3, <1>6, <1>7 DEF Unread
  <1>9. Len(delivered[u]) < received[u]   BY <1>4, <1>7
  <1>10. taken[u] + done + 1 = Len(delivered[u]) + 1   BY <1>7
  <1>11. QED  BY <1>1, <1>2, <1>4, <1>8, <1>9, <1>10 DEF Deliver

(* A byte handed over leaves the bytes unread as they are.                 *)
LEMMA DeliverData ==
    ASSUME Control, Data, UNCHANGED chip, Deliver
    PROVE  Data'
  <1> USE DEF Control
  <1>0. /\ UNCHANGED <<main, rxByteHandlerP, WE_dmaRxBuffer, write, dmaLastReadPos,
                       received, taken>>
        /\ At("deliver")
        BY DEF Deliver, hardware, statics
  <1>1. PICK u \in Uarts : u = handler.uart   BY DEF TypeOK
  <1>2. /\ Streaming(u) /\ Len(delivered[u]) \in Nat
        /\ delivered' = [delivered EXCEPT ![u] = Append(@, Len(delivered[u]) + 1)]
        BY <1>1, DeliverNext
  <1>3. Unread(u) /\ Handed(u) /\ Serving(u)
        BY <1>0, <1>1, <1>2 DEF Data, Serving, At
  <1>4. \A v \in Uarts : Stage(v)' = Stage(v)   BY <1>0, StageStays
  <1>5. /\ handler'.uart = u /\ handler'.pos = handler.pos
        /\ handler'.from = After(handler.from)
        /\ handler'.at = IF After(handler.from) = handler.pos THEN "store" ELSE "deliver"
        BY <1>0, <1>1 DEF Deliver, TypeOK, At
  <1>6. \A v \in Uarts : (Serving(v) <=> v = u) /\ (Serving(v)' <=> v = u)
        BY <1>0, <1>1, <1>5 DEF Serving, At
  <1>7. ASSUME NEW v \in Uarts \ {u}, Streaming(v)'  PROVE Unread(v)' /\ Handed(v)'
    <2>1. Unread(v) /\ Handed(v)   BY <1>4, <1>7 DEF Data, Streaming
    <2>2. delivered'[v] = delivered[v]   BY <1>2 DEF TypeOK
    <2>3. QED  BY <1>0, <1>6, <2>1, <2>2, DataStays
  <1>8. Unread(u)'   BY <1>0, <1>3 DEF Unread
  <1>9. Handed(u)'
    <2>1. PICK p, done, count : /\ p = dmaLastReadPos[u]
                                /\ done = Len(delivered[u]) - taken[u]
                                /\ count = Distance(p, handler.pos)
          OBVIOUS
    <2>2. /\ p \in 0 .. Size - 1 /\ handler.pos \in 0 .. Size - 1
          /\ taken[u] \in Nat /\ delivered[u] \in Seq(Nat)
          BY <2>1, DataTypes
    <2>3. count \in 0 .. Size - 1 /\ Cell(p, count) = handler.pos
          BY <2>1, <2>2, RingDistance
    <2>4. /\ done \in 0 .. count - 1 /\ handler.from = Cell(p, done)
          /\ count <= received[u] - taken[u]
          BY <1>0, <1>3, <2>1 DEF Handed
    <2>5. done \in 0 .. Size - 2 /\ done + 1 \in 0 .. Size - 1 /\ done + 1 \in 0 .. count
          BY <2>3, <2>4, Params
    <2>6. After(handler.from) = Cell(p, done + 1)   BY <2>2, <2>4, <2>5, Ring
    <2>7. After(handler.from) = handler.pos <=> done + 1 = count
          BY <2>2, <2>3, <2>5, <2>6, RingOnce
    <2>8. Len(delivered'[u]) - taken'[u] = done + 1
      <3>1. Len(delivered'[u]) = Len(delivered[u]) + 1   BY <1>2, <2>2 DEF TypeOK
      <3>2. QED  BY <1>0, <1>2, <2>1, <2>2, <3>1
    <2>9. done + 1 # count => done + 1 \in 0 .. count - 1   BY <2>3, <2>5
    <2>10. QED  BY <1>0, <1>5, <1>6, <2>1, <2>4, <2>6, <2>7, <2>8, <2>9 DEF Handed, At
  <1>10. QED  BY <1>2, <1>4, <1>6, <1>7, <1>8, <1>9 DEF Data, Streaming

(* The position is stored: what was handed over is no longer unread.       *)
LEMMA StoreData ==
    ASSUME Control, Data, UNCHANGED chip, StorePosition
    PROVE  Data'
  <1> USE DEF Control
  <1>0. /\ UNCHANGED <<main, rxByteHandlerP, WE_dmaRxBuffer, write, received, delivered>>
        /\ At("store")
        BY DEF StorePosition, hardware
  <1>1. PICK u \in Uarts : u = handler.uart   BY DEF TypeOK
  <1>2. /\ dmaLastReadPos' = [dmaLastReadPos EXCEPT ![u] = handler.pos]
        /\ taken' = [taken EXCEPT ![u] = Len(delivered[u])]
        /\ handler' = NextUart
        BY <1>1 DEF StorePosition
  <1>3. Serving(u) /\ Streaming(u) /\ Unread(u) /\ Handed(u)
        BY <1>0, <1>1 DEF Data, Serving, At
  <1>4. \A v \in Uarts : Stage(v)' = Stage(v)   BY <1>0, StageStays
  <1>5. \A v \in Uarts : ~Serving(v)'
    <2>1. NextUart.at \in {"idle", "test"}   BY <1>1 DEF NextUart, Inactive
    <2>2. QED  BY <1>2, <2>1 DEF Serving
  <1>6. ASSUME NEW v \in Uarts \ {u}, Streaming(v)'  PROVE Unread(v)' /\ Handed(v)'
    <2>1. Unread(v) /\ Handed(v)   BY <1>4, <1>6 DEF Data, Streaming
    <2>2. dmaLastReadPos'[v] = dmaLastReadPos[v] /\ taken'[v] = taken[v]
          BY <1>2 DEF TypeOK
    <2>3. ~Serving(v)   BY <1>1 DEF Serving
    <2>4. QED  BY <1>0, <1>5, <2>1, <2>2, <2>3, DataStays
  <1>7. PICK p, n, count : /\ p = dmaLastReadPos[u] /\ n = received[u] - taken[u]
                           /\ count = Distance(p, handler.pos)
        OBVIOUS
  <1>8. /\ p \in 0 .. Size - 1 /\ handler.pos \in 0 .. Size - 1
        /\ taken[u] \in Nat /\ received[u] \in Nat /\ Len(delivered[u]) \in Nat
        BY <1>7, DataTypes
  <1>9. count \in 0 .. Size - 1 /\ Cell(p, count) = handler.pos
        BY <1>7, <1>8, RingDistance
  <1>10. /\ n \in 0 .. MaxLead /\ n \in 0 .. Size - 1 /\ count \in 0 .. n
         /\ Len(delivered[u]) = taken[u] + count
    <2>1. count <= n /\ n <= MaxLead /\ Len(delivered[u]) - taken[u] = count
          BY <1>0, <1>3, <1>7 DEF Handed, Unread
    <2>2. n \in Int /\ count \in Int   BY <1>7, <1>8, <1>9
    <2>3. QED  BY <1>8, <1>9, <2>1, <2>2, Params
  <1>11. /\ dmaLastReadPos'[u] = handler.pos /\ taken'[u] = taken[u] + count
         /\ received'[u] - taken'[u] = n - count
    <2>1. dmaLastReadPos'[u] = handler.pos /\ taken'[u] = taken[u] + count
          BY <1>2, <1>10 DEF TypeOK
    <2>2. QED  BY <1>0, <1>7, <1>8, <1>9, <2>1
  <1>12. \A d \in 0 .. n - count : Cell(handler.pos, d) = Cell(p, count + d)
    <2> SUFFICES ASSUME NEW d \in 0 .. n - count
                 PROVE  Cell(handler.pos, d) = Cell(p, count + d)
        OBVIOUS
    <2>1. d \in 0 .. Size - 1 /\ count + d <= Size - 1   BY <1>9, <1>10, Params
    <2>2. QED  BY <1>8, <1>9, <2>1, RingShift
  <1>13. Unread(u)'
    <2>1. write'[u] = Cell(handler.pos, n - count)
      <3>1. n - count \in 0 .. n - count /\ count + (n - count) = n   BY <1>9, <1>10
      <3>2. write[u] = Cell(p, n)   BY <1>3, <1>7 DEF Unread
      <3>3. QED  BY <1>0, <1>12, <3>1, <3>2
    <2>2. \A d \in 0 .. n - count - 1 :
            WE_dmaRxBuffer'[u][Cell(handler.pos, d)] = taken'[u] + d + 1
      <3> SUFFICES ASSUME NEW d \in 0 .. n - count - 1
                   PROVE  WE_dmaRxBuffer[u][Cell(handler.pos, d)] = taken[u] + count + d + 1
          BY <1>0, <1>11
      <3>1. d \in 0 .. n - count /\ count + d \in 0 .. n - 1   BY <1>9, <1>10
      <3>2. WE_dmaRxBuffer[u][Cell(p, count + d)] = taken[u] + (count + d) + 1
            BY <1>3, <1>7, <3>1 DEF Unread
      <3>3. taken[u] + (count + d) + 1 = taken[u] + count + d + 1
            BY <1>8, <1>9, <3>1
      <3>4. QED  BY <1>12, <3>1, <3>2, <3>3
    <2>3. taken'[u] <= received'[u] /\ received'[u] - taken'[u] <= MaxLead
      <3>1. taken[u] + count <= received[u]   BY <1>7, <1>8, <1>9, <1>10
      <3>2. n - count <= MaxLead   BY <1>9, <1>10, Params
      <3>3. QED  BY <1>0, <1>11, <3>1, <3>2
    <2>4. QED  BY <1>11, <2>1, <2>2, <2>3 DEF Unread
  <1>14. Handed(u)'
    <2>1. Len(delivered'[u]) - taken'[u] = 0   BY <1>0, <1>8, <1>9, <1>10, <1>11
    <2>2. QED  BY <1>5, <2>1 DEF Handed
  <1>15. QED  BY <1>3, <1>4, <1>5, <1>6, <1>13, <1>14 DEF Data, Streaming

(* A UART that is opened has an empty buffer when its stream is enabled;   *)
(* no other step of the main thread touches bytes.                         *)
LEMMA MainData ==
    ASSUME Control, Data, UNCHANGED chip, MainThread
    PROVE  Data'
  <1> USE DEF Control
  <1>1. /\ handler' = handler /\ UNCHANGED WE_dmaRxBuffer
        /\ \A v \in Uarts : ~Serving(v) /\ ~Serving(v)'
    <2>1. handler' = handler /\ Undisturbed
          BY DEF MainThread, Open, Close, SetHandler, SetDma, EnableIdle, EnableStream,
                 DisableStream, DisableIdle, DisableDma, ResetDma, Doing
    <2>2. UNCHANGED WE_dmaRxBuffer
          BY DEF MainThread, Open, Close, SetHandler, SetDma, EnableIdle, EnableStream,
                 DisableStream, DisableIdle, DisableDma, ResetDma, hardware
    <2>3. QED  BY <2>1, <2>2 DEF Undisturbed, At, Serving
  <1>2. ASSUME NEW u \in Uarts, Open(u) \/ Close(u)  PROVE Data'
    <2>1. UNCHANGED <<write, dmaLastReadPos, received, taken, delivered>>
          BY <1>2 DEF Open, Close, hardware, statics, history
    <2>2. \A v \in Uarts : Streaming(v)' => Streaming(v)
      <3>1. /\ \A v \in Uarts \ {u} : Stage(v)' = Stage(v)
            /\ Open(u) => Stage(u)' = "setHandler"
            /\ Close(u) => Stage(u) = "open"
            BY <1>2, BeginStages
      <3>2. QED  BY <1>2, <3>1 DEF Streaming
    <2>3. ASSUME NEW v \in Uarts, Streaming(v)'  PROVE Unread(v)' /\ Handed(v)'
          BY <1>1, <2>1, <2>2, <2>3, DataStays DEF Data
    <2>4. QED  BY <1>1, <2>3 DEF Data
  <1>3. CASE Setting
    <2>0. PICK u \in Uarts : u = main.uart   BY DEF Stages
    <2>1. \A v \in Uarts \ {u} : Stage(v)' = Stage(v)   BY <1>3, <2>0, SettingMoves
    <2>2. ASSUME NEW v \in Uarts \ {u}, Streaming(v)'  PROVE Unread(v)' /\ Handed(v)'
      <3>1. Unread(v) /\ Handed(v)   BY <2>1, <2>2 DEF Data, Streaming
      <3>2. /\ write'[v] = write[v] /\ dmaLastReadPos'[v] = dmaLastReadPos[v]
            /\ received'[v] = received[v] /\ delivered'[v] = delivered[v]
            /\ taken'[v] = taken[v]
            BY <1>3, <2>0, SettingOne
      <3>3. QED  BY <1>1, <3>1, <3>2, DataStays
    <2>3. ASSUME Streaming(u)'  PROVE Unread(u)' /\ Handed(u)'
      <3>1. CASE EnableStream
        <4>1. Stage(u) = "enableStream"   BY <1>3, <2>0, <3>1, SettingMoves
        <4>2. write[u] = 0 /\ dmaLastReadPos[u] = 0   BY <4>1 DEF Stages, Shape
        <4>3. UNCHANGED <<write, dmaLastReadPos>>   BY <3>1 DEF EnableStream, statics
        <4>4. received'[u] = 0 /\ taken'[u] = 0 /\ delivered'[u] = <<>>
              BY <2>0, <3>1 DEF EnableStream, TypeOK
        <4>5. Cell(0, 0) = 0   BY Params DEF Cell
        <4>6. Unread(u)'   BY <4>2, <4>3, <4>4, <4>5, Params DEF Unread
        <4>7. Handed(u)'   BY <1>1, <4>4 DEF Handed
        <4>8. QED  BY <4>6, <4>7
      <3>2. CASE DisableStream \/ DisableIdle \/ DisableDma
        <4>1. Streaming(u)   BY <1>3, <2>0, <3>2, SettingMoves DEF Streaming
        <4>2. UNCHANGED <<write, dmaLastReadPos, received, taken, delivered>>
              BY <3>2 DEF DisableStream, DisableIdle, DisableDma, hardware, statics, history
        <4>3. QED  BY <1>1, <4>1, <4>2, DataStays DEF Data
      <3>3. CASE SetHandler("setHandler", "driver") \/ SetHandler("resetHandler", "NULL")
                 \/ SetDma \/ EnableIdle \/ ResetDma
        <4>1. Stage(u)' \in {"setDma", "closed", "enableIdle", "enableStream",
                             "resetHandler"}
              BY <1>3, <2>0, <3>3, SettingMoves
        <4>2. QED  BY <2>3, <4>1 DEF Streaming
      <3>4. QED  BY <1>3, <3>1, <3>2, <3>3 DEF Setting
    <2>4. QED  BY <1>1, <2>2, <2>3 DEF Data
  <1>4. QED  BY <1>2, <1>3 DEF MainThread, Setting

(* Every step keeps what is known of the data.                             *)
LEMMA DataKept ==
    ASSUME Control, Clocked, Data, Next
    PROVE  Data'
  <1> USE DEF Control
  <1>0. UNCHANGED chip   BY DEF Next
  <1>1. ASSUME NEW u \in Uarts, Receive(u)  PROVE Data'
        BY <1>0, <1>1, ReceiveData
  <1>2. ASSUME NEW u \in Uarts, LineIdle(u) \/ \E event \in Events : Interrupt(u, event)
        PROVE  Data'
    <2>1. /\ UNCHANGED <<main, rxByteHandlerP, WE_dmaRxBuffer, write, dmaLastReadPos,
                         received, taken, delivered>>
          /\ handler' = handler
          BY <1>2 DEF LineIdle, Interrupt, hardware, statics, history
    <2>2. QED  BY <2>1, IdleData
  <1>3. CASE Enter \/ EnterL0 \/ TestTrigger \/ ClearTrigger
    <2>1. UNCHANGED <<main, rxByteHandlerP, WE_dmaRxBuffer, write, dmaLastReadPos,
                      received, taken, delivered>>
          BY <1>3 DEF Enter, EnterL0, TestTrigger, ClearTrigger, hardware, statics, history
    <2>2. handler.at \in {"idle", "test", "clear"}
          BY <1>3 DEF Enter, EnterL0, TestTrigger, ClearTrigger, At
    <2>3. NextUart.at \in {"idle", "test"}
      <3>1. handler.uart \in Uarts   BY DEF TypeOK
      <3>2. QED  BY <3>1 DEF NextUart, Inactive
    <2>4. handler'.at \in {"idle", "test", "clear", "look"}
          BY <1>3, <2>3 DEF Enter, EnterL0, TestTrigger, ClearTrigger, Inactive, TypeOK
    <2>5. \A v \in Uarts : ~Serving(v) /\ ~Serving(v)'   BY <2>2, <2>4 DEF Serving
    <2>6. QED  BY <2>1, <2>5, IdleData
  <1>4. CASE Look            BY <1>0, <1>4, LookData
  <1>5. CASE Deliver         BY <1>0, <1>5, DeliverData
  <1>6. CASE StorePosition   BY <1>0, <1>6, StoreData
  <1>7. CASE MainThread      BY <1>0, <1>7, MainData
  <1>8. QED  BY <1>1, <1>2, <1>3, <1>4, <1>5, <1>6, <1>7 DEF Next, PendSVHandler

-----------------------------------------------------------------------------
(* Nothing is left behind.                                                 *)

(* While nobody is told and no handler runs, all is handed over.           *)
LEMMA Quiet ==
    ASSUME Control, Noticed, Undisturbed, NEW u \in Uarts, streaming[u], quiet[u]
    PROVE  Len(delivered[u]) = received[u]
  <1> USE DEF Control
  <1>1. Shape(u)   BY DEF Stages
  <1>2. enabled[u] = Events   BY <1>1 DEF Shape
  <1>3. "IDLE" \notin flags[u]   BY <1>2 DEF Undisturbed, Requested, Events
  <1>4. ~triggered[u]   BY DEF Undisturbed, Ready, WillTest, At
  <1>5. QED  BY <1>3, <1>4 DEF Noticed, Undisturbed, Serving, At

(* A byte, an idle line and an interrupt: whoever is not told yet will be. *)
LEMMA HardwareNoticed ==
    ASSUME Control, Noticed, UNCHANGED chip, NEW u \in Uarts,
           Receive(u) \/ LineIdle(u) \/ \E event \in Events : Interrupt(u, event)
    PROVE  Noticed'
  <1> USE DEF Control
  <1>1. UNCHANGED <<handler, streaming, delivered>>
        BY DEF Receive, LineIdle, Interrupt, hardware, history
  <1>2. CASE Receive(u)
    <2>1. /\ ~quiet'[u] /\ UNCHANGED <<triggered, pendSV>>
          /\ \A v \in Uarts \ {u} : /\ quiet'[v] = quiet[v] /\ received'[v] = received[v]
                                    /\ flags'[v] = flags[v] /\ write'[v] = write[v]
          BY <1>2 DEF Receive, TypeOK
    <2>2. QED  BY <1>1, <2>1 DEF Noticed, Serving, At
  <1>3. CASE LineIdle(u)
    <2>1. /\ "IDLE" \in flags'[u] /\ UNCHANGED <<triggered, pendSV, received, write>>
          /\ \A v \in Uarts \ {u} : quiet'[v] = quiet[v] /\ flags'[v] = flags[v]
          BY <1>3 DEF LineIdle, TypeOK, history
    <2>2. QED  BY <1>1, <2>1 DEF Noticed, Serving, At
  <1>4. ASSUME NEW event \in Events, Interrupt(u, event)  PROVE Noticed'
    <2>1. /\ pendSV' /\ UNCHANGED <<received, write, quiet>>
          /\ \A v \in Uarts \ {u} : flags'[v] = flags[v]
          /\ triggered' = Triggered(u)
          BY <1>4 DEF Interrupt, TypeOK, hardware, history
    <2>2. /\ chip # "L0" => triggered'[u]
          /\ \A v \in Uarts : triggered[v] => triggered'[v]
          BY <2>1 DEF Triggered, TypeOK
    <2>3. QED  BY <1>1, <2>1, <2>2 DEF Noticed, Serving, At
  <1>5. QED  BY <1>2, <1>3, <1>4

(* The handler: a trigger becomes a look, a look a delivery up to where    *)
(* the DMA was, and that delivers all, or a byte came since.               *)
LEMMA PendSVNoticed ==
    ASSUME Control, Data, Noticed, UNCHANGED chip, PendSVHandler
    PROVE  Noticed'
  <1> USE DEF Control
  <1>0. /\ UNCHANGED <<streaming, quiet, flags, received, write>>
        /\ handler.uart \in Uarts
        BY DEF PendSVHandler, Enter, EnterL0, TestTrigger, ClearTrigger, Look, Deliver,
               StorePosition, hardware, history, TypeOK
  <1>1. PICK u \in Uarts : u = handler.uart   BY <1>0
  <1>2. CASE Enter \/ TestTrigger
    <2>1. /\ handler.at \in {"idle", "test"} /\ UNCHANGED <<triggered, delivered>>
          /\ chip # "L0"
          BY <1>2 DEF Enter, TestTrigger, At, history, Ready
    <2>2. QED  BY <1>0, <2>1 DEF Noticed, Serving, At
  <1>3. CASE EnterL0
    <2>1. /\ handler.at = "idle" /\ UNCHANGED <<triggered, delivered>> /\ chip = "L0"
          /\ handler'.at = "look" /\ handler'.uart = 1
          BY <1>3 DEF EnterL0, At, history, Inactive
    <2>2. \A v \in Uarts : streaming[v] => v = 1
      <3>1. \A v \in Uarts : streaming[v] => Stage(v) # "closed"   BY DEF Stages, Shape
      <3>2. QED  BY <2>1, <3>1 DEF Stages, Shape, Served
    <2>3. QED  BY <1>0, <2>1, <2>2 DEF Noticed, Serving, At
  <1>4. CASE ClearTrigger
    <2>1. /\ handler.at = "clear" /\ UNCHANGED <<pendSV, delivered>>
          /\ handler'.at = "look" /\ handler'.uart = u
          /\ \A v \in Uarts \ {u} : triggered'[v] = triggered[v]
          BY <1>1, <1>4 DEF ClearTrigger, At, history, TypeOK
    <2>2. QED  BY <1>0, <2>1 DEF Noticed, Serving, At
  <1>5. CASE Look
    <2>1. /\ handler.at = "look" /\ UNCHANGED <<pendSV, triggered, delivered>>
          BY <1>5 DEF Look, At, history
    <2>2. \A v \in Uarts : ~Serving(v)   BY <2>1 DEF Serving
    <2>3. CASE write[u] = dmaLastReadPos[u]
      <3>1. ASSUME streaming[u]  PROVE Len(delivered[u]) = received[u]
        <4>1. Streaming(u)   BY <3>1 DEF Stages, Shape, Streaming
        <4>2. Unread(u) /\ Handed(u)   BY <4>1 DEF Data
        <4>3. PICK n : n = received[u] - taken[u]   OBVIOUS
        <4>4. /\ dmaLastReadPos[u] \in 0 .. Size - 1 /\ taken[u] \in Nat
              /\ received[u] \in Nat /\ Len(delivered[u]) \in Nat
              BY DataTypes
        <4>5. n \in 0 .. Size - 1 /\ write[u] = Cell(dmaLastReadPos[u], n)
              BY <4>2, <4>3, <4>4, Params DEF Unread
        <4>6. n = 0
          <5>1. Distance(dmaLastReadPos[u], Cell(dmaLastReadPos[u], n)) = n
                BY <4>4, <4>5, Ring
          <5>2. Distance(dmaLastReadPos[u], dmaLastReadPos[u]) = 0
                BY <4>4 DEF Distance
          <5>3. QED  BY <2>3, <4>5, <5>1, <5>2
        <4>7. Len(delivered[u]) - taken[u] = 0   BY <2>2, <4>2 DEF Handed
        <4>8. QED  BY <4>3, <4>4, <4>6, <4>7
      <3>2. QED  BY <1>0, <1>1, <2>1, <2>2, <3>1 DEF Noticed, At
    <2>4. CASE write[u] # dmaLastReadPos[u]
      <3>1. handler'.at = "deliver" /\ handler'.uart = u /\ handler'.pos = write[u]
            BY <1>1, <1>5, <2>4 DEF Look, TypeOK
      <3>2. Serving(u)'   BY <3>1 DEF Serving
      <3>3. QED  BY <1>0, <1>1, <2>1, <2>2, <3>1, <3>2 DEF Noticed, At
    <2>5. QED  BY <2>3, <2>4
  <1>6. CASE Deliver
    <2>1. /\ handler.at = "deliver" /\ UNCHANGED <<pendSV, triggered>>
          /\ \A v \in Uarts \ {u} : delivered'[v] = delivered[v]
          /\ handler'.at \in {"deliver", "store"} /\ handler'.uart = u
          /\ handler'.pos = handler.pos
          BY <1>1, <1>6 DEF Deliver, At, TypeOK
    <2>2. Len(delivered[u]) # received[u]
      <3>1. Len(delivered[u]) < received[u] /\ Len(delivered[u]) \in Nat
            BY <1>1, <1>6, DeliverNext
      <3>2. received[u] \in Nat   BY DEF TypeOK
      <3>3. QED  BY <3>1, <3>2
    <2>3. QED  BY <1>0, <1>1, <2>1, <2>2 DEF Noticed, Serving, At
  <1>7. CASE StorePosition
    <2>1. handler.at = "store" /\ UNCHANGED <<pendSV, triggered, delivered>>
          BY <1>7 DEF StorePosition, At
    <2>2. ASSUME streaming[u], handler.pos = write[u]
          PROVE  Len(delivered[u]) = received[u]
      <3>1. Streaming(u) /\ Serving(u)
            BY <1>1, <2>1, <2>2 DEF Stages, Shape, Streaming, Serving
      <3>2. Unread(u) /\ Handed(u)   BY <3>1 DEF Data
      <3>3. PICK n : n = received[u] - taken[u]   OBVIOUS
      <3>4. /\ dmaLastReadPos[u] \in 0 .. Size - 1 /\ taken[u] \in Nat
            /\ received[u] \in Nat /\ Len(delivered[u]) \in Nat
            BY DataTypes
      <3>5. n \in 0 .. Size - 1 /\ write[u] = Cell(dmaLastReadPos[u], n)
            BY <3>2, <3>3, <3>4, Params DEF Unread
      <3>6. Distance(dmaLastReadPos[u], handler.pos) = n
        <4>1. Distance(dmaLastReadPos[u], Cell(dmaLastReadPos[u], n)) = n
              BY <3>4, <3>5, Ring
        <4>2. handler.pos = Cell(dmaLastReadPos[u], n)   BY <2>2, <3>5
        <4>3. QED  BY <4>1, <4>2
      <3>7. Len(delivered[u]) - taken[u] = n   BY <2>1, <3>1, <3>2, <3>6 DEF Handed, At
      <3>8. QED  BY <3>3, <3>4, <3>7
    <2>3. QED  BY <1>0, <1>1, <2>1, <2>2 DEF Noticed, Serving, At
  <1>8. QED  BY <1>2, <1>3, <1>4, <1>5, <1>6, <1>7 DEF PendSVHandler

(* The main thread enables streams, nobody having sent anything yet.       *)
LEMMA MainNoticed ==
    ASSUME Control, Noticed, UNCHANGED chip, MainThread
    PROVE  Noticed'
  <1> USE DEF Control
  <1>1. Undisturbed /\ UNCHANGED quiet
        BY DEF MainThread, Open, Close, SetHandler, SetDma, EnableIdle, EnableStream,
               DisableStream, DisableIdle, DisableDma, ResetDma, Doing, hardware
  <1>2. ASSUME NEW u \in Uarts, streaming'[u], quiet'[u]
        PROVE  Len(delivered'[u]) = received'[u]
    <2>1. CASE streaming[u] /\ delivered'[u] = delivered[u] /\ received'[u] = received[u]
          BY <1>1, <1>2, <2>1, Quiet
    <2>2. CASE EnableStream /\ main.uart = u
      <3>1. delivered'[u] = <<>> /\ received'[u] = 0   BY <2>2 DEF EnableStream, TypeOK
      <3>2. QED  BY <3>1
    <2>3. EnableStream => main.uart \in Uarts   BY DEF Stages
    <2>4. QED
      <3>1. CASE EnableStream /\ main.uart # u
        <4>1. /\ streaming'[u] = streaming[u] /\ delivered'[u] = delivered[u]
              /\ received'[u] = received[u]
              BY <3>1 DEF EnableStream, TypeOK
        <4>2. QED  BY <1>2, <2>1, <4>1
      <3>2. CASE DisableStream
        <4>1. delivered' = delivered /\ received' = received /\ main.uart \in Uarts
              BY <3>2 DEF DisableStream, history, Stages
        <4>2. streaming'[u] => streaming[u]
              BY <3>2, <4>1 DEF DisableStream, TypeOK
        <4>3. QED  BY <1>2, <2>1, <4>1, <4>2
      <3>3. CASE UNCHANGED <<streaming, delivered, received>>
            BY <1>2, <2>1, <3>3
      <3>4. QED  BY <2>2, <3>1, <3>2, <3>3
                 DEF MainThread, Open, Close, SetHandler, SetDma, EnableIdle, DisableIdle,
                     DisableDma, ResetDma, hardware, history
  <1>3. QED  BY <1>2 DEF Noticed

(* The inductive invariant: at the start, ...                              *)
LEMMA IInvInit == ASSUME Init PROVE IInv
  <1>1. Control   BY ControlInit
  <1>2. \A u \in Uarts : Stage(u) = "closed" /\ ~Serving(u)
        BY DEF Init, Stage, Closed, Serving, Inactive
  <1>3. Clocked /\ Data   BY <1>2 DEF Clocked, Data, Closing, Streaming
  <1>4. Noticed   BY DEF Init, Noticed
  <1>5. QED  BY <1>1, <1>3, <1>4 DEF IInv

(* ... by every step ...                                                   *)
LEMMA IInvKept == ASSUME IInv, Next, ~Together PROVE IInv'
  <1> USE DEF IInv
  <1>1. Control' /\ Clocked' /\ Data'   BY ControlKept, ClockedKept, DataKept
  <1>2. Noticed'
    <2>1. UNCHANGED chip   BY DEF Next
    <2>2. QED  BY <2>1, HardwareNoticed, PendSVNoticed, MainNoticed DEF Next
  <1>3. QED  BY <1>1, <1>2

(* ... and by none.                                                        *)
LEMMA IInvStutters == ASSUME IInv, UNCHANGED vars PROVE IInv'
  <1>1. Control'   BY ControlStutters DEF IInv
  <1>2. Clocked' /\ Noticed'
        BY DEF IInv, Clocked, Noticed, Stage, Closed, Serving, At, vars, moving, hardware,
               statics, history
  <1>3. Data'
    <2>1. UNCHANGED <<main, rxByteHandlerP, WE_dmaRxBuffer, write, dmaLastReadPos,
                      received, taken, delivered, handler>>
          BY DEF vars, moving, hardware, statics, history
    <2>2. QED  BY <2>1, IdleData DEF IInv
  <1>4. QED  BY <1>1, <1>2, <1>3 DEF IInv

(* The buffer, the triggers and the handlers at every state, when UARTs    *)
(* are closed one at a time.                                               *)
THEOREM Invariance == ASSUME ~Together PROVE Spec => []IInv
  <1>1. IInv /\ [Next]_vars => IInv'   BY IInvKept, IInvStutters
  <1>2. QED  BY <1>1, IInvInit, PTL DEF Spec

(* When a line is idle and nobody is about to run, the driver has all      *)
(* bytes that came: no interrupt between the steps of PendSV_Handler is    *)
(* lost, on either platform (NothingLeft).                                 *)
THEOREM NoneLeft == ASSUME ~Together PROVE Spec => []NothingLeft
  <1>1. IInv => NothingLeft   BY Quiet DEF IInv, NothingLeft, AllDelivered
  <1>2. QED  BY <1>1, Invariance, PTL

-----------------------------------------------------------------------------
(* Byte streams.                                                           *)

(* Of a byte stream nothing but its four parts is looked at.               *)
LEMMA StreamStays ==
    ASSUME NEW u \in Uarts, streaming'[u] = streaming[u], received'[u] = received[u],
           delivered'[u] = delivered[u]
    PROVE  UNCHANGED Reception(u)!stream
  <1>1. Arrived(u)' = Arrived(u)   BY DEF Arrived
  <1>2. QED  BY <1>1 DEF Reception!stream

(* What arrived so far is the beginning of what arrived then.              *)
LEMMA ArrivedGrows ==
    ASSUME NEW n \in Nat
    PROVE  LET before == [i \in 1 .. n |-> i]
               after  == [i \in 1 .. n + 1 |-> i]
           IN  /\ Len(before) = n /\ Len(after) = n + 1
               /\ before = SubSeq(after, 1, Len(before))
  <1> DEFINE before == [i \in 1 .. n |-> i]
             after  == [i \in 1 .. n + 1 |-> i]
  <1>1. before \in Seq(Nat) /\ after \in Seq(Nat)   OBVIOUS
  <1>2. Len(before) = n /\ Len(after) = n + 1   OBVIOUS
  <1>3. SubSeq(after, 1, n) \in Seq(Nat) /\ Len(SubSeq(after, 1, n)) = n   BY <1>2
  <1>4. \A i \in 1 .. n : SubSeq(after, 1, n)[i] = before[i]   BY <1>2
  <1>5. before = SubSeq(after, 1, n)
    <2> HIDE DEF before, after
    <2>1. \A s, t \in Seq(Nat) :
            Len(s) = Len(t) /\ (\A i \in 1 .. Len(s) : s[i] = t[i]) => s = t
          OBVIOUS
    <2>2. QED  BY <1>1, <1>2, <1>3, <1>4, <2>1
  <1>6. QED  BY <1>2, <1>5

(* Receive is Put.                                                         *)
LEMMA ReceivePuts ==
    ASSUME Control, NEW u \in Uarts, Receive(u)
    PROVE  Reception(u)!Next
  <1>1. /\ streaming[u] /\ received[u] \in Nat
        /\ received'[u] = received[u] + 1
        /\ UNCHANGED <<streaming, delivered>>
        BY DEF Receive, Control, TypeOK
  <1>2. /\ Arrived(u) = [i \in 1 .. received[u] |-> i]
        /\ Arrived(u)' = [i \in 1 .. received[u] + 1 |-> i]
        BY <1>1 DEF Arrived
  <1>3. /\ Len(Arrived(u)) = received[u] /\ Len(Arrived(u)') = received[u] + 1
        /\ Arrived(u) = SubSeq(Arrived(u)', 1, Len(Arrived(u)))
        BY <1>1, <1>2, ArrivedGrows
  <1>4. Len(Arrived(u)) < Len(Arrived(u)')   BY <1>1, <1>3
  <1>5. Reception(u)!Put   BY <1>1, <1>3, <1>4 DEF Reception!Put
  <1>6. QED  BY <1>5 DEF Reception!Next

(* Deliver is Get.                                                         *)
LEMMA DeliverGets ==
    ASSUME Control, Data, NEW u \in Uarts, Deliver, u = handler.uart
    PROVE  Reception(u)!Next
  <1>1. /\ Len(delivered[u]) \in Nat /\ Len(delivered[u]) < received[u]
        /\ delivered' = [delivered EXCEPT ![u] = Append(@, Len(delivered[u]) + 1)]
        BY DeliverNext
  <1>2. UNCHANGED <<streaming, received>>   BY DEF Deliver, hardware
  <1>3. received[u] \in Nat   BY DEF Control, TypeOK
  <1>4. Len(Arrived(u)) = received[u]   BY <1>3 DEF Arrived
  <1>5. Arrived(u)[Len(delivered[u]) + 1] = Len(delivered[u]) + 1
        BY <1>1, <1>3 DEF Arrived
  <1>6. delivered'[u] = Append(delivered[u], Arrived(u)[Len(delivered[u]) + 1])
        BY <1>1, <1>5 DEF Control, TypeOK
  <1>7. Arrived(u)' = Arrived(u)   BY <1>2 DEF Arrived
  <1>8. Reception(u)!Get   BY <1>1, <1>2, <1>4, <1>6, <1>7 DEF Reception!Get
  <1>9. QED  BY <1>8 DEF Reception!Next

(* EnableStream is Open and DisableStream is Close.                        *)
LEMMA MainOpens ==
    ASSUME Control, UNCHANGED chip, MainThread, NEW u \in Uarts
    PROVE  Reception(u)!Next \/ UNCHANGED Reception(u)!stream
  <1> USE DEF Control
  <1>1. CASE UNCHANGED <<streaming, delivered, received>>   BY <1>1, StreamStays
  <1>2. ASSUME EnableStream \/ DisableStream, u # main.uart
        PROVE  UNCHANGED Reception(u)!stream
        BY <1>2, SettingOne, StreamStays DEF Setting
  <1>3. ASSUME EnableStream, u = main.uart  PROVE Reception(u)!Next
    <2>1. Stage(u) = "enableStream"   BY <1>3, SettingMoves DEF Setting
    <2>2. ~streaming[u]   BY <2>1 DEF Stages, Shape
    <2>3. streaming'[u] = TRUE /\ received'[u] = 0 /\ delivered'[u] = <<>>
          BY <1>3 DEF EnableStream, TypeOK
    <2>4. Arrived(u)' = <<>>
      <3>1. Arrived(u)' = [i \in 1 .. 0 |-> i]   BY <2>3 DEF Arrived
      <3>2. QED  BY <3>1
    <2>5. Reception(u)!Open   BY <2>2, <2>3, <2>4 DEF Reception!Open
    <2>6. QED  BY <2>5 DEF Reception!Next
  <1>4. ASSUME DisableStream, u = main.uart  PROVE Reception(u)!Next
    <2>1. Stage(u) = "disableStream"   BY <1>4, SettingMoves DEF Setting
    <2>2. streaming[u]   BY <2>1 DEF Stages, Shape
    <2>3. streaming'[u] = FALSE /\ UNCHANGED <<received, delivered>>
          BY <1>4 DEF DisableStream, TypeOK, history
    <2>4. Arrived(u)' = Arrived(u)   BY <2>3 DEF Arrived
    <2>5. Reception(u)!Close   BY <2>2, <2>3, <2>4 DEF Reception!Close
    <2>6. QED  BY <2>5 DEF Reception!Next
  <1>5. QED
        BY <1>1, <1>2, <1>3, <1>4
        DEF MainThread, Open, Close, SetHandler, SetDma, EnableIdle, DisableIdle,
            DisableDma, ResetDma, hardware, history

(* Every step is one of each byte stream, or none.                         *)
LEMMA StreamsStep ==
    ASSUME IInv, Next, NEW u \in Uarts
    PROVE  Reception(u)!Next \/ UNCHANGED Reception(u)!stream
  <1> USE DEF IInv
  <1>1. UNCHANGED chip   BY DEF Next
  <1>2. ASSUME NEW v \in Uarts, Receive(v)
        PROVE  Reception(u)!Next \/ UNCHANGED Reception(u)!stream
    <2>1. CASE v = u   BY <1>2, <2>1, ReceivePuts
    <2>2. CASE v # u
      <3>1. /\ streaming'[u] = streaming[u] /\ received'[u] = received[u]
            /\ delivered'[u] = delivered[u]
            BY <1>2, <2>2 DEF Receive, Control, TypeOK
      <3>2. QED  BY <3>1, StreamStays
    <2>3. QED  BY <2>1, <2>2
  <1>3. ASSUME NEW v \in Uarts, LineIdle(v) \/ \E event \in Events : Interrupt(v, event)
        PROVE  UNCHANGED Reception(u)!stream
    <2>1. UNCHANGED <<streaming, received, delivered>>
          BY <1>3 DEF LineIdle, Interrupt, hardware, history
    <2>2. QED  BY <2>1, StreamStays
  <1>4. CASE Deliver
    <2>1. CASE handler.uart = u   BY <1>4, <2>1, DeliverGets
    <2>2. CASE handler.uart # u
      <3>1. /\ UNCHANGED <<streaming, received>> /\ delivered'[u] = delivered[u]
            BY <1>4, <2>2 DEF Deliver, Control, TypeOK, hardware
      <3>2. QED  BY <3>1, StreamStays
    <2>3. QED  BY <2>1, <2>2
  <1>5. CASE Enter \/ EnterL0 \/ TestTrigger \/ ClearTrigger \/ Look \/ StorePosition
    <2>1. UNCHANGED <<streaming, received, delivered>>
          BY <1>5 DEF Enter, EnterL0, TestTrigger, ClearTrigger, Look, StorePosition,
                      hardware, history
    <2>2. QED  BY <2>1, StreamStays
  <1>6. CASE MainThread   BY <1>1, <1>6, MainOpens
  <1>7. QED  BY <1>2, <1>3, <1>4, <1>5, <1>6 DEF Next, PendSVHandler

(* From its opening to its closing each UART is a byte stream: what comes  *)
(* over the line is handed to the driver, every byte once and in order,    *)
(* whatever interrupts what, and whatever the other UARTs do               *)
(* (ImplementsStreams).                                                    *)
THEOREM AreStreams == ASSUME ~Together PROVE Spec => ImplementsStreams
  <1>1. Init => \A u \in Uarts : Reception(u)!Init
    <2> SUFFICES ASSUME Init, NEW u \in Uarts  PROVE Reception(u)!Init   OBVIOUS
    <2>1. streaming[u] = FALSE /\ delivered[u] = <<>> /\ received[u] = 0   BY DEF Init
    <2>2. Arrived(u) = <<>>
      <3>1. Arrived(u) = [i \in 1 .. 0 |-> i]   BY <2>1 DEF Arrived
      <3>2. QED  BY <3>1
    <2>3. QED  BY <2>1, <2>2 DEF Reception!Init
  <1>2. IInv /\ [Next]_vars =>
          [\A u \in Uarts : [Reception(u)!Next]_(Reception(u)!stream)]_vars
    <2> SUFFICES ASSUME IInv, [Next]_vars
                 PROVE  [\A u \in Uarts : [Reception(u)!Next]_(Reception(u)!stream)]_vars
        OBVIOUS
    <2>1. CASE Next
      <3>1. \A u \in Uarts : [Reception(u)!Next]_(Reception(u)!stream)
            BY <2>1, StreamsStep
      <3>2. QED  BY <3>1
    <2>2. CASE UNCHANGED vars   BY <2>2
    <2>3. QED  BY <2>1, <2>2
  <1>3. QED  BY <1>1, <1>2, Invariance, PTL DEF Spec, ImplementsStreams
=============================================================================
