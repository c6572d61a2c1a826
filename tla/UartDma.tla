------------------------------- MODULE UartDma -------------------------------
(***************************************************************************)
(* Reception of the platform layer with WE_UART_DMA: the DMA controller    *)
(* writes bytes into a circular buffer per UART; the idle-line interrupt   *)
(* and the half/full interrupts of the DMA pend the PendSV handler, which  *)
(* hands the new bytes to the driver. UARTs are opened and closed by the   *)
(* main thread. There are two platform layers: that of the STM32F4 serves  *)
(* all UARTs, that of the STM32L0 the first, and without the trigger flag. *)
(*                                                                         *)
(* Three priorities: the UART and DMA interrupts (0) preempt the PendSV    *)
(* handler (1), and both preempt the main thread. The DMA and the line go  *)
(* on beside them.                                                         *)
(***************************************************************************)
EXTENDS Integers, Sequences

CONSTANTS
    Last,           \* the UARTs are 1 .. Last: the order of PendSV_Handler
    Size,           \* WE_DMA_RX_BUFFER_SIZE
    MaxLead,        \* the host keeps up: bytes unread are never more
    Chips,          \* the platforms: "F4", "L0"
    Together,       \* a UART may be closed while another is open
    MaxBytes,       \* bound: bytes per UART between opening and closing
    MaxSessions     \* bound: how often UARTs are opened

ASSUME UartDmaAssumption ==
    /\ Last \in Nat \ {0} /\ Size \in Nat \ {0, 1}
    /\ MaxLead \in 1 .. Size - 1
    /\ Chips \subseteq {"F4", "L0"}
    /\ Together \in BOOLEAN /\ MaxBytes \in Nat /\ MaxSessions \in Nat

Uarts == 1 .. Last
Events == {"IDLE", "HT", "TC"}

VARIABLES
    chip,                   \* the platform; does not change
    WE_dmaRxBuffer,         \* per UART: the circular buffer
    write, streaming,       \* where the DMA writes; its stream is enabled
    dmaClock,               \* the clock of the DMA controller, for all UARTs
    enabled, flags,         \* interrupts enabled, and flagged
    quiet,                  \* no byte since the line was last found idle
    dmaLastReadPos, triggered, dmaRx, rxByteHandlerP,
    pendSV, handler,        \* PendSV is pending; where its handler is
    main,                   \* what the main thread has still to do, where
    received, delivered,    \* history: bytes that came, bytes handed over
    taken,                  \* history: bytes up to dmaLastReadPos
    sessions                \* the bounded counter

hardware == <<WE_dmaRxBuffer, write, streaming, dmaClock, quiet>>
statics  == <<dmaLastReadPos, dmaRx, rxByteHandlerP>>
history  == <<received, delivered, taken>>
moving   == <<hardware, enabled, flags, statics, triggered, pendSV, handler, main,
              history, sessions>>
vars == <<chip, moving>>

Inactive == [at |-> "idle", uart |-> 1, pos |-> 0, from |-> 0]

Init ==
    /\ chip \in Chips
    /\ WE_dmaRxBuffer = [u \in Uarts |-> [i \in 0 .. Size - 1 |-> 0]]
    /\ write = [u \in Uarts |-> 0] /\ streaming = [u \in Uarts |-> FALSE]
    /\ dmaClock = FALSE
    /\ enabled = [u \in Uarts |-> {}] /\ flags = [u \in Uarts |-> {}]
    /\ quiet = [u \in Uarts |-> TRUE]
    /\ dmaLastReadPos = [u \in Uarts |-> 0]
    /\ triggered = [u \in Uarts |-> FALSE]
    /\ dmaRx = [u \in Uarts |-> "NULL"]
    /\ rxByteHandlerP = [u \in Uarts |-> "NULL"]
    /\ pendSV = FALSE /\ handler = Inactive
    /\ main = [uart |-> 1, steps |-> <<>>]
    /\ received = [u \in Uarts |-> 0] /\ delivered = [u \in Uarts |-> <<>>]
    /\ taken = [u \in Uarts |-> 0]
    /\ sessions = 0

(* Mutant of After: the end of the buffer is one cell later.               *)
AfterNoWrap(pos) == IF pos = Size THEN 0 ELSE pos + 1

(* The circular successor.                                                 *)
After(pos) == IF pos + 1 = Size THEN 0 ELSE pos + 1

-----------------------------------------------------------------------------
(* The hardware.                                                           *)

(* What the DMA flags when it has written up to pos.                       *)
Reached(pos) == (IF pos = Size \div 2 THEN {"HT"} ELSE {})
                  \cup (IF pos = 0 THEN {"TC"} ELSE {})

(* A byte arrives for an open UART. The controller stores it if it has a   *)
(* clock.                                                                  *)
Receive(u) ==
    /\ streaming[u] /\ received[u] < MaxBytes
    /\ received[u] - taken[u] < MaxLead
    /\ received' = [received EXCEPT ![u] = @ + 1]
    /\ quiet' = [quiet EXCEPT ![u] = FALSE]
    /\ IF dmaClock
       THEN /\ WE_dmaRxBuffer' = [WE_dmaRxBuffer EXCEPT
                                    ![u] = [@ EXCEPT ![write[u]] = received'[u]]]
            /\ write' = [write EXCEPT ![u] = After(@)]
            /\ flags' = [flags EXCEPT ![u] = @ \cup Reached(After(write[u]))]
       ELSE UNCHANGED <<WE_dmaRxBuffer, write, flags>>
    /\ UNCHANGED <<streaming, dmaClock, enabled, statics, triggered, pendSV, handler,
                   main, delivered, taken, sessions>>

(* No further byte for the length of one: the line is idle.                *)
LineIdle(u) ==
    /\ ~quiet[u]
    /\ quiet' = [quiet EXCEPT ![u] = TRUE]
    /\ flags' = [flags EXCEPT ![u] = @ \cup {"IDLE"}]
    /\ UNCHANGED <<WE_dmaRxBuffer, write, streaming, dmaClock, enabled, statics,
                   triggered, pendSV, handler, main, history, sessions>>

-----------------------------------------------------------------------------
(* Priority 0: USARTx_IRQHandler and DMA2_Streamx_IRQHandler.              *)
Requested(u) == enabled[u] \cap flags[u]

(* WE_UART1_CheckIfDmaDataAvailableAsync pends PendSV; that of the F4 also *)
(* says for which UART.                                                    *)
Triggered(u) == IF chip = "L0" THEN triggered ELSE [triggered EXCEPT ![u] = TRUE]

Interrupt(u, event) ==
    /\ event \in Requested(u)
    /\ flags' = [flags EXCEPT ![u] = @ \ {event}]
    /\ pendSV' = TRUE
    /\ triggered' = Triggered(u)
    /\ UNCHANGED <<hardware, enabled, statics, handler, main, history, sessions>>

-----------------------------------------------------------------------------
(* Priority 1: PendSV_Handler. It may be preempted between any two steps.  *)
At(what) == handler.at = what

NextUart == IF chip = "L0" \/ handler.uart = Last THEN Inactive
            ELSE [Inactive EXCEPT !.at = "test", !.uart = handler.uart + 1]

Enter ==
    /\ chip = "F4" /\ At("idle") /\ pendSV
    /\ pendSV' = FALSE
    /\ handler' = [Inactive EXCEPT !.at = "test"]
    /\ UNCHANGED <<hardware, enabled, flags, statics, triggered, main, history, sessions>>

(* The handler of the L0 looks at once.                                    *)
EnterL0 ==
    /\ chip = "L0" /\ At("idle") /\ pendSV
    /\ pendSV' = FALSE
    /\ handler' = [Inactive EXCEPT !.at = "look"]
    /\ UNCHANGED <<hardware, enabled, flags, statics, triggered, main, history, sessions>>

TestTrigger ==
    /\ At("test")
    /\ handler' = IF triggered[handler.uart] THEN [handler EXCEPT !.at = "clear"]
                                             ELSE NextUart
    /\ UNCHANGED <<hardware, enabled, flags, statics, triggered, pendSV, main,
                   history, sessions>>

ClearTrigger ==
    /\ At("clear")
    /\ triggered' = [triggered EXCEPT ![handler.uart] = FALSE]
    /\ handler' = [handler EXCEPT !.at = "look"]
    /\ UNCHANGED <<hardware, enabled, flags, statics, pendSV, main, history, sessions>>

(* WE_UARTx_CheckIfDmaDataAvailable: how far the DMA has got.              *)
Look ==
    /\ At("look")
    /\ LET u == handler.uart
       IN  handler' = IF write[u] = dmaLastReadPos[u] THEN NextUart
                      ELSE [handler EXCEPT !.at = "deliver", !.pos = write[u],
                                           !.from = dmaLastReadPos[u]]
    /\ UNCHANGED <<hardware, enabled, flags, statics, triggered, pendSV, main,
                   history, sessions>>

(* Mutant of Deliver: the bytes before pos are forgotten when it wraps.    *)
DeliverOneChunk ==
    /\ At("deliver")
    /\ LET u == handler.uart
       IN  delivered' = [delivered EXCEPT
                           ![u] = Append(@, WE_dmaRxBuffer[u][handler.from])]
    /\ handler' = [handler EXCEPT !.from = After(@),
                     !.at = IF After(handler.from) \in {0, handler.pos}
                            THEN "store" ELSE @]
    /\ UNCHANGED <<hardware, enabled, flags, statics, triggered, pendSV, main,
                   received, taken, sessions>>

(* The driver's byte handler takes one byte of a chunk; the chunks are     *)
(* from the last position to pos, or to the end and on from the start.     *)
Deliver ==
    /\ At("deliver")
    /\ LET u == handler.uart
       IN  delivered' = [delivered EXCEPT
                           ![u] = Append(@, WE_dmaRxBuffer[u][handler.from])]
    /\ handler' = [handler EXCEPT !.from = After(@),
                     !.at = IF After(handler.from) = handler.pos THEN "store" ELSE @]
    /\ UNCHANGED <<hardware, enabled, flags, statics, triggered, pendSV, main,
                   received, taken, sessions>>

(* Mutant of StorePosition: the position of the DMA is read once more.     *)
StoreNewPosition ==
    /\ At("store")
    /\ LET u == handler.uart
       IN  /\ dmaLastReadPos' = [dmaLastReadPos EXCEPT ![u] = write[u]]
           /\ taken' = [taken EXCEPT ![u] = Len(delivered[u])]
    /\ handler' = NextUart
    /\ UNCHANGED <<hardware, enabled, flags, dmaRx, rxByteHandlerP, triggered, pendSV,
                   main, received, delivered, sessions>>

(* Mutant of StorePosition: the trigger is reset (once more) here: a       *)
(* trigger that came while the bytes were handled is forgotten.            *)
StorePositionReset ==
    /\ At("store")
    /\ LET u == handler.uart
       IN  /\ dmaLastReadPos' = [dmaLastReadPos EXCEPT ![u] = handler.pos]
           /\ taken' = [taken EXCEPT ![u] = Len(delivered[u])]
           /\ triggered' = [triggered EXCEPT ![u] = FALSE]
    /\ handler' = NextUart
    /\ UNCHANGED <<hardware, enabled, flags, dmaRx, rxByteHandlerP, pendSV,
                   main, received, delivered, sessions>>

StorePosition ==
    /\ At("store")
    /\ LET u == handler.uart
       IN  /\ dmaLastReadPos' = [dmaLastReadPos EXCEPT ![u] = handler.pos]
           /\ taken' = [taken EXCEPT ![u] = Len(delivered[u])]
    /\ handler' = NextUart
    /\ UNCHANGED <<hardware, enabled, flags, dmaRx, rxByteHandlerP, triggered, pendSV,
                   main, received, delivered, sessions>>

PendSVHandler ==
    Enter \/ EnterL0 \/ TestTrigger \/ ClearTrigger \/ Look \/ Deliver \/ StorePosition

-----------------------------------------------------------------------------
(* The main thread: WE_UARTx_Init and WE_UARTx_DeInit, step by step.       *)
Undisturbed == At("idle") /\ ~pendSV /\ \A u \in Uarts : Requested(u) = {}

Closed(u) == rxByteHandlerP[u] = "NULL"

OpenSteps == <<"setHandler", "setDma", "enableIdle", "enableStream">>

(* Mutant of CloseSteps: the handler is forgotten first.                   *)
CloseStepsHandlerFirst ==
    <<"resetHandler", "disableStream", "disableIdle", "disableDma", "resetDma">>

CloseSteps ==
    <<"disableStream", "disableIdle", "disableDma", "resetDma", "resetHandler">>

(* The UARTs that receive with DMA.                                        *)
Served == IF chip = "L0" THEN {1} ELSE Uarts

(* The drivers do not open a UART twice without closing it.                *)
Open(u) ==
    /\ u \in Served
    /\ Undisturbed /\ main.steps = <<>>
    /\ Closed(u) /\ sessions < MaxSessions
    /\ sessions' = sessions + 1
    /\ main' = [uart |-> u, steps |-> OpenSteps]
    /\ UNCHANGED <<hardware, enabled, flags, statics, triggered, pendSV, handler, history>>

Close(u) ==
    /\ Undisturbed /\ main.steps = <<>>
    /\ ~Closed(u) /\ (Together \/ \A v \in Uarts \ {u} : Closed(v))
    /\ main' = [uart |-> u, steps |-> CloseSteps]
    /\ UNCHANGED <<hardware, enabled, flags, statics, triggered, pendSV, handler,
                   history, sessions>>

Doing(step) == Undisturbed /\ main.steps # <<>> /\ Head(main.steps) = step
Done        == main' = [main EXCEPT !.steps = Tail(@)]

SetHandler(step, value) ==
    /\ Doing(step) /\ Done
    /\ rxByteHandlerP' = [rxByteHandlerP EXCEPT ![main.uart] = value]
    /\ UNCHANGED <<hardware, enabled, flags, dmaLastReadPos, dmaRx, triggered, pendSV,
                   handler, history, sessions>>

(* WE_DMA_for_UARTx_Init up to the enabling of HT and TC.                  *)
SetDma ==
    /\ Doing("setDma") /\ Done
    /\ dmaRx' = [dmaRx EXCEPT ![main.uart] = "DMA"]
    /\ dmaLastReadPos' = [dmaLastReadPos EXCEPT ![main.uart] = 0]
    /\ dmaClock' = TRUE
    /\ write' = [write EXCEPT ![main.uart] = 0]
    /\ enabled' = [enabled EXCEPT ![main.uart] = @ \cup {"HT", "TC"}]
    /\ UNCHANGED <<WE_dmaRxBuffer, streaming, quiet, flags, rxByteHandlerP, triggered,
                   pendSV, handler, history, sessions>>

EnableIdle ==
    /\ Doing("enableIdle") /\ Done
    /\ enabled' = [enabled EXCEPT ![main.uart] = @ \cup {"IDLE"}]
    /\ UNCHANGED <<hardware, flags, statics, triggered, pendSV, handler, history, sessions>>

EnableStream ==
    /\ Doing("enableStream") /\ Done
    /\ streaming' = [streaming EXCEPT ![main.uart] = TRUE]
    /\ received' = [received EXCEPT ![main.uart] = 0]
    /\ delivered' = [delivered EXCEPT ![main.uart] = <<>>]
    /\ taken' = [taken EXCEPT ![main.uart] = 0]
    /\ UNCHANGED <<WE_dmaRxBuffer, write, dmaClock, quiet, enabled, flags, statics,
                   triggered, pendSV, handler, sessions>>

(* Disabling a stream flags the end of its transfer (a channel of the L0   *)
(* does not).                                                              *)
Ended == IF chip = "L0" THEN {} ELSE {"TC"}

(* A controller without its clock would ignore this and the next steps;    *)
(* only Together reaches that, and how a program goes on after it is not   *)
(* modelled.                                                               *)
DisableStream ==
    /\ Doing("disableStream") /\ Done
    /\ streaming' = [streaming EXCEPT ![main.uart] = FALSE]
    /\ flags' = [flags EXCEPT ![main.uart] = @ \cup Ended]
    /\ UNCHANGED <<WE_dmaRxBuffer, write, dmaClock, quiet, enabled, statics, triggered,
                   pendSV, handler, history, sessions>>

DisableIdle ==
    /\ Doing("disableIdle") /\ Done
    /\ enabled' = [enabled EXCEPT ![main.uart] = @ \ {"IDLE"}]
    /\ UNCHANGED <<hardware, flags, statics, triggered, pendSV, handler, history, sessions>>

(* The controller's clock is switched off, whichever UART is closed.       *)
DisableDma ==
    /\ Doing("disableDma") /\ Done
    /\ enabled' = [enabled EXCEPT ![main.uart] = @ \ {"TC", "HT"}]
    /\ dmaClock' = FALSE
    /\ UNCHANGED <<WE_dmaRxBuffer, write, streaming, quiet, flags, statics, triggered,
                   pendSV, handler, history, sessions>>

ResetDma ==
    /\ Doing("resetDma") /\ Done
    /\ dmaRx' = [dmaRx EXCEPT ![main.uart] = "NULL"]
    /\ dmaLastReadPos' = [dmaLastReadPos EXCEPT ![main.uart] = 0]
    /\ UNCHANGED <<hardware, enabled, flags, rxByteHandlerP, triggered, pendSV, handler,
                   history, sessions>>

MainThread ==
    \/ \E u \in Uarts : Open(u) \/ Close(u)
    \/ SetHandler("setHandler", "driver") \/ SetHandler("resetHandler", "NULL")
    \/ SetDma \/ EnableIdle \/ EnableStream
    \/ DisableStream \/ DisableIdle \/ DisableDma \/ ResetDma

Next ==
    /\ \/ \E u \in Uarts : \/ Receive(u) \/ LineIdle(u)
                           \/ \E event \in Events : Interrupt(u, event)
       \/ PendSVHandler
       \/ MainThread
    /\ UNCHANGED chip

Spec == Init /\ [][Next]_vars

(* Interrupts are taken and their handlers run; a line does not carry      *)
(* bytes without a pause for ever.                                         *)
FairSpec ==
    /\ Spec
    /\ WF_moving(PendSVHandler)
    /\ \A u \in Uarts : /\ WF_moving(LineIdle(u))
                        /\ WF_moving(\E event \in Events : Interrupt(u, event))

-----------------------------------------------------------------------------
(* Properties.                                                             *)

(* Type correctness.                                                       *)
TypeOK ==
    /\ chip \in Chips
    /\ WE_dmaRxBuffer \in [Uarts -> [0 .. Size - 1 -> Nat]]
    /\ write \in [Uarts -> 0 .. Size - 1]
    /\ dmaLastReadPos \in [Uarts -> 0 .. Size - 1]
    /\ streaming \in [Uarts -> BOOLEAN] /\ quiet \in [Uarts -> BOOLEAN]
    /\ triggered \in [Uarts -> BOOLEAN]
    /\ dmaClock \in BOOLEAN /\ pendSV \in BOOLEAN
    /\ enabled \in [Uarts -> SUBSET Events] /\ flags \in [Uarts -> SUBSET Events]
    /\ dmaRx \in [Uarts -> {"NULL", "DMA"}]
    /\ rxByteHandlerP \in [Uarts -> {"NULL", "driver"}]
    /\ handler \in [at : {"idle", "test", "clear", "look", "deliver", "store"},
                    uart : Uarts, pos : 0 .. Size - 1, from : 0 .. Size - 1]
    /\ received \in [Uarts -> Nat] /\ taken \in [Uarts -> Nat]
    /\ delivered \in [Uarts -> Seq(Nat)]
    /\ sessions \in 0 .. MaxSessions

(* Nothing is left behind in the buffer: when the line of an open UART is  *)
(* idle and no handler runs or is pending, the driver has all bytes.       *)
AllDelivered(u) == Len(delivered[u]) = received[u]
NothingLeft ==
    \A u \in Uarts :
        streaming[u] /\ quiet[u] /\ Undisturbed => AllDelivered(u)

(* The handlers use a DMA stream and a byte handler that are there, also   *)
(* while the main thread opens and closes UARTs.                           *)
HandlerReady ==
    /\ At("look") => dmaRx[handler.uart] # "NULL"
    /\ At("deliver") => rxByteHandlerP[handler.uart] # "NULL"

(* A byte that arrived is handed to the driver, or the UART is closed.     *)
ReachesDriver ==
    \A u \in Uarts : \A n \in 1 .. MaxBytes :
        (streaming[u] /\ received[u] >= n)
          ~> (Len(delivered[u]) >= n \/ ~streaming[u])

(* Each UART's reception is a byte stream from its opening to its closing, *)
(* whatever the other UART does.                                           *)
Arrived(u)   == [i \in 1 .. received[u] |-> i]
Reception(u) == INSTANCE ByteStream WITH open <- streaming[u], failed <- FALSE,
                                         put <- Arrived(u), got <- delivered[u]
ImplementsStreams ==
    /\ \A u \in Uarts : Reception(u)!Init
    /\ [][\A u \in Uarts : [Reception(u)!Next]_(Reception(u)!stream)]_vars
=============================================================================
