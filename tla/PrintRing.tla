----------------------------- MODULE PrintRing -----------------------------
(***************************************************************************)
(* The asynchronous print output of WCON_SDK/global/print.c: _write stores *)
(* characters in a ring, USART2_IRQHandler sends them one by one.          *)
(*                                                                         *)
(* Contexts are nested by interrupt priority: a context may step only if   *)
(* every context that is under way has a larger priority number (a less    *)
(* urgent one), and it runs to its end before what it preempted goes on.   *)
(***************************************************************************)
EXTENDS Integers, Sequences, FiniteSets

CONSTANTS Size,        \* WE_PRINT_BUFFER_SIZE
          Writers,     \* the contexts that print: main, interrupt handlers
          Priority,    \* their interrupt priorities (larger: less urgent)
          Lens,        \* the lengths _write is called with
          MaxDrain,    \* characters the UART can finish during one _write
          MaxChars     \* bound: characters accepted in one behaviour

WE_PRIORITY_UART_PRINT == 2

ASSUME PrintAssumption ==
    /\ Size \in Nat /\ Size > 1
    /\ Priority \in [Writers -> Nat]
    /\ WE_PRIORITY_UART_PRINT \notin {Priority[w] : w \in Writers}
    /\ Lens \subseteq Nat
    /\ MaxDrain \in Nat /\ MaxChars \in Nat

VARIABLES
    printBuffer,    \* the ring: a character is the number of its acceptance
    writePos, readPos,
    transferRunning,
    uart,           \* characters in the USART: shift register, then TDR
    tc,             \* transfer complete, interrupt pending
    lock,
    pc,             \* where each writer is in _write
    call,           \* its locals: len still to store, snapshot of positions
    isr,            \* where USART2_IRQHandler is
    more,           \* the handler's comparison, before it is stored
    drained,        \* characters finished since the lock was taken
    accepted,       \* history: characters accepted so far
    wire,           \* history: characters sent, in order
    overrun         \* history: a store went past the end of printBuffer

ring    == <<printBuffer, writePos, readPos, transferRunning>>
handler == <<isr, more>>
writer  == <<lock, pc, call>>
history == <<accepted, wire, overrun>>
vars    == <<ring, uart, tc, writer, handler, drained, history>>

Cells == 0 .. Size - 1
Chars == 0 .. MaxChars
Call  == [len : Nat, rp : Cells, wp : Cells]

Init ==
    /\ printBuffer = [c \in Cells |-> 0]
    /\ writePos = 0 /\ readPos = 0
    /\ transferRunning = FALSE
    /\ uart = <<>> /\ tc = FALSE
    /\ lock = FALSE
    /\ pc = [w \in Writers |-> "idle"]
    /\ call = [w \in Writers |-> [len |-> 0, rp |-> 0, wp |-> 0]]
    /\ isr = "idle" /\ more = FALSE
    /\ drained = 0
    /\ accepted = 0 /\ wire = <<>> /\ overrun = FALSE

-----------------------------------------------------------------------------
(* Preemption.                                                             *)
Busy(w) == pc[w] # "idle"

MayRun(w) ==
    /\ \A v \in Writers \ {w} : Busy(v) => Priority[w] < Priority[v]
    /\ isr # "idle" => Priority[w] < WE_PRIORITY_UART_PRINT

HandlerMayRun ==
    \A w \in Writers : Busy(w) => WE_PRIORITY_UART_PRINT < Priority[w]

Goto(w, label) == pc' = [pc EXCEPT ![w] = label]

(* LL_USART_TransmitData8: fills the shift register, then the data         *)
(* register; a third character replaces the one in the data register.      *)
Transmit(char) ==
    uart' = IF Len(uart) < 2 THEN Append(uart, char) ELSE <<uart[1], char>>

TXE == Len(uart) < 2

-----------------------------------------------------------------------------
(* _write.                                                                 *)

(* Mutant of Enter: the lock is not tested.                                *)
EnterUntested(w) ==
    /\ ~Busy(w)
    /\ MayRun(w)
    /\ \E len \in Lens :
          /\ accepted + len <= MaxChars
          /\ call' = [call EXCEPT ![w].len = len]
    /\ Goto(w, "take")
    /\ UNCHANGED <<ring, uart, tc, lock, handler, drained, history>>

(* The call, up to the test of the lock.                                   *)
Enter(w) ==
    /\ ~Busy(w)
    /\ MayRun(w)
    /\ \E len \in Lens :
          /\ accepted + len <= MaxChars
          /\ call' = [call EXCEPT ![w].len = len]
    /\ ~lock                      \* else errno = EIO, and nothing changes
    /\ Goto(w, "take")
    /\ UNCHANGED <<ring, uart, tc, lock, handler, drained, history>>

(* Mutant of SpaceRemaining: no cell is kept free.                         *)
SpaceRemainingFull(rp, wp) ==
    IF rp > wp THEN rp - wp ELSE Size - wp + rp

SpaceRemaining(rp, wp) ==
    IF rp > wp THEN rp - wp - 1 ELSE Size - wp + rp - 1

(* Mutant of Take: len is not cut to the space left.                       *)
TakeUncut(w) ==
    /\ pc[w] = "take" /\ MayRun(w)
    /\ lock' = TRUE
    /\ call' = [call EXCEPT ![w].rp = readPos, ![w].wp = writePos]
    /\ drained' = 0
    /\ Goto(w, "store")
    /\ UNCHANGED <<ring, uart, tc, handler, history>>

(* Takes the lock, reads both positions, cuts len to the space left.       *)
Take(w) ==
    /\ pc[w] = "take" /\ MayRun(w)
    /\ lock' = TRUE
    /\ LET space == SpaceRemaining(readPos, writePos)
           len   == call[w].len
       IN  call' = [call EXCEPT ![w] =
                      [len |-> IF len > space THEN space ELSE len,
                       rp |-> readPos, wp |-> writePos]]
    /\ drained' = 0
    /\ Goto(w, "store")
    /\ UNCHANGED <<ring, uart, tc, handler, history>>

(* Where the i-th character (from 0) of the call goes. Only a call that    *)
(* finds writePos beyond readPos splits what it stores at the end of the   *)
(* buffer.                                                                 *)
Target(c, i) ==
    IF c.wp > c.rp /\ c.wp + i >= Size THEN c.wp + i - Size ELSE c.wp + i

(* memcpy, in one or two chunks.                                           *)
Store(w) ==
    /\ pc[w] = "store" /\ MayRun(w)
    /\ LET c    == call[w]
           here == [i \in 0 .. c.len - 1 |-> Target(c, i)]
       IN  /\ printBuffer' = [p \in Cells |->
                 IF \E i \in DOMAIN here : here[i] = p
                 THEN accepted + 1 + CHOOSE i \in DOMAIN here : here[i] = p
                 ELSE printBuffer[p]]
           /\ overrun' = (overrun \/ \E i \in DOMAIN here : here[i] >= Size)
    /\ Goto(w, "publish")
    /\ UNCHANGED <<writePos, readPos, transferRunning, uart, tc, lock, call,
                   handler, drained, accepted, wire>>

Publish(w) ==
    /\ pc[w] = "publish" /\ MayRun(w)
    /\ writePos' = (call[w].wp + call[w].len) % Size
    /\ accepted' = accepted + call[w].len
    /\ Goto(w, "start")
    /\ UNCHANGED <<printBuffer, readPos, transferRunning, uart, tc, lock,
                   call, handler, drained, wire, overrun>>

(* Mutant of Start: starts when the ring was empty at the snapshot.        *)
StartIfEmpty(w) ==
    /\ pc[w] = "start" /\ MayRun(w)
    /\ IF call[w].rp = call[w].wp /\ TXE
       THEN /\ transferRunning' = TRUE
            /\ Transmit(printBuffer[readPos])
       ELSE UNCHANGED <<transferRunning, uart>>
    /\ lock' = FALSE
    /\ Goto(w, "idle")
    /\ UNCHANGED <<printBuffer, writePos, readPos, tc, call, handler,
                   drained, history>>

(* Starts the transfer if it is not running, and gives the lock back.      *)
Start(w) ==
    /\ pc[w] = "start" /\ MayRun(w)
    /\ IF ~transferRunning /\ TXE
       THEN /\ transferRunning' = TRUE
            /\ Transmit(printBuffer[readPos])
       ELSE UNCHANGED <<transferRunning, uart>>
    /\ lock' = FALSE
    /\ Goto(w, "idle")
    /\ UNCHANGED <<printBuffer, writePos, readPos, tc, call, handler,
                   drained, history>>

-----------------------------------------------------------------------------
(* The USART: one character leaves; the flag is raised when none follows.  *)
Shift ==
    /\ uart # <<>>
    /\ lock => drained < MaxDrain
    /\ wire' = Append(wire, Head(uart))
    /\ uart' = Tail(uart)
    /\ tc' = (tc \/ Len(uart) = 1)
    /\ drained' = IF lock THEN drained + 1 ELSE drained
    /\ UNCHANGED <<ring, writer, handler, accepted, overrun>>

(* USART2_IRQHandler. transferRunning is volatile: the handler computes,   *)
(* stores and reads it again in separate steps.                            *)
IsrEnter ==
    /\ isr = "idle" /\ tc /\ HandlerMayRun
    /\ tc' = FALSE
    /\ isr' = IF readPos # writePos THEN "advance" ELSE "idle"
    /\ UNCHANGED <<ring, uart, writer, more, drained, history>>

IsrAdvance ==
    /\ isr = "advance" /\ HandlerMayRun
    /\ readPos' = IF readPos + 1 >= Size THEN 0 ELSE readPos + 1
    /\ isr' = "compare"
    /\ UNCHANGED <<printBuffer, writePos, transferRunning, uart, tc, writer,
                   more, drained, history>>

IsrCompare ==
    /\ isr = "compare" /\ HandlerMayRun
    /\ more' = (readPos # writePos)
    /\ isr' = "set"
    /\ UNCHANGED <<ring, uart, tc, writer, drained, history>>

(* Mutant of IsrSet: the end of the transfer is not recorded.              *)
IsrSetOnly ==
    /\ isr = "set" /\ HandlerMayRun
    /\ transferRunning' = (transferRunning \/ more)
    /\ isr' = "send"
    /\ UNCHANGED <<printBuffer, writePos, readPos, uart, tc, writer, more,
                   drained, history>>

IsrSet ==
    /\ isr = "set" /\ HandlerMayRun
    /\ transferRunning' = more
    /\ isr' = "send"
    /\ UNCHANGED <<printBuffer, writePos, readPos, uart, tc, writer, more,
                   drained, history>>

IsrSend ==
    /\ isr = "send" /\ HandlerMayRun
    /\ IF transferRunning
       THEN Transmit(printBuffer[readPos])
       ELSE UNCHANGED uart
    /\ isr' = "idle"
    /\ UNCHANGED <<ring, tc, writer, more, drained, history>>

Handler == IsrEnter \/ IsrAdvance \/ IsrCompare \/ IsrSet \/ IsrSend

Going(w) == Take(w) \/ Store(w) \/ Publish(w) \/ Start(w)

Next ==
    \/ \E w \in Writers : Enter(w) \/ Take(w) \/ Store(w) \/ Publish(w) \/ Start(w)
    \/ Shift
    \/ IsrEnter \/ IsrAdvance \/ IsrCompare \/ IsrSet \/ IsrSend

Spec == Init /\ [][Next]_vars

(* A call that was entered ends, the USART shifts, its interrupt is taken: *)
(* nothing in the code can hold them back.                                 *)
Fairness ==
    /\ \A w \in Writers : WF_vars(Going(w))
    /\ WF_vars(Shift)
    /\ WF_vars(Handler)

FairSpec == Spec /\ Fairness

-----------------------------------------------------------------------------
(* Properties.                                                             *)

(* Type correctness: the positions stay inside the buffer, the USART and   *)
(* the contexts in their states.                                           *)
TypeOK ==
    /\ printBuffer \in [Cells -> Nat]
    /\ writePos \in Cells /\ readPos \in Cells
    /\ transferRunning \in BOOLEAN
    /\ uart \in Seq(Nat) /\ tc \in BOOLEAN
    /\ lock \in BOOLEAN
    /\ pc \in [Writers -> {"idle", "take", "store", "publish", "start"}]
    /\ call \in [Writers -> Call]
    /\ isr \in {"idle", "advance", "compare", "set", "send"}
    /\ more \in BOOLEAN
    /\ drained \in Nat /\ accepted \in Nat
    /\ wire \in Seq(Nat)
    /\ overrun \in BOOLEAN

(* Characters stored and not yet passed by the handler.                    *)
Pending == IF writePos >= readPos THEN writePos - readPos
                                  ELSE Size - readPos + writePos

Quiet == isr = "idle" /\ \A w \in Writers : ~Busy(w)

(* The test of lock is no mutual exclusion by itself (test and set are two *)
(* steps), but nested contexts make it one: never are two calls of _write  *)
(* between taking and giving back the lock.                                *)
OneWriter ==
    Cardinality({w \in Writers : pc[w] \in {"store", "publish", "start"}}) <= 1

(* "Store remaining data between start of buffer and read pos": a store    *)
(* never leaves the buffer. The properties below hold until it does; what  *)
(* lies behind printBuffer, and is overwritten then, is not modelled.      *)
NoOverrun == ~overrun

(* WE_Print_Flush waits for transferRunning to be false. When it is and no *)
(* call is under way, every character accepted has left the USART: the     *)
(* hand-over between _write (published, but a transfer runs) and the       *)
(* handler (about to declare the transfer over) loses no wakeup.           *)
FlushIsSound ==
    NoOverrun /\ Quiet /\ ~transferRunning =>
        Len(wire) = accepted /\ uart = <<>>

(* The converse: while transferRunning is set a character is in the USART  *)
(* or its interrupt is pending, so the handler will run again.             *)
RunningHasPower ==
    NoOverrun /\ Quiet /\ transferRunning => uart # <<>> \/ tc

(* The positions agree with what went in and what came out: between the    *)
(* end of a character and the handler's advance readPos lags by one, never *)
(* by more.                                                                *)
Accounted ==
    NoOverrun =>
        Len(wire) = accepted - Pending + (IF tc \/ isr = "advance" THEN 1 ELSE 0)

(* Every character accepted is sent in the end.                            *)
Drains ==
    \A n \in 1 .. MaxChars : accepted >= n ~> Len(wire) >= n \/ overrun

(* _write and the interrupt together are a byte stream: what leaves the    *)
(* USART is what was accepted, no character lost, doubled or out of order, *)
(* and none before the call that printed it has published it, although the *)
(* handler reads the ring while _write fills it.                           *)
Accepted == [i \in 1 .. accepted |-> i]
Stream   == INSTANCE ByteStream WITH open <- TRUE, failed <- overrun,
                                     put <- Accepted, got <- wire
ImplementsStream == Stream!Spec
=============================================================================
