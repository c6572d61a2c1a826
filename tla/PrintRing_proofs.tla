-------------------------- MODULE PrintRing_proofs --------------------------
(***************************************************************************)
(* Proofs about PrintRing for every size of the ring and any number of     *)
(* printing contexts, all of them less urgent than USART2_IRQHandler.      *)
(***************************************************************************)
EXTENDS PrintRing, FiniteSetTheorems, TLAPS

(* No context preempts the handler, and no call is so slow that the USART  *)
(* sends all it has been given before the call starts the transfer. (With  *)
(* a writer of priority 1 FlushIsSound fails, with MaxDrain = 2 and calls  *)
(* of one character Drains.)                                               *)
Calm ==
    /\ \A w \in Writers : WE_PRIORITY_UART_PRINT < Priority[w]
    /\ \A len \in Lens : MaxDrain < len
    /\ MaxDrain < Size - 2

Holds(w) == pc[w] \in {"store", "publish", "start"}

(* The nesting of the contexts, made visible in pc and lock: what a holder *)
(* of the lock preempted has not got further than the test of the lock.    *)
Nesting ==
    /\ \A w \in Writers : Holds(w) =>
          /\ lock
          /\ \A v \in Writers \ {w} :
                Busy(v) => pc[v] = "take" /\ Priority[w] < Priority[v]
    /\ lock => \E w \in Writers : Holds(w)
    /\ \A v, w \in Writers :
          v # w /\ Busy(v) /\ Busy(w) => Priority[v] # Priority[w]

Lag == IF tc \/ isr = "advance" THEN 1 ELSE 0

(* Accounted, whether or not a store has left the buffer.                  *)
Balance == Len(wire) = accepted - Pending + Lag

(* What transferRunning, the USART and the handler know of each other.     *)
Transfer ==
    /\ isr = "idle" /\ transferRunning =>
          /\ readPos # writePos
          /\ \/ Len(uart) = 1 /\ ~tc
             \/ uart = <<>> /\ tc
    /\ isr = "idle" /\ ~transferRunning =>
          /\ uart = <<>> /\ ~tc
          /\ readPos = writePos \/ \E w \in Writers : pc[w] = "start"
    /\ isr # "idle" => uart = <<>> /\ ~tc
    /\ isr \in {"advance", "compare", "set"} => transferRunning
    /\ isr = "advance" => readPos # writePos
    /\ isr = "set" => (more <=> readPos # writePos)
    /\ isr = "send" => (transferRunning <=> readPos # writePos)

(* A call stores no more than the free cells, and leaves enough to send    *)
(* that the USART is not through with it before the transfer is started.   *)
Calls ==
    /\ \A w \in Writers : pc[w] = "take" => call[w].len > MaxDrain
    /\ \A w \in Writers : pc[w] \in {"store", "publish"} =>
          /\ call[w].wp = writePos
          /\ call[w].len + Pending <= Size - 1
          /\ call[w].len + Pending - Lag + drained > MaxDrain
    /\ \A w \in Writers : pc[w] = "start" => Pending - Lag + drained > MaxDrain
    /\ lock => drained <= MaxDrain

IInv == TypeOK /\ Nesting /\ Balance /\ Transfer /\ Calls

(* The cell at distance d from position p.                                 *)
Cell(p, d) == IF p + d < Size THEN p + d ELSE p + d - Size

-----------------------------------------------------------------------------
(* What PrintAssumption says of the parameters, in the form the steps use. *)
LEMMA Params ==
    /\ Size \in Nat /\ Size > 1
    /\ MaxDrain \in Nat /\ Lens \subseteq Nat
    /\ \A w \in Writers : Priority[w] \in Nat
  BY PrintAssumption

(* What is pending fits the ring, and is nothing only when the positions   *)
(* meet.                                                                   *)
LEMMA PendingRange ==
    ASSUME TypeOK
    PROVE  /\ Pending \in 0 .. Size - 1
           /\ Pending = 0 <=> readPos = writePos
  BY Params DEF TypeOK, Pending, Cells

(* SpaceRemaining is what Pending leaves, one cell apart.                  *)
LEMMA SpaceIsRest ==
    ASSUME TypeOK
    PROVE  SpaceRemaining(readPos, writePos) = Size - 1 - Pending
  BY Params DEF TypeOK, Pending, Cells, SpaceRemaining

(* The invariant holds after WE_Print_Init.                                *)
LEMMA InitInv == Init => IInv
  <1> SUFFICES ASSUME Init PROVE IInv  OBVIOUS
  <1>1. TypeOK
    <2>1. 0 \in Cells          BY Params DEF Cells
    <2>2. call \in [Writers -> Call]   BY <2>1 DEF Init, Call
    <2>3. uart \in Seq(Nat) /\ wire \in Seq(Nat)   BY DEF Init
    <2>4. printBuffer \in [Cells -> Nat]   BY DEF Init
    <2>5. QED        BY <2>1, <2>2, <2>3, <2>4 DEF Init, TypeOK
  <1>2. Nesting    BY DEF Init, Nesting, Holds, Busy
  <1>3. Balance    BY Params DEF Init, Balance, Pending, Lag
  <1>4. Transfer   BY DEF Init, Transfer
  <1>5. Calls      BY Params DEF Init, Calls
  <1>6. QED        BY <1>1, <1>2, <1>3, <1>4, <1>5 DEF IInv

(* A print that takes the lock of _write, or finds it taken, keeps it.     *)
LEMMA EnterInv ==
    ASSUME Calm, IInv, NEW w \in Writers, Enter(w)
    PROVE  IInv'
  <1> USE DEF Enter, Goto, ring, handler, history, IInv
  <1>1. TypeOK'    BY Params DEF TypeOK, Call
  <1>2. Nesting'   BY Params DEF Nesting, TypeOK, Holds, Busy, MayRun
  <1>3. Balance'   BY DEF Balance, Pending, Lag
  <1>4. Transfer'  BY DEF Transfer, TypeOK, Busy
  <1>5. Calls'     BY Params DEF Calls, Calm, TypeOK, Pending, Lag, Busy
  <1>6. QED        BY <1>1, <1>2, <1>3, <1>4, <1>5

(* Cutting a call to the space that remains keeps it.                      *)
LEMMA TakeInv ==
    ASSUME Calm, IInv, NEW w \in Writers, Take(w)
    PROVE  IInv'
  <1> DEFINE space == SpaceRemaining(readPos, writePos)
             len   == IF call[w].len > space THEN space ELSE call[w].len
  <1>1. space = Size - 1 - Pending /\ Pending \in 0 .. Size - 1
        BY PendingRange, SpaceIsRest DEF IInv
  <1>2. len \in Nat /\ len + Pending <= Size - 1
        BY <1>1, Params DEF IInv, TypeOK, Call
  <1>3. call' = [call EXCEPT ![w] = [len |-> len, rp |-> readPos, wp |-> writePos]]
        BY DEF Take
  <1> HIDE DEF len, space
  <1> USE DEF Take, Goto, ring, handler, history, IInv
  <1>4. TypeOK'    BY <1>2, <1>3 DEF TypeOK, Call
  <1>5. Nesting'
    <2>1. \A v \in Writers \ {w} : Busy(v) => pc[v] = "take" /\ Priority[w] < Priority[v]
          BY Params DEF Nesting, TypeOK, Holds, Busy, MayRun
    <2>2. QED      BY <2>1, Params DEF Nesting, TypeOK, Holds, Busy
  <1>6. Balance'   BY DEF Balance, Pending, Lag
  <1>7. Transfer'  BY DEF Transfer, TypeOK
  <1>8. Calls'
    <2>1. len + Pending - Lag > MaxDrain
      <3>1. Lag = 1 => Pending > 0
            BY PendingRange DEF Transfer, Lag, TypeOK
      <3>2. CASE len = call[w].len
            BY <3>1, <3>2, <1>1, Params DEF Calls, Lag, TypeOK, Call
      <3>3. CASE len = space
            BY <3>3, <1>1, Params DEF Calm, Lag
      <3>4. QED    BY <3>2, <3>3 DEF len
    <2>2. \A v \in Writers \ {w} : pc'[v] \in {"idle", "take"}
          BY <1>5, <1>4 DEF Nesting, Holds, Busy, TypeOK
    <2>3. Pending' = Pending /\ Lag' = Lag /\ Lag \in {0, 1}
          BY DEF Pending, Lag
    <2>4. /\ pc'[w] = "store" /\ call'[w].len = len /\ call'[w].wp = writePos'
          /\ drained' = 0
          BY <1>3 DEF TypeOK
    <2>5. \A v \in Writers \ {w} : pc'[v] = pc[v] /\ call'[v] = call[v]
          BY <1>3 DEF TypeOK
    <2>6. len + Pending' <= Size - 1 /\ len + Pending' - Lag' + 0 > MaxDrain
          BY <2>1, <2>3, <1>1, <1>2, Params
    <2>7. QED      BY <2>2, <2>4, <2>5, <2>6, Params DEF Calls
  <1>9. QED        BY <1>4, <1>5, <1>6, <1>7, <1>8

(* Storing one character in the free part of the ring keeps it.            *)
LEMMA StoreInv ==
    ASSUME Calm, IInv, NEW w \in Writers, Store(w)
    PROVE  IInv'
  <1> USE DEF Store, Goto, handler, IInv
  <1>1. TypeOK'
    <2>1. printBuffer' \in [Cells -> Nat]
      <3> DEFINE c    == call[w]
                 here == [i \in 0 .. c.len - 1 |-> Target(c, i)]
                 new(p) == IF \E i \in DOMAIN here : here[i] = p
                           THEN accepted + 1 + CHOOSE i \in DOMAIN here : here[i] = p
                           ELSE printBuffer[p]
      <3>1. \A p \in Cells : new(p) \in Nat
        <4> SUFFICES ASSUME NEW p \in Cells PROVE new(p) \in Nat  OBVIOUS
        <4>1. CASE \E i \in DOMAIN here : here[i] = p
          <5>1. (CHOOSE i \in DOMAIN here : here[i] = p) \in DOMAIN here  BY <4>1
          <5>2. (CHOOSE i \in DOMAIN here : here[i] = p) \in Nat
                BY <5>1 DEF TypeOK, Call
          <5> HIDE DEF here
          <5>3. QED  BY <4>1, <5>2 DEF TypeOK
        <4>2. CASE ~(\E i \in DOMAIN here : here[i] = p)
              BY <4>2 DEF TypeOK
        <4>3. QED  BY <4>1, <4>2
      <3>2. printBuffer' = [p \in Cells |-> new(p)]  OBVIOUS
      <3> HIDE DEF new
      <3>3. QED    BY <3>1, <3>2
    <2>2. overrun' \in BOOLEAN  BY DEF TypeOK
    <2>3. QED      BY <2>1, <2>2 DEF TypeOK
  <1>2. Nesting'   BY DEF Nesting, TypeOK, Holds, Busy
  <1>3. Balance'   BY DEF Balance, Pending, Lag
  <1>4. Transfer'  BY DEF Transfer, TypeOK
  <1>5. Calls'     BY DEF Calls, TypeOK, Pending, Lag
  <1>6. QED        BY <1>1, <1>2, <1>3, <1>4, <1>5

(* Publishing moves the write position over what was stored.               *)
LEMMA PublishMoves ==
    ASSUME IInv, NEW w \in Writers, Publish(w)
    PROVE  /\ writePos' = Cell(writePos, call[w].len)
           /\ Pending' = Pending + call[w].len
           /\ accepted' = accepted + call[w].len
           /\ call[w].len \in Nat /\ call[w].len + Pending <= Size - 1
           /\ Pending \in 0 .. Size - 1
  <1> DEFINE len == call[w].len
  <1>1. Pending \in 0 .. Size - 1 /\ (Pending = 0 <=> readPos = writePos)
        BY PendingRange DEF IInv
  <1>2. /\ call[w].wp = writePos /\ len \in Nat
        /\ len + Pending <= Size - 1
        BY DEF Calls, TypeOK, Call, IInv, Publish
  <1>3. writePos \in 0 .. Size - 1 /\ readPos \in 0 .. Size - 1
        BY DEF TypeOK, Cells, IInv
  <1>4. writePos' = (writePos + len) % Size
        BY <1>2 DEF Publish
  <1>5. accepted' = accepted + len /\ readPos' = readPos
        BY DEF Publish
  <1> HIDE DEF len
  <1>6. writePos' = IF writePos + len < Size THEN writePos + len
                                             ELSE writePos + len - Size
    <2>1. writePos + len \in Nat /\ writePos + len < Size + Size
          BY <1>1, <1>2, <1>3, Params
    <2>2. CASE writePos + len < Size
          BY <1>2, <1>3, <1>4, <2>1, <2>2, Params
    <2>3. CASE ~(writePos + len < Size)
          BY <1>2, <1>3, <1>4, <2>1, <2>3, Params
    <2>4. QED      BY <2>2, <2>3
  <1>7. Pending' = Pending + len
        BY <1>2, <1>3, <1>5, <1>6, Params DEF Pending
  <1>8. QED        BY <1>1, <1>2, <1>5, <1>6, <1>7 DEF Cell, len

(* Moving the write position over what was stored keeps it.                *)
LEMMA PublishInv ==
    ASSUME Calm, IInv, NEW w \in Writers, Publish(w)
    PROVE  IInv'
  <1> DEFINE len == call[w].len
  <1>1. Pending \in 0 .. Size - 1 /\ (Pending = 0 <=> readPos = writePos)
        BY PendingRange DEF IInv
  <1>2. /\ len \in Nat /\ len + Pending <= Size - 1
        /\ Pending' = Pending + len
        BY PublishMoves
  <1>3. writePos \in 0 .. Size - 1 /\ readPos \in 0 .. Size - 1
        BY DEF TypeOK, Cells, IInv
  <1>5. /\ accepted' = accepted + len
        /\ pc' = [pc EXCEPT ![w] = "start"] /\ pc[w] = "publish"
        /\ UNCHANGED <<printBuffer, readPos, transferRunning, uart, tc, lock,
                       call, isr, more, drained, wire, overrun>>
        BY DEF Publish, Goto, handler
  <1> HIDE DEF len
  <1>6. writePos' = IF writePos + len < Size THEN writePos + len
                                             ELSE writePos + len - Size
        BY PublishMoves DEF Cell, len
  <1>7. Pending' = Pending + len
        BY <1>2
  <1>8. writePos' \in Cells
        BY <1>1, <1>2, <1>3, <1>6, Params DEF Cells
  <1>9. TypeOK'
        BY <1>2, <1>5, <1>8 DEF IInv, TypeOK
  <1>10. Nesting'  BY <1>5 DEF Nesting, TypeOK, Holds, Busy, IInv
  <1>11. Balance'
    <2>1. Lag' = Lag /\ Lag \in {0, 1} /\ Len(wire) \in Nat /\ accepted \in Nat
          BY <1>5 DEF Lag, TypeOK, IInv
    <2>2. Len(wire) = accepted - Pending + Lag /\ wire' = wire
          BY <1>5 DEF Balance, IInv
    <2>3. QED      BY <1>1, <1>2, <1>5, <1>7, <2>1, <2>2 DEF Balance
  <1>12. isr = "idle"
        BY Params DEF Publish, MayRun, Calm, TypeOK, WE_PRIORITY_UART_PRINT, IInv
  <1>13. Transfer'
    <2>1. transferRunning => Pending > 0
          BY <1>1, <1>12 DEF Transfer, IInv
    <2>2. transferRunning => Pending' > 0
          BY <2>1, <1>1, <1>2, <1>7
    <2>3. Pending' = 0 <=> readPos' = writePos'
      <3>1. PICK p \in 0 .. Size - 1, q \in 0 .. Size - 1 :
                writePos' = p /\ readPos' = q
            BY <1>3, <1>5, <1>8 DEF Cells
      <3>2. QED    BY <3>1, Params DEF Pending
    <2>4. pc'[w] = "start"
          BY <1>5 DEF IInv, TypeOK
    <2>5. QED      BY <1>5, <1>12, <2>2, <2>3, <2>4 DEF Transfer, IInv
  <1>14. Calls'
    <2>1. \A v \in Writers \ {w} : pc[v] \in {"idle", "take"} /\ pc'[v] = pc[v]
          BY <1>5 DEF Nesting, Holds, Busy, TypeOK, IInv
    <2>2. pc'[w] = "start"
          BY <1>5 DEF IInv, TypeOK
    <2>3. len + Pending - Lag + drained > MaxDrain
          BY <1>5 DEF Calls, IInv, len
    <2>4. Pending' - Lag' + drained' > MaxDrain
      <3>1. Lag' = Lag /\ drained' = drained /\ drained \in Nat /\ Lag \in {0, 1}
            BY <1>5 DEF Lag, IInv, TypeOK
      <3>2. QED    BY <2>3, <3>1, <1>1, <1>2, <1>7, Params
    <2>5. QED      BY <1>5, <2>1, <2>2, <2>4 DEF Calls, IInv
  <1>15. QED       BY <1>9, <1>10, <1>11, <1>13, <1>14 DEF IInv

(* Where the transfer is started there is something to send, and nothing   *)
(* in the USART if no transfer is running.                                 *)
LEMMA StartFinds ==
    ASSUME Calm, IInv, NEW w \in Writers, Start(w)
    PROVE  /\ isr = "idle" /\ readPos # writePos
           /\ ~transferRunning => uart = <<>> /\ ~tc
           /\ \A v \in Writers \ {w} : pc[v] \in {"idle", "take"}
  <1> USE DEF Start, Goto, handler, history, IInv
  <1>0. Pending \in 0 .. Size - 1 /\ (Pending = 0 <=> readPos = writePos)
        BY PendingRange
  <1>1. isr = "idle"
        BY Params DEF MayRun, Calm, TypeOK, WE_PRIORITY_UART_PRINT
  <1>2. \A v \in Writers \ {w} : pc[v] \in {"idle", "take"}
        BY DEF Nesting, Holds, Busy, TypeOK
  <1>3. ~transferRunning => uart = <<>> /\ ~tc
        BY <1>1 DEF Transfer
  <1>4. readPos # writePos
    <2>1. Lag = 1 => transferRunning  BY <1>1, <1>3 DEF Lag
    <2>2. CASE transferRunning   BY <2>2, <1>1 DEF Transfer
    <2>3. CASE ~transferRunning
      <3>1. Pending + drained > MaxDrain /\ drained <= MaxDrain
            BY <2>1, <2>3, <1>0 DEF Calls, Nesting, Holds, Lag
      <3>2. QED    BY <3>1, <1>0, Params DEF TypeOK
    <2>4. QED      BY <2>2, <2>3
  <1>5. QED        BY <1>1, <1>2, <1>3, <1>4

(* Starting the transfer, or leaving it running, keeps it.                 *)
LEMMA StartInv ==
    ASSUME Calm, IInv, NEW w \in Writers, Start(w)
    PROVE  IInv'
  <1>1. isr = "idle"
        BY StartFinds
  <1>2. \A v \in Writers \ {w} : pc[v] \in {"idle", "take"}
        BY StartFinds
  <1>3. ~transferRunning => uart = <<>> /\ ~tc
        BY StartFinds
  <1>4. readPos # writePos
        BY StartFinds
  <1> USE DEF Start, Goto, handler, history, IInv
  <1>5. ~transferRunning => transferRunning' /\ uart' = <<printBuffer[readPos]>>
        BY <1>3 DEF Transmit, TXE
  <1>6. transferRunning => transferRunning' /\ uart' = uart
        OBVIOUS
  <1>7. TypeOK'
    <2>1. uart' \in Seq(Nat)
      <3>1. printBuffer[readPos] \in Nat  BY DEF TypeOK
      <3>2. <<printBuffer[readPos]>> \in Seq(Nat)  BY <3>1
      <3>3. uart \in Seq(Nat) /\ transferRunning \in BOOLEAN  BY DEF TypeOK
      <3>4. QED    BY <1>5, <1>6, <3>2, <3>3
    <2>2. QED      BY <1>5, <1>6, <2>1 DEF TypeOK
  <1>8. Nesting'   BY <1>2 DEF Nesting, TypeOK, Holds, Busy
  <1>9. Balance'   BY DEF Balance, Pending, Lag
  <1>10. Transfer' BY <1>1, <1>3, <1>4, <1>5, <1>6 DEF Transfer, TypeOK
  <1>11. Calls'    BY <1>2 DEF Calls, TypeOK, Pending, Lag
  <1>12. QED       BY <1>7, <1>8, <1>9, <1>10, <1>11

(* The UART finishing a character keeps it.                                *)
LEMMA ShiftInv ==
    ASSUME Calm, IInv, Shift
    PROVE  IInv'
  <1> USE DEF Shift, ring, writer, handler, IInv
  <1>0. Pending \in 0 .. Size - 1 /\ (Pending = 0 <=> readPos = writePos)
        BY PendingRange
  <1>1. isr = "idle" /\ transferRunning /\ Len(uart) = 1 /\ ~tc
        BY DEF Transfer, TypeOK
  <1>2. uart' = <<>> /\ tc'
    <2>1. uart \in Seq(Nat)   BY DEF TypeOK
    <2>2. Tail(uart) \in Seq(Nat) /\ Len(Tail(uart)) = 0
          BY <1>1, <2>1
    <2>3. Tail(uart) = <<>>   BY <2>2
    <2>4. QED      BY <1>1, <2>3
  <1>3. Head(uart) \in Nat /\ Len(wire') = Len(wire) + 1
        BY <1>1 DEF TypeOK
  <1>4. TypeOK'    BY <1>2, <1>3 DEF TypeOK
  <1>5. Nesting'   BY DEF Nesting, Holds, Busy
  <1>6. Pending' = Pending /\ Lag = 0 /\ Lag' = 1
        BY <1>1, <1>2 DEF Pending, Lag
  <1>7. Balance'   BY <1>3, <1>6, <1>0 DEF Balance, TypeOK
  <1>8. Transfer'  BY <1>1, <1>2 DEF Transfer, TypeOK
  <1>9. Calls'
    <2>1. CASE lock
      <3>1. drained' = drained + 1 /\ drained < MaxDrain /\ drained \in Nat
            BY <2>1 DEF TypeOK
      <3>2. ASSUME NEW v \in Writers, pc[v] \in {"store", "publish"}
            PROVE  /\ call[v].wp = writePos
                   /\ call[v].len + Pending' <= Size - 1
                   /\ call[v].len + Pending' - Lag' + drained' > MaxDrain
        <4>1. call[v].len \in Nat   BY DEF TypeOK, Call
        <4>2. /\ call[v].wp = writePos
              /\ call[v].len + Pending <= Size - 1
              /\ call[v].len + Pending - Lag + drained > MaxDrain
              BY <3>2 DEF Calls
        <4>3. QED  BY <3>1, <4>1, <4>2, <1>6, <1>0, Params
      <3>3. ASSUME NEW v \in Writers, pc[v] = "start"
            PROVE  Pending' - Lag' + drained' > MaxDrain
        <4>1. Pending - Lag + drained > MaxDrain   BY <3>3 DEF Calls
        <4>2. QED  BY <3>1, <4>1, <1>6, <1>0, Params
      <3>4. QED    BY <3>1, <3>2, <3>3, Params DEF Calls
    <2>2. CASE ~lock
      <3>1. \A v \in Writers : pc[v] \in {"idle", "take"}
            BY <2>2 DEF Nesting, Holds, TypeOK
      <3>2. QED    BY <2>2, <3>1 DEF Calls
    <2>3. QED      BY <2>1, <2>2
  <1>10. QED       BY <1>4, <1>5, <1>7, <1>8, <1>9

(* Each of the steps of USART2_IRQHandler keeps it.                        *)
LEMMA HandlerInv ==
    ASSUME Calm, IInv, Handler
    PROVE  IInv'
  <1> USE DEF ring, writer, history, IInv
  <1>0. Pending \in 0 .. Size - 1 /\ (Pending = 0 <=> readPos = writePos)
        BY PendingRange
  <1>1. CASE IsrEnter
    <2> USE <1>1 DEF IsrEnter
    <2>1. TypeOK'    BY DEF TypeOK
    <2>2. Nesting'   BY DEF Nesting, Holds, Busy
    <2>3. transferRunning /\ readPos # writePos /\ uart = <<>>
          BY DEF Transfer, TypeOK
    <2>4. Pending' = Pending /\ Lag' = Lag   BY <2>3 DEF Pending, Lag
    <2>5. Balance'   BY <2>4 DEF Balance
    <2>6. Transfer'  BY <2>3 DEF Transfer
    <2>7. Calls'     BY <2>4 DEF Calls
    <2>8. QED        BY <2>1, <2>2, <2>5, <2>6, <2>7
  <1>2. CASE IsrAdvance
    <2> USE <1>2 DEF IsrAdvance
    <2>1. TypeOK'    BY Params DEF TypeOK, Cells
    <2>2. Nesting'   BY DEF Nesting, Holds, Busy
    <2>3. transferRunning /\ readPos # writePos /\ uart = <<>> /\ ~tc
          BY DEF Transfer
    <2>4. Pending' = Pending - 1 /\ Lag = 1 /\ Lag' = 0
          BY <2>3, Params DEF Pending, Lag, TypeOK, Cells
    <2>5. Balance'   BY <2>4, <1>0 DEF Balance, TypeOK
    <2>6. Transfer'  BY <2>3 DEF Transfer
    <2>7. Calls'     BY <2>4, <1>0, Params DEF Calls, TypeOK, Call
    <2>8. QED        BY <2>1, <2>2, <2>5, <2>6, <2>7
  <1>3. CASE IsrCompare
    <2> USE <1>3 DEF IsrCompare
    <2>1. TypeOK'    BY DEF TypeOK
    <2>2. Nesting'   BY DEF Nesting, Holds, Busy
    <2>3. Pending' = Pending /\ Lag' = Lag   BY DEF Pending, Lag
    <2>4. Balance'   BY <2>3 DEF Balance
    <2>5. Transfer'  BY DEF Transfer
    <2>6. Calls'     BY <2>3 DEF Calls
    <2>7. QED        BY <2>1, <2>2, <2>4, <2>5, <2>6
  <1>4. CASE IsrSet
    <2> USE <1>4 DEF IsrSet
    <2>1. TypeOK'    BY DEF TypeOK
    <2>2. Nesting'   BY DEF Nesting, Holds, Busy
    <2>3. Pending' = Pending /\ Lag' = Lag   BY DEF Pending, Lag
    <2>4. Balance'   BY <2>3 DEF Balance
    <2>5. Transfer'  BY DEF Transfer, TypeOK
    <2>6. Calls'     BY <2>3 DEF Calls
    <2>7. QED        BY <2>1, <2>2, <2>4, <2>5, <2>6
  <1>5. CASE IsrSend
    <2> USE <1>5 DEF IsrSend
    <2>1. uart = <<>> /\ ~tc   BY DEF Transfer
    <2>2. transferRunning => uart' = <<printBuffer[readPos]>>
          BY <2>1 DEF Transmit
    <2>3. uart' \in Seq(Nat)
      <3>1. printBuffer[readPos] \in Nat  BY DEF TypeOK
      <3>2. <<printBuffer[readPos]>> \in Seq(Nat)  BY <3>1
      <3>3. uart \in Seq(Nat) /\ transferRunning \in BOOLEAN  BY DEF TypeOK
      <3>4. QED      BY <2>2, <3>2, <3>3
    <2>10. TypeOK'   BY <2>3 DEF TypeOK
    <2>4. Nesting'   BY DEF Nesting, Holds, Busy
    <2>5. Pending' = Pending /\ Lag' = Lag   BY DEF Pending, Lag
    <2>6. Balance'   BY <2>5 DEF Balance
    <2>7. Transfer'  BY <2>1, <2>2 DEF Transfer, TypeOK
    <2>8. Calls'     BY <2>5 DEF Calls
    <2>11. QED       BY <2>10, <2>4, <2>6, <2>7, <2>8
  <1>6. QED          BY <1>1, <1>2, <1>3, <1>4, <1>5 DEF Handler

(* A step in which nothing changes keeps it.                               *)
LEMMA StutterInv == ASSUME IInv, UNCHANGED vars PROVE IInv'
  BY DEF IInv, vars, ring, writer, handler, history, TypeOK, Nesting, Holds,
         Busy, Balance, Pending, Lag, Transfer, Calls

(* The inductive invariant of the calm print ring.                         *)
THEOREM Invariance == ASSUME Calm PROVE Spec => []IInv
  <1>1. IInv /\ [Next]_vars => IInv'
    <2> SUFFICES ASSUME IInv, [Next]_vars PROVE IInv'  OBVIOUS
    <2>1. CASE Shift      BY <2>1, ShiftInv
    <2>2. CASE Handler    BY <2>2, HandlerInv
    <2>3. ASSUME NEW w \in Writers,
                 Enter(w) \/ Take(w) \/ Store(w) \/ Publish(w) \/ Start(w)
          PROVE  IInv'
          BY <2>3, EnterInv, TakeInv, StoreInv, PublishInv, StartInv
    <2>4. CASE UNCHANGED vars   BY <2>4, StutterInv
    <2>5. QED             BY <2>1, <2>2, <2>3, <2>4 DEF Next, Handler
  <1>2. QED               BY <1>1, InitInv, PTL DEF Spec

(* The print ring stays well typed: its positions are cells of the ring.   *)
THEOREM TypeCorrect == ASSUME Calm PROVE Spec => []TypeOK
  <1>1. IInv => TypeOK  BY DEF IInv
  <1>2. QED             BY <1>1, Invariance, PTL

(* transferRunning loses no wakeup: once it is false and no call is under  *)
(* way, WE_Print_Flush may return.                                         *)
THEOREM FlushSound == ASSUME Calm PROVE Spec => []FlushIsSound
  <1>1. IInv => FlushIsSound
    <2> SUFFICES ASSUME IInv, Quiet, ~transferRunning
                 PROVE  Len(wire) = accepted /\ uart = <<>>
        BY DEF FlushIsSound
    <2>1. uart = <<>> /\ ~tc /\ readPos = writePos
          BY DEF IInv, Transfer, Quiet, Busy
    <2>2. QED  BY <2>1 DEF IInv, Balance, Pending, Lag, Quiet, TypeOK, Cells
  <1>2. QED             BY <1>1, Invariance, PTL

(* While transferRunning is set the handler is sure to run again.          *)
THEOREM RunningPowered == ASSUME Calm PROVE Spec => []RunningHasPower
  <1>1. IInv => RunningHasPower
    <2> SUFFICES ASSUME IInv, Quiet, transferRunning PROVE uart # <<>> \/ tc
        BY DEF RunningHasPower
    <2>1. Len(uart) = 1 \/ tc   BY DEF IInv, Transfer, Quiet
    <2>2. QED   BY <2>1
  <1>2. QED             BY <1>1, Invariance, PTL

(* The positions account for every character.                              *)
THEOREM AllAccounted == ASSUME Calm PROVE Spec => []Accounted
  <1>1. IInv => Accounted  BY DEF IInv, Balance, Lag, Accounted
  <1>2. QED             BY <1>1, Invariance, PTL

(* The lock keeps nested calls of _write apart.                            *)
THEOREM LockExcludes == ASSUME Calm PROVE Spec => []OneWriter
  <1>1. IInv => OneWriter
    <2> SUFFICES ASSUME IInv PROVE OneWriter  OBVIOUS
    <2> DEFINE H == {w \in Writers : pc[w] \in {"store", "publish", "start"}}
    <2>1. \A v, w \in H : v = w
          BY DEF IInv, Nesting, Holds, Busy
    <2>2. CASE H = {}
          BY <2>2, FS_EmptySet DEF OneWriter
    <2>3. CASE H # {}
      <3>1. PICK w : H = {w}   BY <2>1, <2>3
      <3>2. Cardinality(H) = 1   BY <3>1, FS_Singleton
      <3>3. QED   BY <3>2 DEF OneWriter
    <2>4. QED  BY <2>2, <2>3
  <1>2. QED             BY <1>1, Invariance, PTL
-----------------------------------------------------------------------------
(* The byte stream.                                                        *)

(* Until a store leaves the buffer: what is pending stands in the ring in  *)
(* the order of its acceptance, a call that has stored and not published   *)
(* has put its characters behind that, and the USART holds the next        *)
(* character of the wire.                                                  *)
Order ==
    ~overrun =>
      /\ \A d \in 0 .. Pending - 1 :
            printBuffer[Cell(readPos, d)] = accepted - Pending + d + 1
      /\ \A w \in Writers : pc[w] = "publish" =>
            \A i \in 0 .. call[w].len - 1 :
                printBuffer[Cell(writePos, i)] = accepted + 1 + i
      /\ uart # <<>> => uart = <<Len(wire) + 1>>

(* Going on from a cell leads to a cell.                                   *)
LEMMA CellOf ==
    ASSUME NEW p \in Cells, NEW d \in 0 .. Size
    PROVE  Cell(p, d) \in Cells
  BY Params DEF Cell, Cells

(* Distances shorter than the ring tell cells apart.                       *)
LEMMA CellsDiffer ==
    ASSUME NEW p \in Cells, NEW d \in 0 .. Size - 1, NEW e \in 0 .. Size - 1,
           Cell(p, d) = Cell(p, e)
    PROVE  d = e
  BY Params DEF Cell, Cells

(* The write position is where what is pending ends.                       *)
LEMMA BehindPending ==
    ASSUME TypeOK
    PROVE  \A i \in 0 .. Size - 1 - Pending :
               Cell(writePos, i) = Cell(readPos, Pending + i)
  BY Params DEF TypeOK, Pending, Cell, Cells

(* Steps that leave the ring, the USART and the published calls alone.     *)
LEMMA OrderKept ==
    ASSUME Order,
           UNCHANGED <<printBuffer, writePos, readPos, uart, accepted, wire, overrun>>,
           \A w \in Writers : pc'[w] = "publish" => pc[w] = "publish" /\ call'[w] = call[w]
    PROVE  Order'
  BY DEF Order, Pending

(* What is stored goes behind what is pending, in its order.               *)
LEMMA StoreOrder ==
    ASSUME IInv, Order, NEW w \in Writers, Store(w)
    PROVE  Order'
  <1> SUFFICES ASSUME ~overrun' PROVE Order'  BY DEF Order
  <1> DEFINE len     == call[w].len
             here    == [i \in 0 .. len - 1 |-> Target(call[w], i)]
             goes(p) == \E i \in DOMAIN here : here[i] = p
             from(p) == CHOOSE i \in DOMAIN here : here[i] = p
  <1>1. /\ ~overrun
        /\ \A i \in DOMAIN here : ~(here[i] >= Size)
        /\ printBuffer' = [p \in Cells |-> IF goes(p) THEN accepted + 1 + from(p)
                                                      ELSE printBuffer[p]]
        /\ pc[w] = "store" /\ pc' = [pc EXCEPT ![w] = "publish"]
        /\ UNCHANGED <<writePos, readPos, uart, call, accepted, wire>>
        BY DEF Store, Goto
  <1>2. /\ call[w].wp = writePos /\ len \in Nat /\ len + Pending <= Size - 1
        /\ call[w].rp \in Cells /\ writePos \in Cells /\ readPos \in Cells
        /\ Pending \in 0 .. Size - 1
        BY <1>1, PendingRange DEF IInv, Calls, TypeOK, Call
  <1>3. ASSUME NEW i \in 0 .. len - 1
        PROVE  Target(call[w], i) = Cell(writePos, i)
    <2>1. here[i] = Target(call[w], i) /\ i \in DOMAIN here   OBVIOUS
    <2>2. ~(Target(call[w], i) >= Size)   BY <1>1, <2>1
    <2> HIDE DEF here, len
    <2>3. QED  BY <1>2, <2>2, Params DEF Target, Cell, Cells
  <1>4. DOMAIN here = 0 .. len - 1 /\ \A i \in 0 .. len - 1 : here[i] = Cell(writePos, i)
        BY <1>3
  <1> HIDE DEF len, here
  <1>5. ASSUME NEW i \in 0 .. len - 1
        PROVE  printBuffer'[Cell(writePos, i)] = accepted + 1 + i
    <2>1. Cell(writePos, i) \in Cells /\ goes(Cell(writePos, i))
          BY <1>2, <1>4, CellOf, Params
    <2>2. /\ from(Cell(writePos, i)) \in 0 .. len - 1
          /\ Cell(writePos, from(Cell(writePos, i))) = Cell(writePos, i)
          BY <1>4, <2>1
    <2> HIDE DEF from
    <2>3. from(Cell(writePos, i)) = i
          BY <1>2, <2>2, CellsDiffer, Params
    <2>4. QED  BY <1>1, <2>1, <2>3
  <1>6. ASSUME NEW d \in 0 .. Pending - 1
        PROVE  printBuffer'[Cell(readPos, d)] = printBuffer[Cell(readPos, d)]
    <2>1. Cell(readPos, d) \in Cells   BY <1>2, CellOf, Params
    <2>2. ~goes(Cell(readPos, d))
      <3> SUFFICES ASSUME NEW i \in 0 .. len - 1, Cell(writePos, i) = Cell(readPos, d)
                   PROVE  FALSE
          BY <1>4
      <3>1. Cell(readPos, Pending + i) = Cell(readPos, d)
            BY <1>2, BehindPending, Params DEF IInv
      <3>2. QED  BY <1>2, <3>1, CellsDiffer, Params
    <2>3. QED  BY <1>1, <2>1, <2>2
  <1>7. \A v \in Writers \ {w} : pc'[v] # "publish"
        BY <1>1 DEF IInv, Nesting, Holds, Busy, TypeOK
  <1>8. Pending' = Pending   BY <1>1 DEF Pending
  <1>9. QED  BY <1>1, <1>5, <1>6, <1>7, <1>8 DEF Order, len

(* What was stored is pending once it is published.                        *)
LEMMA PublishOrder ==
    ASSUME IInv, Order, NEW w \in Writers, Publish(w)
    PROVE  Order'
  <1> DEFINE len == call[w].len
  <1> SUFFICES ASSUME ~overrun' PROVE Order'  BY DEF Order
  <1>1. /\ ~overrun /\ pc[w] = "publish" /\ pc' = [pc EXCEPT ![w] = "start"]
        /\ UNCHANGED <<printBuffer, readPos, uart, wire>>
        BY DEF Publish, Goto
  <1>2. /\ Pending' = Pending + len /\ accepted' = accepted + len
        /\ len \in Nat /\ len + Pending <= Size - 1 /\ Pending \in 0 .. Size - 1
        /\ accepted \in Nat
        BY PublishMoves DEF IInv, TypeOK
  <1>3. \A i \in 0 .. len - 1 : printBuffer[Cell(writePos, i)] = accepted + 1 + i
        BY <1>1 DEF Order
  <1> HIDE DEF len
  <1>4. ASSUME NEW d \in 0 .. Pending' - 1
        PROVE  printBuffer[Cell(readPos, d)] = accepted' - Pending' + d + 1
    <2>1. CASE d < Pending
      <3>1. printBuffer[Cell(readPos, d)] = accepted - Pending + d + 1
            BY <1>1, <1>2, <2>1 DEF Order
      <3>2. QED  BY <1>2, <3>1
    <2>2. CASE d >= Pending
      <3>1. d - Pending \in 0 .. len - 1 /\ Pending + (d - Pending) = d
            BY <1>2, <2>2
      <3>2. Cell(writePos, d - Pending) = Cell(readPos, d)
            BY <1>2, <3>1, BehindPending, Params DEF IInv
      <3>3. printBuffer[Cell(readPos, d)] = accepted + 1 + (d - Pending)
            BY <1>3, <3>1, <3>2
      <3>4. QED  BY <1>2, <3>3
    <2>3. QED  BY <1>2, <2>1, <2>2
  <1>5. \A v \in Writers : pc'[v] # "publish"
        BY <1>1 DEF IInv, Nesting, Holds, Busy, TypeOK
  <1>6. QED  BY <1>1, <1>4, <1>5 DEF Order

(* What a transfer starts with is the next character of the wire.          *)
LEMMA NextOfWire ==
    ASSUME IInv, Order, ~overrun, readPos # writePos, Lag = 0
    PROVE  printBuffer[readPos] = Len(wire) + 1
  <1>1. Pending \in 0 .. Size - 1 /\ Pending # 0   BY PendingRange DEF IInv
  <1>2. Cell(readPos, 0) = readPos   BY Params DEF Cell, IInv, TypeOK, Cells
  <1>3. printBuffer[readPos] = accepted - Pending + 0 + 1
        BY <1>1, <1>2 DEF Order
  <1>4. Len(wire) = accepted - Pending + 0   BY DEF IInv, Balance
  <1>5. QED  BY <1>1, <1>3, <1>4 DEF IInv, TypeOK

(* Starting a transfer puts the next character of the wire into the USART. *)
LEMMA StartOrder ==
    ASSUME Calm, IInv, Order, NEW w \in Writers, Start(w)
    PROVE  Order'
  <1> SUFFICES ASSUME ~overrun' PROVE Order'  BY DEF Order
  <1>1. /\ ~overrun /\ pc' = [pc EXCEPT ![w] = "idle"]
        /\ UNCHANGED <<printBuffer, writePos, readPos, call, accepted, wire>>
        BY DEF Start, Goto, history
  <1>2. uart' # <<>> => uart' = <<Len(wire') + 1>>
    <2>1. CASE ~transferRunning
      <3>1. uart = <<>> /\ Lag = 0 /\ readPos # writePos
            BY <2>1, StartFinds DEF Lag
      <3>2. uart' = <<printBuffer[readPos]>>
            BY <2>1, <3>1 DEF Start, Transmit, TXE
      <3>3. QED  BY <1>1, <3>1, <3>2, NextOfWire
    <2>2. CASE transferRunning
          BY <1>1, <2>2 DEF Start, Order
    <2>3. QED  BY <2>1, <2>2
  <1>3. \A v \in Writers : pc'[v] = "publish" => pc[v] = "publish"
        BY <1>1 DEF IInv, TypeOK
  <1>4. Pending' = Pending   BY <1>1 DEF Pending
  <1>5. QED  BY <1>1, <1>2, <1>3, <1>4 DEF Order

(* The USART holds one character at a time.                                *)
LEMMA ShiftFinds ==
    ASSUME IInv, Shift
    PROVE  uart' = <<>> /\ Len(wire') = Len(wire) + 1
  <1>1. uart \in Seq(Nat) /\ Len(uart) = 1
        BY DEF IInv, Transfer, TypeOK, Shift
  <1>2. Tail(uart) \in Seq(Nat) /\ Len(Tail(uart)) = 0   BY <1>1
  <1>3. \A s \in Seq(Nat) : Len(s) = 0 => s = <<>>   OBVIOUS
  <1>5. Tail(uart) = <<>>   BY <1>2, <1>3
  <1>4. QED  BY <1>1, <1>5 DEF Shift, IInv, TypeOK

(* The handler passes one character and sends the next one.                *)
LEMMA HandlerOrder ==
    ASSUME Calm, IInv, Order, Handler
    PROVE  Order'
  <1> SUFFICES ASSUME ~overrun' PROVE Order'  BY DEF Order
  <1>1. ~overrun /\ UNCHANGED <<printBuffer, writePos, pc, call, accepted, wire>>
        BY DEF Handler, IsrEnter, IsrAdvance, IsrCompare, IsrSet, IsrSend, ring,
               writer, history
  <1>2. CASE IsrEnter \/ IsrCompare \/ IsrSet
        BY <1>1, <1>2, OrderKept DEF IsrEnter, IsrCompare, IsrSet, ring, history
  <1>3. CASE IsrAdvance
    <2>1. readPos # writePos /\ uart' = uart /\ uart = <<>>
          BY <1>3 DEF IsrAdvance, IInv, Transfer
    <2>2. Pending \in 0 .. Size - 1   BY PendingRange DEF IInv
    <2>3. Pending' = Pending - 1
          BY <1>3, <2>1, Params DEF IsrAdvance, Pending, IInv, TypeOK, Cells
    <2>4. ASSUME NEW d \in 0 .. Pending' - 1
          PROVE  printBuffer[Cell(readPos', d)] = accepted - Pending' + d + 1
      <3>1. d + 1 \in 0 .. Pending - 1   BY <2>2, <2>3
      <3>2. Cell(readPos', d) = Cell(readPos, d + 1)
            BY <1>3, <2>2, <3>1, Params DEF IsrAdvance, Cell, IInv, TypeOK, Cells
      <3>3. printBuffer[Cell(readPos, d + 1)] = accepted - Pending + (d + 1) + 1
            BY <1>1, <3>1 DEF Order
      <3>4. QED  BY <2>2, <2>3, <3>2, <3>3 DEF IInv, TypeOK
    <2>5. QED  BY <1>1, <2>1, <2>4 DEF Order
  <1>4. CASE IsrSend
    <2>1. uart = <<>> /\ Lag = 0 /\ (transferRunning <=> readPos # writePos)
          BY <1>4 DEF IsrSend, IInv, Transfer, Lag
    <2>2. uart' = IF transferRunning THEN <<printBuffer[readPos]>> ELSE <<>>
          BY <1>4, <2>1 DEF IsrSend, Transmit
    <2>3. uart' # <<>> => uart' = <<Len(wire) + 1>>
          BY <1>1, <2>1, <2>2, NextOfWire
    <2>4. readPos' = readPos /\ Pending' = Pending
          BY <1>4 DEF IsrSend, ring, Pending
    <2>5. QED  BY <1>1, <2>3, <2>4 DEF Order
  <1>5. QED  BY <1>2, <1>3, <1>4 DEF Handler

(* The order is kept by every step.                                        *)
LEMMA OrderStep ==
    ASSUME Calm, IInv, Order, [Next]_vars
    PROVE  Order'
  <1>1. CASE Shift
    <2> SUFFICES ASSUME ~overrun' PROVE Order'  BY DEF Order
    <2>1. /\ ~overrun /\ uart' = <<>>
          /\ UNCHANGED <<printBuffer, writePos, readPos, pc, call, accepted>>
          BY <1>1, ShiftFinds DEF Shift, ring, writer
    <2>2. Pending' = Pending   BY <2>1 DEF Pending
    <2>3. QED  BY <2>1, <2>2 DEF Order
  <1>2. CASE Handler      BY <1>2, HandlerOrder
  <1>3. ASSUME NEW w \in Writers, Enter(w) \/ Take(w)  PROVE Order'
    <2>1. UNCHANGED <<printBuffer, writePos, readPos, uart, accepted, wire, overrun>>
          BY <1>3 DEF Enter, Take, ring, history
    <2>2. ASSUME NEW v \in Writers, pc'[v] = "publish"
          PROVE  pc[v] = "publish" /\ call'[v] = call[v]
          BY <1>3, <2>2 DEF Enter, Take, Goto, Busy, IInv, TypeOK
    <2>3. QED  BY <2>1, <2>2, OrderKept
  <1>4. ASSUME NEW w \in Writers, Store(w) \/ Publish(w) \/ Start(w)  PROVE Order'
        BY <1>4, StoreOrder, PublishOrder, StartOrder
  <1>5. CASE UNCHANGED vars
        BY <1>5, OrderKept DEF vars, ring, writer, history
  <1>6. QED  BY <1>1, <1>2, <1>3, <1>4, <1>5 DEF Next, Handler

(* What a call publishes is put into the stream.                           *)
LEMMA PublishPuts ==
    ASSUME IInv, ~overrun, NEW w \in Writers, Publish(w)
    PROVE  [Stream!Next]_(Stream!stream)
  <1> DEFINE len == call[w].len
  <1>1. /\ accepted' = accepted + len /\ len \in Nat /\ accepted \in Nat
        /\ overrun' = overrun /\ wire' = wire
        BY PublishMoves DEF Publish, IInv, TypeOK
  <1> HIDE DEF len
  <1>2. CASE len = 0
    <2>1. Accepted' = Accepted   BY <1>1, <1>2 DEF Accepted
    <2>2. QED  BY <1>1, <2>1 DEF Stream!stream
  <1>3. CASE len # 0
    <2>1. /\ Accepted \in Seq(Nat) /\ Len(Accepted) = accepted
          /\ Accepted' \in Seq(Nat) /\ Len(Accepted') = accepted'
          BY <1>1 DEF Accepted
    <2>2. \A i \in 1 .. accepted : Accepted[i] = i /\ Accepted'[i] = i
          BY <1>1 DEF Accepted
    <2>3. Accepted = SubSeq(Accepted', 1, Len(Accepted))
          BY <1>1, <2>1, <2>2
    <2>4. Len(Accepted) < Len(Accepted')   BY <1>1, <1>3, <2>1
    <2>5. QED  BY <1>1, <2>3, <2>4 DEF Stream!Next, Stream!Put
  <1>4. QED  BY <1>2, <1>3

(* What the USART finishes comes out of the stream next.                   *)
LEMMA ShiftGets ==
    ASSUME IInv, Order, ~overrun, Shift
    PROVE  Stream!Next
  <1>1. uart = <<Len(wire) + 1>> /\ wire' = Append(wire, Len(wire) + 1)
        BY DEF Shift, Order
  <1>2. Len(wire) \in Nat /\ accepted \in Nat   BY DEF IInv, TypeOK
  <1>3. Len(wire) < accepted
    <2>1. isr = "idle" /\ ~tc /\ readPos # writePos
          BY <1>1 DEF IInv, Transfer, TypeOK, Shift
    <2>2. Lag = 0   BY <2>1 DEF Lag
    <2>3. Pending \in Nat /\ Pending # 0   BY <2>1, PendingRange DEF IInv
    <2>4. QED  BY <1>2, <2>2, <2>3 DEF IInv, Balance
  <1>4. Len(Accepted) = accepted /\ Accepted[Len(wire) + 1] = Len(wire) + 1
        BY <1>2, <1>3 DEF Accepted
  <1>5. Accepted' = Accepted /\ overrun' = overrun   BY DEF Shift, Accepted
  <1>6. Stream!Get   BY <1>1, <1>3, <1>4, <1>5 DEF Stream!Get
  <1>7. QED  BY <1>5, <1>6 DEF Stream!Next

(* Each step of the print ring is a step of the stream, or none of it.     *)
LEMMA StreamStep ==
    ASSUME Calm, IInv, IInv', Order, [Next]_vars
    PROVE  [Stream!Next]_(Stream!stream)
  <1>1. CASE overrun'   BY <1>1 DEF Stream!Next
  <1>2. CASE ~overrun'
    <2>1. ~overrun
          BY <1>2 DEF Next, vars, history, Enter, Take, Store, Publish, Start, Shift,
                      IsrEnter, IsrAdvance, IsrCompare, IsrSet, IsrSend
    <2>2. CASE Shift   BY <2>1, <2>2, ShiftGets
    <2>3. ASSUME NEW w \in Writers, Publish(w)  PROVE [Stream!Next]_(Stream!stream)
          BY <2>1, <2>3, PublishPuts
    <2>4. ASSUME UNCHANGED <<accepted, wire>>  PROVE [Stream!Next]_(Stream!stream)
      <3>1. Accepted' = Accepted   BY <2>4 DEF Accepted
      <3>2. overrun' = overrun     BY <1>2, <2>1 DEF IInv, TypeOK
      <3>3. UNCHANGED Stream!stream   BY <2>4, <3>1, <3>2 DEF Stream!stream
      <3>4. QED  BY <3>3
    <2>5. ASSUME NEW w \in Writers, Enter(w) \/ Take(w) \/ Store(w) \/ Start(w)
          PROVE  UNCHANGED <<accepted, wire>>
          BY <2>5 DEF Enter, Take, Store, Start, history
    <2>6. ASSUME Handler \/ UNCHANGED vars  PROVE UNCHANGED <<accepted, wire>>
          BY <2>6 DEF Handler, IsrEnter, IsrAdvance, IsrCompare, IsrSet, IsrSend, vars,
                      history
    <2>7. QED  BY <2>2, <2>3, <2>4, <2>5, <2>6 DEF Next, Handler
  <1>3. QED  BY <1>1, <1>2

(* The calm print ring is a byte stream: what leaves the USART is what was *)
(* accepted, in order, nothing lost or doubled, until a store leaves the   *)
(* buffer.                                                                 *)
THEOREM IsStream == ASSUME Calm PROVE Spec => ImplementsStream
  <1>1. Init => Order
    <2> SUFFICES ASSUME Init PROVE Order  OBVIOUS
    <2>1. Pending = 0   BY Params DEF Init, Pending
    <2>2. QED  BY <2>1 DEF Init, Order
  <1>2. Init => Stream!Init
    <2> SUFFICES ASSUME Init PROVE Stream!Init  OBVIOUS
    <2>1. Accepted = <<>>   BY DEF Init, Accepted
    <2>2. QED  BY <2>1 DEF Init, Stream!Init
  <1>3. IInv /\ Order /\ [Next]_vars => Order'   BY OrderStep
  <1>4. IInv /\ IInv' /\ Order /\ [Next]_vars => [Stream!Next]_(Stream!stream)
        BY StreamStep
  <1>5. QED
        BY <1>1, <1>2, <1>3, <1>4, Invariance, PTL
           DEF Spec, ImplementsStream, Stream!Spec
=============================================================================
