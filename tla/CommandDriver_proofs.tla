------------------------ MODULE CommandDriver_proofs ------------------------
(***************************************************************************)
(* Proofs about CommandDriver. The first part holds for every table of     *)
(* functions and replies, every number of slots and every behaviour of     *)
(* module and line: types, and that a call which returns true saw, since   *)
(* it began, a confirmation for each of its waits. The second part is      *)
(* about drivers that make one request at a time (Serial) and modules that *)
(* answer in time (Timely): what is under way at each step, that no answer *)
(* a call waits for meets a full array, and the contract with the caller.  *)
(***************************************************************************)
EXTENDS CommandDriver, TLAPS

(* What a slot holds was recorded since the call began.                    *)
Recent(i) ==
    cmdConfirmationArray[i].cmd # CNFINVALID =>
        <<cmdConfirmationArray[i].cmd, cmdConfirmationArray[i].status>> \in seen

(* A step of a call that has not failed left this behind.                  *)
LeftBehind(step) ==
    /\ step.do = "clear" => Recent(step.slot)
    /\ step.do = "wait" => <<step.cmd, step.status>> \in seen

(* Strengthening of ConfirmedByKind: it holds for the steps already taken. *)
Progressed ==
    Running /\ call.ok =>
        \A j \in 1 .. call.k - 1 :
            j \in DOMAIN Script[call.op]
              => LeftBehind(Script[call.op][j])

(* The inductive invariant.                                                *)
IInv == TypeOK /\ Progressed /\ ConfirmedByKind

-----------------------------------------------------------------------------
(* What the proofs use of the assumptions on the constants.                *)
LEMMA Tables ==
    /\ Slots \in Nat /\ Slots > 0
    /\ "none" \notin Ops
    /\ \A op \in Ops : Script[op] \in Seq(StepType)
    /\ "CNFINVALID" \notin Recorded
BY DriverAssumption DEF Ops

(* The bounds on the counters are numbers.                                 *)
LEMMA Bounds ==
    MaxCalls \in Nat /\ MaxIndications \in Nat /\ MaxFaults \in Nat
BY ModuleAssumption

(* The strings the core itself writes into its state are strings.          *)
LEMMA Literals ==
    /\ "" \in STRING /\ "none" \in STRING /\ "CNFINVALID" \in STRING
    /\ "Invalid" \in STRING /\ "NoStatus" \in STRING /\ "Success" \in STRING
BY LiteralAssumption

(* A position within a function of the table is one of its steps.          *)
LEMMA StepOf ==
    ASSUME NEW op \in Ops, NEW k \in Nat, k >= 1, k <= Len(Script[op])
    PROVE  /\ Script[op][k] \in StepType
           /\ k \in DOMAIN Script[op]
BY Tables

(* A function clears every slot before it first waits.                     *)
LEMMA Waits ==
    ASSUME NEW op \in Ops, NEW j \in DOMAIN Script[op],
           Script[op][j].do = "wait", NEW i \in 1 .. Slots
    PROVE  \E h \in 1 .. j - 1 :
               Script[op][h].do = "clear" /\ Script[op][h].slot = i
BY DriverAssumption DEF ScriptAssumption

-----------------------------------------------------------------------------
(* Types.                                                                  *)

LEMMA AtStep ==
    ASSUME TypeOK, NEW what, At(what)
    PROVE  /\ call.op \in Ops /\ call.k \in 1 .. Len(Script[call.op])
           /\ Step \in StepType /\ Step.do = what
           /\ Len(Script[call.op]) \in Nat
           /\ call.k \in DOMAIN Script[call.op]
  <1>1. call.op \in Ops /\ call.k \in Nat /\ call.k >= 1
    BY DEF TypeOK, Position, At, Running, NoOp
  <1>2. call.k <= Len(Script[call.op])
    BY DEF At, Length
  <1>3. Script[call.op] \in Seq(StepType)
    BY <1>1, Tables
  <1> QED  BY <1>1, <1>2, <1>3, StepOf DEF At, Step

(* Where a step leads is a position, whether it succeeds or fails.         *)
LEMMA PositionOf ==
    ASSUME call \in Position, NEW k \in Nat \ {0}, NEW count \in Nat,
           NEW slot \in 1 .. Slots, NEW ok \in BOOLEAN, NEW why \in STRING
    PROVE  [call EXCEPT !.k = k, !.count = count, !.slot = slot, !.ok = ok,
                        !.why = why] \in Position
BY DEF Position

(* A step of the main thread leads from a position to a position.          *)
LEMMA MoveType ==
    ASSUME TypeOK, NEW what, At(what), Advance \/ Fail
    PROVE  call' \in Position
  <1>1. call \in Position /\ 1 \in 1 .. Slots /\ 0 \in Nat
    BY Tables DEF TypeOK
  <1>2. call.k \in Nat \ {0} /\ call.ok \in BOOLEAN /\ call.why \in STRING
    BY <1>1 DEF Position
  <1>3. CASE Advance
    <2>1. call.k + 1 \in Nat \ {0}
      BY <1>2
    <2> QED  BY <1>1, <1>3, <2>1 DEF Advance, Position
  <1>4. CASE Fail
    <2>1. Step.fail \in Nat /\ Length \in Nat /\ Step.do \in STRING
      BY AtStep DEF StepType, Length
    <2>2. (IF Step.fail = 0 THEN Length + 1 ELSE Step.fail) \in Nat \ {0}
      BY <2>1
    <2>3. (IF call.ok THEN Step.do ELSE call.why) \in STRING
      BY <2>1, <1>2
    <2> QED  BY <1>1, <1>4, <2>2, <2>3, PositionOf DEF Fail
  <1> QED  BY <1>3, <1>4

(* A call begins at a position.                                            *)
LEMMA StartType == TypeOK /\ (\E op \in Ops : Start(op)) => TypeOK'
  <1> SUFFICES ASSUME TypeOK, NEW op \in Ops, Start(op) PROVE TypeOK'
    OBVIOUS
  <1>1. Slots \in Nat /\ Slots > 0 /\ MaxCalls \in Nat
    BY Tables, ModuleAssumption
  <1>2. call' \in Position
    <2>1. call' = [op |-> op, k |-> 1, count |-> 0, slot |-> 1, ok |-> TRUE, why |-> ""]
      BY DEF Start, Idle
    <2>2. /\ op \in Ops \cup {NoOp} /\ 1 \in Nat \ {0} /\ 0 \in Nat
          /\ 1 \in 1 .. Slots
      BY <1>1
    <2> QED  BY <2>1, <2>2, Literals DEF Position
  <1>3. calls' \in 0 .. MaxCalls
    BY <1>1 DEF Start, TypeOK
  <1>4. NoFrame \in Frame
    BY Literals DEF NoFrame, Frame
  <1> QED
    BY <1>2, <1>3, <1>4 DEF Start, TypeOK, driver, module

(* A step that changes nothing but the position.                           *)
LEMMA MovedType ==
    ASSUME TypeOK, call' \in Position,
           UNCHANGED <<driver, module, line, history, seen, returned, bounds>>
    PROVE  TypeOK'
BY DEF TypeOK, driver, module, history, bounds

(* The value that marks a slot free is a slot.                             *)
LEMMA FreeSlot == Free \in Slot
BY Literals DEF Free, Slot

(* Between two calls the main thread is at a position, too.                *)
LEMMA IdleType == Idle \in Position
  <1>1. /\ NoOp \in Ops \cup {NoOp} /\ 1 \in Nat \ {0} /\ 0 \in Nat
        /\ 1 \in 1 .. Slots
    BY Tables
  <1> QED  BY <1>1, Literals DEF Idle, Position

(* A pin or UART that refuses keeps the types.                             *)
LEMMA FaultType == TypeOK /\ Fault => TypeOK'
  <1> SUFFICES ASSUME TypeOK, Fault PROVE TypeOK'
    OBVIOUS
  <1>1. call' \in Position
    BY MoveType DEF Fault
  <1>2. faults' \in 0 .. MaxFaults
    BY Bounds DEF Fault, TypeOK
  <1> QED  BY <1>1, <1>2 DEF Fault, TypeOK, driver, module, history

(* A request that is sent keeps the types: the module has an answer to it. *)
LEMMA TransmitType == TypeOK /\ Transmit => TypeOK'
  <1> SUFFICES ASSUME TypeOK, Transmit PROVE TypeOK'
    OBVIOUS
  <1>1. call' \in Position
    BY MoveType DEF Transmit
  <1>2. Step.cmd \in DOMAIN Reply
    <2>1. At("send")
      BY DEF Transmit
    <2>2. /\ call.op \in Ops /\ call.k \in DOMAIN Script[call.op]
          /\ Script[call.op][call.k].do = "send"
      BY <2>1, AtStep DEF Step
    <2> QED  BY <2>2, DriverAssumption DEF ScriptAssumption, Step
  <1>3. PICK n : n = requests'
    OBVIOUS
  <1>4. n \in Nat /\ n = requests + 1 /\ requests \in Nat
    BY <1>3 DEF Transmit, TypeOK
  <1>5. asked' \subseteq 1 .. n
    BY <1>3, <1>4 DEF Transmit, TypeOK
  <1>6. [cmd |-> Step.cmd, req |-> n] \in Message
    BY <1>2, <1>4 DEF Message
  <1>7. inbox' \in Seq(Message)
    BY <1>3, <1>6 DEF Transmit, TypeOK
  <1>8. awake' \in BOOLEAN
    BY DEF Transmit, TypeOK
  <1> QED
    BY <1>1, <1>3, <1>4, <1>5, <1>7, <1>8 DEF Transmit, TypeOK, driver, bounds

(* Pulling the reset pin keeps the types.                                  *)
LEMMA HoldType == TypeOK /\ HoldInReset => TypeOK'
  <1> SUFFICES ASSUME TypeOK, HoldInReset PROVE TypeOK'
    OBVIOUS
  <1>1. call' \in Position
    BY MoveType DEF HoldInReset
  <1>2. inbox' \in Seq(Message) /\ outbox' \in Seq(Frame)
    BY DEF HoldInReset
  <1>3. awake' \in BOOLEAN /\ served' \subseteq Nat
    BY DEF HoldInReset, TypeOK
  <1> QED
    BY <1>1, <1>2, <1>3 DEF HoldInReset, TypeOK, driver, history, bounds

(* Resetting one slot keeps the types.                                     *)
LEMMA ClearType == TypeOK /\ ClearSlot => TypeOK'
  <1> SUFFICES ASSUME TypeOK, ClearSlot PROVE TypeOK'
    OBVIOUS
  <1>1. call' \in Position
    BY MoveType DEF ClearSlot
  <1>2. cmdConfirmationArray' \in [1 .. Slots -> Slot]
    BY FreeSlot DEF ClearSlot, TypeOK
  <1> QED
    BY <1>1, <1>2 DEF ClearSlot, TypeOK, module, history, bounds

(* The four outcomes of a poll of Wait4CNF keep the types.                 *)
LEMMA WaitType == TypeOK /\ (Confirmed \/ NextSlot \/ Delay \/ GiveUp) => TypeOK'
  <1> SUFFICES ASSUME TypeOK, Confirmed \/ NextSlot \/ Delay \/ GiveUp
               PROVE  TypeOK'
    OBVIOUS
  <1>1. UNCHANGED <<driver, module, line, history, seen, returned, bounds>>
    BY DEF Confirmed, NextSlot, Delay, GiveUp
  <1>2. CASE Confirmed \/ GiveUp
    BY <1>1, <1>2, MoveType, MovedType DEF Confirmed, GiveUp
  <1>3. CASE NextSlot
    <2>1. call \in Position /\ call.slot + 1 \in 1 .. Slots
      BY <1>3, Tables DEF NextSlot, TypeOK, Position
    <2>2. call' \in Position
      BY <1>3, <2>1 DEF NextSlot, Position
    <2> QED  BY <1>1, <2>2, MovedType
  <1>4. CASE Delay
    <2>1. call \in Position /\ 1 \in 1 .. Slots /\ call.count + 1 \in Nat
      BY <1>4, Tables DEF TypeOK, Position
    <2>2. call' \in Position
      BY <1>4, <2>1 DEF Delay, Position
    <2> QED  BY <1>1, <2>2, MovedType
  <1> QED  BY <1>2, <1>3, <1>4

(* Copying rxPacket to the caller keeps the types.                         *)
LEMMA ReadType == TypeOK /\ ReadPacket => TypeOK'
  <1> SUFFICES ASSUME TypeOK, ReadPacket PROVE TypeOK'
    OBVIOUS
  <1>1. call' \in Position
    BY MoveType DEF ReadPacket
  <1> QED  BY <1>1 DEF ReadPacket, TypeOK, driver, module, bounds

(* Tests and assignments of driver state keep the types.                   *)
LEMMA StateType ==
    TypeOK /\ (CheckPacket \/ (\E holds \in BOOLEAN : TestState(holds)) \/ SetState)
      => TypeOK'
BY MoveType, MovedType DEF CheckPacket, TestState, SetState

(* uartInit and uartDeinit keep the types.                                 *)
LEMMA UartType == TypeOK /\ (OpenUart \/ CloseUart) => TypeOK'
  <1> SUFFICES ASSUME TypeOK, OpenUart \/ CloseUart PROVE TypeOK'
    OBVIOUS
  <1>1. call' \in Position
    BY MoveType DEF OpenUart, CloseUart
  <1>2. uartOpen' \in BOOLEAN
    BY DEF OpenUart, CloseUart
  <1>3. line' \in Seq(Frame)
    <2>1. CASE OpenUart
      BY <2>1 DEF OpenUart
    <2>2. CASE CloseUart
      BY <2>2 DEF CloseUart, TypeOK
    <2> QED  BY <2>1, <2>2
  <1> QED
    BY <1>1, <1>2, <1>3 DEF OpenUart, CloseUart, TypeOK, module, history, bounds

(* A call that returns keeps the types.                                    *)
LEMMA FinishType == TypeOK /\ Finish => TypeOK'
  <1> SUFFICES ASSUME TypeOK, Finish PROVE TypeOK'
    OBVIOUS
  <1>1. call' \in Position
    BY IdleType DEF Finish
  <1>2. returned' \in Ending
    BY DEF Finish, TypeOK, Position, Ending
  <1>3. ready' \in BOOLEAN
    BY DEF Finish, TypeOK, Position
  <1> QED
    BY <1>1, <1>2, <1>3 DEF Finish, TypeOK, module, history, bounds

(* Every step of the main thread keeps the types.                          *)
LEMMA MainType == TypeOK /\ MainStep => TypeOK'
BY FaultType, TransmitType, HoldType, ClearType, WaitType, ReadType, StateType,
   UartType, FinishType DEF MainStep

(* What the interrupt stores is a slot.                                    *)
LEMMA StoreType ==
    ASSUME TypeOK, NEW f \in Frame, Store(f)
    PROVE  cmdConfirmationArray' \in [1 .. Slots -> Slot]
  <1>1. RecordedStatus(f) \in STRING /\ f.cmd \in STRING /\ f.req \in Nat
    BY Literals DEF RecordedStatus, Frame
  <1>2. f.cmd \in Recorded =>
          [cmd |-> f.cmd, status |-> RecordedStatus(f), req |-> f.req] \in Slot
    BY <1>1 DEF Slot
  <1> QED  BY <1>2, FreeSlot DEF Store, TypeOK

(* The frame the interrupt takes off the line is a frame.                  *)
LEMMA FirstFrame ==
    ASSUME TypeOK, line # <<>>
    PROVE  Head(line) \in Frame /\ Tail(line) \in Seq(Frame)
BY DEF TypeOK

(* HandleRxPacket keeps the types.                                         *)
LEMMA ReceiveType == TypeOK /\ HandleRxPacket => TypeOK'
  <1> SUFFICES ASSUME TypeOK, HandleRxPacket PROVE TypeOK'
    OBVIOUS
  <1>1. Head(line) \in Frame /\ line' \in Seq(Frame)
    BY FirstFrame DEF HandleRxPacket
  <1>2. rxPacket' \in Frame
    BY <1>1 DEF HandleRxPacket, TypeOK
  <1>3. cmdConfirmationArray' \in [1 .. Slots -> Slot]
    BY <1>1, StoreType DEF HandleRxPacket, TypeOK
  <1> QED
    BY <1>1, <1>2, <1>3 DEF HandleRxPacket, TypeOK, module, history, bounds

(* A frame lost on the line keeps the types.                               *)
LEMMA LoseType == TypeOK /\ LoseFrame => TypeOK'
  <1> SUFFICES ASSUME TypeOK, LoseFrame PROVE TypeOK'
    OBVIOUS
  <1>1. line' \in Seq(Frame)
    BY FirstFrame DEF LoseFrame
  <1>2. faults' \in 0 .. MaxFaults
    BY Bounds DEF LoseFrame, TypeOK
  <1> QED
    BY <1>1, <1>2 DEF LoseFrame, TypeOK, driver, module, history

(* Frames that answer a request, or announce a restart.                    *)
LEMMA TaggedType ==
    ASSUME NEW frames \in Seq(PartType), NEW req \in Nat
    PROVE  Tagged(frames, req) \in Seq(Frame)
  <1> DEFINE tag(i) == [cmd |-> frames[i].cmd, status |-> frames[i].status,
                        data |-> "", req |-> req]
  <1>1. DOMAIN frames = 1 .. Len(frames) /\ Len(frames) \in Nat
    OBVIOUS
  <1>2. \A i \in 1 .. Len(frames) : tag(i) \in Frame
    <2>1. \A i \in 1 .. Len(frames) : frames[i] \in PartType
      OBVIOUS
    <2> QED  BY <2>1, Literals DEF PartType, Frame
  <1>3. Tagged(frames, req) = [i \in 1 .. Len(frames) |-> tag(i)]
    BY <1>1 DEF Tagged
  <1> HIDE DEF tag
  <1> QED  BY <1>1, <1>2, <1>3

(* The module granting or refusing a request keeps the types.              *)
LEMMA AnswerType == TypeOK /\ (\E granted \in BOOLEAN : Answer(granted)) => TypeOK'
  <1> SUFFICES ASSUME TypeOK, NEW granted \in BOOLEAN, Answer(granted)
               PROVE  TypeOK'
    OBVIOUS
  <1> DEFINE r == Head(inbox)
  <1>1. r \in Message /\ inbox' \in Seq(Message)
    <2>1. inbox \in Seq(Message) /\ inbox # <<>> /\ inbox' = Tail(inbox)
      BY DEF Answer, TypeOK
    <2> QED  BY <2>1
  <1>2. r.cmd \in DOMAIN Reply /\ r.req \in Nat
    BY <1>1 DEF Message
  <1>3. Reply[r.cmd].yes \in Seq(PartType) /\ Reply[r.cmd].no \subseteq Seq(PartType)
    BY <1>2, ModuleAssumption
  <1>4. outbox' \in Seq(Frame)
    <2>1. PICK frames \in Seq(PartType) : outbox' = outbox \o Tagged(frames, r.req)
      BY <1>3 DEF Answer
    <2>2. Tagged(frames, r.req) \in Seq(Frame)
      BY <1>2, TaggedType
    <2> QED  BY <2>1, <2>2 DEF TypeOK
  <1>5. served' \subseteq Nat
    BY <1>2 DEF Answer, TypeOK
  <1> HIDE DEF r
  <1> QED
    BY <1>1, <1>4, <1>5 DEF Answer, TypeOK, driver, history, bounds

(* The module sending a frame keeps the types.                             *)
LEMMA EmitType == TypeOK /\ (\E data \in Data : Emit(data)) => TypeOK'
  <1> SUFFICES ASSUME TypeOK, NEW data \in Data, Emit(data) PROVE TypeOK'
    OBVIOUS
  <1>1. Head(outbox) \in Frame /\ outbox' \in Seq(Frame)
    BY DEF Emit, TypeOK
  <1>2. [Head(outbox) EXCEPT !.data = data] \in Frame
    BY <1>1, ModuleAssumption DEF Frame
  <1>3. line' \in Seq(Frame)
    BY <1>2 DEF Emit, TypeOK
  <1> QED
    BY <1>1, <1>3 DEF Emit, TypeOK, driver, history, bounds

(* A frame sent unasked keeps the types.                                   *)
LEMMA IndicateType ==
    TypeOK /\ (\E i \in Indications : Indicate(i.cmd, i.status)) => TypeOK'
  <1> SUFFICES ASSUME TypeOK, NEW i \in Indications, Indicate(i.cmd, i.status)
               PROVE  TypeOK'
    OBVIOUS
  <1>1. i.cmd \in STRING /\ i.status \in STRING
    BY ModuleAssumption DEF PartType
  <1>2. [cmd |-> i.cmd, status |-> i.status, data |-> "", req |-> 0] \in Frame
    BY <1>1, Literals DEF Frame
  <1>3. line' \in Seq(Frame)
    <2>1. PICK f \in Frame : line' = Append(line, f)
      BY <1>2 DEF Indicate
    <2> QED  BY <2>1 DEF TypeOK
  <1>4. indications' \in 0 .. MaxIndications
    <2>1. /\ indications \in 0 .. MaxIndications /\ indications < MaxIndications
          /\ indications' = indications + 1
      BY DEF Indicate, TypeOK
    <2> QED  BY <2>1, Bounds
  <1> QED
    BY <1>3, <1>4 DEF Indicate, TypeOK, driver, module, history

(* A module that restarts by itself keeps the types.                       *)
LEMMA RestartType == TypeOK /\ Restart => TypeOK'
  <1> SUFFICES ASSUME TypeOK, Restart PROVE TypeOK'
    OBVIOUS
  <1>1. outbox' \in Seq(Frame)
    BY ModuleAssumption, TaggedType DEF Restart
  <1>2. inbox' \in Seq(Message)
    BY DEF Restart
  <1>4. served' \subseteq Nat
    BY DEF Restart, TypeOK
  <1>3. indications' \in 0 .. MaxIndications
    BY Bounds DEF Restart, TypeOK
  <1> QED
    BY <1>1, <1>2, <1>3, <1>4 DEF Restart, TypeOK, driver, history

(* Every step of the core keeps the types.                                 *)
LEMMA TypeStep == TypeOK /\ [Next]_vars => TypeOK'
  <1>1. ASSUME TypeOK, UNCHANGED vars PROVE TypeOK'
    BY <1>1 DEF TypeOK, vars, driver, module, history, bounds
  <1> QED
    BY <1>1, StartType, MainType, ReceiveType, LoseType, AnswerType, EmitType,
       IndicateType, RestartType DEF Next, ModuleStep

(* The types hold at first.                                                *)
LEMMA TypeInit == Init => TypeOK
  <1> SUFFICES ASSUME Init PROVE TypeOK
    OBVIOUS
  <1>1. cmdConfirmationArray \in [1 .. Slots -> Slot]
    <2>1. Zeroed \in Slot
      BY Literals DEF Zeroed, Slot
    <2> QED  BY <2>1 DEF Init
  <1>2. NoFrame \in Frame
    BY Literals DEF NoFrame, Frame
  <1>3. call \in Position
    BY IdleType DEF Init
  <1>4. [op |-> NoOp, ok |-> TRUE, why |-> "", asked |-> {}] \in Ending
    BY Literals DEF Ending
  <1>5. /\ calls \in 0 .. MaxCalls /\ indications \in 0 .. MaxIndications
        /\ faults \in 0 .. MaxFaults
    <2>1. calls = 0 /\ indications = 0 /\ faults = 0
      BY DEF Init
    <2> QED  BY <2>1, Bounds
  <1>6. inbox \in Seq(Message) /\ outbox \in Seq(Frame) /\ line \in Seq(Frame)
    <2>1. inbox = <<>> /\ outbox = <<>> /\ line = <<>>
      BY DEF Init
    <2> QED  BY <2>1
  <1>7. rxPacket \in Frame /\ response \in Frame /\ returned \in Ending
    BY <1>2, <1>4 DEF Init
  <1> QED
    BY <1>1, <1>3, <1>5, <1>6, <1>7 DEF Init, TypeOK

(* The driver's variables and the queues keep their types, whatever the    *)
(* module answers and whenever frames arrive.                              *)
THEOREM TypeCorrect == Spec => []TypeOK
  <1> QED  BY TypeInit, TypeStep, PTL DEF Spec

-----------------------------------------------------------------------------
(* Confirmations.                                                          *)

(* What a step left behind stays, as long as what was recorded stays       *)
(* recent.                                                                 *)
LEMMA StillLeft ==
    ASSUME NEW op \in Ops, NEW j \in DOMAIN Script[op],
           LeftBehind(Script[op][j]),
           seen \subseteq seen', \A i \in 1 .. Slots : Recent(i) => Recent(i)'
    PROVE  LeftBehind(Script[op][j])'
  <1> DEFINE step == Script[op][j]
  <1>1. step.do = "clear" => step.slot \in 1 .. Slots
    <2>1. step \in StepType
      BY Tables
    <2>2. step.do = "clear" => step.slot # 0
      BY DriverAssumption DEF ScriptAssumption
    <2> QED  BY <2>1, <2>2, Tables DEF StepType
  <1>2. step.do = "clear" => Recent(step.slot)'
    BY <1>1 DEF LeftBehind
  <1>3. step.do = "wait" => <<step.cmd, step.status>> \in seen'
    BY DEF LeftBehind
  <1> QED  BY <1>2, <1>3 DEF LeftBehind

(* Steps of others, and those of the main thread that stay where they are. *)
LEMMA Kept ==
    ASSUME IInv, call'.op = call.op, call'.k = call.k, call'.ok = call.ok,
           returned' = returned, seen \subseteq seen',
           \A i \in 1 .. Slots : Recent(i) => Recent(i)'
    PROVE  Progressed' /\ ConfirmedByKind'
  <1>1. Progressed'
    <2> SUFFICES ASSUME Running, call.ok, NEW j \in 1 .. call.k - 1,
                        j \in DOMAIN Script[call.op]
                 PROVE  LeftBehind(Script[call.op][j])'
      BY DEF Progressed, Running
    <2>1. call.op \in Ops
      BY DEF IInv, TypeOK, Position, Running
    <2>2. LeftBehind(Script[call.op][j])
      BY DEF IInv, Progressed
    <2> QED  BY <2>1, <2>2, StillLeft
  <1>2. ConfirmedByKind'
    BY DEF IInv, ConfirmedByKind, Running
  <1> QED  BY <1>1, <1>2

(* A step of the main thread that succeeds.                                *)
LEMMA Advanced ==
    ASSUME IInv, NEW what, At(what), Advance, returned' = returned, seen' = seen,
           \A i \in 1 .. Slots : Recent(i) => Recent(i)',
           NEW op, op = call.op, NEW k, k = call.k,
           call.ok => LeftBehind(Script[op][k])'
    PROVE  Progressed' /\ ConfirmedByKind'
  <1>1. op \in Ops /\ k \in 1 .. Len(Script[op]) /\ k \in DOMAIN Script[op]
    BY AtStep DEF IInv
  <1>2. call'.op = op /\ call'.k = k + 1 /\ call'.ok = call.ok /\ k \in Nat
    BY DEF Advance, IInv, TypeOK, Position
  <1>3. Running /\ Running'
    BY <1>2 DEF At, Running
  <1>4. ASSUME call.ok, NEW j \in 1 .. k, j \in DOMAIN Script[op]
        PROVE  LeftBehind(Script[op][j])'
    <2>1. CASE j = k
      BY <1>4, <2>1
    <2>2. CASE j # k
      <3>1. j \in 1 .. k - 1
        BY <1>2, <2>2
      <3>2. LeftBehind(Script[op][j])
        BY <1>3, <1>4, <3>1 DEF IInv, Progressed
      <3> QED  BY <1>1, <1>4, <3>2, StillLeft
    <2> QED  BY <2>1, <2>2
  <1>5. Progressed'
    <2>1. k + 1 - 1 = k
      BY <1>2
    <2> QED  BY <1>2, <1>4, <2>1 DEF Progressed
  <1>6. ConfirmedByKind'
    BY <1>3 DEF ConfirmedByKind
  <1> QED  BY <1>5, <1>6

(* A step of the main thread that fails.                                   *)
LEMMA Failed ==
    ASSUME IInv, NEW what, At(what), Fail
    PROVE  Progressed' /\ ConfirmedByKind'
  <1>1. call'.op = call.op /\ call'.ok = FALSE
    BY DEF Fail, IInv, TypeOK, Position
  <1>2. Running'
    BY <1>1 DEF At, Running
  <1> QED  BY <1>1, <1>2 DEF Progressed, ConfirmedByKind

(* A step that neither clears nor waits.                                   *)
LEMMA Passing ==
    ASSUME IInv, NEW what, At(what), what # "clear", what # "wait",
           Advance \/ Fail,
           UNCHANGED <<cmdConfirmationArray, seen, returned>>
    PROVE  Progressed' /\ ConfirmedByKind'
  <1>1. CASE Fail
    BY <1>1, Failed
  <1>2. CASE Advance
    <2>1. PICK op, k : op = call.op /\ k = call.k
      OBVIOUS
    <2>2. Script[op][k].do = what
      BY <2>1 DEF At, Step
    <2>3. LeftBehind(Script[op][k])'
      BY <2>2 DEF LeftBehind
    <2>4. \A i \in 1 .. Slots : Recent(i) => Recent(i)'
      BY DEF Recent
    <2> QED  BY <1>2, <2>1, <2>3, <2>4, Advanced
  <1> QED  BY <1>1, <1>2

(* After a slot is reset, nothing old is in it.                            *)
LEMMA ClearStep == IInv /\ ClearSlot => Progressed' /\ ConfirmedByKind'
  <1> SUFFICES ASSUME IInv, ClearSlot PROVE Progressed' /\ ConfirmedByKind'
    OBVIOUS
  <1>1. PICK op, k : op = call.op /\ k = call.k
    OBVIOUS
  <1>2. At("clear") /\ Advance /\ returned' = returned /\ seen' = seen
    BY DEF ClearSlot
  <1>3. Script[op][k].slot \in 1 .. Slots
    <2>1. op \in Ops /\ k \in DOMAIN Script[op] /\ Script[op][k] \in StepType
          /\ Script[op][k].do = "clear"
      BY <1>1, <1>2, AtStep DEF IInv, Step
    <2>2. Script[op][k].slot # 0
      BY <2>1, DriverAssumption DEF ScriptAssumption
    <2> QED  BY <2>1, <2>2, Tables DEF StepType
  <1>4. cmdConfirmationArray' =
          [cmdConfirmationArray EXCEPT ![Script[op][k].slot] = Free]
    BY <1>1 DEF ClearSlot, Step
  <1>5. \A i \in 1 .. Slots : Recent(i) => Recent(i)'
    BY <1>2, <1>3, <1>4 DEF Recent, Free, IInv, TypeOK
  <1>6. Recent(Script[op][k].slot)'
    BY <1>3, <1>4 DEF Recent, Free, IInv, TypeOK
  <1>7. LeftBehind(Script[op][k])'
    <2>1. Script[op][k].do = "clear"
      BY <1>1, <1>2 DEF At, Step
    <2> QED  BY <1>6, <2>1 DEF LeftBehind
  <1> QED  BY <1>1, <1>2, <1>5, <1>7, Advanced

(* The slot that Wait4CNF looks at was cleared earlier in the call, so     *)
(* what it finds there is recent.                                          *)
LEMMA ConfirmedStep == IInv /\ Confirmed => Progressed' /\ ConfirmedByKind'
  <1> SUFFICES ASSUME IInv, Confirmed PROVE Progressed' /\ ConfirmedByKind'
    OBVIOUS
  <1>1. PICK op, k, i : op = call.op /\ k = call.k /\ i = call.slot
    OBVIOUS
  <1>2. At("wait") /\ UNCHANGED <<cmdConfirmationArray, seen, returned>>
    BY DEF Confirmed, driver
  <1>3. CASE Fail
    BY <1>2, <1>3, Failed
  <1>4. CASE Advance /\ cmdConfirmationArray[i].status = Script[op][k].status
    <2>1. /\ op \in Ops /\ k \in DOMAIN Script[op] /\ i \in 1 .. Slots
          /\ Script[op][k].do = "wait" /\ k \in Nat
          /\ Len(Script[op]) \in Nat /\ k \in 1 .. Len(Script[op])
      BY <1>1, <1>2, AtStep DEF IInv, TypeOK, Position, Step
    <2>2. cmdConfirmationArray[i].cmd = Script[op][k].cmd
      BY <1>1 DEF Confirmed, Matches, Step
    <2>3. ASSUME call.ok PROVE Recent(i)
      <3>1. PICK h \in 1 .. k - 1 :
              Script[op][h].do = "clear" /\ Script[op][h].slot = i
        BY <2>1, Waits
      <3>2. h \in DOMAIN Script[op]
        BY <2>1, <3>1, Tables
      <3>3. LeftBehind(Script[op][h])
        BY <1>1, <1>2, <2>3, <3>1, <3>2 DEF IInv, Progressed, At
      <3> QED  BY <3>1, <3>3 DEF LeftBehind
    <2>4. Script[op][k].cmd # CNFINVALID
      BY <2>1, DriverAssumption DEF ScriptAssumption, CNFINVALID
    <2>5. call.ok => LeftBehind(Script[op][k])'
      <3> SUFFICES ASSUME call.ok PROVE LeftBehind(Script[op][k])'
        OBVIOUS
      <3>1. <<Script[op][k].cmd, Script[op][k].status>> \in seen
        BY <1>4, <2>2, <2>3, <2>4 DEF Recent
      <3> QED  BY <1>2, <2>1, <3>1 DEF LeftBehind
    <2>6. \A s \in 1 .. Slots : Recent(s) => Recent(s)'
      BY <1>2 DEF Recent
    <2> QED  BY <1>1, <1>2, <1>4, <2>5, <2>6, Advanced
  <1> QED  BY <1>1, <1>3, <1>4 DEF Confirmed, Step

(* When the call returns true, all its waits are among the steps it took.  *)
LEMMA FinishStep == IInv /\ Finish => Progressed' /\ ConfirmedByKind'
  <1> SUFFICES ASSUME IInv, Finish PROVE Progressed' /\ ConfirmedByKind'
    OBVIOUS
  <1>1. PICK op, k : op = call.op /\ k = call.k
    OBVIOUS
  <1>2. Running /\ op \in Ops /\ k \in Nat /\ seen' = seen
    BY <1>1 DEF Finish, Ended, Running, IInv, TypeOK, Position
  <1>3. ~Running'
    BY DEF Finish, Running, Idle
  <1>4. returned'.op = op /\ returned'.ok = call.ok
    BY <1>1 DEF Finish
  <1>5. ASSUME call.ok, NEW j \in DOMAIN Script[op], Script[op][j].do = "wait"
        PROVE  <<Script[op][j].cmd, Script[op][j].status>> \in seen
    <2>1. j \in 1 .. Len(Script[op]) /\ Len(Script[op]) \in Nat
      BY <1>2, Tables
    <2>2. CASE k > Len(Script[op])
      <3>1. j \in 1 .. k - 1
        BY <1>2, <2>1, <2>2
      <3> QED  BY <1>1, <1>2, <1>5, <3>1 DEF IInv, Progressed, LeftBehind
    <2>3. CASE k <= Len(Script[op])
      <3>1. Script[op][k].do = "return"
        BY <1>1, <2>3 DEF Finish, Ended, Length, Step
      <3>2. j # k
        BY <1>5, <3>1
      <3>3. ~(k < j)
        <4>1. SUFFICES ASSUME k < j PROVE FALSE
          OBVIOUS
        <4>2. k >= 1
          BY <1>1 DEF IInv, TypeOK, Position
        <4>3. k \in 1 .. j - 1
          BY <1>2, <2>1, <4>1, <4>2
        <4>4. \A h \in 1 .. j - 1 : Script[op][h].do # "return"
          BY <1>2, <1>5, DriverAssumption DEF ScriptAssumption
        <4> QED  BY <3>1, <4>3, <4>4
      <3>4. j \in 1 .. k - 1
        BY <1>2, <2>1, <3>2, <3>3
      <3> QED  BY <1>1, <1>2, <1>5, <3>4 DEF IInv, Progressed, LeftBehind
    <2> QED  BY <1>2, <2>1, <2>2, <2>3
  <1>6. ConfirmedByKind'
    BY <1>2, <1>4, <1>5 DEF ConfirmedByKind
  <1>7. Progressed'
    BY <1>3 DEF Progressed
  <1> QED  BY <1>6, <1>7

(* Every step of the main thread keeps the strengthening.                  *)
LEMMA MainStepKeeps == IInv /\ MainStep => Progressed' /\ ConfirmedByKind'
  <1> SUFFICES ASSUME IInv, MainStep PROVE Progressed' /\ ConfirmedByKind'
    OBVIOUS
  <1>1. CASE Fault
    BY <1>1, Failed DEF Fault
  <1>2. CASE Transmit
    BY <1>2, Passing DEF Transmit, driver
  <1>3. CASE HoldInReset
    BY <1>3, Passing DEF HoldInReset, driver
  <1>4. CASE ReadPacket
    BY <1>4, Passing DEF ReadPacket, driver
  <1>5. CASE CheckPacket
    BY <1>5, Passing DEF CheckPacket, driver
  <1>6. CASE \E holds \in BOOLEAN : TestState(holds)
    BY <1>6, Passing DEF TestState, driver
  <1>7. CASE SetState
    BY <1>7, Passing DEF SetState, driver
  <1>8. CASE OpenUart \/ CloseUart
    BY <1>8, Passing DEF OpenUart, CloseUart
  <1>9. CASE GiveUp
    BY <1>9, Failed DEF GiveUp
  <1>10. CASE NextSlot \/ Delay
    <2>1. /\ call'.op = call.op /\ call'.k = call.k /\ call'.ok = call.ok
          /\ returned' = returned /\ seen' = seen
          /\ cmdConfirmationArray' = cmdConfirmationArray
      BY <1>10 DEF NextSlot, Delay, driver, IInv, TypeOK, Position
    <2>2. \A i \in 1 .. Slots : Recent(i) => Recent(i)'
      BY <2>1 DEF Recent
    <2> QED  BY <2>1, <2>2, Kept
  <1> QED
    BY <1>1, <1>2, <1>3, <1>4, <1>5, <1>6, <1>7, <1>8, <1>9, <1>10, ClearStep,
       ConfirmedStep, FinishStep DEF MainStep

(* What HandleRxPacket stores, it has just recorded.                       *)
LEMMA ReceiveStep == IInv /\ HandleRxPacket => Progressed' /\ ConfirmedByKind'
  <1> SUFFICES ASSUME IInv, HandleRxPacket PROVE Progressed' /\ ConfirmedByKind'
    OBVIOUS
  <1>1. call' = call /\ returned' = returned /\ seen \subseteq seen'
    BY DEF HandleRxPacket
  <1>2. ASSUME NEW i \in 1 .. Slots, Recent(i) PROVE Recent(i)'
    <2>1. CASE ~uartOpen
      BY <1>2, <2>1 DEF HandleRxPacket, Recent
    <2>2. CASE uartOpen
      <3>1. PICK f : f = Head(line)
        OBVIOUS
      <3>2. Store(f) /\ (f.cmd \in Recorded => <<f.cmd, RecordedStatus(f)>> \in seen')
        BY <2>2, <3>1 DEF HandleRxPacket
      <3>3. \/ cmdConfirmationArray'[i] = cmdConfirmationArray[i]
            \/ cmdConfirmationArray'[i] = Free
            \/ /\ f.cmd \in Recorded
               /\ cmdConfirmationArray'[i]
                    = [cmd |-> f.cmd, status |-> RecordedStatus(f), req |-> f.req]
        BY <3>2 DEF Store
      <3> QED  BY <1>1, <1>2, <3>2, <3>3 DEF Recent, Free
    <2> QED  BY <2>1, <2>2
  <1> QED  BY <1>1, <1>2, Kept

(* The invariant is inductive.                                             *)
LEMMA IInvStep == IInv /\ [Next]_vars => IInv'
  <1> SUFFICES ASSUME IInv, [Next]_vars PROVE IInv'
    OBVIOUS
  <1>1. TypeOK'
    BY TypeStep DEF IInv
  <1>2. CASE \E op \in Ops : Start(op)
    <2>1. PICK op \in Ops : Start(op)
      BY <1>2
    <2>2. call'.op = op /\ call'.k = 1
      BY <2>1 DEF Start, Idle
    <2>3. Running'
      BY <2>2, Tables DEF Running, NoOp
    <2>4. Progressed'
      BY <2>2 DEF Progressed
    <2> QED  BY <1>1, <2>3, <2>4 DEF IInv, ConfirmedByKind
  <1>3. CASE MainStep
    BY <1>1, <1>3, MainStepKeeps DEF IInv
  <1>4. CASE HandleRxPacket
    BY <1>1, <1>4, ReceiveStep DEF IInv
  <1>5. CASE LoseFrame \/ ModuleStep \/ UNCHANGED vars
    <2>1. UNCHANGED <<call, returned, seen, cmdConfirmationArray>>
      BY <1>5 DEF LoseFrame, ModuleStep, Answer, Emit, Indicate, Restart, vars, driver
    <2>2. \A i \in 1 .. Slots : Recent(i) => Recent(i)'
      BY <2>1 DEF Recent
    <2> QED  BY <1>1, <2>1, <2>2, Kept DEF IInv
  <1> QED  BY <1>2, <1>3, <1>4, <1>5 DEF Next

(* The invariant holds at first.                                           *)
LEMMA IInvInit == Init => IInv
  <1> SUFFICES ASSUME Init PROVE IInv
    OBVIOUS
  <1>1. call.op = NoOp /\ returned.op = NoOp /\ NoOp \notin Ops
    BY Tables DEF Init, Idle, NoOp
  <1> QED  BY <1>1, TypeInit DEF IInv, Progressed, ConfirmedByKind, Running

(* Whatever the module answers, whenever its frames arrive and however     *)
(* many are lost: a call returns true only on confirmations that were      *)
(* recorded after it began, one for each of its waits.                     *)
THEOREM Confirmations == Spec => []ConfirmedByKind
  <1>1. IInv => ConfirmedByKind
    BY DEF IInv
  <1> QED  BY <1>1, IInvInit, IInvStep, PTL DEF Spec

-----------------------------------------------------------------------------
(* Requests and answers, when a module answers in time (Timely) and the    *)
(* tables are those of a driver that makes one request at a time (Serial). *)

Timely == ~LateAnswers /\ ~FastAnswers /\ ~Restarts

(* How the driver records a frame of the answer to the latest request.     *)
Content(part) ==
    [cmd |-> part.cmd, status |-> RecordedStatus(part), req |-> requests]

OfPart(f, part) == f.req = requests /\ f.cmd = part.cmd /\ f.status = part.status
Unsolicited(f)  == f.req = 0 /\ f.cmd \notin Recorded
Empty(i)        == cmdConfirmationArray[i].cmd = CNFINVALID

(* No answer is under way.                                                 *)
Quiet ==
    /\ inbox = <<>> /\ outbox = <<>>
    /\ \A x \in DOMAIN line : Unsolicited(line[x])

(* Of an answer of these frames the first i have arrived or are lost, those *)
(* up to j are on the line, in order, and the module has still to send the *)
(* others.                                                                 *)
Flight(frames, i, j) ==
    /\ i \in 0 .. j /\ j \in 0 .. Len(frames)
    /\ Len(outbox) = Len(frames) - j
    /\ \A m \in 1 .. Len(frames) - j : OfPart(outbox[m], frames[j + m])
    /\ \A x \in DOMAIN line :
         Unsolicited(line[x]) \/ \E m \in i + 1 .. j : OfPart(line[x], frames[m])
    /\ \A m \in i + 1 .. j : \E x \in DOMAIN line : OfPart(line[x], frames[m])
    /\ \A x, y \in DOMAIN line : \A m, n \in i + 1 .. j :
         x < y /\ OfPart(line[x], frames[m]) /\ OfPart(line[y], frames[n]) => m < n

(* The slots that were reset for the request made at step h hold frames    *)
(* that have arrived, and if nothing is lost all of them.                  *)
Filled(steps, frames, i, k, h) ==
    /\ \E q \in 0 .. i :
         /\ steps[k].do = "clear" => q = 0
         /\ \A s \in 1 .. Slots : Cleared(steps, k, h, s) =>
              IF s > q THEN Empty(s)
              ELSE \E m \in 1 .. i : cmdConfirmationArray[s] = Content(frames[m])
    /\ MaxFaults = 0 =>
         /\ steps[k].do = "clear" => i = 0
         /\ steps[k].do # "clear" =>
              \A m \in 1 .. i : cmdConfirmationArray[m] = Content(frames[m])

Refusals(cmd) == {<<>>} \cup Reply[cmd].no

(* The module has not read the request made at step h.                     *)
Unread(steps, h, k) ==
    /\ inbox = <<[cmd |-> steps[h].cmd, req |-> requests]>> /\ outbox = <<>>
    /\ \A x \in DOMAIN line : Unsolicited(line[x])
    /\ requests \notin served
    /\ Filled(steps, <<>>, 0, k, h)

(* It has, and answers with these frames or (no frames) ignores it.        *)
Answered(steps, h, k, frames, i, j) ==
    /\ inbox = <<>> /\ Flight(frames, i, j) /\ Filled(steps, frames, i, k, h)
    /\ \/ requests \in served /\ frames = Reply[steps[h].cmd].yes
       \/ requests \notin served /\ frames \in Refusals(steps[h].cmd)

(* The last look at the array: there is nothing more to come.              *)
Expired(steps, k) ==
    call.count >= MaxCount =>
        /\ Quiet
        /\ \A s \in 1 .. call.slot - 1 : cmdConfirmationArray[s].cmd # steps[k].cmd

UnderWay(steps, h, k) ==
    /\ requests \in asked /\ asked \subseteq served \cup {requests}
    /\ \/ Unread(steps, h, k)
       \/ \E frames, i, j : Answered(steps, h, k, frames, i, j)

(* All requests have been granted, and the slots reset since are free.     *)
Settled(steps, k) ==
    /\ Quiet /\ asked \subseteq served
    /\ \A s \in 1 .. Slots : Cleared(steps, k, k, s) => Empty(s)

Awaiting(steps, k) == \E h : Pending(steps, h, k)

(* A call none of whose steps has failed.                                  *)
Going(steps, k) ==
    /\ k \in 1 .. Len(steps) + 1
    /\ \A h : Pending(steps, h, k) => UnderWay(steps, h, k) /\ Expired(steps, k)
    /\ ~Awaiting(steps, k) => Settled(steps, k)
    /\ \A y \in 1 .. k - 1 : steps[y].do # "return"

(* A call that is on its way out because a step has failed.                *)
Failing(steps, k) ==
    /\ Quiet
    /\ \A y \in k .. Len(steps) : steps[y].do \notin {"send", "wait"}
    /\ call.why = "wait" /\ MaxFaults = 0 => ~(asked \subseteq served)

Requesting ==
    /\ served \subseteq 1 .. requests
    /\ ~Running => Quiet
    /\ Running /\ call.ok => Going(Script[call.op], call.k)
    /\ Running /\ ~call.ok => Failing(Script[call.op], call.k)

(* When the UART is open. A function without a clean-up returns as soon as *)
(* a step has failed.                                                      *)
Powered ==
    /\ ~Running /\ ready => uartOpen
    /\ (Running /\ call.op \notin Opening) =>
         /\ ready
         /\ \/ uartOpen
            \/ call.op \in Closing /\ call.ok /\ Past(Script[call.op], call.k, "close")
    /\ (Running /\ call.op \in Opening /\ call.ok) =>
         (Past(Script[call.op], call.k, "open") => uartOpen)
    /\ (Running /\ ~call.ok /\ \A y \in DOMAIN Script[call.op] : Script[call.op][y].fail = 0)
         => call.k = Len(Script[call.op]) + 1

Inv == TypeOK /\ Requesting /\ Powered

-----------------------------------------------------------------------------
(* What the proofs use of the tables.                                      *)

(* A request that is under way at a step is waited for at that step, or a  *)
(* slot is reset for it.                                                   *)
LEMMA PendingStep ==
    ASSUME NEW steps, Len(steps) \in Nat, DOMAIN steps = 1 .. Len(steps),
           OneAtATime(steps), NEW k \in 1 .. Len(steps) + 1, NEW h,
           Pending(steps, h, k)
    PROVE  /\ h \in 1 .. Len(steps) /\ h < k /\ k <= Len(steps)
           /\ steps[h].do = "send" /\ steps[k].do \in {"clear", "wait"}
  <1>1. h \in 1 .. Len(steps) /\ h < k /\ steps[h].do = "send"
    BY DEF Pending
  <1>2. PICK w \in h + 1 .. Len(steps) :
          /\ Completes(steps, h, w)
          /\ \A x \in h + 1 .. w - 1 : steps[x].do \in {"clear", "wait"}
    BY <1>1 DEF OneAtATime
  <1>3. ~(w < k)
    <2>1. SUFFICES ASSUME w < k PROVE FALSE
      OBVIOUS
    <2>2. w \in h + 1 .. k - 1
      BY <1>1, <1>2, <2>1
    <2> QED  BY <1>2, <2>2 DEF Pending
  <1>4. k <= w
    BY <1>2, <1>3
  <1>5. CASE k = w
    BY <1>1, <1>2, <1>5 DEF Completes
  <1>6. CASE k # w
    <2>1. k \in h + 1 .. w - 1
      BY <1>1, <1>2, <1>4, <1>6
    <2> QED  BY <1>1, <1>2, <1>4, <2>1
  <1> QED  BY <1>5, <1>6

(* One request at a time.                                                  *)
LEMMA PendingOne ==
    ASSUME NEW steps, NEW k \in Nat, NEW h, NEW g,
           Pending(steps, h, k), Pending(steps, g, k)
    PROVE  h = g
  <1>1. h \in 1 .. k - 1 /\ g \in 1 .. k - 1
    BY DEF Pending
  <1>2. ASSUME h < g PROVE FALSE
    <2>1. g \in h + 1 .. k - 1
      BY <1>1, <1>2
    <2> QED  BY <2>1 DEF Pending
  <1>3. ASSUME g < h PROVE FALSE
    <2>1. h \in g + 1 .. k - 1
      BY <1>1, <1>3
    <2> QED  BY <2>1 DEF Pending
  <1> QED  BY <1>1, <1>2, <1>3

(* What is under way one step further.                                     *)
LEMMA PendingNext ==
    ASSUME NEW steps, NEW k \in Nat, k >= 1, NEW h, Pending(steps, h, k + 1)
    PROVE  \/ h = k /\ steps[k].do = "send"
           \/ Pending(steps, h, k) /\ ~Completes(steps, h, k)
  <1>1. h \in 1 .. k /\ k + 1 - 1 = k
    BY DEF Pending
  <1>2. CASE h = k
    BY <1>2 DEF Pending
  <1>3. CASE h # k
    <2>1. h \in 1 .. k - 1 /\ k \in h + 1 .. k
      BY <1>1, <1>3
    <2>2. \A x \in h + 1 .. k :
            steps[x].do \in {"clear", "wait"} /\ ~Completes(steps, h, x)
      BY <1>1 DEF Pending
    <2>3. \A x \in h + 1 .. k - 1 : x \in h + 1 .. k
      OBVIOUS
    <2> QED  BY <2>1, <2>2, <2>3 DEF Pending
  <1> QED  BY <1>2, <1>3

(* A request is under way after it was made, and stays so until the last   *)
(* frame of its answer has been waited for.                                *)
LEMMA PendingOn ==
    ASSUME NEW steps, NEW k \in Nat, k >= 1, NEW h
    PROVE  /\ steps[k].do = "send" => Pending(steps, k, k + 1)
           /\ Pending(steps, h, k) /\ steps[k].do \in {"clear", "wait"}
                /\ ~Completes(steps, h, k) => Pending(steps, h, k + 1)
  <1>1. k + 1 - 1 = k
    OBVIOUS
  <1>2. ASSUME steps[k].do = "send" PROVE Pending(steps, k, k + 1)
    <2>1. k \in 1 .. k /\ k + 1 .. k = {}
      OBVIOUS
    <2> QED  BY <1>1, <1>2, <2>1 DEF Pending
  <1>3. ASSUME Pending(steps, h, k), steps[k].do \in {"clear", "wait"},
               ~Completes(steps, h, k)
        PROVE  Pending(steps, h, k + 1)
    <2>1. h \in 1 .. k /\ steps[h].do = "send"
      BY <1>3 DEF Pending
    <2>2. \A x \in h + 1 .. k : x = k \/ x \in h + 1 .. k - 1
      BY <2>1
    <2> QED  BY <1>1, <1>3, <2>1, <2>2 DEF Pending
  <1> QED  BY <1>2, <1>3

(* Which slots are reset one step further.                                 *)
LEMMA ClearedNext ==
    ASSUME NEW steps, NEW k \in Nat, k >= 1, NEW g \in Nat, NEW i,
           Cleared(steps, k + 1, g, i)
    PROVE  \/ steps[k].do = "clear" /\ steps[k].slot = i
           \/ /\ Cleared(steps, k, g, i)
              /\ steps[k].do = "wait" => k > g
  <1>1. PICK x \in 1 .. k :
          /\ steps[x].do = "clear" /\ steps[x].slot = i
          /\ \A y \in x + 1 .. k : steps[y].do = "wait" => y > g
    <2>1. k + 1 - 1 = k
      OBVIOUS
    <2> QED  BY <2>1 DEF Cleared
  <1>2. CASE x = k
    BY <1>1, <1>2
  <1>3. CASE x # k
    <2>1. x \in 1 .. k - 1 /\ k \in x + 1 .. k
      BY <1>1, <1>3
    <2>2. \A y \in x + 1 .. k - 1 : y \in x + 1 .. k
      OBVIOUS
    <2> QED  BY <1>1, <2>1, <2>2 DEF Cleared
  <1> QED  BY <1>2, <1>3

(* No wait has come since, however far one looks.                          *)
LEMMA ClearedFrom ==
    ASSUME NEW steps, NEW k \in Nat, NEW g \in Nat, g >= k, NEW i,
           Cleared(steps, k, g, i)
    PROVE  Cleared(steps, k, k, i)
  <1>1. PICK x \in 1 .. k - 1 :
          /\ steps[x].do = "clear" /\ steps[x].slot = i
          /\ \A y \in x + 1 .. k - 1 : steps[y].do = "wait" => y > g
    BY DEF Cleared
  <1>2. \A y \in x + 1 .. k - 1 : ~(y > g)
    BY <1>1
  <1> QED  BY <1>1, <1>2 DEF Cleared

-----------------------------------------------------------------------------
(* The frames of an answer on their way.                                   *)

Apart(frames) ==
    /\ Len(frames) \in Nat /\ DOMAIN frames = 1 .. Len(frames)
    /\ \A m, n \in 1 .. Len(frames) : frames[m].cmd = frames[n].cmd => m = n

(* A frame is one part of the answer, and no unsolicited one.              *)
LEMMA PartOnce ==
    ASSUME NEW frames, Apart(frames), NEW m \in 1 .. Len(frames),
           NEW n \in 1 .. Len(frames), NEW f, OfPart(f, frames[m]), requests # 0
    PROVE  /\ ~Unsolicited(f)
           /\ OfPart(f, frames[n]) => m = n
BY DEF OfPart, Unsolicited, Apart

(* When all has arrived, nothing is under way, and the other way round.    *)
LEMMA Landed ==
    ASSUME TypeOK, requests # 0, NEW frames, Len(frames) \in Nat, NEW i, NEW j,
           Flight(frames, i, j), inbox = <<>>
    PROVE  i = Len(frames) <=> Quiet
  <1>1. i \in Nat /\ j \in Nat /\ i <= j /\ j <= Len(frames)
    BY DEF Flight
  <1>2. outbox \in Seq(Frame) /\ Len(outbox) = Len(frames) - j
    BY DEF Flight, TypeOK
  <1>3. ASSUME i = Len(frames) PROVE Quiet
    <2>1. Len(outbox) = 0 /\ i + 1 .. j = {}
      BY <1>1, <1>2, <1>3
    <2>2. outbox = <<>>
      BY <1>2, <2>1
    <2> QED  BY <2>1, <2>2 DEF Flight, Quiet
  <1>4. ASSUME Quiet PROVE i = Len(frames)
    <2>1. Len(outbox) = 0
      BY <1>4 DEF Quiet
    <2>2. j = Len(frames)
      BY <1>1, <1>2, <2>1
    <2>3. ASSUME i # j PROVE FALSE
      <3>1. i + 1 \in i + 1 .. j
        BY <1>1, <2>3
      <3>2. PICK x \in DOMAIN line : OfPart(line[x], frames[i + 1])
        BY <3>1 DEF Flight
      <3> QED  BY <1>4, <3>2 DEF Quiet, OfPart, Unsolicited
    <2> QED  BY <2>2, <2>3
  <1> QED  BY <1>3, <1>4

(* The first frame is taken off the line.                                  *)
LEMMA FlightTake ==
    ASSUME TypeOK, requests # 0, NEW frames, Apart(frames), NEW i, NEW j,
           Flight(frames, i, j), line # <<>>, line' = Tail(line),
           outbox' = outbox, requests' = requests
    PROVE  \/ Unsolicited(Head(line)) /\ Flight(frames, i, j)'
           \/ /\ i < j /\ OfPart(Head(line), frames[i + 1])
              /\ Flight(frames, i + 1, j)'
  <1>1. PICK n : n = Len(line)
    OBVIOUS
  <1>2. /\ n \in Nat /\ n >= 1 /\ DOMAIN line = 1 .. n /\ DOMAIN line' = 1 .. n - 1
        /\ Head(line) = line[1]
        /\ \A x \in 1 .. n - 1 : line'[x] = line[x + 1]
    <2>1. line \in Seq(Frame)
      BY DEF TypeOK
    <2> QED  BY <1>1, <2>1
  <1>3. /\ i \in Nat /\ j \in Nat /\ i <= j /\ j <= Len(frames)
        /\ Len(frames) \in Nat /\ \A m \in i + 1 .. j : m \in 1 .. Len(frames)
    BY DEF Flight, Apart
  <1>4. \A f, p : OfPart(f, p)' <=> OfPart(f, p)
    BY DEF OfPart
  <1>5. \A f : Unsolicited(f)' <=> Unsolicited(f)
    BY DEF Unsolicited
  <1>6. /\ Len(outbox') = Len(frames) - j
        /\ \A m \in 1 .. Len(frames) - j : OfPart(outbox[m], frames[j + m])'
    BY DEF Flight, OfPart
  <1>9. \A x, y \in 1 .. n : \A m, p \in i + 1 .. j :
          x < y /\ OfPart(line[x], frames[m]) /\ OfPart(line[y], frames[p]) => m < p
    BY <1>2 DEF Flight
  <1>7. CASE Unsolicited(line[1])
    <2>1. \A x \in 1 .. n - 1 :
            \/ Unsolicited(line'[x])
            \/ \E m \in i + 1 .. j : OfPart(line'[x], frames[m])
      BY <1>2 DEF Flight
    <2>2. ASSUME NEW m \in i + 1 .. j
          PROVE  \E x \in 1 .. n - 1 : OfPart(line'[x], frames[m])
      <3>1. PICK x \in 1 .. n : OfPart(line[x], frames[m])
        BY <1>2 DEF Flight
      <3>2. x # 1
        BY <1>7, <3>1 DEF OfPart, Unsolicited
      <3>3. x - 1 \in 1 .. n - 1 /\ line'[x - 1] = line[x]
        BY <1>2, <3>1, <3>2
      <3> QED  BY <3>1, <3>3
    <2>3. ASSUME NEW x \in 1 .. n - 1, NEW y \in 1 .. n - 1, NEW m \in i + 1 .. j,
                 NEW p \in i + 1 .. j, x < y, OfPart(line'[x], frames[m]),
                 OfPart(line'[y], frames[p])
          PROVE  m < p
      <3>1. x + 1 \in 1 .. n /\ y + 1 \in 1 .. n /\ x + 1 < y + 1
        BY <1>2, <2>3
      <3> QED  BY <1>2, <1>9, <2>3, <3>1
    <2>4. Flight(frames, i, j)'
      BY <1>2, <1>3, <1>4, <1>5, <1>6, <2>1, <2>2, <2>3 DEF Flight
    <2> QED  BY <1>2, <1>7, <2>4
  <1>8. CASE ~Unsolicited(line[1])
    <2>1. PICK first \in i + 1 .. j : OfPart(line[1], frames[first])
      BY <1>2, <1>8 DEF Flight
    <2>2. i + 1 \in i + 1 .. j /\ i < j
      BY <1>3, <2>1
    <2>3. first = i + 1
      <3>1. PICK y \in 1 .. n : OfPart(line[y], frames[i + 1])
        BY <1>2, <2>2 DEF Flight
      <3>2. CASE y = 1
        BY <1>3, <2>1, <2>2, <3>1, <3>2, PartOnce
      <3>3. CASE y # 1
        <4>1. 1 \in 1 .. n /\ 1 < y
          BY <1>2, <3>1, <3>3
        <4>2. first < i + 1
          BY <1>2, <2>1, <2>2, <3>1, <4>1 DEF Flight
        <4> QED  BY <1>3, <2>1, <4>2
      <3> QED  BY <3>2, <3>3
    <2>4. ASSUME NEW x \in 1 .. n - 1, ~Unsolicited(line'[x])
          PROVE  \E m \in i + 2 .. j : OfPart(line'[x], frames[m])
      <3>1. x + 1 \in 1 .. n /\ line'[x] = line[x + 1] /\ 1 \in 1 .. n /\ 1 < x + 1
        BY <1>2
      <3>2. PICK m \in i + 1 .. j : OfPart(line[x + 1], frames[m])
        BY <1>2, <2>4, <3>1 DEF Flight
      <3>3. i + 1 < m
        BY <1>9, <2>1, <2>2, <2>3, <3>1, <3>2
      <3>4. m \in i + 2 .. j
        BY <1>3, <3>3
      <3> QED  BY <3>1, <3>2, <3>4
    <2>5. ASSUME NEW m \in i + 2 .. j
          PROVE  \E x \in 1 .. n - 1 : OfPart(line'[x], frames[m])
      <3>1. m \in i + 1 .. j
        BY <1>3
      <3>2. PICK x \in 1 .. n : OfPart(line[x], frames[m])
        BY <1>2, <3>1 DEF Flight
      <3>3. x # 1
        <4>1. SUFFICES ASSUME x = 1 PROVE FALSE
          OBVIOUS
        <4>2. m = i + 1
          BY <1>3, <2>1, <2>2, <2>3, <3>1, <3>2, <4>1, PartOnce
        <4> QED  BY <1>3, <4>2
      <3>4. x - 1 \in 1 .. n - 1 /\ line'[x - 1] = line[x]
        BY <1>2, <3>2, <3>3
      <3> QED  BY <3>2, <3>4
    <2>6. ASSUME NEW x \in 1 .. n - 1, NEW y \in 1 .. n - 1, NEW m \in i + 2 .. j,
                 NEW p \in i + 2 .. j, x < y, OfPart(line'[x], frames[m]),
                 OfPart(line'[y], frames[p])
          PROVE  m < p
      <3>1. x + 1 \in 1 .. n /\ y + 1 \in 1 .. n /\ x + 1 < y + 1
        BY <1>2, <2>6
      <3>2. m \in i + 1 .. j /\ p \in i + 1 .. j
        BY <1>3
      <3> QED  BY <1>2, <1>9, <2>6, <3>1, <3>2
    <2>7. i + 1 \in 0 .. j /\ j \in 0 .. Len(frames) /\ i + 1 + 1 = i + 2
      BY <1>3, <2>2
    <2>8. Flight(frames, i + 1, j)'
      BY <1>2, <1>4, <1>5, <1>6, <2>4, <2>5, <2>6, <2>7 DEF Flight
    <2> QED  BY <1>2, <2>1, <2>2, <2>3, <2>8
  <1> QED  BY <1>7, <1>8

(* The module sends the next frame.                                        *)
LEMMA FlightSend ==
    ASSUME TypeOK, requests # 0, NEW frames, Apart(frames), NEW i, NEW j,
           Flight(frames, i, j), outbox # <<>>, outbox' = Tail(outbox), NEW f,
           line' = Append(line, f), f.cmd = Head(outbox).cmd,
           f.status = Head(outbox).status, f.req = Head(outbox).req,
           requests' = requests
    PROVE  Flight(frames, i, j + 1)'
  <1>1. PICK n, l : n = Len(line) /\ l = Len(outbox)
    OBVIOUS
  <1>2. /\ n \in Nat /\ DOMAIN line = 1 .. n /\ DOMAIN line' = 1 .. n + 1
        /\ line'[n + 1] = f
        /\ \A x \in 1 .. n : line'[x] = line[x]
    <2>1. line \in Seq(Frame)
      BY DEF TypeOK
    <2> QED  BY <1>1, <2>1
  <1>3. /\ l \in Nat /\ l >= 1 /\ Len(outbox') = l - 1 /\ Head(outbox) = outbox[1]
        /\ \A m \in 1 .. l - 1 : outbox'[m] = outbox[m + 1]
    <2>1. outbox \in Seq(Frame)
      BY DEF TypeOK
    <2> QED  BY <1>1, <2>1
  <1>4. /\ i \in Nat /\ j \in Nat /\ i <= j /\ j < Len(frames) /\ l = Len(frames) - j
        /\ Len(frames) \in Nat /\ \A m \in i + 1 .. j + 1 : m \in 1 .. Len(frames)
    BY <1>1, <1>3 DEF Flight, Apart
  <1>5. \A g, p : OfPart(g, p)' <=> OfPart(g, p)
    BY DEF OfPart
  <1>6. \A g : Unsolicited(g)' <=> Unsolicited(g)
    BY DEF Unsolicited
  <1>7. OfPart(f, frames[j + 1])
    <2>1. 1 \in 1 .. Len(frames) - j
      BY <1>4
    <2>2. OfPart(outbox[1], frames[j + 1])
      BY <2>1 DEF Flight
    <2> QED  BY <1>3, <2>2 DEF OfPart
  <1>8. /\ Len(outbox') = Len(frames) - (j + 1)
        /\ \A m \in 1 .. Len(frames) - (j + 1) : OfPart(outbox'[m], frames[j + 1 + m])
    <2>1. Len(outbox') = Len(frames) - (j + 1)
      BY <1>3, <1>4
    <2>2. ASSUME NEW m \in 1 .. Len(frames) - (j + 1)
          PROVE  OfPart(outbox'[m], frames[j + 1 + m])
      <3>1. m + 1 \in 1 .. Len(frames) - j /\ m \in 1 .. l - 1
            /\ j + (m + 1) = j + 1 + m
        BY <1>4
      <3>2. OfPart(outbox[m + 1], frames[j + (m + 1)])
        BY <3>1 DEF Flight
      <3> QED  BY <1>3, <3>1, <3>2
    <2> QED  BY <2>1, <2>2
  <1>9. ASSUME NEW x \in 1 .. n, NEW m \in i + 1 .. j + 1, OfPart(line[x], frames[m])
        PROVE  m \in i + 1 .. j
    <2>1. ~Unsolicited(line[x])
      BY <1>4, <1>9, PartOnce
    <2>2. PICK p \in i + 1 .. j : OfPart(line[x], frames[p])
      BY <1>2, <2>1 DEF Flight
    <2>3. p \in i + 1 .. j + 1
      BY <1>4
    <2>4. m = p
      BY <1>4, <1>9, <2>2, <2>3, PartOnce
    <2> QED  BY <2>4
  <1>10. \A x \in 1 .. n + 1 :
           \/ Unsolicited(line'[x])
           \/ \E m \in i + 1 .. j + 1 : OfPart(line'[x], frames[m])
    <2> SUFFICES ASSUME NEW x \in 1 .. n + 1, ~Unsolicited(line'[x])
                 PROVE  \E m \in i + 1 .. j + 1 : OfPart(line'[x], frames[m])
      OBVIOUS
    <2>1. CASE x = n + 1
      <3>1. j + 1 \in i + 1 .. j + 1
        BY <1>4
      <3> QED  BY <1>2, <1>7, <2>1, <3>1
    <2>2. CASE x # n + 1
      <3>1. x \in 1 .. n
        BY <1>2, <2>2
      <3>2. PICK m \in i + 1 .. j : OfPart(line[x], frames[m])
        BY <1>2, <3>1 DEF Flight
      <3>3. m \in i + 1 .. j + 1
        BY <1>4
      <3> QED  BY <1>2, <3>1, <3>2, <3>3
    <2> QED  BY <2>1, <2>2
  <1>11. \A m \in i + 1 .. j + 1 : \E x \in 1 .. n + 1 : OfPart(line'[x], frames[m])
    <2> TAKE m \in i + 1 .. j + 1
    <2>1. CASE m = j + 1
      <3>1. n + 1 \in 1 .. n + 1
        BY <1>2
      <3> QED  BY <1>2, <1>7, <2>1, <3>1
    <2>2. CASE m # j + 1
      <3>1. m \in i + 1 .. j
        BY <1>4, <2>2
      <3>2. PICK x \in 1 .. n : OfPart(line[x], frames[m])
        BY <1>2, <3>1 DEF Flight
      <3>3. x \in 1 .. n + 1
        BY <1>2
      <3> QED  BY <1>2, <3>2, <3>3
    <2> QED  BY <2>1, <2>2
  <1>12. ASSUME NEW x \in 1 .. n + 1, NEW y \in 1 .. n + 1, NEW m \in i + 1 .. j + 1,
                NEW p \in i + 1 .. j + 1, x < y, OfPart(line'[x], frames[m]),
                OfPart(line'[y], frames[p])
         PROVE  m < p
    <2>1. x \in 1 .. n /\ line'[x] = line[x]
      BY <1>2, <1>12
    <2>2. m \in i + 1 .. j
      BY <1>9, <1>12, <2>1
    <2>3. CASE y = n + 1
      <3>1. j + 1 \in i + 1 .. j + 1
        BY <1>4
      <3>2. p = j + 1
        BY <1>2, <1>4, <1>7, <1>12, <2>3, <3>1, PartOnce
      <3> QED  BY <1>4, <2>2, <3>2
    <2>4. CASE y # n + 1
      <3>1. y \in 1 .. n /\ line'[y] = line[y]
        BY <1>2, <2>4
      <3>2. p \in i + 1 .. j
        BY <1>9, <1>12, <3>1
      <3> QED  BY <1>2, <1>12, <2>1, <2>2, <3>1, <3>2 DEF Flight
    <2> QED  BY <2>3, <2>4
  <1>13. i \in 0 .. j + 1 /\ j + 1 \in 0 .. Len(frames)
    BY <1>4
  <1> QED
    BY <1>2, <1>5, <1>6, <1>8, <1>10, <1>11, <1>12, <1>13 DEF Flight

(* Something unsolicited is sent.                                          *)
LEMMA FlightNoise ==
    ASSUME TypeOK, requests # 0, NEW frames, Apart(frames), NEW i, NEW j,
           Flight(frames, i, j), NEW f, Unsolicited(f), line' = Append(line, f),
           outbox' = outbox, requests' = requests
    PROVE  Flight(frames, i, j)'
  <1>1. PICK n : n = Len(line)
    OBVIOUS
  <1>2. /\ n \in Nat /\ DOMAIN line = 1 .. n /\ DOMAIN line' = 1 .. n + 1
        /\ line'[n + 1] = f
        /\ \A x \in 1 .. n : line'[x] = line[x]
    <2>1. line \in Seq(Frame)
      BY DEF TypeOK
    <2> QED  BY <1>1, <2>1
  <1>3. \A x \in 1 .. n + 1 : x = n + 1 \/ x \in 1 .. n
    BY <1>2
  <1>4. \A g, p : OfPart(g, p)' <=> OfPart(g, p)
    BY DEF OfPart
  <1>5. \A g : Unsolicited(g)' <=> Unsolicited(g)
    BY DEF Unsolicited
  <1>6. \A p : ~OfPart(f, p)
    BY DEF OfPart, Unsolicited
  <1>7. \A m \in i + 1 .. j : \E x \in 1 .. n + 1 : OfPart(line'[x], frames[m])
    <2> TAKE m \in i + 1 .. j
    <2>1. PICK x \in 1 .. n : OfPart(line[x], frames[m])
      BY <1>2 DEF Flight
    <2>2. x \in 1 .. n + 1
      BY <1>2
    <2> QED  BY <1>2, <2>1, <2>2
  <1>8. ASSUME NEW x \in 1 .. n + 1, NEW y \in 1 .. n + 1, NEW m \in i + 1 .. j,
               NEW p \in i + 1 .. j, x < y, OfPart(line'[x], frames[m]),
               OfPart(line'[y], frames[p])
        PROVE  m < p
    <2>1. x \in 1 .. n /\ y \in 1 .. n
      BY <1>2, <1>3, <1>6, <1>8
    <2> QED  BY <1>2, <1>8, <2>1 DEF Flight
  <1>9. \A x \in 1 .. n + 1 :
           \/ Unsolicited(line'[x])
           \/ \E m \in i + 1 .. j : OfPart(line'[x], frames[m])
    BY <1>2, <1>3 DEF Flight
  <1> QED  BY <1>2, <1>4, <1>5, <1>7, <1>8, <1>9 DEF Flight

-----------------------------------------------------------------------------
(* The slots.                                                              *)

(* No slot that holds something changes, and none that is free is taken.   *)
Untouched ==
    \A s \in 1 .. Slots :
        /\ Empty(s) => Empty(s)'
        /\ ~Empty(s) => cmdConfirmationArray'[s] = cmdConfirmationArray[s]

(* A frame that is not recorded takes no slot.                             *)
LEMMA StoreNoise ==
    ASSUME TypeOK, NEW f, f.cmd \notin Recorded, Store(f)
    PROVE  Untouched
  <1> SUFFICES ASSUME NEW s \in 1 .. Slots
               PROVE  /\ Empty(s) => Empty(s)'
                      /\ ~Empty(s) => cmdConfirmationArray'[s] = cmdConfirmationArray[s]
    BY DEF Untouched
  <1>1. \/ cmdConfirmationArray'[s] = cmdConfirmationArray[s]
        \/ cmdConfirmationArray'[s] = Free /\ Empty(s)
    BY DEF Store, Empty
  <1>2. Free.cmd = CNFINVALID
    BY DEF Free
  <1> QED  BY <1>1, <1>2 DEF Empty

(* What is recorded is no mark of a free slot.                             *)
LEMMA ContentTaken ==
    ASSUME NEW part, part.cmd \in Recorded, NEW s,
           cmdConfirmationArray[s] = Content(part)
    PROVE  ~Empty(s)
BY Tables DEF Content, Empty, CNFINVALID

(* What has been recorded stays where it is when no slot changes.          *)
LEMMA FilledUntouched ==
    ASSUME NEW steps, NEW frames, NEW i, NEW k, NEW h, Filled(steps, frames, i, k, h),
           i \in 0 .. Slots, \A m \in 1 .. i : frames[m].cmd \in Recorded,
           Untouched, requests' = requests
    PROVE  Filled(steps, frames, i, k, h)'
  <1>1. ASSUME NEW s \in 1 .. Slots, NEW m \in 1 .. i,
               cmdConfirmationArray[s] = Content(frames[m])
        PROVE  (cmdConfirmationArray[s] = Content(frames[m]))'
    <2>1. ~Empty(s)
      BY <1>1, ContentTaken
    <2> QED  BY <1>1, <2>1 DEF Untouched, Content
  <1>2. PICK q \in 0 .. i :
         /\ steps[k].do = "clear" => q = 0
         /\ \A s \in 1 .. Slots : Cleared(steps, k, h, s) =>
              IF s > q THEN Empty(s)
              ELSE \E m \in 1 .. i : cmdConfirmationArray[s] = Content(frames[m])
    BY DEF Filled
  <1>3. \A s \in 1 .. Slots : Cleared(steps, k, h, s) =>
              IF s > q THEN Empty(s)'
              ELSE \E m \in 1 .. i : (cmdConfirmationArray[s] = Content(frames[m]))'
    BY <1>1, <1>2 DEF Untouched
  <1>4. MaxFaults = 0 =>
         /\ steps[k].do = "clear" => i = 0
         /\ steps[k].do # "clear" =>
              \A m \in 1 .. i : (cmdConfirmationArray[m] = Content(frames[m]))'
    <2>1. Slots \in Nat /\ \A m \in 1 .. i : m \in 1 .. Slots
      BY Tables
    <2> QED  BY <1>1, <2>1 DEF Filled
  <1> QED  BY <1>2, <1>3, <1>4 DEF Filled

(* The next frame of the answer goes into the first free slot.             *)
LEMMA FilledStore ==
    ASSUME TypeOK, NEW steps, NEW frames, Len(frames) \in Nat, Len(frames) <= Slots,
           NEW i \in Nat, i < Len(frames), NEW k, NEW h, Filled(steps, frames, i, k, h),
           \A m \in 1 .. Len(frames) : frames[m].cmd \in Recorded,
           \A s \in 1 .. Slots : Cleared(steps, k, h, s), steps[k].do # "clear",
           NEW f, OfPart(f, frames[i + 1]), Store(f), requests' = requests
    PROVE  /\ Filled(steps, frames, i + 1, k, h)'
           /\ \E s \in 1 .. Slots : cmdConfirmationArray'[s] = Content(frames[i + 1])
  <1>1. PICK q \in 0 .. i :
         \A s \in 1 .. Slots : 
              IF s > q THEN Empty(s)
              ELSE \E m \in 1 .. i : cmdConfirmationArray[s] = Content(frames[m])
    BY DEF Filled
  <1>2. /\ Slots \in Nat /\ q \in Nat /\ q + 1 \in 1 .. Slots
        /\ i + 1 \in 1 .. Len(frames) /\ frames[i + 1].cmd \in Recorded
    BY Tables
  <1>3. \A s \in 1 .. Slots : Empty(s) <=> s > q
    <2> TAKE s \in 1 .. Slots
    <2>1. CASE s > q
      BY <1>1, <2>1
    <2>2. CASE ~(s > q)
      <3>1. PICK m \in 1 .. i : cmdConfirmationArray[s] = Content(frames[m])
        BY <1>1, <2>2
      <3>2. m \in 1 .. Len(frames)
        OBVIOUS
      <3> QED  BY <2>2, <3>1, <3>2, ContentTaken
    <2> QED  BY <2>1, <2>2
  <1>4. /\ f.cmd \in Recorded
        /\ Content(frames[i + 1])
             = [cmd |-> f.cmd, status |-> RecordedStatus(f), req |-> f.req]
    BY <1>2 DEF OfPart, Content, RecordedStatus
  <1>5. \A s \in 1 .. Slots : cmdConfirmationArray'[s] =
          IF s = q + 1 THEN Content(frames[i + 1]) ELSE cmdConfirmationArray[s]
    <2> TAKE s \in 1 .. Slots
    <2>1. PICK free : free = {t \in 1 .. Slots : cmdConfirmationArray[t].cmd = CNFINVALID}
      OBVIOUS
    <2>2. \A t \in 1 .. Slots : t \in free <=> t > q
      BY <1>3, <2>1 DEF Empty
    <2>3. (s \in free /\ \A t \in free : s <= t) <=> s = q + 1
      <3>1. free \subseteq 1 .. Slots
        BY <2>1
      <3>2. q + 1 \in free
        BY <1>2, <2>2
      <3> QED  BY <1>2, <2>2, <3>1, <3>2
    <2>4. cmdConfirmationArray'[s] =
            IF s \in free /\ \A t \in free : s <= t
            THEN IF f.cmd \in Recorded
                 THEN [cmd |-> f.cmd, status |-> RecordedStatus(f), req |-> f.req]
                 ELSE Free
            ELSE cmdConfirmationArray[s]
      BY <2>1 DEF Store
    <2> QED  BY <1>4, <2>3, <2>4
  <1>6. \A m : Content(frames[m])' = Content(frames[m])
    BY DEF Content
  <1>7. ASSUME NEW s \in 1 .. Slots
        PROVE  IF s > q + 1 THEN Empty(s)'
               ELSE \E m \in 1 .. i + 1 : (cmdConfirmationArray[s] = Content(frames[m]))'
    <2>1. CASE s > q + 1
      BY <1>1, <1>2, <1>5, <2>1 DEF Empty
    <2>2. CASE s = q + 1
      <3>1. i + 1 \in 1 .. i + 1
        OBVIOUS
      <3> QED  BY <1>2, <1>5, <1>6, <2>2, <3>1
    <2>3. CASE s < q + 1
      <3>1. PICK m \in 1 .. i : cmdConfirmationArray[s] = Content(frames[m])
        BY <1>1, <1>2, <2>3
      <3>2. m \in 1 .. i + 1 /\ ~(s > q + 1)
        BY <1>2, <2>3
      <3> QED  BY <1>5, <1>6, <2>3, <3>1, <3>2
    <2> QED  BY <1>2, <2>1, <2>2, <2>3
  <1>8. ASSUME MaxFaults = 0, NEW m \in 1 .. i + 1
        PROVE  (cmdConfirmationArray[m] = Content(frames[m]))'
    <2>1. \A n \in 1 .. i : cmdConfirmationArray[n] = Content(frames[n])
      BY <1>8 DEF Filled
    <2>2. q = i
      <3>1. SUFFICES ASSUME q # i PROVE FALSE
        OBVIOUS
      <3>2. i \in 1 .. i /\ i \in 1 .. Slots /\ i > q /\ i \in 1 .. Len(frames)
        BY <1>2, <3>1
      <3> QED  BY <1>3, <2>1, <3>2, ContentTaken
    <2>3. CASE m = i + 1
      BY <1>2, <1>5, <1>6, <2>2, <2>3
    <2>4. CASE m # i + 1
      <3>1. m \in 1 .. i /\ m \in 1 .. Slots /\ m # q + 1
        BY <1>2, <2>2, <2>4
      <3> QED  BY <1>5, <1>6, <2>1, <3>1
    <2> QED  BY <2>3, <2>4
  <1>9. q + 1 \in 0 .. i + 1
    BY <1>2
  <1>10. Filled(steps, frames, i + 1, k, h)'
    BY <1>7, <1>8, <1>9 DEF Filled
  <1> QED  BY <1>2, <1>5, <1>10

(* A frame of the answer is lost on the line.                              *)
LEMMA FilledLost ==
    ASSUME NEW steps, NEW frames, NEW i \in Nat, NEW k, NEW h,
           Filled(steps, frames, i, k, h), MaxFaults # 0,
           cmdConfirmationArray' = cmdConfirmationArray, requests' = requests
    PROVE  Filled(steps, frames, i + 1, k, h)'
  <1>1. PICK q \in 0 .. i :
         /\ steps[k].do = "clear" => q = 0
         /\ \A s \in 1 .. Slots : Cleared(steps, k, h, s) =>
              IF s > q THEN Empty(s)
              ELSE \E m \in 1 .. i : cmdConfirmationArray[s] = Content(frames[m])
    BY DEF Filled
  <1>2. q \in 0 .. i + 1 /\ \A m \in 1 .. i : m \in 1 .. i + 1
    OBVIOUS
  <1>3. \A s \in 1 .. Slots : Cleared(steps, k, h, s) =>
              IF s > q THEN Empty(s)'
              ELSE \E m \in 1 .. i + 1 : (cmdConfirmationArray[s] = Content(frames[m]))'
    BY <1>1, <1>2 DEF Empty, Content
  <1> QED  BY <1>1, <1>2, <1>3 DEF Filled

(* One more slot is reset for the request that is under way.               *)
LEMMA FilledCleared ==
    ASSUME NEW steps, NEW frames, NEW i \in Nat, NEW k \in Nat, k >= 1, NEW h \in Nat,
           Filled(steps, frames, i, k, h), steps[k].do = "clear",
           \A s \in 1 .. Slots : Empty(s) \/ s = steps[k].slot => Empty(s)'
    PROVE  Filled(steps, frames, i, k + 1, h)'
  <1>1. 0 \in 0 .. i
    OBVIOUS
  <1>2. \A s \in 1 .. Slots : Cleared(steps, k, h, s) => Empty(s)
    BY DEF Filled
  <1>3. \A s \in 1 .. Slots : Cleared(steps, k + 1, h, s) => Empty(s)'
    BY <1>2, ClearedNext
  <1>4. MaxFaults = 0 => i = 0
    BY DEF Filled
  <1> QED  BY <1>1, <1>3, <1>4 DEF Filled

(* A wait that does not end the request.                                   *)
LEMMA FilledWaited ==
    ASSUME NEW steps, NEW frames, NEW i \in Nat, NEW k \in Nat, k >= 1, NEW h \in Nat,
           Filled(steps, frames, i, k, h), steps[k].do = "wait", steps[k + 1].do # "clear",
           cmdConfirmationArray' = cmdConfirmationArray, requests' = requests
    PROVE  Filled(steps, frames, i, k + 1, h)'
  <1>1. PICK q \in 0 .. i :
         \A s \in 1 .. Slots : Cleared(steps, k, h, s) =>
              IF s > q THEN Empty(s)
              ELSE \E m \in 1 .. i : cmdConfirmationArray[s] = Content(frames[m])
    BY DEF Filled
  <1>2. \A s \in 1 .. Slots : Cleared(steps, k + 1, h, s) => Cleared(steps, k, h, s)
    BY ClearedNext
  <1>3. \A s \in 1 .. Slots : Cleared(steps, k + 1, h, s) =>
              IF s > q THEN Empty(s)'
              ELSE \E m \in 1 .. i : (cmdConfirmationArray[s] = Content(frames[m]))'
    BY <1>1, <1>2 DEF Empty, Content
  <1>4. MaxFaults = 0 => \A m \in 1 .. i : (cmdConfirmationArray[m] = Content(frames[m]))'
    BY DEF Filled, Content
  <1> QED  BY <1>1, <1>3, <1>4 DEF Filled

(* When a request is made, the slots reset before it are free.             *)
LEMMA FilledSent ==
    ASSUME NEW steps, NEW k \in Nat, k >= 1, Settled(steps, k), steps[k].do = "send",
           cmdConfirmationArray' = cmdConfirmationArray
    PROVE  Filled(steps, <<>>, 0, k + 1, k)'
  <1>1. \A s \in 1 .. Slots : Cleared(steps, k + 1, k, s) => Empty(s)
    BY ClearedNext DEF Settled
  <1>2. \A s \in 1 .. Slots : Cleared(steps, k + 1, k, s) => Empty(s)'
    BY <1>1 DEF Empty
  <1>3. 0 \in 0 .. 0 /\ 1 .. 0 = {}
    OBVIOUS
  <1> QED  BY <1>2, <1>3 DEF Filled

-----------------------------------------------------------------------------
(* Steps of the line and of the module.                                    *)

(* What a function's table tells.                                          *)
LEMMA SerialTables ==
    ASSUME Serial, NEW op \in Ops
    PROVE  /\ OneAtATime(Script[op]) /\ OpenMeanwhile(op)
           /\ Script[op] \in Seq(StepType)
           /\ Len(Script[op]) \in Nat /\ DOMAIN Script[op] = 1 .. Len(Script[op])
BY Tables DEF Serial

(* The module has an answer to the request, and consent and refusals differ.*)
Answerable(cmd) == cmd \in DOMAIN Reply /\ Distinct(cmd)

(* All frames of an answer are recorded and find a slot.                   *)
LEMMA AnswerShape ==
    ASSUME NEW cmd, Answerable(cmd),
           NEW frames \in {Reply[cmd].yes} \cup Refusals(cmd)
    PROVE  /\ Apart(frames) /\ Len(frames) <= Slots
           /\ \A m \in 1 .. Len(frames) : frames[m].cmd \in Recorded
  <1>1. CASE frames = <<>>
    BY <1>1, Tables DEF Apart
  <1>2. CASE frames \in {Reply[cmd].yes} \cup Reply[cmd].no
    <2>1. frames \in Seq(PartType)
      BY <1>2, ModuleAssumption DEF Answerable
    <2>2. Len(frames) \in Nat /\ DOMAIN frames = 1 .. Len(frames)
      BY <2>1
    <2>3. Distinct(cmd)
      BY DEF Answerable
    <2> QED  BY <1>2, <2>2, <2>3 DEF Distinct, Apart
  <1> QED  BY <1>1, <1>2 DEF Refusals

(* The UART is open as long as a request is under way.                     *)
LEMMA OpenForRequest ==
    ASSUME Serial, TypeOK, Powered, Running, call.ok, NEW op, op = call.op,
           NEW k, k = call.k, k \in 1 .. Len(Script[op]) + 1,
           \A y \in 1 .. k - 1 : Script[op][y].do # "return",
           NEW h, Pending(Script[op], h, k)
    PROVE  uartOpen
  <1> DEFINE steps == Script[op]
  <1>1. op \in Ops
    BY DEF TypeOK, Position, Running
  <1>2. /\ h \in 1 .. Len(steps) /\ h < k /\ k <= Len(steps) /\ steps[h].do = "send"
        /\ steps[k].do \in {"clear", "wait"} /\ OpenMeanwhile(op) /\ Len(steps) \in Nat
        /\ DOMAIN steps = 1 .. Len(steps)
    BY <1>1, SerialTables, PendingStep
  <1>3. CASE op \in Opening
    <2>1. ~Past(steps, h, "return")
      BY <1>2 DEF Past
    <2>2. Past(steps, h, "open")
      BY <1>2, <1>3, <2>1 DEF OpenMeanwhile, Past
    <2>3. Past(steps, k, "open")
      BY <1>2, <2>2 DEF Past
    <2> QED  BY <1>3, <2>3 DEF Powered
  <1>4. CASE op \notin Opening
    <2> SUFFICES ASSUME op \in Closing, Past(steps, k, "close") PROVE FALSE
      BY <1>4 DEF Powered
    <2>1. PICK c \in 1 .. k - 1 : steps[c].do = "close"
      BY DEF Past
    <2>2. c \in DOMAIN steps
      BY <1>2, <2>1
    <2>3. \A y \in 1 .. Len(steps) : y > c => steps[y].do \in {"clear", "set", "return"}
      BY <1>2, <1>4, <2>1, <2>2 DEF OpenMeanwhile
    <2>4. ~(h > c)
      BY <1>2, <2>3
    <2>5. c # h
      BY <1>2, <2>1
    <2>6. c \in h + 1 .. k - 1
      BY <1>2, <2>1, <2>4, <2>5
    <2> QED  BY <2>1, <2>6 DEF Pending
  <1> QED  BY <1>3, <1>4

(* While a request is under way.                                           *)
LEMMA WhileUnderWay ==
    ASSUME Serial, Inv, Running, call.ok, NEW op, op = call.op, NEW k, k = call.k,
           NEW h, Pending(Script[op], h, k)
    PROVE  /\ op \in Ops /\ k \in 1 .. Len(Script[op]) /\ h \in 1 .. Len(Script[op])
           /\ h < k /\ Script[op][h].do = "send" /\ Answerable(Script[op][h].cmd)
           /\ Script[op][k].do \in {"clear", "wait"}
           /\ requests \in asked /\ requests \in Nat /\ requests # 0 /\ uartOpen
           /\ UnderWay(Script[op], h, k) /\ Expired(Script[op], k)
  <1>1. op \in Ops /\ Going(Script[op], k)
    BY DEF Inv, TypeOK, Position, Running, Requesting
  <1>2. k \in 1 .. Len(Script[op]) + 1 /\ Len(Script[op]) \in Nat
    BY <1>1, SerialTables DEF Going
  <1>3. /\ h \in 1 .. Len(Script[op]) /\ h < k /\ k <= Len(Script[op])
        /\ Script[op][h].do = "send" /\ Script[op][k].do \in {"clear", "wait"}
        /\ DOMAIN Script[op] = 1 .. Len(Script[op])
    BY <1>1, <1>2, SerialTables, PendingStep
  <1>4. Answerable(Script[op][h].cmd)
    BY <1>1, <1>3, DriverAssumption, SerialTables DEF ScriptAssumption, OneAtATime, Answerable
  <1>5. UnderWay(Script[op], h, k) /\ Expired(Script[op], k)
    BY <1>1 DEF Going
  <1>6. requests \in asked /\ requests \in Nat /\ requests # 0
    BY <1>5 DEF UnderWay, Inv, TypeOK
  <1>7. uartOpen
    BY <1>1, <1>2, OpenForRequest DEF Inv, Going
  <1> QED  BY <1>1, <1>2, <1>3, <1>4, <1>5, <1>6, <1>7

(* If an answer is under way, a call waits for it.                         *)
LEMMA Somebody ==
    ASSUME Inv, ~Quiet, NEW op, op = call.op, NEW k, k = call.k
    PROVE  Running /\ call.ok /\ \E h : Pending(Script[op], h, k)
BY DEF Inv, Requesting, Failing, Going, Settled, Awaiting, TypeOK, Position

(* A step that leaves the call where it is.                                *)
LEMMA StillRequesting ==
    ASSUME Inv, call' = call, asked' = asked, served' \subseteq 1 .. requests',
           NEW op, op = call.op, NEW k, k = call.k,
           Quiet => Quiet' /\ served' = served /\ Untouched,
           \A h : Running /\ call.ok /\ Pending(Script[op], h, k)
                    => UnderWay(Script[op], h, k)' /\ Expired(Script[op], k)'
    PROVE  Requesting'
  <1>1. (~Running)' => Quiet'
    BY DEF Inv, Requesting, Running
  <1>2. Settled(Script[op], k) => Settled(Script[op], k)'
    BY DEF Settled, Untouched
  <1>3. (Running /\ call.ok)' => Going(Script[op], k)'
    BY <1>2 DEF Inv, Requesting, Going, Running
  <1>4. (Running /\ ~call.ok)' => Failing(Script[op], k)'
    BY DEF Inv, Requesting, Failing, Running
  <1> QED  BY <1>1, <1>3, <1>4 DEF Requesting

(* The last look at the array is not disturbed when nothing is under way.  *)
LEMMA StillExpired ==
    ASSUME Inv, call' = call, NEW steps, NEW k, Expired(steps, k), 
           Quiet => Quiet' /\ Untouched, call.slot \in 1 .. Slots
    PROVE  Expired(steps, k)'
  <1> SUFFICES ASSUME call.count >= MaxCount
               PROVE  /\ Quiet'
                      /\ \A s \in 1 .. call.slot - 1 :
                           cmdConfirmationArray'[s].cmd # steps[k].cmd
    BY DEF Expired
  <1>1. Quiet /\ Quiet' /\ Untouched
    BY DEF Expired
  <1>2. ASSUME NEW s \in 1 .. call.slot - 1
        PROVE  cmdConfirmationArray'[s].cmd = cmdConfirmationArray[s].cmd
    <2>1. s \in 1 .. Slots
      BY Tables
    <2> QED  BY <1>1, <2>1 DEF Untouched, Empty
  <1> QED  BY <1>1, <1>2 DEF Expired

(* Something unsolicited comes or goes.                                    *)
LEMMA NoiseStep ==
    ASSUME Serial, Inv, UNCHANGED <<call, asked, requests, served, inbox, outbox>>,
           Untouched,
           (\A x \in DOMAIN line : Unsolicited(line[x]))
              => (\A x \in DOMAIN line : Unsolicited(line[x]))',
           \A frames, i, j : requests # 0 /\ Apart(frames) /\ Flight(frames, i, j)
                => Flight(frames, i, j)'
    PROVE  Requesting'
  <1>1. PICK op, k : op = call.op /\ k = call.k
    OBVIOUS
  <1>2. Quiet => Quiet'
    BY DEF Quiet
  <1>3. call.slot \in 1 .. Slots
    BY DEF Inv, TypeOK, Position
  <1>4. ASSUME NEW h, Running, call.ok, Pending(Script[op], h, k)
        PROVE  UnderWay(Script[op], h, k)' /\ Expired(Script[op], k)'
    <2>1. /\ UnderWay(Script[op], h, k) /\ Expired(Script[op], k) /\ requests # 0
          /\ Answerable(Script[op][h].cmd)
      BY <1>1, <1>4, WhileUnderWay
    <2>4. Expired(Script[op], k)'
      BY <1>2, <1>3, <2>1, StillExpired
    <2>2. CASE Unread(Script[op], h, k)
      <3>1. Filled(Script[op], <<>>, 0, k, h)'
        <4>1. 0 \in 0 .. Slots /\ 1 .. 0 = {}
          BY Tables
        <4> QED  BY <2>2, <4>1, FilledUntouched DEF Unread
      <3> QED  BY <2>1, <2>2, <2>4, <3>1 DEF Unread, UnderWay
    <2>3. CASE \E frames, i, j : Answered(Script[op], h, k, frames, i, j)
      <3>1. PICK frames, i, j : Answered(Script[op], h, k, frames, i, j)
        BY <2>3
      <3>2. frames \in {Reply[Script[op][h].cmd].yes} \cup Refusals(Script[op][h].cmd)
        BY <3>1 DEF Answered
      <3>3. /\ Apart(frames) /\ Len(frames) <= Slots
            /\ \A m \in 1 .. Len(frames) : frames[m].cmd \in Recorded
        BY <2>1, <3>2, AnswerShape
      <3>4. i \in 0 .. Slots /\ \A m \in 1 .. i : m \in 1 .. Len(frames)
        BY <3>1, <3>3, Tables DEF Answered, Flight, Apart
      <3>5. Flight(frames, i, j)'
        BY <2>1, <3>1, <3>3 DEF Answered
      <3>6. Filled(Script[op], frames, i, k, h)'
        BY <3>1, <3>3, <3>4, FilledUntouched DEF Answered
      <3>7. Answered(Script[op], h, k, frames, i, j)'
        BY <3>1, <3>5, <3>6 DEF Answered
      <3> QED  BY <2>1, <2>4, <3>7 DEF UnderWay
    <2> QED  BY <2>1, <2>2, <2>3, <2>4 DEF UnderWay
  <1> QED
    BY <1>1, <1>2, <1>4, StillRequesting DEF Inv, Requesting

(* A frame of the answer is taken off the line.                            *)
LEMMA PartStep ==
    ASSUME Serial, Inv, UNCHANGED <<call, asked, requests, served, inbox, outbox>>,
           line # <<>>, ~Unsolicited(Head(line)), line' = Tail(line),
           NEW op, op = call.op, NEW k, k = call.k,
           \A h, frames, i :
             /\ Running /\ call.ok /\ Pending(Script[op], h, k)
             /\ Apart(frames) /\ Len(frames) <= Slots
             /\ \A m \in 1 .. Len(frames) : frames[m].cmd \in Recorded
             /\ i \in Nat /\ i < Len(frames) /\ OfPart(Head(line), frames[i + 1])
             /\ Filled(Script[op], frames, i, k, h)
             => Filled(Script[op], frames, i + 1, k, h)'
    PROVE  Requesting'
  <1>1. ~Quiet
    <2>1. 1 \in DOMAIN line /\ Head(line) = line[1]
      BY DEF Inv, TypeOK
    <2> QED  BY <2>1 DEF Quiet
  <1>2. ASSUME NEW h, Running, call.ok, Pending(Script[op], h, k)
        PROVE  UnderWay(Script[op], h, k)' /\ Expired(Script[op], k)'
    <2>1. /\ UnderWay(Script[op], h, k) /\ Expired(Script[op], k) /\ requests # 0
          /\ Answerable(Script[op][h].cmd)
      BY <1>2, WhileUnderWay
    <2>2. ~Unread(Script[op], h, k)
      <3>1. 1 \in DOMAIN line /\ Head(line) = line[1]
        BY DEF Inv, TypeOK
      <3> QED  BY <3>1 DEF Unread
    <2>3. PICK frames, i, j : Answered(Script[op], h, k, frames, i, j)
      BY <2>1, <2>2 DEF UnderWay
    <2>4. /\ Apart(frames) /\ Len(frames) <= Slots
          /\ \A m \in 1 .. Len(frames) : frames[m].cmd \in Recorded
      BY <2>1, <2>3, AnswerShape DEF Answered
    <2>5. i < j /\ OfPart(Head(line), frames[i + 1]) /\ Flight(frames, i + 1, j)'
      BY <2>1, <2>3, <2>4, FlightTake DEF Answered, Inv
    <2>6. i \in Nat /\ i < Len(frames)
      BY <2>3, <2>4, <2>5 DEF Answered, Flight, Apart
    <2>7. Filled(Script[op], frames, i + 1, k, h)'
      BY <1>2, <2>3, <2>4, <2>5, <2>6 DEF Answered
    <2>8. Answered(Script[op], h, k, frames, i + 1, j)'
      BY <2>3, <2>5, <2>7 DEF Answered
    <2>9. Expired(Script[op], k)'
      BY <1>1, <2>1 DEF Expired
    <2> QED  BY <2>1, <2>8, <2>9 DEF UnderWay
  <1> QED  BY <1>1, <1>2, StillRequesting DEF Inv, Requesting

(* A module that needs some time answers a caller that has reset all slots *)
(* and is in its loop.                                                     *)
LEMMA InLoop ==
    ASSUME Serial, Timely, Inv, Running, call.ok, NEW op, op = call.op,
           NEW k, k = call.k, NEW h, Pending(Script[op], h, k),
           NEW f, InNoHurry(f), f.req = requests
    PROVE  /\ Script[op][k].do = "wait"
           /\ \A s \in 1 .. Slots : Cleared(Script[op], k, h, s)
  <1>1. /\ op \in Ops /\ k \in 1 .. Len(Script[op])
        /\ Script[op][k].do \in {"clear", "wait"} /\ requests \in asked
    BY WhileUnderWay
  <1>2. Script[op][k].do = "wait"
    <2>1. ~At("clear")
      BY <1>1 DEF InNoHurry, Timely
    <2> QED  BY <1>1, <2>1 DEF At, Length, Step
  <1>3. k \in DOMAIN Script[op] /\ OneAtATime(Script[op]) /\ k \in Nat
    BY <1>1, SerialTables
  <1>4. PICK g : /\ Pending(Script[op], g, k)
                 /\ \A s \in 1 .. Slots : Cleared(Script[op], k, g, s)
    BY <1>2, <1>3 DEF OneAtATime
  <1>5. g = h
    BY <1>3, <1>4, PendingOne
  <1> QED  BY <1>2, <1>4, <1>5

(* HandleRxPacket: a frame of the answer finds a slot, since the caller    *)
(* has come to its loop, and what was sent unasked takes none.             *)
LEMMA ReceiveRequesting ==
    ASSUME Serial, Timely, Inv, HandleRxPacket PROVE Requesting'
  <1>1. PICK op, k, f : op = call.op /\ k = call.k /\ f = Head(line)
    OBVIOUS
  <1>2. /\ line # <<>> /\ line' = Tail(line) /\ InNoHurry(f)
        /\ UNCHANGED <<call, asked, requests, served, inbox, outbox>>
        /\ uartOpen => Store(f)
        /\ ~uartOpen => UNCHANGED cmdConfirmationArray
    BY <1>1 DEF HandleRxPacket, module, history
  <1>3. /\ 1 \in DOMAIN line /\ f = line[1]
        /\ \A x \in DOMAIN line' : x + 1 \in DOMAIN line /\ line'[x] = line[x + 1]
    BY <1>1, <1>2 DEF Inv, TypeOK
  <1>4. CASE Unsolicited(f)
    <2>1. Untouched
      <3>1. CASE uartOpen
        BY <1>2, <1>4, <3>1, StoreNoise DEF Inv, Unsolicited
      <3>2. CASE ~uartOpen
        BY <1>2, <3>2 DEF Untouched, Empty
      <3> QED  BY <3>1, <3>2
    <2>2. (\A x \in DOMAIN line : Unsolicited(line[x]))
             => (\A x \in DOMAIN line : Unsolicited(line[x]))'
      BY <1>3 DEF Unsolicited
    <2>3. ASSUME requests # 0, NEW frames, NEW i, NEW j, Apart(frames),
                 Flight(frames, i, j)
          PROVE  Flight(frames, i, j)'
      BY <1>1, <1>2, <1>4, <2>3, FlightTake DEF Inv, OfPart, Unsolicited
    <2> QED  BY <1>2, <2>1, <2>2, <2>3, NoiseStep
  <1>5. CASE ~Unsolicited(f)
    <2>1. ASSUME NEW h, NEW frames, NEW i, Running, call.ok,
                 Pending(Script[op], h, k), Apart(frames), Len(frames) <= Slots,
                 \A m \in 1 .. Len(frames) : frames[m].cmd \in Recorded,
                 i \in Nat, i < Len(frames), OfPart(f, frames[i + 1]),
                 Filled(Script[op], frames, i, k, h)
          PROVE  Filled(Script[op], frames, i + 1, k, h)'
      <3>1. uartOpen
        BY <1>1, <2>1, WhileUnderWay
      <3>2. /\ Script[op][k].do = "wait"
            /\ \A s \in 1 .. Slots : Cleared(Script[op], k, h, s)
        BY <1>1, <1>2, <2>1, InLoop DEF OfPart
      <3>3. Len(frames) \in Nat
        BY <2>1 DEF Apart
      <3> QED  BY <1>2, <2>1, <3>1, <3>2, <3>3, FilledStore DEF Inv
    <2> QED  BY <1>1, <1>2, <1>5, <2>1, PartStep
  <1> QED  BY <1>4, <1>5

(* A frame whose checksum is wrong.                                        *)
LEMMA LoseRequesting ==
    ASSUME Serial, Inv, LoseFrame PROVE Requesting'
  <1>1. PICK op, k, f : op = call.op /\ k = call.k /\ f = Head(line)
    OBVIOUS
  <1>2. /\ line # <<>> /\ line' = Tail(line) /\ MaxFaults # 0
        /\ UNCHANGED <<call, asked, requests, served, inbox, outbox>>
        /\ UNCHANGED cmdConfirmationArray
    BY Bounds DEF LoseFrame, module, history, driver, Inv, TypeOK
  <1>3. /\ 1 \in DOMAIN line /\ f = line[1]
        /\ \A x \in DOMAIN line' : x + 1 \in DOMAIN line /\ line'[x] = line[x + 1]
    BY <1>1, <1>2 DEF Inv, TypeOK
  <1>4. CASE Unsolicited(f)
    <2>1. Untouched
      BY <1>2 DEF Untouched, Empty
    <2>2. (\A x \in DOMAIN line : Unsolicited(line[x]))
             => (\A x \in DOMAIN line : Unsolicited(line[x]))'
      BY <1>3 DEF Unsolicited
    <2>3. ASSUME requests # 0, NEW frames, NEW i, NEW j, Apart(frames),
                 Flight(frames, i, j)
          PROVE  Flight(frames, i, j)'
      BY <1>1, <1>2, <1>4, <2>3, FlightTake DEF Inv, OfPart, Unsolicited
    <2> QED  BY <1>2, <2>1, <2>2, <2>3, NoiseStep
  <1>5. CASE ~Unsolicited(f)
    BY <1>1, <1>2, <1>5, FilledLost, PartStep
  <1> QED  BY <1>4, <1>5

(* What the module sends unasked is not recorded.                          *)
LEMMA IndicateRequesting ==
    ASSUME Serial, Inv, NEW i \in Indications, Indicate(i.cmd, i.status)
    PROVE  Requesting'
  <1> DEFINE f == [cmd |-> i.cmd, status |-> i.status, data |-> "", req |-> 0]
  <1>1. /\ line' = Append(line, f)
        /\ UNCHANGED <<call, asked, requests, served, inbox, outbox>>
        /\ UNCHANGED cmdConfirmationArray
    BY DEF Indicate, module, history, driver
  <1>2. Unsolicited(f)
    BY DEF Serial, Unsolicited
  <1> HIDE DEF f
  <1>3. Untouched
    BY <1>1 DEF Untouched, Empty
  <1>4. ASSUME \A x \in DOMAIN line : Unsolicited(line[x])
        PROVE  (\A x \in DOMAIN line : Unsolicited(line[x]))'
    <2>1. line \in Seq(Frame)
      BY DEF Inv, TypeOK
    <2>2. \A x \in DOMAIN line' : line'[x] = f \/ (x \in DOMAIN line /\ line'[x] = line[x])
      BY <1>1, <2>1
    <2> QED  BY <1>2, <1>4, <2>2 DEF Unsolicited
  <1>5. \A frames, a, b : requests # 0 /\ Apart(frames) /\ Flight(frames, a, b)
          => Flight(frames, a, b)'
    BY <1>1, <1>2, FlightNoise DEF Inv
  <1> QED  BY <1>1, <1>3, <1>4, <1>5, NoiseStep

(* The module sends the next frame of the answer.                          *)
LEMMA EmitRequesting ==
    ASSUME Serial, Inv, NEW data, Emit(data) PROVE Requesting'
  <1>1. PICK op, k, f : /\ op = call.op /\ k = call.k
                        /\ f = [Head(outbox) EXCEPT !.data = data]
    OBVIOUS
  <1>2. /\ outbox # <<>> /\ outbox' = Tail(outbox) /\ line' = Append(line, f)
        /\ UNCHANGED <<call, asked, requests, served, inbox>>
        /\ UNCHANGED cmdConfirmationArray
    BY <1>1 DEF Emit, history, driver
  <1>3. f.cmd = Head(outbox).cmd /\ f.status = Head(outbox).status /\ f.req = Head(outbox).req
    <2>1. Head(outbox) \in Frame
      BY <1>2 DEF Inv, TypeOK
    <2> QED  BY <1>1, <2>1 DEF Frame
  <1>4. ~Quiet
    BY <1>2 DEF Quiet
  <1>5. ASSUME NEW h, Running, call.ok, Pending(Script[op], h, k)
        PROVE  UnderWay(Script[op], h, k)' /\ Expired(Script[op], k)'
    <2>1. /\ UnderWay(Script[op], h, k) /\ Expired(Script[op], k) /\ requests # 0
          /\ Answerable(Script[op][h].cmd)
      BY <1>1, <1>5, WhileUnderWay
    <2>2. ~Unread(Script[op], h, k)
      BY <1>2 DEF Unread
    <2>3. PICK frames, i, j : Answered(Script[op], h, k, frames, i, j)
      BY <2>1, <2>2 DEF UnderWay
    <2>4. /\ Apart(frames) /\ Len(frames) <= Slots
          /\ \A m \in 1 .. Len(frames) : frames[m].cmd \in Recorded
      BY <2>1, <2>3, AnswerShape DEF Answered
    <2>5. Flight(frames, i, j + 1)'
      BY <1>2, <1>3, <2>1, <2>3, <2>4, FlightSend DEF Answered, Inv
    <2>6. Filled(Script[op], frames, i, k, h)'
      BY <1>2, <2>3 DEF Answered, Filled, Empty, Content
    <2>7. Answered(Script[op], h, k, frames, i, j + 1)'
      BY <1>2, <2>3, <2>5, <2>6 DEF Answered
    <2>8. Expired(Script[op], k)'
      BY <1>2, <1>4, <2>1 DEF Expired
    <2> QED  BY <1>2, <2>1, <2>7, <2>8 DEF UnderWay
  <1> QED  BY <1>1, <1>2, <1>4, <1>5, StillRequesting DEF Inv, Requesting

(* The length of a sequence is told by its domain.                         *)
LEMMA LengthOf ==
    ASSUME NEW S, NEW s \in Seq(S), NEW n \in Nat, DOMAIN s = 1 .. n
    PROVE  Len(s) = n
  <1>1. DOMAIN s = 1 .. Len(s) /\ Len(s) \in Nat
    OBVIOUS
  <1>2. \A a, b \in Nat : 1 .. a = 1 .. b => a = b
    OBVIOUS
  <1> QED  BY <1>1, <1>2

(* Nothing before a sequence.                                              *)
LEMMA Prepended ==
    ASSUME NEW S, NEW s \in Seq(S), Len(s) \in Nat
    PROVE  <<>> \o s = s
  <1>1. PICK t : t = <<>> \o s
    OBVIOUS
  <1>2. t \in Seq(S) /\ Len(t) = Len(s)
    BY <1>1
  <1>3. \A i \in 1 .. Len(s) : t[i] = s[i]
    BY <1>1
  <1> QED  BY <1>1, <1>2, <1>3

(* The module reads the request and decides how to answer.                 *)
LEMMA AnswerRequesting ==
    ASSUME Serial, Inv, NEW granted \in BOOLEAN, Answer(granted) PROVE Requesting'
  <1>1. PICK op, k : op = call.op /\ k = call.k
    OBVIOUS
  <1>2. /\ inbox # <<>> /\ inbox' = Tail(inbox)
        /\ UNCHANGED <<call, asked, requests, line>>
        /\ UNCHANGED cmdConfirmationArray
    BY DEF Answer, history, driver
  <1>3. ~Quiet
    BY <1>2 DEF Quiet
  <1>4. ASSUME NEW h, Running, call.ok, Pending(Script[op], h, k)
        PROVE  /\ UnderWay(Script[op], h, k)' /\ Expired(Script[op], k)'
               /\ served' \subseteq 1 .. requests
    <2>1. /\ UnderWay(Script[op], h, k) /\ Expired(Script[op], k) /\ requests # 0
          /\ Answerable(Script[op][h].cmd) /\ requests \in Nat
      BY <1>1, <1>4, WhileUnderWay
    <2>2. \A frames, i, j : ~Answered(Script[op], h, k, frames, i, j)
      BY <1>2 DEF Answered
    <2>3. Unread(Script[op], h, k)
      BY <2>1, <2>2 DEF UnderWay
    <2>4. PICK c : c = Script[op][h].cmd
      OBVIOUS
    <2>5. PICK r : r = Head(inbox)
      OBVIOUS
    <2>50. r.cmd = c /\ r.req = requests /\ inbox' = <<>>
      BY <1>2, <2>3, <2>4, <2>5 DEF Unread
    <2>6. PICK frames :
            /\ outbox' = outbox \o Tagged(frames, requests)
            /\ \/ served' = served \cup {requests} /\ frames = Reply[c].yes
               \/ served' = served /\ frames \in Reply[c].no
      <3>1. /\ \/ granted /\ outbox' = outbox \o Tagged(Reply[r.cmd].yes, r.req)
               \/ ~granted /\ \E no \in Reply[r.cmd].no :
                                outbox' = outbox \o Tagged(no, r.req)
            /\ served' = IF granted THEN served \cup {r.req} ELSE served
        BY <2>5 DEF Answer
      <3>2. CASE granted
        BY <2>50, <3>1, <3>2
      <3>3. CASE ~granted
        BY <2>50, <3>1, <3>3
      <3> QED  BY <3>2, <3>3
    <2>7. /\ frames \in {Reply[c].yes} \cup Refusals(c) /\ frames \in Seq(PartType)
          /\ Apart(frames) /\ Len(frames) <= Slots
          /\ \A m \in 1 .. Len(frames) : frames[m].cmd \in Recorded
      BY <2>1, <2>4, <2>6, AnswerShape, ModuleAssumption DEF Refusals, Answerable
    <2>8. /\ Len(outbox') = Len(frames)
          /\ \A m \in 1 .. Len(frames) : OfPart(outbox[m], frames[m])'
      <3>1. PICK frm : frm = Tagged(frames, requests)
        OBVIOUS
      <3>2. /\ frm \in Seq(Frame) /\ DOMAIN frm = 1 .. Len(frames)
            /\ \A m \in 1 .. Len(frames) : frm[m] =
                 [cmd |-> frames[m].cmd, status |-> frames[m].status,
                  data |-> "", req |-> requests]
        BY <2>1, <2>7, <3>1, TaggedType DEF Tagged, Apart
      <3>3. Len(frames) \in Nat
        BY <2>7 DEF Apart
      <3>4. Len(frm) = Len(frames)
        BY <3>2, <3>3, LengthOf
      <3>5. outbox' = frm
        <4>1. outbox' = <<>> \o frm
          BY <2>3, <2>6, <3>1 DEF Unread
        <4> QED  BY <3>2, <3>3, <3>4, <4>1, Prepended
      <3>6. \A m \in 1 .. Len(frames) : /\ frm[m].cmd = frames[m].cmd
                                        /\ frm[m].status = frames[m].status
                                        /\ frm[m].req = requests
        <4> SUFFICES ASSUME NEW m \in 1 .. Len(frames)
                     PROVE  /\ frm[m].cmd = frames[m].cmd
                            /\ frm[m].status = frames[m].status
                            /\ frm[m].req = requests
          OBVIOUS
        <4>1. PICK sent, part : sent = frm[m] /\ part = frames[m]
          OBVIOUS
        <4>2. sent = [cmd |-> part.cmd, status |-> part.status,
                      data |-> "", req |-> requests]
          BY <3>2, <4>1
        <4>3. sent.cmd = part.cmd /\ sent.status = part.status /\ sent.req = requests
          BY <4>2
        <4> QED  BY <4>1, <4>3
      <3>7. requests' = requests
        BY <1>2
      <3> QED  BY <3>4, <3>5, <3>6, <3>7 DEF OfPart
    <2>9. Flight(frames, 0, 0)'
      <3>1. /\ Len(frames) \in Nat /\ 0 \in 0 .. 0 /\ 0 \in 0 .. Len(frames)
            /\ 0 + 1 .. 0 = {} /\ Len(frames) - 0 = Len(frames)
            /\ \A m \in 1 .. Len(frames) : 0 + m = m
        BY <2>7 DEF Apart
      <3>2. (\A x \in DOMAIN line : Unsolicited(line[x]))'
        BY <1>2, <2>3 DEF Unread, Unsolicited
      <3> QED  BY <2>8, <3>1, <3>2 DEF Flight
    <2>10. Filled(Script[op], frames, 0, k, h)'
      <3>1. Filled(Script[op], <<>>, 0, k, h) /\ 1 .. 0 = {}
        BY <2>3 DEF Unread
      <3> QED  BY <1>2, <3>1 DEF Filled, Empty
    <2>11. Answered(Script[op], h, k, frames, 0, 0)'
      BY <1>2, <2>3, <2>4, <2>50, <2>6, <2>9, <2>10 DEF Answered, Refusals, Unread
    <2>12. Expired(Script[op], k)'
      BY <1>2, <1>3, <2>1 DEF Expired
    <2>13. served' \subseteq 1 .. requests
      <3>1. requests \in 1 .. requests
        BY <2>1
      <3> QED  BY <2>6, <3>1 DEF Inv, Requesting
    <2> QED  BY <1>2, <2>1, <2>6, <2>11, <2>12, <2>13 DEF UnderWay
  <1>5. served' \subseteq 1 .. requests
    BY <1>1, <1>3, <1>4, Somebody
  <1> QED  BY <1>1, <1>2, <1>3, <1>4, <1>5, StillRequesting

-----------------------------------------------------------------------------
(* Steps of the main thread.                                               *)

(* Where a call that has not failed is.                                    *)
LEMMA Here ==
    ASSUME Serial, Inv, Running, NEW op, op = call.op, NEW k, k = call.k
    PROVE  /\ op \in Ops /\ Script[op] \in Seq(StepType) /\ Len(Script[op]) \in Nat
           /\ DOMAIN Script[op] = 1 .. Len(Script[op]) /\ OneAtATime(Script[op])
           /\ k \in Nat /\ k >= 1 /\ call \in Position /\ requests \in Nat
           /\ call.ok => k \in 1 .. Len(Script[op]) + 1 /\ Going(Script[op], k)
           /\ ~call.ok => Failing(Script[op], k)
  <1>1. op \in Ops /\ call \in Position /\ requests \in Nat /\ k \in Nat /\ k >= 1
    BY DEF Inv, TypeOK, Position, Running
  <1>2. /\ call.ok => Going(Script[op], k)
        /\ ~call.ok => Failing(Script[op], k)
    BY DEF Inv, Requesting
  <1> QED  BY <1>1, <1>2, SerialTables DEF Going

(* Nothing is under way at a step that neither resets a slot nor waits.    *)
LEMMA NothingPending ==
    ASSUME Serial, Inv, Running, NEW op, op = call.op, NEW k, k = call.k,
           k <= Len(Script[op]) => Script[op][k].do \notin {"clear", "wait"}
    PROVE  /\ Quiet
           /\ call.ok => ~Awaiting(Script[op], k) /\ Settled(Script[op], k)
  <1>1. CASE ~call.ok
    BY <1>1 DEF Inv, Requesting, Failing
  <1>2. CASE call.ok
    <2>1. /\ OneAtATime(Script[op]) /\ Len(Script[op]) \in Nat
          /\ DOMAIN Script[op] = 1 .. Len(Script[op])
          /\ k \in 1 .. Len(Script[op]) + 1 /\ Going(Script[op], k)
      BY <1>2, Here
    <2>2. ~Awaiting(Script[op], k)
      BY <2>1, PendingStep DEF Awaiting
    <2> QED  BY <1>2, <2>1, <2>2 DEF Going, Settled
  <1> QED  BY <1>1, <1>2

(* A step of a call that is on its way out.                                *)
LEMMA Leaving ==
    ASSUME Inv, Running, Quiet', UNCHANGED <<asked, requests, served>>,
           NEW op, op = call.op, call'.op = op, ~call'.ok, NEW n, n = call'.k,
           \A y \in n .. Len(Script[op]) : Script[op][y].do \notin {"send", "wait"},
           call'.why = "wait" /\ MaxFaults = 0 => ~(asked \subseteq served)
    PROVE  Requesting'
  <1>1. Running'
    BY DEF Running
  <1> QED  BY <1>1 DEF Requesting, Failing, Inv

(* A step that fails.                                                      *)
LEMMA FailRequesting ==
    ASSUME Serial, Inv, NEW what, At(what), Fail, Quiet, Quiet',
           UNCHANGED <<asked, requests, served>>,
           call.ok /\ what = "wait" /\ MaxFaults = 0 => ~(asked \subseteq served)
    PROVE  Requesting'
  <1>1. PICK op, k, steps : op = call.op /\ k = call.k /\ steps = Script[op]
    OBVIOUS
  <1>2. Running
    BY DEF At
  <1>3. /\ op \in Ops /\ Len(steps) \in Nat /\ DOMAIN steps = 1 .. Len(steps)
        /\ OneAtATime(steps) /\ call \in Position
    BY <1>1, <1>2, Here
  <1>4. k \in 1 .. Len(steps) /\ steps[k].do = what
    BY <1>1, AtStep DEF Inv, Step
  <1>5. PICK n : n = IF steps[k].fail = 0 THEN Len(steps) + 1 ELSE steps[k].fail
    OBVIOUS
  <1>6. /\ call'.op = op /\ call'.k = n /\ ~call'.ok
        /\ call'.why = IF call.ok THEN what ELSE call.why
    BY <1>1, <1>3, <1>4, <1>5 DEF Fail, Position, Step, Length
  <1>7. \A y \in n .. Len(steps) : steps[y].do \notin {"send", "wait"}
    <2>1. CASE steps[k].fail = 0
      <3>1. n .. Len(steps) = {}
        BY <1>3, <1>5, <2>1
      <3> QED  BY <3>1
    <2>2. CASE steps[k].fail # 0
      BY <1>3, <1>4, <1>5, <2>2 DEF OneAtATime
    <2> QED  BY <2>1, <2>2
  <1>8. call'.why = "wait" /\ MaxFaults = 0 => ~(asked \subseteq served)
    <2>1. CASE call.ok
      BY <1>6, <2>1
    <2>2. CASE ~call.ok
      BY <1>2, <1>6, <2>2 DEF Inv, Requesting, Failing
    <2> QED  BY <2>1, <2>2
  <1> QED  BY <1>1, <1>2, <1>6, <1>7, <1>8, Leaving

(* A step that a call on its way out takes.                                *)
LEMMA AdvanceLeaving ==
    ASSUME Serial, Inv, Running, ~call.ok, Advance, Quiet',
           UNCHANGED <<asked, requests, served>>
    PROVE  Requesting'
  <1>1. PICK op, k, steps : op = call.op /\ k = call.k /\ steps = Script[op]
    OBVIOUS
  <1>2. /\ Len(steps) \in Nat /\ k \in Nat /\ call \in Position /\ Failing(steps, k)
    BY <1>1, Here
  <1>3. call'.op = op /\ call'.k = k + 1 /\ ~call'.ok /\ call'.why = call.why
    BY <1>1, <1>2 DEF Advance, Position
  <1>4. \A y \in k + 1 .. Len(steps) : y \in k .. Len(steps)
    BY <1>2
  <1>5. \A y \in k + 1 .. Len(steps) : steps[y].do \notin {"send", "wait"}
    BY <1>2, <1>4 DEF Failing
  <1>6. call'.why = "wait" /\ MaxFaults = 0 => ~(asked \subseteq served)
    BY <1>2, <1>3 DEF Failing
  <1> QED  BY <1>1, <1>3, <1>5, <1>6, Leaving

(* A step that a call that has not failed takes.                           *)
LEMMA AdvanceGoing ==
    ASSUME Serial, Inv, Running, call.ok, Advance,
           NEW op, op = call.op, NEW k, k = call.k, NEW n, n = k + 1,
           k <= Len(Script[op]), Script[op][k].do # "return",
           served' \subseteq 1 .. requests',
           \A h : Pending(Script[op], h, n) => UnderWay(Script[op], h, n)',
           ~Awaiting(Script[op], n) => Settled(Script[op], n)'
    PROVE  Requesting'
  <1>1. /\ Len(Script[op]) \in Nat /\ call \in Position
        /\ k \in 1 .. Len(Script[op]) + 1 /\ Going(Script[op], k)
    BY Here
  <1>2. /\ call'.op = op /\ call'.k = n /\ call'.ok = call.ok /\ call'.count = 0
    BY <1>1 DEF Advance, Position
  <1>3. Running'
    BY <1>2 DEF Running
  <1>4. n \in 1 .. Len(Script[op]) + 1 /\ \A y \in 1 .. n - 1 : y = k \/ y \in 1 .. k - 1
    BY <1>1
  <1>5. \A y \in 1 .. n - 1 : Script[op][y].do # "return"
    BY <1>1, <1>4 DEF Going
  <1>6. Expired(Script[op], n)'
    <2>1. ~(call'.count >= MaxCount)
      BY <1>2, DriverAssumption
    <2> QED  BY <2>1 DEF Expired
  <1>7. Going(Script[op], n)'
    BY <1>4, <1>5, <1>6 DEF Going
  <1> QED  BY <1>2, <1>3, <1>7 DEF Requesting

(* A step that concerns neither the array nor the module.                  *)
LEMMA PlainRequesting ==
    ASSUME Serial, Inv, NEW what, At(what),
           what \notin {"send", "clear", "wait", "return"},
           Advance, UNCHANGED <<asked, requests, served>>, Untouched,
           Quiet => Quiet'
    PROVE  Requesting'
  <1>1. PICK op, k, steps : op = call.op /\ k = call.k /\ steps = Script[op]
    OBVIOUS
  <1>2. Running
    BY DEF At
  <1>3. /\ k \in 1 .. Len(steps) /\ steps[k].do = what /\ k \in Nat /\ k >= 1
        /\ k + 1 \in Nat
    BY <1>1, AtStep DEF Inv, Step
  <1>4. /\ Quiet
        /\ call.ok => ~Awaiting(steps, k) /\ Settled(steps, k)
    BY <1>1, <1>2, <1>3, NothingPending
  <1>5. CASE ~call.ok
    BY <1>2, <1>4, <1>5, AdvanceLeaving
  <1>6. CASE call.ok
    <2> DEFINE n == k + 1
    <2>1. \A h : ~Pending(steps, h, n)
      BY <1>3, <1>4, <1>6, PendingNext DEF Awaiting
    <2>2. ASSUME NEW s \in 1 .. Slots, Cleared(steps, n, n, s)
          PROVE  Empty(s)'
      <3>1. Cleared(steps, k, n, s)
        BY <1>3, <2>2, ClearedNext
      <3>2. Cleared(steps, k, k, s)
        BY <1>3, <3>1, ClearedFrom
      <3> QED  BY <1>4, <1>6, <3>2 DEF Settled, Untouched
    <2>3. n \in Nat /\ n = k + 1
      BY <1>3
    <2> HIDE DEF n
    <2>4. Settled(steps, n)'
      BY <1>4, <1>6, <2>2 DEF Settled
    <2>5. served' \subseteq 1 .. requests'
      BY DEF Inv, Requesting
    <2> QED  BY <1>1, <1>2, <1>3, <1>6, <2>1, <2>3, <2>4, <2>5, AdvanceGoing
  <1> QED  BY <1>5, <1>6

(* A call begins: nothing is under way from the one before.                *)
LEMMA StartRequesting ==
    ASSUME Inv, NEW op \in Ops, Start(op) PROVE Requesting'
  <1>1. /\ ~Running /\ Quiet /\ asked' = {}
        /\ UNCHANGED <<requests, served, inbox, outbox, line>>
    BY DEF Start, Inv, Requesting, module
  <1>2. call'.op = op /\ call'.k = 1 /\ call'.ok = TRUE
    BY DEF Start, Idle
  <1>3. Quiet'
    BY <1>1 DEF Quiet, Unsolicited
  <1>4. \A h : ~Pending(Script[op], h, 1)
    BY DEF Pending
  <1>5. \A s : ~Cleared(Script[op], 1, 1, s)
    BY DEF Cleared
  <1>6. Settled(Script[op], 1)'
    BY <1>1, <1>3, <1>5 DEF Settled
  <1>7. Len(Script[op]) \in Nat
    BY Tables
  <1>8. Going(Script[op], 1)'
    BY <1>4, <1>6, <1>7 DEF Going
  <1>9. Running'
    <2>1. op # "none"
      BY Tables
    <2> QED  BY <1>2, <2>1 DEF Running, NoOp
  <1> QED  BY <1>1, <1>2, <1>8, <1>9 DEF Requesting, Inv

(* A pin or the UART refuses.                                              *)
LEMMA FaultRequesting ==
    ASSUME Serial, Inv, Fault PROVE Requesting'
  <1>1. PICK what : At(what) /\ what \in {"send", "pin", "hold", "open", "close"}
    BY DEF Fault
  <1>2. PICK op, k : op = call.op /\ k = call.k
    OBVIOUS
  <1>3. Script[op][k].do = what /\ Running
    BY <1>1, <1>2 DEF At, Step
  <1>4. Quiet
    BY <1>1, <1>2, <1>3, NothingPending
  <1>5. UNCHANGED <<asked, requests, served, inbox, outbox, line>>
    BY DEF Fault, history, module
  <1>6. Quiet'
    BY <1>4, <1>5 DEF Quiet, Unsolicited
  <1> QED  BY <1>1, <1>4, <1>5, <1>6, FailRequesting DEF Fault

(* A pin goes low: there is nothing to lose.                               *)
LEMMA HoldLosesNothing ==
    ASSUME Serial, Inv, HoldInReset PROVE At("hold") /\ Quiet /\ served' = served
  <1>1. PICK op, k : op = call.op /\ k = call.k
    OBVIOUS
  <1>2. At("hold") /\ Script[op][k].do = "hold" /\ Running
    BY <1>1 DEF HoldInReset, At, Step
  <1>3. Quiet
    BY <1>1, <1>2, NothingPending
  <1>4. Range(outbox) = {}
    BY <1>3 DEF Quiet, Range
  <1> QED  BY <1>2, <1>3, <1>4 DEF HoldInReset

(* Nor does that step disturb what is under way.                           *)
LEMMA HoldRequesting ==
    ASSUME Serial, Inv, HoldInReset PROVE Requesting'
  <1>1. At("hold") /\ Quiet /\ served' = served
    BY HoldLosesNothing
  <1>2. /\ UNCHANGED <<asked, requests, line, cmdConfirmationArray>> /\ Advance
        /\ inbox' = <<>> /\ outbox' = <<>>
    BY DEF HoldInReset, history, driver
  <1>3. Quiet' /\ Untouched
    BY <1>1, <1>2 DEF Quiet, Unsolicited, Untouched, Empty
  <1> QED  BY <1>1, <1>2, <1>3, PlainRequesting

(* The other steps that concern neither the array nor the module.          *)
LEMMA OwnRequesting ==
    ASSUME Serial, Inv,
           NEW what \in {"read", "check", "test", "set", "pin", "open", "close", "release"},
           At(what), Advance \/ Fail,
           UNCHANGED <<asked, requests, served, inbox, outbox, cmdConfirmationArray>>,
           line' = line \/ line' = <<>>
    PROVE  Requesting'
  <1>1. PICK op, k : op = call.op /\ k = call.k
    OBVIOUS
  <1>2. Script[op][k].do = what /\ Running
    BY <1>1 DEF At, Step
  <1>3. Quiet
    BY <1>1, <1>2, NothingPending
  <1>4. Quiet' /\ Untouched
    BY <1>3 DEF Quiet, Unsolicited, Untouched, Empty
  <1>5. CASE Advance
    BY <1>4, <1>5, PlainRequesting
  <1>6. CASE Fail
    BY <1>3, <1>4, <1>6, FailRequesting
  <1> QED  BY <1>5, <1>6

(* The call returns.                                                       *)
LEMMA FinishRequesting ==
    ASSUME Serial, Inv, Finish PROVE Requesting'
  <1>1. PICK op, k : op = call.op /\ k = call.k
    OBVIOUS
  <1>2. Running /\ (k <= Len(Script[op]) => Script[op][k].do = "return")
    BY <1>1 DEF Finish, Ended, Length, Step
  <1>3. Quiet
    BY <1>1, <1>2, NothingPending
  <1>4. UNCHANGED <<asked, requests, served, inbox, outbox, line>> /\ ~Running'
    BY DEF Finish, history, module, Running, Idle
  <1>5. Quiet'
    BY <1>3, <1>4 DEF Quiet, Unsolicited
  <1> QED  BY <1>4, <1>5 DEF Requesting, Inv

(* A request is made.                                                      *)
LEMMA TransmitRequesting ==
    ASSUME Serial, Inv, Transmit PROVE Requesting'
  <1>1. PICK op, k, steps, n : op = call.op /\ k = call.k /\ steps = Script[op] /\ n = k + 1
    OBVIOUS
  <1>2. At("send") /\ Running
    BY DEF Transmit, At
  <1>3. /\ k \in 1 .. Len(steps) /\ steps[k].do = "send" /\ k \in Nat /\ k >= 1
        /\ steps[k].cmd = Step.cmd
    BY <1>1, <1>2, AtStep DEF Inv, Step
  <1>4. Quiet /\ (call.ok => ~Awaiting(steps, k) /\ Settled(steps, k))
    BY <1>1, <1>2, <1>3, NothingPending
  <1>5. call.ok
    <2>1. SUFFICES ASSUME ~call.ok PROVE FALSE
      OBVIOUS
    <2>2. Failing(steps, k) /\ Len(steps) \in Nat
      BY <1>1, <1>2, <2>1, Here
    <2>3. k \in k .. Len(steps)
      BY <1>3, <2>2
    <2> QED  BY <1>3, <2>2, <2>3 DEF Failing
  <1>6. PICK r : r = requests + 1
    OBVIOUS
  <1>7. /\ requests' = r /\ asked' = asked \cup {r} /\ Advance
        /\ inbox' = IF awake' THEN Append(inbox, [cmd |-> steps[k].cmd, req |-> r])
                    ELSE inbox
        /\ UNCHANGED <<cmdConfirmationArray, outbox, served, line>>
    BY <1>3, <1>6 DEF Transmit, driver
  <1>8. r \in Nat /\ served \subseteq 1 .. r /\ r \notin served /\ r \in asked'
    BY <1>6, <1>7 DEF Inv, Requesting, TypeOK
  <1>9. asked' \subseteq served' \cup {r}
    BY <1>4, <1>5, <1>7 DEF Settled
  <1>10. inbox = <<>> /\ outbox' = <<>> /\ (\A x \in DOMAIN line : Unsolicited(line[x]))'
    BY <1>4, <1>7 DEF Quiet, Unsolicited
  <1>11. Filled(steps, <<>>, 0, n, k)'
    BY <1>1, <1>3, <1>4, <1>5, <1>7, FilledSent
  <1>12. UnderWay(steps, k, n)'
    <2>1. CASE awake'
      <3>1. inbox' = <<[cmd |-> steps[k].cmd, req |-> r]>>
        <4>1. PICK msg : msg = [cmd |-> steps[k].cmd, req |-> r]
          OBVIOUS
        <4>2. inbox' = Append(<<>>, msg)
          BY <1>7, <1>10, <2>1, <4>1
        <4>3. inbox' = <<msg>>
          BY <4>2
        <4> QED  BY <4>1, <4>3
      <3>2. Unread(steps, k, n)'
        BY <1>7, <1>8, <1>10, <1>11, <3>1 DEF Unread
      <3> QED  BY <1>7, <1>8, <1>9, <3>2 DEF UnderWay
    <2>2. CASE ~awake'
      <3>1. Flight(<<>>, 0, 0)'
        <4>1. /\ Len(<<>>) = 0 /\ 0 \in 0 .. 0 /\ 0 + 1 .. 0 = {} /\ 1 .. 0 - 0 = {}
              /\ Len(outbox') = 0 - 0
          BY <1>10
        <4> QED  BY <1>10, <4>1 DEF Flight
      <3>2. Answered(steps, k, n, <<>>, 0, 0)'
        BY <1>7, <1>8, <1>10, <1>11, <2>2, <3>1 DEF Answered, Refusals
      <3>3. (\E frames, i, j : Answered(steps, k, n, frames, i, j))'
        BY <3>2
      <3> QED  BY <1>7, <1>8, <1>9, <3>3 DEF UnderWay
    <2> QED  BY <2>1, <2>2
  <1>13. Pending(steps, k, n)
    BY <1>1, <1>3, PendingOn
  <1>14. \A h : Pending(steps, h, n) => h = k
    BY <1>1, <1>3, <1>13, PendingOne
  <1>15. Awaiting(steps, n)
    BY <1>13 DEF Awaiting
  <1>16. \A h : Pending(steps, h, n) => UnderWay(steps, h, n)'
    BY <1>12, <1>14
  <1>17. served' \subseteq 1 .. requests'
    BY <1>7, <1>8
  <1> QED  BY <1>1, <1>2, <1>3, <1>5, <1>7, <1>15, <1>16, <1>17, AdvanceGoing

(* A slot is reset.                                                        *)
LEMMA ClearRequesting ==
    ASSUME Serial, Inv, ClearSlot PROVE Requesting'
  <1>1. PICK op, k, steps, n : op = call.op /\ k = call.k /\ steps = Script[op] /\ n = k + 1
    OBVIOUS
  <1>2. At("clear") /\ Running /\ Advance
    BY DEF ClearSlot, At
  <1>3. /\ k \in 1 .. Len(steps) /\ steps[k].do = "clear" /\ k \in Nat /\ k >= 1 /\ n \in Nat
        /\ steps[k].slot = Step.slot /\ op \in Ops /\ OneAtATime(steps)
        /\ Len(steps) \in Nat /\ DOMAIN steps = 1 .. Len(steps)
        /\ call.ok => Going(steps, k)
        /\ ~call.ok => Failing(steps, k)
    BY <1>1, <1>2, AtStep, Here DEF Inv, Step
  <1>4. UNCHANGED <<asked, requests, served, inbox, outbox, line>>
    BY DEF ClearSlot, history, module
  <1>5. \A s \in 1 .. Slots : Empty(s) \/ s = steps[k].slot => Empty(s)'
    <2>1. cmdConfirmationArray' = [cmdConfirmationArray EXCEPT ![steps[k].slot] = Free]
      BY <1>3 DEF ClearSlot
    <2>2. DOMAIN cmdConfirmationArray = 1 .. Slots /\ Free.cmd = CNFINVALID
      BY DEF Inv, TypeOK, Free
    <2> QED  BY <2>1, <2>2 DEF Empty
  <1>6. Quiet => Quiet'
    BY <1>4 DEF Quiet, Unsolicited
  <1>7. served' \subseteq 1 .. requests'
    BY <1>4 DEF Inv, Requesting
  <1>8. CASE ~call.ok
    BY <1>2, <1>3, <1>4, <1>6, <1>8, AdvanceLeaving DEF Failing
  <1>9. CASE call.ok /\ ~Awaiting(steps, k)
    <2>1. \A h : ~Pending(steps, h, n)
      BY <1>1, <1>3, <1>9, PendingNext DEF Awaiting
    <2>2. ASSUME NEW s \in 1 .. Slots, Cleared(steps, n, n, s)
          PROVE  Empty(s)'
      <3>1. s = steps[k].slot \/ Cleared(steps, k, n, s)
        BY <1>1, <1>3, <2>2, ClearedNext
      <3>2. s = steps[k].slot \/ Cleared(steps, k, k, s)
        BY <1>1, <1>3, <3>1, ClearedFrom
      <3> QED  BY <1>3, <1>5, <1>9, <3>2 DEF Going, Settled
    <2>3. Settled(steps, n)'
      BY <1>3, <1>4, <1>6, <1>9, <2>2 DEF Going, Settled
    <2> QED  BY <1>1, <1>2, <1>3, <1>7, <1>9, <2>1, <2>3, AdvanceGoing
  <1>10. CASE call.ok /\ Awaiting(steps, k)
    <2>1. PICK h : Pending(steps, h, k)
      BY <1>10 DEF Awaiting
    <2>2. UnderWay(steps, h, k) /\ h \in Nat
      BY <1>3, <1>10, <2>1 DEF Going, Pending
    <2>3. ASSUME NEW frames, NEW i \in Nat, Filled(steps, frames, i, k, h)
          PROVE  Filled(steps, frames, i, n, h)'
      BY <1>1, <1>3, <1>5, <2>2, <2>3, FilledCleared
    <2>4. ASSUME NEW frames, NEW i, NEW j, Flight(frames, i, j)
          PROVE  Flight(frames, i, j)' /\ i \in Nat
      <3>1. i \in Nat
        BY <2>4 DEF Flight
      <3>2. Flight(frames, i, j)'
        BY <1>4, <2>4 DEF Flight, OfPart, Unsolicited
      <3> QED  BY <3>1, <3>2
    <2>5. UnderWay(steps, h, n)'
      <3>1. CASE Unread(steps, h, k)
        <4>1. Unread(steps, h, n)'
          BY <1>4, <2>3, <3>1 DEF Unread, Unsolicited
        <4> QED  BY <1>4, <2>2, <4>1 DEF UnderWay
      <3>2. CASE \E frames, i, j : Answered(steps, h, k, frames, i, j)
        <4>1. PICK frames, i, j : Answered(steps, h, k, frames, i, j)
          BY <3>2
        <4>2. Flight(frames, i, j)' /\ i \in Nat
          BY <2>4, <4>1 DEF Answered
        <4>3. Filled(steps, frames, i, n, h)'
          BY <2>3, <4>1, <4>2 DEF Answered
        <4>4. Answered(steps, h, n, frames, i, j)'
          BY <1>4, <4>1, <4>2, <4>3 DEF Answered
        <4>5. (\E frames_1, i_1, j_1 : Answered(steps, h, n, frames_1, i_1, j_1))'
          BY <4>4
        <4> QED  BY <1>4, <2>2, <4>5 DEF UnderWay
      <3> QED  BY <2>2, <3>1, <3>2 DEF UnderWay
    <2>6. ~Completes(steps, h, k)
      BY <1>3 DEF Completes
    <2>7. Pending(steps, h, n)
      BY <1>1, <1>3, <2>1, <2>6, PendingOn
    <2>8. \A g : Pending(steps, g, n) => g = h
      BY <1>3, <2>7, PendingOne
    <2>9. Awaiting(steps, n)
      BY <2>7 DEF Awaiting
    <2> QED  BY <1>1, <1>2, <1>3, <1>7, <1>10, <2>5, <2>8, <2>9, AdvanceGoing
  <1> QED  BY <1>8, <1>9, <1>10

(* At a wait, for what and in which slots.                                 *)
LEMMA AtWait ==
    ASSUME Serial, Inv, At("wait"), NEW op, op = call.op, NEW k, k = call.k
    PROVE  /\ Running /\ call.ok /\ op \in Ops /\ k \in 1 .. Len(Script[op])
           /\ Script[op][k].do = "wait" /\ Script[op][k].cmd = Step.cmd
           /\ Script[op][k].status = Step.status /\ Step.cmd # CNFINVALID
           /\ Going(Script[op], k)
           /\ \E h : /\ Pending(Script[op], h, k) /\ Expects(Script[op], h, k)
                     /\ \A s \in 1 .. Slots : Cleared(Script[op], k, h, s)
  <1>1. /\ op \in Ops /\ k \in 1 .. Len(Script[op]) /\ Script[op][k].do = "wait"
        /\ Script[op][k].cmd = Step.cmd /\ Script[op][k].status = Step.status
        /\ Len(Script[op]) \in Nat /\ DOMAIN Script[op] = 1 .. Len(Script[op])
    BY AtStep, Tables DEF Inv, Step
  <1>2. Running
    BY DEF At
  <1>3. call.ok
    <2>1. SUFFICES ASSUME ~call.ok PROVE FALSE
      OBVIOUS
    <2>2. Failing(Script[op], k)
      BY <1>2, <2>1, Here
    <2>3. k \in k .. Len(Script[op])
      BY <1>1
    <2> QED  BY <1>1, <2>2, <2>3 DEF Failing
  <1>4. Going(Script[op], k) /\ OneAtATime(Script[op])
    BY <1>2, <1>3, Here
  <1>5. Script[op][k].cmd # CNFINVALID
    BY <1>1, DriverAssumption DEF ScriptAssumption, CNFINVALID
  <1>6. \E h : /\ Pending(Script[op], h, k) /\ Expects(Script[op], h, k)
               /\ \A s \in 1 .. Slots : Cleared(Script[op], k, h, s)
    BY <1>1, <1>4 DEF OneAtATime
  <1> QED  BY <1>1, <1>2, <1>3, <1>4, <1>5, <1>6

(* The answer whose frame Wait4CNF has found.                              *)
LEMMA Found ==
    ASSUME Serial, Inv, At("wait"), Matches, NEW op, op = call.op, NEW k, k = call.k,
           NEW h, Pending(Script[op], h, k), UnderWay(Script[op], h, k),
           \A s \in 1 .. Slots : Cleared(Script[op], k, h, s)
    PROVE  \E frames, i, j : \E m \in 1 .. i :
             /\ Answered(Script[op], h, k, frames, i, j)
             /\ frames[m].cmd = Script[op][k].cmd
             /\ RecordedStatus(frames[m]) = cmdConfirmationArray[call.slot].status
  <1>1. PICK steps, s : steps = Script[op] /\ s = call.slot
    OBVIOUS
  <1>2. /\ s \in 1 .. Slots /\ cmdConfirmationArray[s].cmd = steps[k].cmd
        /\ steps[k].cmd # CNFINVALID
    BY <1>1, AtWait DEF Inv, TypeOK, Position, Matches
  <1>3. ~Empty(s)
    BY <1>2 DEF Empty
  <1>4. ASSUME NEW frames, NEW i, Filled(steps, frames, i, k, h)
        PROVE  \E m \in 1 .. i : cmdConfirmationArray[s] = Content(frames[m])
    BY <1>1, <1>2, <1>3, <1>4 DEF Filled
  <1>5. ~Unread(steps, h, k)
    <2>1. ~ \E m \in 1 .. 0 : TRUE
      OBVIOUS
    <2> QED  BY <1>4, <2>1 DEF Unread
  <1>6. PICK frames, i, j : Answered(steps, h, k, frames, i, j)
    BY <1>1, <1>5 DEF UnderWay
  <1>7. PICK m \in 1 .. i : cmdConfirmationArray[s] = Content(frames[m])
    BY <1>4, <1>6 DEF Answered
  <1>8. /\ frames[m].cmd = steps[k].cmd
        /\ RecordedStatus(frames[m]) = cmdConfirmationArray[s].status
    BY <1>2, <1>7 DEF Content
  <1> QED  BY <1>1, <1>6, <1>8

(* Wait4CNF finds the confirmation: with the last frame of a consent the   *)
(* request is granted, with another of its frames still under way, and the *)
(* frame that differs from the consent is the last one of a refusal.       *)
LEMMA ConfirmedRequesting ==
    ASSUME Serial, Inv, Confirmed PROVE Requesting'
  <1>1. PICK op, k, steps, n : op = call.op /\ k = call.k /\ steps = Script[op] /\ n = k + 1
    OBVIOUS
  <1>2. /\ At("wait") /\ Matches
        /\ UNCHANGED <<asked, requests, served, inbox, outbox, line, cmdConfirmationArray>>
    BY DEF Confirmed, history, module, driver
  <1>3. /\ Running /\ call.ok /\ op \in Ops /\ k \in 1 .. Len(steps) /\ k \in Nat /\ k >= 1
        /\ steps[k].do = "wait" /\ steps[k].cmd = Step.cmd /\ steps[k].status = Step.status
        /\ Going(steps, k) /\ n \in Nat /\ OneAtATime(steps) /\ Len(steps) \in Nat
        /\ DOMAIN steps = 1 .. Len(steps)
    BY <1>1, <1>2, AtWait, Here
  <1>4. PICK h : /\ Pending(steps, h, k) /\ Expects(steps, h, k)
                 /\ \A s \in 1 .. Slots : Cleared(steps, k, h, s)
    BY <1>1, <1>2, AtWait
  <1>5. /\ UnderWay(steps, h, k) /\ h \in Nat /\ requests # 0 /\ requests \in asked
        /\ Answerable(steps[h].cmd)
    <2>1. h \in Nat
      BY <1>3, <1>4 DEF Pending
    <2> QED  BY <1>1, <1>3, <1>4, <2>1, WhileUnderWay
  <1>6. PICK status : status = cmdConfirmationArray[call.slot].status
    OBVIOUS
  <1>7. PICK frames, i, j : \E m \in 1 .. i :
          /\ Answered(steps, h, k, frames, i, j)
          /\ frames[m].cmd = steps[k].cmd /\ RecordedStatus(frames[m]) = status
    BY <1>1, <1>2, <1>4, <1>5, <1>6, Found
  <1>8. PICK m \in 1 .. i :
          /\ Answered(steps, h, k, frames, i, j)
          /\ frames[m].cmd = steps[k].cmd /\ RecordedStatus(frames[m]) = status
    BY <1>7
  <1>9. PICK c, yes : c = steps[h].cmd /\ yes = Reply[c].yes
    OBVIOUS
  <1>10. PICK last \in DOMAIN yes :
           yes[last].cmd = steps[k].cmd /\ RecordedStatus(yes[last]) = steps[k].status
    BY <1>4, <1>9 DEF Expects
  <1>11. /\ frames \in {yes} \cup Refusals(c) /\ Apart(frames) /\ Apart(yes)
         /\ Len(frames) \in Nat /\ m \in 1 .. Len(frames) /\ i \in 0 .. Len(frames)
         /\ DOMAIN frames = 1 .. Len(frames) /\ frames # <<>> /\ Flight(frames, i, j)
    <2>1. frames \in {yes} \cup Refusals(c)
      BY <1>8, <1>9 DEF Answered
    <2>2. Apart(frames) /\ Apart(yes)
      BY <1>5, <1>9, <2>1, AnswerShape
    <2>3. Flight(frames, i, j) /\ Len(frames) \in Nat /\ DOMAIN frames = 1 .. Len(frames)
      BY <1>8, <2>2 DEF Answered, Apart
    <2>4. i \in 0 .. Len(frames) /\ m \in 1 .. Len(frames)
      BY <1>8, <2>3 DEF Flight
    <2>5. frames # <<>>
      BY <2>4
    <2> QED  BY <2>1, <2>2, <2>3, <2>4, <2>5
  <1>12. frames \in Reply[c].no => requests \notin served \/ frames = yes
    BY <1>8, <1>9 DEF Answered
  <1>13. Distinct(c)
    BY <1>5, <1>9 DEF Answerable
  <1>14. i = Len(frames) => Quiet
    BY <1>5, <1>8, <1>11, Landed DEF Answered, Inv
  <1>21. /\ m = Len(frames) => Quiet
         /\ ~(m < Len(frames)) => m = Len(frames)
    <2>1. PICK l : l = Len(frames)
      OBVIOUS
    <2>2. l \in Nat /\ i \in 0 .. l /\ m \in 1 .. l /\ m \in 1 .. i
      BY <1>8, <1>11, <2>1
    <2>3. (m = l => i = l) /\ (~(m < l) => m = l)
      BY <2>2
    <2> QED  BY <1>14, <2>1, <2>3
  <1>15. Quiet => Quiet'
    BY <1>2 DEF Quiet, Unsolicited
  <1>16. served' \subseteq 1 .. requests'
    BY <1>2 DEF Inv, Requesting
  <1>17. \A g : Pending(steps, g, k) => g = h
    BY <1>3, <1>4, PendingOne
  <1>18. CASE status = steps[k].status /\ Completes(steps, h, k)
    <2>1. last = Len(yes)
      <3>1. yes[Len(yes)].cmd = steps[k].cmd
        BY <1>9, <1>18 DEF Completes
      <3>2. Len(yes) \in Nat /\ DOMAIN yes = 1 .. Len(yes) /\ last \in 1 .. Len(yes)
        BY <1>10, <1>11 DEF Apart
      <3>3. Len(yes) \in 1 .. Len(yes)
        BY <3>2
      <3> QED  BY <1>10, <1>11, <3>1, <3>2, <3>3 DEF Apart
    <2>2. frames \notin Reply[c].no
      <3> SUFFICES ASSUME frames \in Reply[c].no PROVE FALSE
        OBVIOUS
      <3>1. m \in DOMAIN frames /\ last \in DOMAIN yes /\ frames[m].cmd = yes[last].cmd
        BY <1>8, <1>10, <1>11
      <3>2. RecordedStatus(frames[m]) # RecordedStatus(yes[last])
        BY <1>9, <1>13, <2>1, <3>1 DEF Distinct
      <3> QED  BY <1>8, <1>10, <1>18, <3>2
    <2>3. frames = yes
      BY <1>11, <2>2 DEF Refusals
    <2>4. requests \in served
      BY <1>8, <1>9, <1>11, <2>2 DEF Answered, Refusals
    <2>5. m = Len(frames)
      BY <1>8, <1>10, <1>11, <2>1, <2>3 DEF Apart
    <2>7. Quiet' /\ asked' \subseteq served'
      BY <1>2, <1>5, <1>21, <1>15, <2>4, <2>5 DEF UnderWay
    <2>8. \A s : ~Cleared(steps, n, n, s)
      <3>1. ~(k > n) /\ steps[k].do = "wait"
        BY <1>1, <1>3
      <3> QED  BY <1>1, <1>3, <3>1, ClearedNext
    <2>9. Settled(steps, n)'
      BY <2>7, <2>8 DEF Settled
    <2>10. \A g : ~Pending(steps, g, n)
      BY <1>1, <1>3, <1>17, <1>18, PendingNext
    <2>11. Advance
      BY <1>3, <1>6, <1>18 DEF Confirmed
    <2> QED  BY <1>1, <1>3, <1>16, <2>9, <2>10, <2>11, AdvanceGoing
  <1>19. CASE status = steps[k].status /\ ~Completes(steps, h, k)
    <2>1. Pending(steps, h, n)
      BY <1>1, <1>3, <1>4, <1>19, PendingOn
    <2>2. steps[n].do # "clear"
      <3>1. n \in 1 .. Len(steps)
        <4>1. n \in 1 .. Len(steps) + 1
          BY <1>1, <1>3
        <4> QED  BY <1>3, <2>1, <4>1, PendingStep
      <3>2. h \in 1 .. n - 1 /\ k \in h + 1 .. n - 1
        BY <1>1, <1>3, <1>4 DEF Pending
      <3> QED  BY <1>3, <2>1, <3>1, <3>2 DEF OneAtATime
    <2>3. Filled(steps, frames, i, n, h)'
      <3>1. i \in Nat /\ Filled(steps, frames, i, k, h)
        BY <1>8, <1>11 DEF Answered
      <3> QED  BY <1>1, <1>2, <1>3, <1>5, <2>2, <3>1, FilledWaited
    <2>4. Flight(frames, i, j)'
      BY <1>2, <1>11 DEF Flight, OfPart, Unsolicited
    <2>5. Answered(steps, h, n, frames, i, j)'
      BY <1>2, <1>8, <2>3, <2>4 DEF Answered
    <2>6. (\E frames_1, i_1, j_1 : Answered(steps, h, n, frames_1, i_1, j_1))'
      BY <2>5
    <2>7. UnderWay(steps, h, n)'
      BY <1>2, <1>5, <2>6 DEF UnderWay
    <2>8. Awaiting(steps, n) /\ \A g : Pending(steps, g, n) => g = h
      BY <1>3, <2>1, PendingOne DEF Awaiting
    <2>9. Advance
      BY <1>3, <1>6, <1>19 DEF Confirmed
    <2> QED  BY <1>1, <1>3, <1>16, <2>7, <2>8, <2>9, AdvanceGoing
  <1>20. CASE status # steps[k].status
    <2>1. frames # yes
      BY <1>8, <1>10, <1>11, <1>20 DEF Apart
    <2>2. frames \in Reply[c].no /\ requests \notin served
      BY <1>11, <1>12, <2>1 DEF Refusals
    <2>3. m = Len(frames)
      <3>1. m \in DOMAIN frames /\ last \in DOMAIN yes /\ frames[m].cmd = yes[last].cmd
        BY <1>8, <1>10, <1>11
      <3>2. ~(m < Len(frames))
        BY <1>8, <1>9, <1>10, <1>13, <1>20, <2>2, <3>1 DEF Distinct
      <3> QED  BY <1>21, <3>2
    <2>4. Quiet
      BY <1>21, <2>3
    <2>5. ~(asked \subseteq served)
      BY <1>5, <2>2
    <2>6. Fail
      BY <1>3, <1>6, <1>20 DEF Confirmed
    <2> QED  BY <1>2, <1>15, <2>4, <2>5, <2>6, FailRequesting
  <1> QED  BY <1>18, <1>19, <1>20

(* A step of Wait4CNF that stays in its loop.                              *)
LEMMA LoopRequesting ==
    ASSUME Serial, Inv, At("wait"), NEW op, op = call.op, NEW k, k = call.k,
           call'.op = op, call'.k = k, call'.ok = call.ok,
           UNCHANGED <<asked, requests, served, inbox, outbox, line, cmdConfirmationArray>>,
           Expired(Script[op], k)'
    PROVE  Requesting'
  <1>1. Running /\ call.ok /\ Going(Script[op], k) /\ Running' /\ call'.ok
    BY AtWait DEF Running
  <1>2. \A h : UnderWay(Script[op], h, k) => UnderWay(Script[op], h, k)'
    <2> TAKE h
    <2>1. \A x \in DOMAIN line : Unsolicited(line[x])' <=> Unsolicited(line[x])
      BY DEF Unsolicited
    <2>2. \A frames, i : Filled(Script[op], frames, i, k, h)
                         => Filled(Script[op], frames, i, k, h)'
      BY DEF Filled, Content, Empty
    <2>3. \A frames, i, j : Flight(frames, i, j) => Flight(frames, i, j)'
      BY DEF Flight, OfPart, Unsolicited
    <2>4. \A frames, i, j : Answered(Script[op], h, k, frames, i, j)
                            => Answered(Script[op], h, k, frames, i, j)'
      BY <2>2, <2>3 DEF Answered
    <2>5. Unread(Script[op], h, k) => Unread(Script[op], h, k)'
      BY <2>2 DEF Unread, Unsolicited
    <2> QED  BY <2>4, <2>5 DEF UnderWay
  <1>3. Settled(Script[op], k) => Settled(Script[op], k)'
    BY DEF Settled, Quiet, Unsolicited, Empty
  <1>4. Going(Script[op], k)'
    BY <1>1, <1>2, <1>3 DEF Going
  <1>5. served' \subseteq 1 .. requests'
    BY DEF Inv, Requesting
  <1> QED  BY <1>1, <1>4, <1>5 DEF Requesting

(* Wait4CNF looks at the next slot.                                        *)
LEMMA NextSlotRequesting ==
    ASSUME Serial, Inv, NextSlot PROVE Requesting'
  <1>1. PICK op, k, s, steps :
          op = call.op /\ k = call.k /\ s = call.slot /\ steps = Script[op]
    OBVIOUS
  <1>2. /\ At("wait") /\ ~Matches /\ call' = [call EXCEPT !.slot = s + 1]
        /\ UNCHANGED <<asked, requests, served, inbox, outbox, line, cmdConfirmationArray>>
    BY <1>1 DEF NextSlot, history, module, driver
  <1>3. call \in Position /\ s \in 1 .. Slots /\ Slots \in Nat
    BY <1>1, Tables DEF Inv, TypeOK, Position
  <1>4. /\ call'.op = op /\ call'.k = k /\ call'.ok = call.ok /\ call'.count = call.count
        /\ call'.slot = s + 1
    BY <1>1, <1>2, <1>3 DEF Position
  <1>5. /\ steps[k].cmd = Step.cmd /\ Going(steps, k) /\ \E h : Pending(steps, h, k)
    BY <1>1, <1>2, AtWait
  <1>6. Expired(steps, k)'
    <2>5. call'.slot - 1 = s
      BY <1>3, <1>4
    <2> SUFFICES ASSUME call.count >= MaxCount
                 PROVE  /\ Quiet'
                        /\ \A t \in 1 .. s : cmdConfirmationArray'[t].cmd # steps[k].cmd
      BY <1>4, <2>5 DEF Expired
    <2>1. /\ Quiet
          /\ \A t \in 1 .. s - 1 : cmdConfirmationArray[t].cmd # steps[k].cmd
      BY <1>1, <1>5 DEF Going, Expired
    <2>2. cmdConfirmationArray[s].cmd # steps[k].cmd
      BY <1>1, <1>2, <1>5 DEF Matches
    <2>3. \A t \in 1 .. s : t = s \/ t \in 1 .. s - 1
      BY <1>3
    <2>4. Quiet'
      BY <1>2, <2>1 DEF Quiet, Unsolicited
    <2> QED  BY <1>2, <2>1, <2>2, <2>3, <2>4
  <1> QED  BY <1>1, <1>2, <1>4, <1>6, LoopRequesting

(* When the module has said all it has to say.                             *)
LEMMA SaidAll ==
    ASSUME Serial, Inv, At("wait"), Unanswered PROVE Quiet
  <1>1. PICK op, k, steps : op = call.op /\ k = call.k /\ steps = Script[op]
    OBVIOUS
  <1>2. PICK h : Pending(steps, h, k)
    BY <1>1, AtWait
  <1>3. UnderWay(steps, h, k) /\ requests \in asked /\ Answerable(steps[h].cmd)
    BY <1>1, <1>2, AtWait, WhileUnderWay
  <1>4. /\ \A x \in DOMAIN inbox : inbox[x].req # requests
        /\ \A x \in DOMAIN outbox : outbox[x].req # requests
        /\ \A x \in DOMAIN line : line[x].req # requests
    BY <1>3 DEF Unanswered, Range
  <1>5. ~Unread(steps, h, k)
    <2> SUFFICES ASSUME Unread(steps, h, k) PROVE FALSE
      OBVIOUS
    <2>1. PICK msg : msg = [cmd |-> steps[h].cmd, req |-> requests]
      OBVIOUS
    <2>2. inbox = <<msg>> /\ msg.req = requests
      BY <2>1 DEF Unread
    <2>3. 1 \in DOMAIN inbox /\ inbox[1] = msg
      BY <2>2
    <2> QED  BY <1>4, <2>2, <2>3
  <1>6. PICK frames, i, j : Answered(steps, h, k, frames, i, j)
    BY <1>3, <1>5 DEF UnderWay
  <1>7. inbox = <<>> /\ Flight(frames, i, j) /\ Apart(frames)
    BY <1>3, <1>6, AnswerShape DEF Answered
  <1>8. outbox = <<>>
    <2>1. PICK l, d : l = Len(frames) /\ d = l - j
      OBVIOUS
    <2>2. l \in Nat /\ j \in 0 .. l /\ Len(outbox) = d /\ d \in Nat /\ outbox \in Seq(Frame)
          /\ \A m \in 1 .. d : OfPart(outbox[m], frames[j + m])
      BY <1>7, <2>1 DEF Flight, Apart, Inv, TypeOK
    <2>3. DOMAIN outbox = 1 .. d
      BY <2>2
    <2>4. ASSUME d # 0 PROVE FALSE
      <3>1. 1 \in 1 .. d
        BY <2>2, <2>4
      <3> QED  BY <1>4, <2>2, <2>3, <3>1 DEF OfPart
    <2> QED  BY <2>2, <2>4
  <1>9. \A x \in DOMAIN line : Unsolicited(line[x])
    BY <1>4, <1>7 DEF Flight, OfPart
  <1> QED  BY <1>7, <1>8, <1>9 DEF Quiet

(* Wait4CNF has looked at all slots and waits.                             *)
LEMMA DelayRequesting ==
    ASSUME Serial, Timely, Inv, Delay PROVE Requesting'
  <1>1. PICK op, k, c : op = call.op /\ k = call.k /\ c = call.count
    OBVIOUS
  <1>2. /\ At("wait") /\ c < MaxCount /\ (c + 1 = MaxCount => Unanswered)
        /\ call' = [call EXCEPT !.slot = 1, !.count = c + 1]
        /\ UNCHANGED <<asked, requests, served, inbox, outbox, line, cmdConfirmationArray>>
    BY <1>1 DEF Delay, Timely, history, module, driver
  <1>3. call \in Position /\ c \in Nat /\ MaxCount \in Nat
    BY <1>1, DriverAssumption DEF Inv, TypeOK, Position
  <1>4. /\ call'.op = op /\ call'.k = k /\ call'.ok = call.ok /\ call'.count = c + 1
        /\ call'.slot = 1
    BY <1>1, <1>2, <1>3 DEF Position
  <1>5. Expired(Script[op], k)'
    <2> SUFFICES ASSUME c + 1 >= MaxCount PROVE Quiet' /\ 1 .. 1 - 1 = {}
      BY <1>4 DEF Expired
    <2>1. Quiet
      BY <1>2, <1>3, SaidAll
    <2> QED  BY <1>2, <2>1 DEF Quiet, Unsolicited
  <1> QED  BY <1>1, <1>2, <1>4, <1>5, LoopRequesting

(* Wait4CNF gives up: nothing has come, and nothing will.                  *)
LEMMA GiveUpRequesting ==
    ASSUME Serial, Inv, GiveUp PROVE Requesting'
  <1>1. PICK op, k, steps : op = call.op /\ k = call.k /\ steps = Script[op]
    OBVIOUS
  <1>2. /\ At("wait") /\ ~Matches /\ call.slot = Slots /\ call.count >= MaxCount /\ Fail
        /\ UNCHANGED <<asked, requests, served, inbox, outbox, line, cmdConfirmationArray>>
    BY DEF GiveUp, history, module, driver
  <1>3. PICK h : Pending(steps, h, k) /\ Expects(steps, h, k)
    BY <1>1, <1>2, AtWait
  <1>4. /\ UnderWay(steps, h, k) /\ Expired(steps, k) /\ requests # 0 /\ requests \in asked
        /\ Answerable(steps[h].cmd) /\ steps[k].do = "wait" /\ steps[k].cmd = Step.cmd
    BY <1>1, <1>2, <1>3, AtWait, WhileUnderWay
  <1>5. Quiet /\ \A s \in 1 .. Slots : cmdConfirmationArray[s].cmd # steps[k].cmd
    <2>1. Quiet /\ \A s \in 1 .. Slots - 1 : cmdConfirmationArray[s].cmd # steps[k].cmd
      BY <1>2, <1>4 DEF Expired
    <2>2. cmdConfirmationArray[Slots].cmd # steps[k].cmd
      BY <1>2, <1>4 DEF Matches
    <2>3. \A s \in 1 .. Slots : s = Slots \/ s \in 1 .. Slots - 1
      BY Tables
    <2> QED  BY <2>1, <2>2, <2>3
  <1>6. ASSUME MaxFaults = 0, asked \subseteq served PROVE FALSE
    <2>1. requests \in served
      BY <1>4, <1>6
    <2>2. PICK frames, i, j : Answered(steps, h, k, frames, i, j)
      BY <1>4, <2>1 DEF UnderWay, Unread
    <2>3. /\ frames = Reply[steps[h].cmd].yes /\ inbox = <<>> /\ Flight(frames, i, j)
          /\ Apart(frames) /\ Len(frames) <= Slots
          /\ \A m \in 1 .. i : cmdConfirmationArray[m] = Content(frames[m])
      BY <1>4, <1>6, <2>1, <2>2, AnswerShape DEF Answered, Filled
    <2>4. i = Len(frames)
      BY <1>4, <1>5, <2>3, Landed DEF Inv, Apart
    <2>5. PICK n \in 1 .. Len(frames) : frames[n].cmd = steps[k].cmd
      BY <1>3, <2>3 DEF Expects, Apart
    <2>6. n \in 1 .. i /\ n \in 1 .. Slots
      BY <2>3, <2>4, <2>5, Tables DEF Apart
    <2>7. cmdConfirmationArray[n] = Content(frames[n])
      BY <2>3, <2>6
    <2>8. cmdConfirmationArray[n].cmd = steps[k].cmd
      BY <2>5, <2>7 DEF Content
    <2> QED  BY <1>5, <2>6, <2>8
  <1>7. Quiet'
    BY <1>2, <1>5 DEF Quiet, Unsolicited
  <1> QED  BY <1>2, <1>5, <1>6, <1>7, FailRequesting

-----------------------------------------------------------------------------
(* Every step.                                                             *)
LEMMA RequestingMain ==
    ASSUME Serial, Timely, Inv, MainStep PROVE Requesting'
  <1>1. CASE Fault \/ Transmit \/ HoldInReset \/ ClearSlot
    BY <1>1, FaultRequesting, TransmitRequesting, HoldRequesting, ClearRequesting
  <1>2. CASE Confirmed \/ NextSlot \/ Delay \/ GiveUp
    BY <1>2, ConfirmedRequesting, NextSlotRequesting, DelayRequesting, GiveUpRequesting
  <1>3. CASE ReadPacket
    BY <1>3, OwnRequesting DEF ReadPacket, driver, module
  <1>4. CASE CheckPacket
    BY <1>4, OwnRequesting DEF CheckPacket, driver, module, history
  <1>5. CASE SetState
    BY <1>5, OwnRequesting DEF SetState, driver, module, history
  <1>6. CASE OpenUart
    BY <1>6, OwnRequesting DEF OpenUart, module, history
  <1>7. CASE CloseUart
    BY <1>7, OwnRequesting DEF CloseUart, module, history
  <1>8. CASE \E holds \in BOOLEAN : TestState(holds)
    BY <1>8, OwnRequesting DEF TestState, driver, module, history
  <1>9. CASE Finish
    BY <1>9, FinishRequesting
  <1> QED  BY <1>1, <1>2, <1>3, <1>4, <1>5, <1>6, <1>7, <1>8, <1>9 DEF MainStep

(* Every step of the system.                                               *)
LEMMA RequestingStep ==
    ASSUME Serial, Timely, Inv, [Next]_vars PROVE Requesting'
  <1>1. CASE \E op \in Ops : Start(op)
    BY <1>1, StartRequesting
  <1>2. CASE MainStep
    BY <1>2, RequestingMain
  <1>3. CASE HandleRxPacket \/ LoseFrame
    BY <1>3, ReceiveRequesting, LoseRequesting
  <1>4. CASE ModuleStep
    <2>1. ~Restart
      BY DEF Timely, Restart
    <2> QED
      BY <1>4, <2>1, AnswerRequesting, EmitRequesting, IndicateRequesting DEF ModuleStep
  <1>5. CASE UNCHANGED vars
    <2>1. UNCHANGED <<call, asked, requests, served, inbox, outbox, line,
                      cmdConfirmationArray>>
      BY <1>5 DEF vars, history, module, driver
    <2>2. Untouched
      BY <2>1 DEF Untouched, Empty
    <2>3. \A frames, i, j : Flight(frames, i, j) => Flight(frames, i, j)'
      BY <2>1 DEF Flight, OfPart, Unsolicited
    <2>4. (\A x \in DOMAIN line : Unsolicited(line[x]))
             => (\A x \in DOMAIN line : Unsolicited(line[x]))'
      BY <2>1 DEF Unsolicited
    <2> QED  BY <2>1, <2>2, <2>3, <2>4, NoiseStep
  <1> QED  BY <1>1, <1>2, <1>3, <1>4, <1>5 DEF Next

-----------------------------------------------------------------------------
(* The UART.                                                               *)

(* A step that succeeds.                                                   *)
LEMMA PoweredAdvance ==
    ASSUME Serial, Inv, NEW what, At(what), what # "return", Advance, ready' = ready,
           what = "open" => uartOpen',
           what \notin {"open", "close"} => uartOpen' = uartOpen
    PROVE  Powered'
  <1>1. PICK op, k, steps, n : op = call.op /\ k = call.k /\ steps = Script[op] /\ n = k + 1
    OBVIOUS
  <1>2. Running
    BY DEF At
  <1>3. /\ k \in 1 .. Len(steps) /\ k \in DOMAIN steps /\ steps[k].do = what /\ op \in Ops
        /\ call \in Position /\ OpenMeanwhile(op) /\ n - 1 = k /\ Len(steps) \in Nat
    BY <1>1, <1>2, AtStep, Here, SerialTables DEF Inv, Step
  <1>4. call'.op = op /\ call'.k = n /\ call'.ok = call.ok /\ Running'
    BY <1>1, <1>2, <1>3 DEF Advance, Position, Running
  <1>5. /\ \A w : Past(steps, k, w) => Past(steps, n, w)
        /\ Past(steps, n, what)
        /\ \A w : Past(steps, n, w) => w = what \/ Past(steps, k, w)
    <2>1. \A y \in 1 .. k - 1 : y \in 1 .. k
      BY <1>3
    <2>2. \A y \in 1 .. k : y = k \/ y \in 1 .. k - 1
      BY <1>3
    <2> QED  BY <1>3, <2>1, <2>2 DEF Past
  <1>6. call.ok => ~Past(steps, k, "return")
    BY <1>1, <1>2, Here DEF Going, Past
  <1>7. (op \notin Opening) =>
          /\ ready
          /\ uartOpen \/ (op \in Closing /\ call.ok /\ Past(steps, k, "close"))
    BY <1>1, <1>2 DEF Inv, Powered
  <1>8. (op \in Opening /\ call.ok) => (Past(steps, k, "open") => uartOpen)
    BY <1>1, <1>2 DEF Inv, Powered
  <1>9. ~(~call.ok /\ \A y \in DOMAIN steps : steps[y].fail = 0)
    <2>1. k # Len(steps) + 1
      BY <1>3
    <2> QED  BY <1>1, <1>2, <2>1 DEF Inv, Powered
  <1>10. what = "close" => \/ op \in Opening /\ Past(steps, k, "return")
                           \/ op \in Closing \ Opening /\ call.ok
    <2> SUFFICES ASSUME what = "close", ~(op \in Opening /\ Past(steps, k, "return"))
                 PROVE  op \in Closing \ Opening /\ call.ok
      OBVIOUS
    <2>1. /\ op \in Closing \ Opening
          /\ \A y \in DOMAIN steps : steps[y].fail = 0
      BY <1>1, <1>3 DEF OpenMeanwhile, Past
    <2> QED  BY <1>9, <2>1 DEF Inv, TypeOK, Position
  <1>11. (op \notin Opening) =>
           /\ ready'
           /\ uartOpen' \/ (op \in Closing /\ call.ok /\ Past(steps, n, "close"))
    BY <1>5, <1>7, <1>10
  <1>12. (op \in Opening /\ call.ok) => (Past(steps, n, "open") => uartOpen')
    BY <1>5, <1>6, <1>8, <1>10
  <1> QED  BY <1>1, <1>4, <1>9, <1>11, <1>12 DEF Powered

(* A step that fails.                                                      *)
LEMMA PoweredFail ==
    ASSUME Serial, Inv, NEW what, At(what), what \notin {"clear", "set", "return"}, Fail,
           UNCHANGED <<ready, uartOpen>>
    PROVE  Powered'
  <1>1. PICK op, k, steps : op = call.op /\ k = call.k /\ steps = Script[op]
    OBVIOUS
  <1>2. Running
    BY DEF At
  <1>3. /\ k \in 1 .. Len(steps) /\ k \in DOMAIN steps /\ steps[k].do = what /\ op \in Ops
        /\ call \in Position /\ OpenMeanwhile(op) /\ Len(steps) \in Nat
        /\ DOMAIN steps = 1 .. Len(steps)
    BY <1>1, <1>2, AtStep, Here, SerialTables DEF Inv, Step
  <1>4. /\ call'.op = op /\ ~call'.ok /\ Running'
        /\ steps[k].fail = 0 => call'.k = Len(steps) + 1
    BY <1>1, <1>2, <1>3 DEF Fail, Position, Running, Length, Step
  <1>5. ASSUME op \notin Opening PROVE ready /\ uartOpen
    <2>1. SUFFICES ASSUME Past(steps, k, "close") PROVE FALSE
      BY <1>1, <1>2, <1>5 DEF Inv, Powered
    <2>2. PICK c \in 1 .. k - 1 : steps[c].do = "close"
      BY <2>1 DEF Past
    <2>3. c \in DOMAIN steps /\ k > c
      BY <1>3, <2>2
    <2> QED  BY <1>1, <1>3, <1>5, <2>2, <2>3 DEF OpenMeanwhile
  <1> QED  BY <1>1, <1>3, <1>4, <1>5 DEF Powered

(* A step that leaves the call where it is.                                *)
LEMMA PoweredStay ==
    ASSUME Inv, UNCHANGED <<ready, uartOpen>>, call'.op = call.op, call'.k = call.k,
           call'.ok = call.ok
    PROVE  Powered'
BY DEF Inv, Powered, Running

(* A call begins.                                                          *)
LEMMA PoweredStart ==
    ASSUME Serial, Inv, NEW op \in Ops, Start(op) PROVE Powered'
  <1>1. /\ ~Running /\ (op \in Opening) = ~ready /\ UNCHANGED <<ready, uartOpen>>
        /\ call'.op = op /\ call'.k = 1 /\ call'.ok = TRUE
    BY DEF Start, driver, Idle
  <1>2. \A w : ~Past(Script[op], 1, w)
    BY DEF Past
  <1>3. ready \in BOOLEAN
    BY DEF Inv, TypeOK
  <1>4. op # "none"
    BY Tables
  <1> QED  BY <1>1, <1>2, <1>3, <1>4 DEF Inv, Powered, Running, NoOp

(* Init returns true with the UART open.                                   *)
LEMMA PoweredFinish ==
    ASSUME Serial, Inv, Finish PROVE Powered'
  <1>1. PICK op, k, steps : op = call.op /\ k = call.k /\ steps = Script[op]
    OBVIOUS
  <1>2. /\ Running /\ (k <= Len(steps) => steps[k].do = "return") /\ uartOpen' = uartOpen
        /\ call'.op = NoOp
        /\ ready' = CASE op \in Opening -> call.ok
                      [] op \in Closing -> ready /\ ~call.ok
                      [] OTHER          -> ready
    BY <1>1 DEF Finish, Ended, Length, Step, Idle
  <1>3. SUFFICES ASSUME ready' PROVE uartOpen
    BY <1>2 DEF Powered, Running
  <1>4. CASE op \in Opening
    <2>1. call.ok
      BY <1>2, <1>3, <1>4 DEF Serial
    <2>2. /\ k \in 1 .. Len(steps) + 1 /\ ~Past(steps, k, "return") /\ OpenMeanwhile(op)
      BY <1>1, <1>2, <2>1, Here, SerialTables DEF Going, Past
    <2>3. Past(steps, k, "open")
      BY <1>1, <1>2, <1>4, <2>2 DEF OpenMeanwhile, Past
    <2> QED  BY <1>1, <1>2, <1>4, <2>1, <2>3 DEF Inv, Powered
  <1>5. CASE op \in Closing \ Opening
    <2>1. ready /\ ~call.ok
      BY <1>2, <1>3, <1>5
    <2> QED  BY <1>1, <1>2, <1>5, <2>1 DEF Inv, Powered
  <1>6. CASE op \notin Closing \cup Opening
    BY <1>1, <1>2, <1>6 DEF Inv, Powered
  <1> QED  BY <1>4, <1>5, <1>6

(* Every step of the main program.                                         *)
LEMMA PoweredMain ==
    ASSUME Serial, Inv, MainStep PROVE Powered'
  <1>1. CASE Fault
    <2>1. PICK what \in {"send", "pin", "hold", "open", "close"} : At(what)
      BY <1>1 DEF Fault
    <2> QED  BY <1>1, <2>1, PoweredFail DEF Fault, driver
  <1>2. CASE Transmit \/ HoldInReset \/ ClearSlot
    <2>1. PICK what \in {"send", "hold", "clear"} : At(what)
      BY <1>2 DEF Transmit, HoldInReset, ClearSlot
    <2> QED  BY <1>2, <2>1, PoweredAdvance DEF Transmit, HoldInReset, ClearSlot, driver
  <1>3. CASE Confirmed \/ GiveUp
    BY <1>3, PoweredAdvance, PoweredFail DEF Confirmed, GiveUp, driver
  <1>4. CASE NextSlot \/ Delay
    <2>1. call \in Position
      BY DEF Inv, TypeOK
    <2>2. call'.op = call.op /\ call'.k = call.k /\ call'.ok = call.ok
      BY <1>4, <2>1 DEF NextSlot, Delay, Position
    <2>3. UNCHANGED <<ready, uartOpen>>
      BY <1>4 DEF NextSlot, Delay, driver
    <2> QED  BY <2>2, <2>3, PoweredStay
  <1>5. CASE ReadPacket
    BY <1>5, PoweredAdvance DEF ReadPacket, driver
  <1>6. CASE CheckPacket
    BY <1>6, PoweredAdvance, PoweredFail DEF CheckPacket, driver
  <1>7. CASE SetState
    <2>1. PICK what \in {"set", "pin"} : At(what)
      BY <1>7 DEF SetState
    <2> QED  BY <1>7, <2>1, PoweredAdvance DEF SetState, driver
  <1>8. CASE OpenUart
    BY <1>8, PoweredAdvance DEF OpenUart
  <1>9. CASE CloseUart
    BY <1>9, PoweredAdvance DEF CloseUart
  <1>10. CASE \E holds \in BOOLEAN : TestState(holds)
    BY <1>10, PoweredAdvance, PoweredFail DEF TestState, driver
  <1>11. CASE Finish
    BY <1>11, PoweredFinish
  <1> QED
    BY <1>1, <1>2, <1>3, <1>4, <1>5, <1>6, <1>7, <1>8, <1>9, <1>10, <1>11 DEF MainStep

(* Every step of the system.                                               *)
LEMMA PoweredStep ==
    ASSUME Serial, Inv, [Next]_vars PROVE Powered'
  <1>1. CASE \E op \in Ops : Start(op)
    BY <1>1, PoweredStart
  <1>2. CASE MainStep
    BY <1>2, PoweredMain
  <1>3. CASE HandleRxPacket \/ LoseFrame \/ ModuleStep \/ UNCHANGED vars
    <2>1. UNCHANGED <<call, ready, uartOpen>>
      BY <1>3 DEF HandleRxPacket, LoseFrame, ModuleStep, Answer, Emit, Indicate, Restart,
                  vars, driver
    <2> QED  BY <2>1, PoweredStay
  <1> QED  BY <1>1, <1>2, <1>3 DEF Next

-----------------------------------------------------------------------------
(* What follows from the invariant.                                        *)

(* Nothing is under way at first.                                          *)
LEMMA InvInit == Init => Inv
  <1> SUFFICES ASSUME Init PROVE Inv
    OBVIOUS
  <1>1. ~Running /\ ready = FALSE /\ served = {}
    BY DEF Init, Running, Idle
  <1>2. inbox = <<>> /\ outbox = <<>> /\ line = <<>>
    BY DEF Init
  <1>3. Quiet
    BY <1>2 DEF Quiet
  <1>4. Requesting /\ Powered
    BY <1>1, <1>3 DEF Requesting, Powered
  <1> QED  BY <1>4, TypeInit DEF Inv

(* The invariant is inductive.                                             *)
LEMMA InvStep ==
    ASSUME Serial, Timely PROVE Inv /\ [Next]_vars => Inv'
  <1> SUFFICES ASSUME Inv, [Next]_vars PROVE Inv'
    OBVIOUS
  <1>1. TypeOK'
    BY TypeStep DEF Inv
  <1> QED  BY <1>1, RequestingStep, PoweredStep DEF Inv

(* A driver that makes one request at a time, and whose module answers in  *)
(* time, always knows what is under way: the request has not been read, or *)
(* the frames of its answer are in order in the array, on the line and     *)
(* with the module.                                                        *)
THEOREM Invariance ==
    ASSUME Serial, Timely PROVE Spec => []Inv
  <1>1. Init => Inv
    BY InvInit
  <1>2. Inv /\ [Next]_vars => Inv'
    BY InvStep
  <1> QED  BY <1>1, <1>2, PTL DEF Spec

(* The frame that the interrupt takes off the line finds a slot.           *)
LEMMA NeverDroppedStep ==
    ASSUME Serial, Timely, Inv, [Next]_vars, NEW f \in Range(line),
           line # <<>>, f = Head(line), line' = Tail(line), uartOpen,
           f.cmd \in Recorded, Awaited(f), faults' = faults
    PROVE  InArray(f)'
  <1>1. PICK op, k, steps : op = call.op /\ k = call.k /\ steps = Script[op]
    OBVIOUS
  <1>2. line \in Seq(Frame) /\ 1 \in DOMAIN line /\ f = line[1]
    BY DEF Inv, TypeOK
  <1>3. ~Unsolicited(f)
    BY DEF Unsolicited
  <1>4. ~Quiet
    BY <1>2, <1>3 DEF Quiet
  <1>5. PICK h : Running /\ call.ok /\ Pending(steps, h, k)
    BY <1>1, <1>4, Somebody
  <1>6. /\ UnderWay(steps, h, k) /\ requests # 0 /\ Answerable(steps[h].cmd)
        /\ steps[k].do \in {"clear", "wait"} /\ op \in Ops /\ k \in 1 .. Len(steps)
        /\ requests \in asked
    BY <1>1, <1>5, WhileUnderWay
  <1>7. PICK frames, i, j : Answered(steps, h, k, frames, i, j)
    BY <1>2, <1>3, <1>6 DEF UnderWay, Unread
  <1>8. /\ Apart(frames) /\ Len(frames) <= Slots /\ Flight(frames, i, j)
        /\ \A m \in 1 .. Len(frames) : frames[m].cmd \in Recorded
        /\ Filled(steps, frames, i, k, h)
    BY <1>6, <1>7, AnswerShape DEF Answered
  <1>9. HandleRxPacket
    <2>1. PICK l : l = Len(line)
      OBVIOUS
    <2>2. l \in Nat /\ l > 0 /\ Len(line') = l - 1
      BY <1>2, <2>1
    <2>3. line' # line
      BY <2>1, <2>2
    <2>4. \A g : line' # Append(line, g)
      BY <1>2, <2>1, <2>2
    <2>5. ~At("open")
      BY <1>1, <1>6 DEF At, Step
    <2>6. ~LoseFrame
      <3>1. faults \in Nat
        BY Bounds DEF Inv, TypeOK
      <3> QED  BY <3>1 DEF LoseFrame
    <2>7. ~(\E o \in Ops : Start(o)) /\ ~ModuleStep /\ ~UNCHANGED vars
      BY <2>3, <2>4 DEF Start, ModuleStep, Answer, Emit, Indicate, Restart, vars
    <2>8. ~MainStep
      BY <2>3, <2>5 DEF MainStep, Fault, Transmit, HoldInReset, ClearSlot, Confirmed, NextSlot,
                        Delay, GiveUp, ReadPacket, CheckPacket, SetState, OpenUart, CloseUart,
                        Finish, TestState
    <2> QED  BY <2>6, <2>7, <2>8 DEF Next
  <1>10. /\ i < j /\ OfPart(f, frames[i + 1]) /\ i \in Nat /\ i < Len(frames)
         /\ Len(frames) \in Nat
    <2>1. UNCHANGED <<outbox, requests>>
      BY <1>9 DEF HandleRxPacket, module, history
    <2>2. i < j /\ OfPart(f, frames[i + 1])
      BY <1>3, <1>6, <1>8, <2>1, FlightTake DEF Inv
    <2> QED  BY <1>8, <2>2 DEF Flight, Apart
  <1>11. /\ steps[k].do = "wait"
         /\ \A s \in 1 .. Slots : Cleared(steps, k, h, s)
    BY <1>1, <1>5, <1>9, <1>10, InLoop DEF HandleRxPacket, OfPart
  <1>12. Store(f) /\ requests' = requests
    BY <1>9 DEF HandleRxPacket, history
  <1>13. PICK s \in 1 .. Slots : cmdConfirmationArray'[s] = Content(frames[i + 1])
    BY <1>8, <1>10, <1>11, <1>12, FilledStore DEF Inv
  <1>14. cmdConfirmationArray'[s].req = f.req /\ cmdConfirmationArray'[s].cmd = f.cmd
    BY <1>10, <1>13 DEF Content, OfPart
  <1> QED  BY <1>14 DEF InArray

(* An answer that a call still waits for never meets a full array, however *)
(* many frames are lost on the line and whatever the module sends unasked. *)
THEOREM AwaitedKept ==
    ASSUME Serial, Timely PROVE Spec => AwaitedNeverDropped
  <1>1. Spec => []Inv
    BY Invariance
  <1>2. Inv /\ [Next]_vars => [FindsSlot]_vars
    <2> SUFFICES ASSUME Inv, [Next]_vars PROVE FindsSlot
      OBVIOUS
    <2> QED  BY NeverDroppedStep DEF FindsSlot
  <1> QED  BY <1>1, <1>2, PTL DEF Spec, AwaitedNeverDropped

-----------------------------------------------------------------------------
(* The contract with the caller.                                           *)

(* Steps that a caller does not see.                                       *)
LEMMA Unseen ==
    ASSUME call'.op = call.op, UNCHANGED <<asked, served, returned>>
    PROVE  UNCHANGED Contract!contract
BY DEF Contract!contract, Running, Outcome

(* The request is what the contract calls asking.                          *)
LEMMA ContractTransmit ==
    ASSUME Serial, Inv, Transmit PROVE Contract!Ask
  <1>1. PICK r : r = requests + 1
    OBVIOUS
  <1>2. /\ asked' = asked \cup {r} /\ UNCHANGED <<served, returned>> /\ Advance /\ Running
    BY <1>1 DEF Transmit, At
  <1>3. Running'
    BY <1>2 DEF Advance, Running, Inv, TypeOK, Position
  <1>4. r \notin asked /\ r \notin served
    BY <1>1 DEF Inv, TypeOK, Requesting
  <1>5. served' \cap asked' = served \cap asked /\ r \in asked'
    BY <1>2, <1>4
  <1> QED  BY <1>2, <1>3, <1>4, <1>5 DEF Contract!Ask, Outcome

(* Only the latest request is granted, and while the call runs.            *)
LEMMA ContractAnswer ==
    ASSUME Serial, Inv, NEW granted \in BOOLEAN, Answer(granted)
    PROVE  Contract!Grant \/ UNCHANGED Contract!contract
  <1>1. PICK r : r = Head(inbox)
    OBVIOUS
  <1>2. /\ inbox # <<>> /\ UNCHANGED <<call, asked, returned>>
        /\ served' = IF granted THEN served \cup {r.req} ELSE served
    BY <1>1 DEF Answer, history
  <1>3. CASE ~granted
    BY <1>2, <1>3, Unseen
  <1>4. CASE granted
    <2>1. PICK op, k : op = call.op /\ k = call.k
      OBVIOUS
    <2>2. ~Quiet
      BY <1>2 DEF Quiet
    <2>3. PICK h : Running /\ call.ok /\ Pending(Script[op], h, k)
      BY <2>1, <2>2, Somebody
    <2>4. UnderWay(Script[op], h, k)
      BY <2>1, <2>3, WhileUnderWay
    <2>5. Unread(Script[op], h, k) /\ requests \in asked
      BY <1>2, <2>4 DEF UnderWay, Answered
    <2>6. r.req \in asked /\ r.req \notin served
      BY <1>1, <2>5 DEF Unread
    <2>7. served' \cap asked' = (served \cap asked) \cup {r.req}
      BY <1>2, <1>4, <2>6
    <2>8. Running'
      BY <1>2, <2>3 DEF Running
    <2>9. Contract!Grant
      BY <1>2, <2>3, <2>6, <2>7, <2>8 DEF Contract!Grant, Outcome
    <2> QED  BY <2>9
  <1> QED  BY <1>3, <1>4

(* A call that has waited for all its answers returns true, one that found *)
(* a refusal or nothing at all returns false.                              *)
LEMMA ContractFinish ==
    ASSUME Serial, MaxFaults = 0, Inv, Finish PROVE Contract!Return
  <1>1. PICK op, k, steps : op = call.op /\ k = call.k /\ steps = Script[op]
    OBVIOUS
  <1>2. /\ Running /\ (k <= Len(steps) => steps[k].do = "return") /\ ~Running'
        /\ UNCHANGED <<asked, served>>
        /\ returned'.op = op /\ returned'.ok = call.ok /\ returned'.why = call.why
    BY <1>1 DEF Finish, Ended, Length, Step, Idle, Running, history, module
  <1>3. op # NoOp /\ call.ok \in BOOLEAN
    BY <1>1, <1>2 DEF Running, Inv, TypeOK, Position
  <1>4. call.ok => asked \subseteq served
    BY <1>1, <1>2, NothingPending DEF Settled
  <1>5. ~call.ok /\ call.why = "wait" => ~(asked \subseteq served)
    BY <1>2 DEF Inv, Requesting, Failing
  <1>6. /\ Outcome' \in {"true", "false", "declined"}
        /\ Outcome' = "true" => call.ok
        /\ Outcome' = "false" => ~call.ok /\ call.why = "wait"
    BY <1>2, <1>3 DEF Outcome
  <1>7. asked \subseteq served <=> asked \subseteq served \cap asked
    OBVIOUS
  <1> QED  BY <1>2, <1>4, <1>5, <1>6, <1>7 DEF Contract!Return

(* Every step of the main program is one of the contract's, or unseen.     *)
LEMMA ContractMain ==
    ASSUME Serial, MaxFaults = 0, Inv, MainStep
    PROVE  Contract!Next \/ UNCHANGED Contract!contract
  <1>1. call \in Position
    BY DEF Inv, TypeOK
  <1>2. CASE Transmit
    BY <1>2, ContractTransmit DEF Contract!Next
  <1>3. CASE Finish
    BY <1>3, ContractFinish DEF Contract!Next
  <1>4. CASE HoldInReset
    <2>1. served' = served
      BY <1>4, HoldLosesNothing
    <2>2. call'.op = call.op /\ UNCHANGED <<asked, returned>>
      BY <1>1, <1>4 DEF HoldInReset, Advance, Position, history
    <2> QED  BY <2>1, <2>2, Unseen
  <1>5. CASE Fault \/ ClearSlot \/ Confirmed \/ NextSlot \/ Delay \/ GiveUp
    <2>1. call'.op = call.op
      BY <1>1, <1>5 DEF Fault, ClearSlot, Confirmed, NextSlot, Delay, GiveUp, Advance, Fail,
                        Position
    <2>2. UNCHANGED <<asked, served, returned>>
      BY <1>5 DEF Fault, ClearSlot, Confirmed, NextSlot, Delay, GiveUp, history, module
    <2> QED  BY <2>1, <2>2, Unseen
  <1>6. CASE \/ ReadPacket \/ CheckPacket \/ SetState \/ OpenUart \/ CloseUart
             \/ \E holds \in BOOLEAN : TestState(holds)
    <2>1. call'.op = call.op
      BY <1>1, <1>6 DEF ReadPacket, CheckPacket, SetState, OpenUart, CloseUart, TestState,
                        Advance, Fail, Position
    <2>2. UNCHANGED <<asked, served, returned>>
      BY <1>6 DEF ReadPacket, CheckPacket, SetState, OpenUart, CloseUart, TestState,
                  history, module
    <2> QED  BY <2>1, <2>2, Unseen
  <1> QED  BY <1>2, <1>3, <1>4, <1>5, <1>6 DEF MainStep

(* So is every step of the system.                                         *)
LEMMA ContractStep ==
    ASSUME Serial, Timely, MaxFaults = 0
    PROVE  Inv /\ [Next]_vars => [Contract!Next]_(Contract!contract)
  <1> SUFFICES ASSUME Inv, [Next]_vars
               PROVE  Contract!Next \/ UNCHANGED Contract!contract
    OBVIOUS
  <1>1. CASE \E op \in Ops : Start(op)
    <2>1. PICK op \in Ops : Start(op)
      BY <1>1
    <2>2. /\ ~Running /\ asked' = {} /\ call'.op = op /\ UNCHANGED returned
      BY <2>1 DEF Start, Idle
    <2>3. Running'
      BY <2>2, Tables DEF Running, NoOp
    <2>4. Contract!Call
      BY <2>2, <2>3 DEF Contract!Call, Outcome
    <2> QED  BY <2>4 DEF Contract!Next
  <1>2. CASE MainStep
    BY <1>2, ContractMain
  <1>3. CASE HandleRxPacket \/ LoseFrame
    BY <1>3, Unseen DEF HandleRxPacket, LoseFrame, history, module
  <1>4. CASE ModuleStep
    <2>1. CASE \E granted \in BOOLEAN : Answer(granted)
      BY <2>1, ContractAnswer DEF Contract!Next
    <2>2. CASE \/ \E data \in Data : Emit(data)
               \/ \E i \in Indications : Indicate(i.cmd, i.status)
      BY <2>2, Unseen DEF Emit, Indicate, history, module
    <2>3. ~Restart
      BY DEF Timely, Restart
    <2> QED  BY <1>4, <2>1, <2>2, <2>3 DEF ModuleStep
  <1>5. CASE UNCHANGED vars
    BY <1>5, Unseen DEF vars, history, module
  <1> QED  BY <1>1, <1>2, <1>3, <1>4, <1>5 DEF Next

(* A call keeps the contract of its caller when nothing on the way fails:  *)
(* its requests take effect while it runs, and it returns true exactly if  *)
(* all of them did, unless the driver itself declined.                     *)
THEOREM ContractKept ==
    ASSUME Serial, Timely, MaxFaults = 0 PROVE Spec => KeepsContract
  <1>1. Spec => []Inv
    BY Invariance
  <1>2. Init => Contract!Init
    <2> SUFFICES ASSUME Init PROVE Contract!Init
      OBVIOUS
    <2>1. call.op = NoOp /\ asked = {}
      BY DEF Init, Idle
    <2>2. returned.op = NoOp
      BY DEF Init
    <2> QED  BY <2>1, <2>2 DEF Contract!Init, Running, Outcome
  <1>3. Inv /\ [Next]_vars => [Contract!Next]_(Contract!contract)
    BY ContractStep
  <1> QED  BY <1>1, <1>2, <1>3, PTL DEF Spec, KeepsContract, Contract!Spec

=============================================================================
