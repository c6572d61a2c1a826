---------------------------- MODULE Radios_proofs ----------------------------
(***************************************************************************)
(* Proofs about the drivers beside Proteus-III. A failed Init closes the   *)
(* UART: whatever table the driver has, if the steps that may fail lead to *)
(* Deinit (InitAssumption), and whatever the module does. Undoing says     *)
(* that a call of Init which has failed either has closed the UART or has  *)
(* only steps before it that cannot fail.                                  *)
(* Proteus-IV keeps no pointer to a caller's list longer than it should.   *)
(* What the core promises of requests and answers holds of every radio     *)
(* whose table is Serial.                                                  *)
(***************************************************************************)
EXTENDS Radios, ProteusIVLinks, CommandDriver_proofs, FiniteSetTheorems

-----------------------------------------------------------------------------
(* Types.                                                                  *)

(* The frames of a device are among those the core allows for.             *)
LEMMA OwnFrames == device \in Devices => UnaskedBy[device] \subseteq Indications
BY RadiosAssumption

(* What a function looks for in a frame is a string.                       *)
LEMMA WantedType == TypeOK => {""} \cup Wanted \subseteq STRING
  <1> SUFFICES ASSUME TypeOK, Running, NEW t \in Range(Script[call.op])
               PROVE  t.status \in STRING
    BY Literals DEF Wanted
  <1>1. call.op \in Ops
    BY DEF TypeOK, Position, Running
  <1>2. Script[call.op] \in Seq(StepType)
    BY <1>1, Tables
  <1>3. t \in StepType
    BY <1>2 DEF Range
  <1> QED  BY <1>3 DEF StepType

(* The frame may say what a step of the call will look for.                *)
LEMMA EmitOwnType ==
    TypeOK /\ (\E data \in STRING : Emit(data)) => TypeOK'
  <1> SUFFICES ASSUME TypeOK, NEW data \in STRING, Emit(data) PROVE TypeOK'
    OBVIOUS
  <1>1. Head(outbox) \in Frame /\ outbox' \in Seq(Frame)
    BY DEF Emit, TypeOK
  <1>2. [Head(outbox) EXCEPT !.data = data] \in Frame
    BY <1>1 DEF Frame
  <1>3. line' \in Seq(Frame)
    BY <1>2 DEF Emit, TypeOK
  <1> QED
    BY <1>1, <1>3 DEF Emit, TypeOK, driver, history, bounds

(* Releasing the reset pin keeps the types.                                *)
LEMMA ReleaseType == TypeOK /\ ReleaseReset => TypeOK'
  <1> SUFFICES ASSUME TypeOK, ReleaseReset PROVE TypeOK'
    OBVIOUS
  <1>1. call' \in Position
    BY MoveType DEF ReleaseReset
  <1> QED
    BY <1>1 DEF ReleaseReset, TypeOK, driver, history, bounds

(* The types of the core, and that the device does not change.             *)
RTypes == TypeOK /\ device \in Devices

LEMMA RadioTypeInit == InitRadio => RTypes
BY TypeInit DEF InitRadio, RTypes

LEMMA RadioTypeStep == RTypes /\ [NextRadio]_radioVars => RTypes'
  <1> SUFFICES ASSUME RTypes, [NextRadio]_radioVars PROVE TypeOK'
    BY DEF NextRadio, radioVars, RTypes
  <1>0. TypeOK /\ UnaskedBy[device] \subseteq Indications
    BY OwnFrames DEF RTypes
  <1>1. CASE UNCHANGED radioVars
    BY <1>0, <1>1, TypeStep DEF radioVars
  <1>2. CASE \E op \in Ops : StartOwn(op)
    BY <1>0, <1>2, StartType DEF StartOwn
  <1>3. CASE MainStep
    BY <1>0, <1>3, MainType
  <1>4. CASE ReleaseReset
    BY <1>0, <1>4, ReleaseType
  <1>5. CASE HandleRxPacket
    BY <1>0, <1>5, ReceiveType
  <1>6. CASE \E granted \in BOOLEAN : Answer(granted)
    BY <1>0, <1>6, AnswerType
  <1>7. CASE \E data \in {""} \cup Wanted : Emit(data)
    BY <1>0, <1>7, WantedType, EmitOwnType
  <1>8. CASE \E i \in UnaskedBy[device] : Indicate(i.cmd, i.status)
    BY <1>0, <1>8, IndicateType
  <1> QED
    BY <1>1, <1>2, <1>3, <1>4, <1>5, <1>6, <1>7, <1>8 DEF NextRadio

-----------------------------------------------------------------------------
(* The way out of an Init that fails.                                      *)

(* The calls the property is about.                                        *)
Obliged == call.op \in Opening /\ call.op \in Ops /\ device \notin LeavesOpen

Undoing ==
    /\ Running => Owner[call.op] = device
    /\ Running /\ Obliged /\ ~call.ok =>
         /\ \A y \in call.k .. Len(Script[call.op]) : Script[call.op][y].do # "open"
         /\ uartOpen => LeadsToClose(Script[call.op], call.k)

RInv == RTypes /\ Undoing /\ FailedInitCloses

(* The step after one that cannot fail and is not uartDeinit leads there,  *)
(* too.                                                                    *)
LEMMA StillLeads ==
    ASSUME NEW op \in Ops, NEW k \in DOMAIN Script[op],
           LeadsToClose(Script[op], k), Script[op][k].do # "close"
    PROVE  LeadsToClose(Script[op], k + 1)
  <1> DEFINE steps == Script[op]
  <1>1. Len(steps) \in Nat /\ k \in 1 .. Len(steps)
    BY Tables
  <1>2. PICK c \in k .. Len(steps) :
          /\ steps[c].do = "close"
          /\ \A y \in k .. c - 1 : steps[y].do \notin MayFail \cup {"return"}
    BY DEF LeadsToClose
  <1>3. c \in k + 1 .. Len(steps)
    BY <1>1, <1>2
  <1>4. \A y \in k + 1 .. c - 1 : steps[y].do \notin MayFail \cup {"return"}
    BY <1>1, <1>2
  <1>5. \A y \in k + 1 .. Len(steps) : steps[y].do # "open"
    BY <1>1 DEF LeadsToClose
  <1> QED  BY <1>2, <1>3, <1>4, <1>5 DEF LeadsToClose

(* On the way to uartDeinit nothing can fail, and no function returns.     *)
LEMMA NothingFails ==
    ASSUME NEW op \in Ops, NEW k \in Nat, LeadsToClose(Script[op], k)
    PROVE  /\ k <= Len(Script[op])
           /\ Script[op][k].do \notin MayFail \cup {"return"}
  <1> DEFINE steps == Script[op]
  <1>1. Len(steps) \in Nat
    BY Tables
  <1>2. PICK c \in k .. Len(steps) :
          /\ steps[c].do = "close"
          /\ \A y \in k .. c - 1 : steps[y].do \notin MayFail \cup {"return"}
    BY DEF LeadsToClose
  <1>3. CASE c = k
    BY <1>1, <1>2, <1>3 DEF MayFail
  <1>4. CASE c # k
    <2>1. k \in k .. c - 1
      BY <1>1, <1>2, <1>4
    <2> QED  BY <1>1, <1>2, <2>1
  <1> QED  BY <1>3, <1>4

(* A step of a function with table entry that may fail leads to the close. *)
LEMMA FailLeads ==
    ASSUME RInv, Running, Obliged, call.k \in DOMAIN Script[call.op],
           Step.do \in MayFail
    PROVE  Step.fail # 0 /\ LeadsToClose(Script[call.op], Step.fail)
  <1>1. Owner[call.op] \notin LeavesOpen
    BY DEF RInv, Undoing, Obliged
  <1> QED  BY <1>1, InitAssumption DEF Obliged, Step

(* Where a step that fails leaves a call of Init.                          *)
LEMMA FailUndoes ==
    ASSUME RInv, NEW what, At(what), what \in MayFail, Fail, device' = device,
           returned' = returned
    PROVE  Undoing' /\ FailedInitCloses'
  <1>1. /\ call.op \in Ops /\ call.k \in DOMAIN Script[call.op]
        /\ Step.do = what
    BY AtStep DEF RInv, RTypes
  <1>2. PICK op, n : op = call.op /\ n = Step.fail
    OBVIOUS
  <1>3. /\ call'.op = op /\ call'.ok = FALSE
        /\ n # 0 => call'.k = n
    BY <1>2 DEF Fail, RInv, RTypes, TypeOK, Position
  <1>4. Running /\ Running'
    BY <1>2, <1>3 DEF At, Running
  <1>5. Obliged => n # 0 /\ LeadsToClose(Script[op], n)
    BY <1>1, <1>2, <1>4, FailLeads
  <1>6. Owner[op] = device
    BY <1>2, <1>4 DEF RInv, Undoing
  <1>7. Obliged' = Obliged
    BY <1>2, <1>3 DEF Obliged
  <1>8. Undoing'
    BY <1>3, <1>5, <1>6, <1>7 DEF Undoing, LeadsToClose
  <1> QED  BY <1>4, <1>8 DEF FailedInitCloses

(* Where a step that succeeds leaves it.                                   *)
LEMMA AdvanceUndoes ==
    ASSUME RInv, NEW what, At(what), Advance, device' = device,
           returned' = returned,
           \/ uartOpen' = uartOpen /\ what # "close"
           \/ uartOpen' = TRUE /\ what = "open"
           \/ uartOpen' = FALSE /\ what = "close"
    PROVE  Undoing' /\ FailedInitCloses'
  <1>1. /\ call.op \in Ops /\ call.k \in DOMAIN Script[call.op]
        /\ call.k \in 1 .. Len(Script[call.op])
        /\ Step.do = what /\ Len(Script[call.op]) \in Nat
    BY AtStep DEF RInv, RTypes
  <1>2. PICK op, k : op = call.op /\ k = call.k
    OBVIOUS
  <1>3. call'.op = op /\ call'.ok = call.ok /\ call'.k = k + 1
    BY <1>2 DEF Advance, RInv, RTypes, TypeOK, Position
  <1>4. Running /\ Running'
    BY <1>2, <1>3 DEF At, Running
  <1>5. Owner[op] = device
    BY <1>2, <1>4 DEF RInv, Undoing
  <1>6. Obliged' = Obliged
    BY <1>2, <1>3 DEF Obliged
  <1>7. ASSUME Obliged, ~call.ok
        PROVE  /\ \A y \in k + 1 .. Len(Script[op]) : Script[op][y].do # "open"
               /\ uartOpen' => LeadsToClose(Script[op], k + 1)
    <2>1. /\ \A y \in k .. Len(Script[op]) : Script[op][y].do # "open"
          /\ uartOpen => LeadsToClose(Script[op], k)
      BY <1>2, <1>4, <1>7 DEF RInv, Undoing
    <2>2. Script[op][k].do = what /\ what # "open"
      BY <1>1, <1>2, <2>1 DEF Step
    <2>3. uartOpen' => uartOpen /\ what # "close"
      BY <2>2
    <2>4. uartOpen' => LeadsToClose(Script[op], k + 1)
      BY <1>1, <1>2, <2>1, <2>2, <2>3, StillLeads
    <2> QED  BY <1>1, <1>2, <2>1, <2>4
  <1>8. Undoing'
    BY <1>3, <1>5, <1>6, <1>7 DEF Undoing
  <1> QED  BY <1>4, <1>8 DEF FailedInitCloses

(* Steps that leave the call where it is.                                  *)
LEMMA StandsUndone ==
    ASSUME RInv, call'.op = call.op, call'.k = call.k, call'.ok = call.ok,
           uartOpen' = uartOpen, returned' = returned, device' = device
    PROVE  Undoing' /\ FailedInitCloses'
BY DEF RInv, Undoing, Obliged, FailedInitCloses, Running

(* A call begins.                                                          *)
LEMMA StartUndone ==
    ASSUME RInv, NEW op \in Ops, StartOwn(op), device' = device
    PROVE  Undoing' /\ FailedInitCloses'
  <1>1. call'.op = op /\ call'.ok = TRUE
    BY DEF StartOwn, Start, Idle
  <1>2. Running'
    BY <1>1, Tables DEF Running, NoOp
  <1>3. Owner[op] = device
    BY DEF StartOwn
  <1> QED  BY <1>1, <1>2, <1>3 DEF Undoing, FailedInitCloses

(* A call returns: an Init that has failed is past uartDeinit.             *)
LEMMA FinishUndone ==
    ASSUME RInv, Finish, device' = device
    PROVE  Undoing' /\ FailedInitCloses'
  <1>1. ~Running'
    BY DEF Finish, Idle, Running
  <1>2. returned'.op = call.op /\ returned'.ok = call.ok /\ uartOpen' = uartOpen
    BY DEF Finish
  <1>3. call.op \in Ops /\ call.k \in Nat /\ Running
    BY DEF Finish, Ended, Running, RInv, RTypes, TypeOK, Position
  <1>4. ASSUME call.op \in Opening, ~call.ok, device \notin LeavesOpen, uartOpen
        PROVE  FALSE
    <2>1. LeadsToClose(Script[call.op], call.k)
      BY <1>3, <1>4 DEF RInv, Undoing, Obliged
    <2>2. /\ call.k <= Len(Script[call.op])
          /\ Script[call.op][call.k].do \notin MayFail \cup {"return"}
      BY <1>3, <2>1, NothingFails
    <2> QED  BY <2>2 DEF Finish, Ended, Length, Step
  <1>5. FailedInitCloses'
    BY <1>2, <1>4 DEF FailedInitCloses
  <1> QED  BY <1>1, <1>5 DEF Undoing

(* The main thread. No pin and no UART refuses (MaxFaults).                *)
LEMMA MainUndone ==
    ASSUME MaxFaults = 0, RInv, MainStep, device' = device
    PROVE  Undoing' /\ FailedInitCloses'
  <1>1. ~Fault
    BY DEF Fault, RInv, RTypes, TypeOK
  <1>2. CASE Transmit
    BY <1>2, AdvanceUndoes DEF Transmit, driver
  <1>3. CASE HoldInReset
    BY <1>3, AdvanceUndoes DEF HoldInReset, driver
  <1>4. CASE ClearSlot
    BY <1>4, AdvanceUndoes DEF ClearSlot
  <1>5. CASE Confirmed
    BY <1>5, AdvanceUndoes, FailUndoes DEF Confirmed, driver, MayFail
  <1>6. CASE NextSlot \/ Delay
    BY <1>6, StandsUndone DEF NextSlot, Delay, driver, RInv, RTypes, TypeOK, Position
  <1>7. CASE GiveUp
    BY <1>7, FailUndoes DEF GiveUp, MayFail
  <1>8. CASE ReadPacket
    BY <1>8, AdvanceUndoes DEF ReadPacket, driver
  <1>9. CASE CheckPacket
    BY <1>9, AdvanceUndoes, FailUndoes DEF CheckPacket, driver, MayFail
  <1>10. CASE \E holds \in BOOLEAN : TestState(holds)
    BY <1>10, AdvanceUndoes, FailUndoes DEF TestState, driver, MayFail
  <1>11. CASE SetState
    BY <1>11, AdvanceUndoes DEF SetState, driver
  <1>12. CASE OpenUart
    BY <1>12, AdvanceUndoes DEF OpenUart
  <1>13. CASE CloseUart
    BY <1>13, AdvanceUndoes DEF CloseUart
  <1>14. CASE Finish
    BY <1>14, FinishUndone
  <1> QED
    BY <1>1, <1>2, <1>3, <1>4, <1>5, <1>6, <1>7, <1>8, <1>9, <1>10, <1>11, <1>12,
       <1>13, <1>14 DEF MainStep

LEMMA RInvStep ==
    ASSUME MaxFaults = 0
    PROVE  RInv /\ [NextRadio]_radioVars => RInv'
  <1> SUFFICES ASSUME RInv, [NextRadio]_radioVars
               PROVE  Undoing' /\ FailedInitCloses'
    BY RadioTypeStep DEF RInv
  <1>1. device' = device
    BY DEF NextRadio, radioVars
  <1>2. CASE UNCHANGED radioVars
    BY <1>2, StandsUndone DEF radioVars, vars, driver
  <1>3. CASE \E op \in Ops : StartOwn(op)
    BY <1>1, <1>3, StartUndone
  <1>4. CASE MainStep
    BY <1>1, <1>4, MainUndone
  <1>5. CASE ReleaseReset
    BY <1>1, <1>5, AdvanceUndoes DEF ReleaseReset, driver
  <1>6. CASE HandleRxPacket
    BY <1>1, <1>6, StandsUndone DEF HandleRxPacket
  <1>7. CASE \/ \E granted \in BOOLEAN : Answer(granted)
             \/ \E data \in {""} \cup Wanted : Emit(data)
             \/ \E i \in UnaskedBy[device] : Indicate(i.cmd, i.status)
    BY <1>1, <1>7, StandsUndone DEF Answer, Emit, Indicate, driver
  <1> QED
    BY <1>2, <1>3, <1>4, <1>5, <1>6, <1>7 DEF NextRadio

LEMMA RInvInit == InitRadio => RInv
  <1> SUFFICES ASSUME InitRadio PROVE Undoing /\ FailedInitCloses
    BY RadioTypeInit DEF RInv
  <1>1. ~Running /\ ~uartOpen
    BY DEF InitRadio, Init, Idle, Running
  <1> QED  BY <1>1 DEF Undoing, FailedInitCloses

(* An Init that fails leaves the UART closed, whichever of its waits       *)
(* failed and however the module behaves, for every driver whose Init      *)
(* leads its failing steps to Deinit (TarvosIII.c:450, ThyoneI.c:474,      *)
(* ProteusIV.c:797; not Metis.c:440-515).                                  *)
THEOREM FailedInitsClose ==
    ASSUME MaxFaults = 0
    PROVE  SpecRadio => []FailedInitCloses
  <1>1. RInv => FailedInitCloses
    BY DEF RInv
  <1>2. RInv /\ [NextRadio]_radioVars => RInv'
    BY RInvStep
  <1> QED  BY <1>1, <1>2, RInvInit, PTL DEF SpecRadio

-----------------------------------------------------------------------------
(* Proteus-IV: the pointers of its callers.                                *)

(* What the module tells unasked keeps the types.                          *)
LEMMA TellType ==
    ASSUME TypeOK, NEW cmd \in STRING, NEW status \in STRING, NEW about \in STRING,
           Tell(cmd, status, about)
    PROVE  TypeOK'
  <1>1. [cmd |-> cmd, status |-> status, data |-> about, req |-> 0] \in Frame
    BY DEF Frame
  <1>2. line' \in Seq(Frame)
    <2>1. PICK f \in Frame : line' = IF deaf THEN line ELSE Append(line, f)
      BY <1>1 DEF Tell
    <2> QED  BY <2>1 DEF TypeOK
  <1>3. indications' \in 0 .. MaxIndications
    <2>1. /\ indications \in 0 .. MaxIndications /\ indications < MaxIndications
          /\ indications' = indications + 1
      BY DEF Tell, TypeOK
    <2> QED  BY <2>1, Bounds
  <1> QED
    BY <1>2, <1>3 DEF Tell, TypeOK, driver, module, history

(* The names in the frames about connections and devices are strings.      *)
LEMMA ModuleP4Type == TypeOK /\ ModuleP4 => TypeOK'
  <1> SUFFICES ASSUME TypeOK, ModuleP4 PROVE TypeOK'
    OBVIOUS
  <1>1. CASE AnswerP4
    BY <1>1, AnswerType DEF AnswerP4
  <1>2. CASE EmitP4
    BY <1>2, EmitOwnType, Literals DEF EmitP4
  <1>3. CASE FailedLink
    BY <1>3, TellType, LinkLiteralsAssumption DEF FailedLink
  <1>4. CASE \E c \in Connections : LinkEvent(c)
    <2>1. PICK c \in Connections : LinkEvent(c)
      BY <1>4
    <2>2. c \in STRING /\ "Success" \in STRING /\ "" \in STRING
      BY LinksAssumption, Literals
    <2>3. \E cmd \in STRING, status \in STRING : Tell(cmd, status, c)
      BY <2>1, <2>2, LinkLiteralsAssumption DEF LinkEvent
    <2> QED  BY <2>2, <2>3, TellType
  <1>5. CASE \E a \in Advertisers : Hear(a)
    <2>1. PICK a \in Advertisers : Hear(a)
      BY <1>5
    <2>2. a \in STRING /\ "" \in STRING
      BY LinksAssumption, Literals
    <2> QED  BY <2>1, <2>2, TellType, LinkLiteralsAssumption DEF Hear
  <1> QED  BY <1>1, <1>2, <1>3, <1>4, <1>5 DEF ModuleP4

LEMMA MainP4Step == MainP4 => MainStep
BY DEF MainP4, MainStep, PlainStep, FinishP4, OpenP4, HoldP4, SetP4

LEMMA TypeStepP4 == TypeOK /\ [NextP4]_allVars => TypeOK'
  <1> SUFFICES ASSUME TypeOK, [NextP4]_allVars PROVE TypeOK'
    OBVIOUS
  <1>1. CASE UNCHANGED allVars
    BY <1>1, TypeStep DEF allVars
  <1>2. CASE StartP4
    BY <1>2, StartType DEF StartP4
  <1>3. CASE MainP4
    BY <1>3, MainP4Step, MainType
  <1>4. CASE ReceiveP4
    BY <1>4, ReceiveType DEF ReceiveP4
  <1>5. CASE ModuleP4
    BY <1>5, ModuleP4Type
  <1> QED  BY <1>1, <1>2, <1>3, <1>4, <1>5 DEF NextP4

(* The types of the core hold for Proteus-IV, too.                         *)
THEOREM TypeCorrectP4 == SpecP4 => []TypeOK
  <1>1. InitP4 => TypeOK
    BY TypeInit DEF InitP4
  <1> QED  BY <1>1, TypeStepP4, PTL DEF SpecP4

(* The call is one of op and comes to the assignment before it returns.    *)
In(op)     == Running /\ call.op = op
Will(what) == Comes(Script[call.op], call.k, what)

(* A pointer that is set belongs to a call that will reset it, or to a     *)
(* scan that its caller has not stopped. ScanStart has reset it when it    *)
(* returns false, ScanStop when it returns true.                           *)
Lent ==
    /\ "info" \in pointers  => In("GetConnectionInfo") /\ Will("info NULL")
    /\ "bonds" \in pointers => In("GetBonds") /\ Will("bonds NULL")
    /\ "scan" \in pointers =>
         /\ lent
         /\ In("ScanStart") /\ ~call.ok => Will("scan NULL")
         /\ In("ScanStop") /\ call.ok   => Will("scan over")
    /\ In("ScanStart") /\ ~call.ok => call.k # 1

PInv == TypeOK /\ Lent

(* A step that is not the assignment comes no nearer to the end.           *)
LEMMA StillComes ==
    ASSUME NEW op \in Ops, NEW k \in DOMAIN Script[op], NEW what,
           Comes(Script[op], k, what),
           Script[op][k].do # "set" \/ Script[op][k].status # what
    PROVE  Comes(Script[op], k + 1, what)
  <1> DEFINE steps == Script[op]
  <1>1. Len(steps) \in Nat /\ k \in 1 .. Len(steps)
    BY Tables
  <1>2. PICK c \in k .. Len(steps) :
          /\ steps[c].do = "set" /\ steps[c].status = what
          /\ \A y \in k .. c - 1 : steps[y].do # "return"
    BY DEF Comes
  <1>3. c \in k + 1 .. Len(steps)
    BY <1>1, <1>2
  <1>4. \A y \in k + 1 .. c - 1 : steps[y].do # "return"
    BY <1>1, <1>2
  <1> QED  BY <1>2, <1>3, <1>4 DEF Comes

(* A call that will come to an assignment has not ended.                   *)
LEMMA NotEnded == PInv /\ Ended => \A what : ~Will(what)
  <1> SUFFICES ASSUME PInv, Ended, NEW what, Will(what) PROVE FALSE
    OBVIOUS
  <1> DEFINE steps == Script[call.op]
  <1>1. call.op \in Ops /\ call.k \in Nat
    BY DEF Ended, Running, PInv, TypeOK, Position
  <1>2. Len(steps) \in Nat
    BY <1>1, Tables
  <1>3. PICK c \in call.k .. Len(steps) :
          /\ steps[c].do = "set" /\ steps[c].status = what
          /\ \A y \in call.k .. c - 1 : steps[y].do # "return"
    BY DEF Will, Comes
  <1>4. call.k <= Len(steps)
    BY <1>1, <1>2, <1>3
  <1>5. steps[call.k].do = "return"
    BY <1>4 DEF Ended, Length, Step
  <1>6. call.k # c
    BY <1>3, <1>5
  <1>7. call.k \in call.k .. c - 1
    BY <1>1, <1>2, <1>3, <1>6
  <1> QED  BY <1>3, <1>5, <1>7

(* Steps that leave the call where it is, and the pointers.                *)
LEMMA LentStays ==
    ASSUME PInv, call'.op = call.op, call'.k = call.k, call'.ok = call.ok,
           pointers' = pointers, lent' = lent
    PROVE  Lent'
BY DEF PInv, Lent, In, Will, Running

(* A step that succeeds and sets no pointer.                               *)
LEMMA LentAdvance ==
    ASSUME PInv, NEW what, At(what), Advance, what # "set",
           pointers' = pointers, lent' = lent
    PROVE  Lent'
  <1>1. PICK op, k : op = call.op /\ k = call.k
    OBVIOUS
  <1>2. /\ op \in Ops /\ k \in DOMAIN Script[op] /\ k \in Nat /\ k # 0
        /\ Script[op][k].do # "set"
    BY <1>1, AtStep DEF PInv, Step
  <1>3. call'.op = op /\ call'.ok = call.ok /\ call'.k = k + 1
    BY <1>1 DEF Advance, PInv, TypeOK, Position
  <1>4. \A w : Will(w) => Will(w)'
    BY <1>1, <1>2, <1>3, StillComes DEF Will
  <1>5. \A o : In(o)' = In(o)
    BY <1>1, <1>3 DEF In, Running
  <1>6. call'.k # 1
    BY <1>2, <1>3
  <1> QED  BY <1>3, <1>4, <1>5, <1>6 DEF PInv, Lent

(* Where a step that fails leads.                                          *)
LEMMA FailComes ==
    ASSUME NEW op \in Ops, NEW k \in DOMAIN Script[op],
           Script[op][k].do \notin {"set", "return"}, NEW n, n = Script[op][k].fail
    PROVE  /\ op = "GetConnectionInfo" => n > 1 /\ Comes(Script[op], n, "info NULL")
           /\ op = "GetBonds"  => n > 1 /\ Comes(Script[op], n, "bonds NULL")
           /\ op = "ScanStart" => n > 1 /\ Comes(Script[op], n, "scan NULL")
BY PointerAssumption DEF Lends

LEMMA Beyond == \A n \in Nat : n > 1 => n # 0 /\ n # 1
OBVIOUS

(* A step that fails: the functions that lend go on to their clean-up.     *)
LEMMA LentFail ==
    ASSUME PInv, NEW what, At(what), Fail, what \notin {"set", "return"},
           pointers' = pointers, lent' = lent
    PROVE  Lent'
  <1>1. PICK op, k, n : op = call.op /\ k = call.k /\ n = Step.fail
    OBVIOUS
  <1>2. /\ op \in Ops /\ k \in DOMAIN Script[op] /\ n \in Nat
        /\ Script[op][k].do \notin {"set", "return"} /\ n = Script[op][k].fail
    BY <1>1, AtStep DEF PInv, Step, StepType
  <1>3. call'.op = op /\ call'.ok = FALSE /\ (n # 0 => call'.k = n)
    BY <1>1 DEF Fail, PInv, TypeOK, Position
  <1>4. \A o : In(o)' = In(o)
    BY <1>1, <1>3 DEF In, Running
  <1>6. In("GetConnectionInfo") => Will("info NULL")'
    <2> SUFFICES ASSUME In("GetConnectionInfo") PROVE Will("info NULL")'
      OBVIOUS
    <2>1. op = "GetConnectionInfo"
      BY <1>1 DEF In
    <2>2. n > 1 /\ Comes(Script[op], n, "info NULL")
      BY <1>2, <2>1, FailComes
    <2>3. n # 0 /\ n # 1
      BY <1>2, <2>2, Beyond, Zenon
    <2> QED  BY <1>3, <2>2, <2>3 DEF Will
  <1>7. In("GetBonds") => Will("bonds NULL")'
    <2> SUFFICES ASSUME In("GetBonds") PROVE Will("bonds NULL")'
      OBVIOUS
    <2>1. op = "GetBonds"
      BY <1>1 DEF In
    <2>2. n > 1 /\ Comes(Script[op], n, "bonds NULL")
      BY <1>2, <2>1, FailComes
    <2>3. n # 0 /\ n # 1
      BY <1>2, <2>2, Beyond, Zenon
    <2> QED  BY <1>3, <2>2, <2>3 DEF Will
  <1>8. In("ScanStart") => Will("scan NULL")' /\ call'.k # 1
    <2> SUFFICES ASSUME In("ScanStart") PROVE Will("scan NULL")' /\ call'.k # 1
      OBVIOUS
    <2>1. op = "ScanStart"
      BY <1>1 DEF In
    <2>2. n > 1 /\ Comes(Script[op], n, "scan NULL")
      BY <1>2, <2>1, FailComes
    <2>3. n # 0 /\ n # 1
      BY <1>2, <2>2, Beyond, Zenon
    <2> QED  BY <1>3, <2>2, <2>3 DEF Will
  <1> QED  BY <1>3, <1>4, <1>6, <1>7, <1>8 DEF PInv, Lent

(* A function starts: whoever lends nothing owes nothing.                  *)
LEMMA LentStart == PInv /\ StartP4 => Lent'
  <1> SUFFICES ASSUME PInv, StartP4 PROVE Lent'
    OBVIOUS
  <1>1. PICK op \in Ops : Start(op)
    BY DEF StartP4
  <1>2. pointers' = pointers /\ lent' = lent
    BY DEF StartP4, kept
  <1>3. ~Running /\ call'.op = op /\ call'.ok = TRUE /\ call'.k = 1
    BY <1>1 DEF Start, Idle
  <1>4. "info" \notin pointers /\ "bonds" \notin pointers
    BY <1>3 DEF PInv, Lent, In
  <1>5. op = "ScanStop" => Comes(Script[op], 1, "scan over")
    BY PointerAssumption
  <1>6. In("ScanStop")' => Will("scan over")'
    BY <1>3, <1>5 DEF In, Will
  <1>7. "scan" \in pointers => lent
    BY DEF PInv, Lent
  <1> QED  BY <1>2, <1>3, <1>4, <1>6, <1>7 DEF Lent

(* A function returns: what it owed it has done.                           *)
LEMMA LentFinish == PInv /\ FinishP4 => Lent'
  <1> SUFFICES ASSUME PInv, FinishP4 PROVE Lent'
    OBVIOUS
  <1>1. Ended /\ \A what : ~Will(what)
    BY NotEnded DEF FinishP4, Finish
  <1>2. ~Running' /\ pointers' = pointers
    BY DEF FinishP4, Finish, Idle, Running, kept
  <1>3. "info" \notin pointers /\ "bonds" \notin pointers
    BY <1>1 DEF PInv, Lent
  <1>4. ASSUME "scan" \in pointers PROVE lent'
    <2>1. /\ lent
          /\ In("ScanStart") => call.ok
          /\ In("ScanStop") => ~call.ok
      BY <1>1, <1>4 DEF PInv, Lent
    <2>2. Running
      BY <1>1 DEF Ended
    <2> QED  BY <2>1, <2>2 DEF FinishP4, In
  <1> QED  BY <1>2, <1>3, <1>4 DEF Lent, In

(* The assignments.                                                        *)
LEMMA LentSet == PInv /\ SetP4 => Lent'
  <1> SUFFICES ASSUME PInv, SetP4 PROVE Lent'
    OBVIOUS
  <1>1. PICK op, k, what : op = call.op /\ k = call.k /\ what = Step.status
    OBVIOUS
  <1>2. (At("set") \/ At("pin")) /\ Advance
    BY DEF SetP4, SetState
  <1>3. /\ op \in Ops /\ k \in DOMAIN Script[op] /\ k \in Nat /\ k # 0
        /\ what = Script[op][k].status
    BY <1>1, <1>2, AtStep DEF PInv, Step
  <1>4. call'.op = op /\ call'.ok = call.ok /\ call'.k = k + 1
    BY <1>1, <1>2 DEF Advance, PInv, TypeOK, Position
  <1>5. Running /\ Running'
    BY <1>1, <1>2, <1>4 DEF At, Running
  <1>6. \A o : In(o)' = In(o)
    BY <1>1, <1>4, <1>5 DEF In
  <1>7. \A w : Will(w) /\ w # what => Will(w)'
    BY <1>1, <1>3, <1>4, StillComes DEF Will
  <1>8. /\ what = "info"  => op = "GetConnectionInfo" /\ k = 1
        /\ what = "bonds" => op = "GetBonds" /\ k = 1
        /\ what = "scan"  => op = "ScanStart" /\ k = 1
    BY <1>3, PointerAssumption DEF Lends
  <1>9. call'.k # 1
    BY <1>3, <1>4
  <1>10. pointers' = Assigned(what)
         /\ lent' = (IF what = "scan" THEN TRUE ELSE lent)
    BY <1>1 DEF SetP4
  <1>11. ASSUME "info" \in pointers'
         PROVE  In("GetConnectionInfo")' /\ Will("info NULL")'
    <2>1. CASE what = "info"
      <3>1. op = "GetConnectionInfo" /\ k = 1
        BY <1>8, <2>1
      <3>2. Comes(Script[op], 2, "info NULL")
        BY <1>3, <3>1, PointerAssumption
      <3>3. call'.k = 2
        BY <1>4, <3>1
      <3> QED  BY <1>4, <1>5, <3>1, <3>2, <3>3 DEF In, Will
    <2>2. CASE what # "info"
      <3>1. "info" \in pointers /\ what # "info NULL"
        BY <1>10, <1>11, <2>2 DEF Assigned
      <3> QED  BY <1>6, <1>7, <3>1 DEF PInv, Lent
    <2> QED  BY <2>1, <2>2
  <1>12. ASSUME "bonds" \in pointers'
         PROVE  In("GetBonds")' /\ Will("bonds NULL")'
    <2>1. CASE what = "bonds"
      <3>1. op = "GetBonds" /\ k = 1
        BY <1>8, <2>1
      <3>2. Comes(Script[op], 2, "bonds NULL")
        BY <1>3, <3>1, PointerAssumption
      <3>3. call'.k = 2
        BY <1>4, <3>1
      <3> QED  BY <1>4, <1>5, <3>1, <3>2, <3>3 DEF In, Will
    <2>2. CASE what # "bonds"
      <3>1. "bonds" \in pointers /\ what # "bonds NULL"
        BY <1>10, <1>12, <2>2 DEF Assigned
      <3> QED  BY <1>6, <1>7, <3>1 DEF PInv, Lent
    <2> QED  BY <2>1, <2>2
  <1>13. ASSUME "scan" \in pointers'
         PROVE  /\ lent'
                /\ In("ScanStart")' /\ ~call'.ok => Will("scan NULL")'
                /\ In("ScanStop")' /\ call'.ok   => Will("scan over")'
    <2>1. CASE what = "scan"
      <3>1. op = "ScanStart" /\ k = 1
        BY <1>8, <2>1
      <3>2. In("ScanStart") /\ ~In("ScanStop")
        BY <1>1, <1>5, <3>1 DEF In
      <3>3. call.ok
        BY <1>1, <3>1, <3>2 DEF PInv, Lent
      <3> QED  BY <1>4, <1>6, <1>10, <2>1, <3>2, <3>3
    <2>2. CASE what # "scan"
      <3>1. "scan" \in pointers /\ what \notin {"scan NULL", "scan over"}
        BY <1>10, <1>13, <2>2 DEF Assigned
      <3> QED  BY <1>4, <1>6, <1>7, <1>10, <2>2, <3>1 DEF PInv, Lent
    <2> QED  BY <2>1, <2>2
  <1> QED  BY <1>9, <1>11, <1>12, <1>13 DEF Lent

(* The main thread.                                                        *)
LEMMA LentPlain == PInv /\ PlainStep => Lent'
  <1> SUFFICES ASSUME PInv, PlainStep PROVE Lent'
    OBVIOUS
  <1>0. pointers' = pointers /\ lent' = lent
    BY DEF PlainStep, kept
  <1>1. CASE Fault
    <2>1. Fail /\ \E what \in {"send", "pin", "hold", "open", "close"} : At(what)
      BY <1>1 DEF Fault
    <2> QED  BY <1>0, <2>1, LentFail
  <1>2. CASE Transmit
    BY <1>0, <1>2, LentAdvance DEF Transmit
  <1>3. CASE ClearSlot
    BY <1>0, <1>3, LentAdvance DEF ClearSlot
  <1>4. CASE Confirmed
    BY <1>0, <1>4, LentAdvance, LentFail DEF Confirmed
  <1>5. CASE NextSlot \/ Delay
    BY <1>0, <1>5, LentStays DEF NextSlot, Delay, PInv, TypeOK, Position
  <1>6. CASE GiveUp
    BY <1>0, <1>6, LentFail DEF GiveUp
  <1>7. CASE ReadPacket
    BY <1>0, <1>7, LentAdvance DEF ReadPacket
  <1>8. CASE CloseUart
    BY <1>0, <1>8, LentAdvance DEF CloseUart
  <1> QED  BY <1>1, <1>2, <1>3, <1>4, <1>5, <1>6, <1>7, <1>8 DEF PlainStep

LEMMA LentStep == PInv /\ [NextP4]_allVars => Lent'
  <1> SUFFICES ASSUME PInv, [NextP4]_allVars PROVE Lent'
    OBVIOUS
  <1>1. CASE UNCHANGED allVars
    BY <1>1, LentStays DEF allVars, vars, kept
  <1>2. CASE StartP4
    BY <1>2, LentStart
  <1>3. CASE PlainStep
    BY <1>3, LentPlain
  <1>4. CASE FinishP4
    BY <1>4, LentFinish
  <1>5. CASE OpenP4
    BY <1>5, LentAdvance DEF OpenP4, OpenUart, kept
  <1>6. CASE HoldP4
    BY <1>6, LentAdvance DEF HoldP4, HoldInReset, kept
  <1>7. CASE SetP4
    BY <1>7, LentSet
  <1>8. CASE ReceiveP4
    BY <1>8, LentStays DEF ReceiveP4, HandleRxPacket
  <1>9. CASE ModuleP4
    BY <1>9, LentStays DEF ModuleP4, AnswerP4, Answer, EmitP4, Emit, LinkEvent,
       FailedLink, Hear, Tell, kept
  <1> QED
    BY <1>1, <1>2, <1>3, <1>4, <1>5, <1>6, <1>7, <1>8, <1>9 DEF NextP4, MainP4

LEMMA LentInit == InitP4 => PInv
  <1> SUFFICES ASSUME InitP4 PROVE PInv
    OBVIOUS
  <1>1. TypeOK
    BY TypeInit DEF InitP4
  <1>2. pointers = {} /\ ~Running
    BY DEF InitP4, Init, Idle, Running
  <1> QED  BY <1>1, <1>2 DEF PInv, Lent, In

(* The interrupt handler writes only into structures that are lent to it,  *)
(* whatever fails and whenever frames arrive: GetConnectionInfo, GetBonds  *)
(* and a ScanStart that is refused reset their pointers on every way out   *)
(* (ProteusIV.c:1524-1596, :1638-1662, HandleRxPacket, :486-540).          *)
THEOREM PointersStaySafe == SpecP4 => []PointersSafe
  <1>1. PInv => PointersSafe
    BY DEF PInv, Lent, In, PointersSafe
  <1>2. PInv /\ [NextP4]_allVars => PInv'
    BY TypeStepP4, LentStep DEF PInv
  <1> QED  BY <1>1, <1>2, LentInit, PTL DEF SpecP4
-----------------------------------------------------------------------------
(* Requests and answers. The steps of a radio are those of the core, and   *)
(* two that the core has not: the reset pin of Metis goes up, and a frame  *)
(* may say whatever the call will look for in it.                          *)

LEMMA RadioSteps ==
    ASSUME RTypes, [NextRadio]_radioVars
    PROVE  [Next]_vars \/ ReleaseReset \/ \E data \in STRING : Emit(data)
  <1>1. UnaskedBy[device] \subseteq Indications /\ {""} \cup Wanted \subseteq STRING
    BY OwnFrames, WantedType DEF RTypes
  <1> QED
    BY <1>1 DEF NextRadio, radioVars, StartOwn, Next, ModuleStep

LEMMA RadioInvStep ==
    ASSUME Serial, Timely, RTypes, Inv, [NextRadio]_radioVars PROVE Inv'
  <1>1. TypeOK'
    BY RadioTypeStep DEF RTypes
  <1>2. CASE [Next]_vars
    BY <1>2, InvStep
  <1>3. CASE ReleaseReset
    <2>1. Requesting'
      BY <1>3, OwnRequesting DEF ReleaseReset, driver, history
    <2>2. Powered'
      BY <1>3, PoweredAdvance DEF ReleaseReset, driver
    <2> QED  BY <1>1, <2>1, <2>2 DEF Inv
  <1>4. CASE \E data \in STRING : Emit(data)
    <2>1. Requesting'
      BY <1>4, EmitRequesting
    <2>2. Powered'
      BY <1>4, PoweredStay DEF Emit, driver
    <2> QED  BY <1>1, <2>1, <2>2 DEF Inv
  <1> QED  BY <1>2, <1>3, <1>4, RadioSteps

(* What is under way is known for every radio, as for Proteus-III.         *)
LEMMA RadioInvariance ==
    ASSUME Serial, Timely PROVE SpecRadio => [](RTypes /\ Inv)
  <1>1. InitRadio => RTypes /\ Inv
    BY RadioTypeInit, InvInit DEF InitRadio
  <1>2. RTypes /\ Inv /\ [NextRadio]_radioVars => (RTypes /\ Inv)'
    BY RadioTypeStep, RadioInvStep
  <1> QED  BY <1>1, <1>2, PTL DEF SpecRadio

(* An answer that a call of a radio's driver still waits for never meets a *)
(* full array, whichever radio it is, if its table is Serial and its       *)
(* module answers in time.                                                 *)
THEOREM RadiosAwaitedKept ==
    ASSUME Serial, Timely PROVE SpecRadio => AwaitedNeverDropped
  <1>1. RTypes /\ Inv /\ [NextRadio]_radioVars => [FindsSlot]_vars
    <2> SUFFICES ASSUME RTypes, Inv, [NextRadio]_radioVars PROVE FindsSlot
      OBVIOUS
    <2>1. CASE [Next]_vars
      BY <2>1, NeverDroppedStep DEF FindsSlot
    <2>2. CASE ReleaseReset \/ \E data \in STRING : Emit(data)
      <3> SUFFICES ASSUME line # <<>>, line' = Tail(line) PROVE FALSE
        BY DEF FindsSlot
      <3>1. PICK l : l = Len(line)
        OBVIOUS
      <3>2. line \in Seq(Frame) /\ l \in Nat /\ l > 0 /\ Len(line') = l - 1
        BY <3>1 DEF Inv, TypeOK
      <3>3. line' # line /\ \A g : line' # Append(line, g)
        BY <3>1, <3>2
      <3> QED  BY <2>2, <3>3 DEF ReleaseReset, Emit
    <2> QED  BY <2>1, <2>2, RadioSteps
  <1> QED  BY <1>1, RadioInvariance, PTL DEF SpecRadio, AwaitedNeverDropped

(* A call of a radio's driver keeps the contract of its caller when        *)
(* nothing on the way fails: its requests take effect while it runs, and   *)
(* it returns true exactly if all of them did, unless it declined.         *)
THEOREM RadiosContractKept ==
    ASSUME Serial, Timely, MaxFaults = 0 PROVE SpecRadio => KeepsContract
  <1>1. InitRadio => Contract!Init
    <2> SUFFICES ASSUME Init PROVE Contract!Init
      BY DEF InitRadio
    <2>1. call.op = NoOp /\ asked = {}
      BY DEF Init, Idle
    <2>2. returned.op = NoOp
      BY DEF Init
    <2> QED  BY <2>1, <2>2 DEF Contract!Init, Running, Outcome
  <1>2. RTypes /\ Inv /\ [NextRadio]_radioVars => [Contract!Next]_(Contract!contract)
    <2> SUFFICES ASSUME RTypes, Inv, [NextRadio]_radioVars
                 PROVE  [Contract!Next]_(Contract!contract)
      OBVIOUS
    <2>1. CASE [Next]_vars
      BY <2>1, ContractStep
    <2>2. CASE ReleaseReset
      <3>1. call'.op = call.op
        BY <2>2 DEF ReleaseReset, Advance, Inv, TypeOK, Position
      <3> QED  BY <2>2, <3>1, Unseen DEF ReleaseReset, history
    <2>3. CASE \E data \in STRING : Emit(data)
      BY <2>3, Unseen DEF Emit, history
    <2> QED  BY <2>1, <2>2, <2>3, RadioSteps
  <1> QED  BY <1>1, <1>2, RadioInvariance, PTL DEF SpecRadio, KeepsContract, Contract!Spec

-----------------------------------------------------------------------------
(* The list of connections of Proteus-IV. What it will be once all frames  *)
(* on the line have arrived is what the module has.                        *)

(* A list after a frame, and what the list becomes: from now on, or from   *)
(* the start of the module that frame p on the line tells of.              *)
After(list, f) ==
    LET c == f.data
    IN  IF f.cmd = "STARTUP_IND" THEN NoLinks
        ELSE IF c \notin Connections THEN list
        ELSE CASE f.cmd = "CONNECT_IND"    -> [list EXCEPT ![c].connected = TRUE]
               [] f.cmd = "DISCONNECT_IND" -> [list EXCEPT ![c] = Closed]
               [] f.cmd = "MAXPAYLOAD_IND" -> [list EXCEPT ![c].payload = TRUE]
               [] f.cmd = "LINKOPEN_RSP"   ->
                    [list EXCEPT ![c].open = f.status = "enabled"]
               [] OTHER                    -> list
Becomes(p, lists) ==
    /\ p \in 0 .. Len(line)
    /\ IF p = 0 THEN lists[0] = connectionList
                ELSE line[p].cmd = "STARTUP_IND" /\ lists[p] = NoLinks
    /\ \A n \in p + 1 .. Len(line) : lists[n] = After(lists[n - 1], line[n])
    /\ lists[Len(line)] = links

(* The module is about to start, or has to be started before anything can  *)
(* be said of it.                                                          *)
Queued    == Names(outbox, "STARTUP_IND")
Resetting == ~awake \/ deaf \/ Names(inbox, "RESET_PIN")
Announced == \E p \in 1 .. Len(line) : \E lists : Becomes(p, lists)
Following == Resetting \/ Queued \/ \E p \in 0 .. Len(line) : \E lists : Becomes(p, lists)

(* What Init has behind it.                                                *)
Starting   == Running /\ call.op \in Opening
Renewed(i) == \E h \in 1 .. call.k - 1 : h <= Length /\ Afresh(Script[call.op], h, i)
Begun      == \E w \in 1 .. call.k - 1 : w <= Length /\ AwaitsStart(Script[call.op], w)

(* The module's queue, and its start on the line.                          *)
Sending ==
    /\ \A cmd \in News : ~Names(outbox, cmd)
    /\ Queued => links = NoLinks
    /\ Names(line, "STARTUP_IND") => Resetting \/ Queued \/ Announced

(* Whom the frames on the line can be trusted by: a driver that was        *)
(* started, and an Init to which the module has told its start.            *)
Trusted ==
    /\ Starting => ~ready
    /\ uartOpen /\ ready => Following
    /\ uartOpen /\ Starting /\ call.ok =>
         /\ Begun => Following
         /\ \A i \in 1 .. Slots :
              Renewed(i) /\ cmdConfirmationArray[i].cmd = "STARTUP_IND" => Following

LinksInv == TypeOK /\ Sending /\ Trusted

LEMMA Literal ==
    /\ "STARTUP_IND" \notin News /\ "STARTUP_IND" # CNFINVALID
    /\ {"CONNECT_IND", "DISCONNECT_IND", "MAXPAYLOAD_IND", "LINKOPEN_RSP", "SCAN_IND"} = News
BY DEF News, CNFINVALID

(* A frame that brings no news leaves a list as it is.                     *)
LEMMA NoNews ==
    ASSUME NEW f, f.cmd \notin News, f.cmd # "STARTUP_IND", NEW list
    PROVE  After(list, f) = list
BY DEF After, News

LEMMA Updated == \A f : ListAfter(f) = After(connectionList, f)
BY DEF ListAfter, Noted, After

(* One more frame on the line, and the module's connections as it says.    *)
LEMMA OneMore ==
    ASSUME TypeOK, NEW f \in Frame, line' = Append(line, f),
           connectionList' = connectionList, links' = After(links, f),
           NEW p \in 0 .. Len(line), NEW lists, Becomes(p, lists)
    PROVE  p \in 0 .. Len(line)' /\ \E more : Becomes(p, more)'
  <1>0. PICK last, l : last = links' /\ l = Len(line)
    OBVIOUS
  <1> DEFINE more == [n \in 0 .. l + 1 |-> IF n <= l THEN lists[n] ELSE last]
  <1>1. /\ l \in Nat /\ line \in Seq(Frame) /\ Len(line') = l + 1 /\ line'[l + 1] = f
        /\ \A n \in 1 .. l : line'[n] = line[n]
    BY <1>0 DEF TypeOK
  <1>2. p \in 0 .. l /\ p \in 0 .. l + 1 /\ p <= l /\ l + 1 \in 0 .. l + 1 /\ ~(l + 1 <= l)
    BY <1>0, <1>1
  <1>3. more[l + 1] = links'
    BY <1>0, <1>2
  <1>4. \A n \in 0 .. l : more[n] = lists[n]
    BY <1>1
  <1>5. more[p] = lists[p]
    BY <1>2, <1>4
  <1>6. ASSUME NEW n \in p + 1 .. l + 1 PROVE more[n] = After(more[n - 1], line'[n])
    <2>1. CASE n = l + 1
      <3>1. n - 1 = l /\ l \in 0 .. l
        BY <1>1, <2>1
      <3>2. more[n - 1] = links
        BY <1>0, <1>4, <3>1 DEF Becomes
      <3> QED  BY <1>1, <1>3, <2>1, <3>2
    <2>2. CASE n # l + 1
      <3>1. n \in p + 1 .. l /\ n \in 1 .. l /\ n \in 0 .. l /\ n - 1 \in 0 .. l
        BY <1>1, <1>2, <2>2
      <3>2. lists[n] = After(lists[n - 1], line[n])
        BY <1>0, <3>1 DEF Becomes
      <3> QED  BY <1>1, <1>4, <3>1, <3>2
    <2> QED  BY <2>1, <2>2
  <1>7. IF p = 0 THEN more[0] = connectionList'
                 ELSE line'[p].cmd = "STARTUP_IND" /\ more[p] = NoLinks
    <2>1. p # 0 => p \in 1 .. l
      BY <1>1, <1>2
    <2> QED  BY <1>1, <1>5, <2>1 DEF Becomes
  <1>8. NoLinks' = NoLinks /\ \A list, g : After(list, g)' = After(list, g)
    BY DEF NoLinks, After
  <1>9. Becomes(p, more)'
    BY <1>1, <1>2, <1>3, <1>6, <1>7, <1>8 DEF Becomes
  <1> HIDE DEF more
  <1> QED  BY <1>0, <1>1, <1>2, <1>9

(* The first frame of the line arrives. Of what is to come after a start   *)
(* that is still on the line the list now says nothing.                    *)
LEMMA OneLess ==
    ASSUME TypeOK, line # <<>>, line' = Tail(line), links' = links,
           NEW p \in 0 .. Len(line), NEW lists, Becomes(p, lists),
           p \in {0, 1} => connectionList' = After(connectionList, Head(line))
    PROVE  \E q \in 0 .. Len(line)' : \E more : (p > 1 => q > 0) /\ Becomes(q, more)'
  <1>0. PICK l, q : l = Len(line) /\ q = (IF p = 0 THEN 0 ELSE p - 1)
    OBVIOUS
  <1> DEFINE more == [n \in 0 .. l - 1 |-> lists[n + 1]]
  <1>1. /\ l \in Nat /\ l > 0 /\ line \in Seq(Frame) /\ Len(line') = l - 1
        /\ \A n \in 1 .. l - 1 : line'[n] = line[n + 1]
        /\ Head(line) = line[1]
    BY <1>0 DEF TypeOK
  <1>2. p \in 0 .. l /\ q \in 0 .. l - 1 /\ (p > 1 => q > 0) /\ l - 1 \in 0 .. l - 1
    BY <1>0, <1>1
  <1>3. \A n \in 0 .. l - 1 : more[n] = lists[n + 1]
    OBVIOUS
  <1>4. more[l - 1] = links
    <2>1. (l - 1) + 1 = l
      BY <1>1
    <2> QED  BY <1>0, <1>2, <1>3, <2>1 DEF Becomes
  <1>5. ASSUME NEW n \in q + 1 .. l - 1 PROVE more[n] = After(more[n - 1], line'[n])
    <2>1. /\ n \in 0 .. l - 1 /\ n - 1 \in 0 .. l - 1 /\ n \in 1 .. l - 1
          /\ (n - 1) + 1 = n /\ (n + 1) - 1 = n /\ n + 1 \in p + 1 .. l
      BY <1>0, <1>1, <1>2
    <2>2. lists[n + 1] = After(lists[n], line[n + 1])
      BY <1>0, <2>1 DEF Becomes
    <2> QED  BY <1>1, <1>3, <2>1, <2>2
  <1>6. IF q = 0 THEN more[0] = connectionList'
                 ELSE line'[q].cmd = "STARTUP_IND" /\ more[q] = NoLinks
    <2>1. CASE p = 0
      <3>1. q = 0 /\ 1 \in p + 1 .. l /\ 0 \in 0 .. l - 1 /\ 0 + 1 = 1 /\ 1 - 1 = 0
        BY <1>0, <1>1, <2>1
      <3>2. lists[1] = After(lists[0], line[1]) /\ lists[0] = connectionList
        BY <1>0, <2>1, <3>1 DEF Becomes
      <3> QED  BY <1>1, <1>3, <2>1, <3>1, <3>2
    <2>2. CASE p = 1
      <3>1. q = 0 /\ 0 \in 0 .. l - 1 /\ 0 + 1 = 1
        BY <1>0, <1>1, <2>2
      <3>2. line[1].cmd = "STARTUP_IND" /\ lists[1] = NoLinks
        BY <2>2 DEF Becomes
      <3>3. connectionList' = NoLinks
        BY <1>1, <2>2, <3>2 DEF After
      <3> QED  BY <1>3, <3>1, <3>2, <3>3
    <2>3. CASE p # 0 /\ p # 1
      <3>1. q = p - 1 /\ q # 0 /\ q \in 1 .. l - 1 /\ q + 1 = p
        BY <1>0, <1>1, <1>2, <2>3
      <3>2. line[p].cmd = "STARTUP_IND" /\ lists[p] = NoLinks
        BY <2>3 DEF Becomes
      <3> QED  BY <1>1, <1>2, <1>3, <3>1, <3>2
    <2> QED  BY <2>1, <2>2, <2>3
  <1>7. NoLinks' = NoLinks /\ \A list, g : After(list, g)' = After(list, g)
    BY DEF NoLinks, After
  <1>8. Becomes(q, more)'
    BY <1>1, <1>2, <1>4, <1>5, <1>6, <1>7 DEF Becomes
  <1> HIDE DEF more
  <1> QED  BY <1>0, <1>1, <1>2, <1>8

(* The module's start goes on the line.                                    *)
LEMMA StartSent ==
    ASSUME TypeOK, NEW f \in Frame, line' = Append(line, f), f.cmd = "STARTUP_IND",
           links' = NoLinks
    PROVE  Announced'
  <1>0. PICK l : l = Len(line)
    OBVIOUS
  <1> DEFINE lists == [n \in 0 .. l + 1 |-> NoLinks]
  <1>1. /\ l \in Nat /\ line \in Seq(Frame) /\ Len(line') = l + 1 /\ line'[l + 1] = f
    BY <1>0 DEF TypeOK
  <1>2. /\ l + 1 \in 0 .. l + 1 /\ l + 1 \in 1 .. l + 1 /\ l + 1 # 0
        /\ \A n \in (l + 1) + 1 .. l + 1 : FALSE
    BY <1>1
  <1>3. NoLinks' = NoLinks /\ lists[l + 1] = NoLinks
    BY <1>2 DEF NoLinks
  <1>4. Becomes(l + 1, lists)'
    BY <1>1, <1>2, <1>3 DEF Becomes
  <1> HIDE DEF lists
  <1> QED  BY <1>1, <1>2, <1>4 DEF Announced

(* Nothing of this changes.                                                *)
LEMMA WorldStays ==
    ASSUME links' = links, awake' = awake, deaf' = deaf, inbox' = inbox,
           outbox' = outbox, line' = line
    PROVE  /\ Sending => Sending'
           /\ Following /\ connectionList' = connectionList => Following'
  <1>1. /\ NoLinks' = NoLinks /\ \A list, g : After(list, g)' = After(list, g)
        /\ \A cmd : Names(outbox, cmd)' = Names(outbox, cmd)
    BY DEF NoLinks, After, Names
  <1>2. ASSUME NEW p \in 1 .. Len(line), NEW lists PROVE Becomes(p, lists)' = Becomes(p, lists)
    <2>1. p # 0
      OBVIOUS
    <2> QED  BY <1>1, <2>1 DEF Becomes
  <1>3. Queued' = Queued /\ Resetting' = Resetting
    BY DEF Queued, Resetting, Names
  <1>4. ASSUME connectionList' = connectionList, NEW p, NEW lists, Becomes(p, lists)
        PROVE  Becomes(p, lists)'
    BY <1>1, <1>4 DEF Becomes
  <1>5. Following /\ connectionList' = connectionList => Following'
    BY <1>3, <1>4 DEF Following, Queued, Resetting, Names
  <1>6. Sending => Sending'
    <2>1. Names(line, "STARTUP_IND")' = Names(line, "STARTUP_IND")
      BY DEF Names
    <2>2. Announced => Announced'
      BY <1>2 DEF Announced
    <2>3. Queued' = Queued /\ Resetting' = Resetting
      BY DEF Queued, Resetting, Names
    <2> QED  BY <1>1, <2>1, <2>2, <2>3 DEF Sending
  <1> QED  BY <1>5, <1>6

LEMMA EmitAhead ==
    ASSUME LinksInv, EmitP4 PROVE Sending' /\ (Following => Following')
  <1>1. PICK f, l : f = Head(outbox) /\ l = Len(outbox)
    OBVIOUS
  <1>2. /\ outbox \in Seq(Frame) /\ outbox # <<>> /\ f \in Frame /\ outbox' = Tail(outbox)
        /\ l \in Nat /\ l > 0 /\ f = outbox[1] /\ 1 \in DOMAIN outbox
    <2>1. outbox \in Seq(Frame) /\ outbox # <<>> /\ outbox' = Tail(outbox)
      BY DEF LinksInv, TypeOK, EmitP4, Emit
    <2> QED  BY <1>1, <2>1
  <1>3. PICK g : g = [f EXCEPT !.data = ""]
    OBVIOUS
  <1>4. g \in Frame /\ g.cmd = f.cmd /\ line' = Append(line, g)
    BY <1>1, <1>2, <1>3, Literals DEF Frame, EmitP4, Emit
  <1>5. /\ links' = links /\ awake' = awake /\ deaf' = deaf /\ inbox' = inbox
        /\ connectionList' = connectionList
    BY DEF EmitP4, Emit, kept, radio
  <1>6. \A cmd : Names(outbox, cmd)' => Names(outbox, cmd)
    <2>1. \A n \in DOMAIN outbox' : n + 1 \in DOMAIN outbox /\ outbox'[n] = outbox[n + 1]
      BY <1>2
    <2> QED  BY <2>1 DEF Names
  <1>7. \A cmd : Names(outbox, cmd) => cmd = f.cmd \/ Names(outbox, cmd)'
    <2> SUFFICES ASSUME NEW cmd, NEW n \in DOMAIN outbox, outbox[n].cmd = cmd, cmd # f.cmd
                 PROVE  Names(outbox, cmd)'
      BY DEF Names
    <2>1. n # 1 /\ n - 1 \in DOMAIN outbox' /\ outbox'[n - 1] = outbox[n]
      BY <1>1, <1>2
    <2> QED  BY <2>1 DEF Names
  <1>8. f.cmd \notin News
    BY <1>2 DEF LinksInv, Sending, Names
  <1>9. Resetting' = Resetting /\ NoLinks' = NoLinks
    BY <1>5 DEF Resetting, Names, NoLinks
  <1>10. CASE f.cmd = "STARTUP_IND"
    <2>1. Queued /\ links = NoLinks
      BY <1>2, <1>10 DEF Queued, Names, LinksInv, Sending
    <2>2. Announced'
      BY <1>4, <1>5, <1>10, <2>1, StartSent DEF LinksInv
    <2>3. Following'
      <3>1. Len(line') \in Nat /\ 1 .. Len(line') \subseteq 0 .. Len(line')
        BY <1>4 DEF LinksInv, TypeOK
      <3> QED  BY <2>2, <3>1 DEF Following, Announced
    <2>4. links' = NoLinks'
      BY <1>5, <1>9, <2>1
    <2>5. \A cmd \in News : ~Names(outbox, cmd)'
      BY <1>6 DEF LinksInv, Sending
    <2> QED  BY <2>2, <2>3, <2>4, <2>5 DEF Sending
  <1>11. CASE f.cmd # "STARTUP_IND"
    <2>1. After(links, g) = links
      BY <1>4, <1>8, <1>11, NoNews
    <2>2. \A p \in 0 .. Len(line) : \A lists : Becomes(p, lists) =>
            p \in 0 .. Len(line)' /\ \E more : Becomes(p, more)'
      BY <1>4, <1>5, <2>1, OneMore DEF LinksInv
    <2>3. Queued' <=> Queued
      BY <1>6, <1>7, <1>11 DEF Queued
    <2>4. Following => Following'
      <3>1. (\E p \in 0 .. Len(line) : \E lists : Becomes(p, lists)) =>
              (\E p \in 0 .. Len(line) : \E lists : Becomes(p, lists))'
        BY <2>2
      <3> QED  BY <1>9, <2>3, <3>1 DEF Following
    <2>5. Announced => Announced'
      <3>1. \A p \in 1 .. Len(line) : p \in 0 .. Len(line)
        BY DEF LinksInv, TypeOK
      <3>2. \A p \in 1 .. Len(line) : p \in 0 .. Len(line)' => p \in 1 .. Len(line)'
        BY <1>4 DEF LinksInv, TypeOK
      <3> QED  BY <2>2, <3>1, <3>2 DEF Announced
    <2>6. Names(line, "STARTUP_IND")' => Names(line, "STARTUP_IND")
      <3>1. \A n \in DOMAIN line' : (n \in DOMAIN line /\ line'[n] = line[n]) \/ line'[n] = g
        BY <1>4 DEF LinksInv, TypeOK
      <3> QED  BY <1>4, <1>11, <3>1 DEF Names
    <2>7. \A cmd \in News : ~Names(outbox, cmd)'
      BY <1>6 DEF LinksInv, Sending
    <2> QED  BY <1>5, <1>9, <2>3, <2>4, <2>5, <2>6, <2>7 DEF LinksInv, Sending
  <1> QED  BY <1>10, <1>11

(* What the module answers.                                                *)
LEMMA AnswerAhead ==
    ASSUME LinksInv, AnswerP4 PROVE Sending' /\ (Following => Following')
  <1>1. PICK granted \in BOOLEAN :
          LET cmd == Head(inbox).cmd
          IN  /\ Answer(granted)
              /\ deaf => ~granted /\ outbox' = outbox
              /\ IF granted /\ cmd \in Restarted
                 THEN links' = NoLinks ELSE links' = links
              /\ deaf' = \/ deaf
                         \/ granted /\ cmd = "SET_UART_REQ"
                         \/ ~granted /\ cmd = "RESET_PIN"
    BY DEF AnswerP4
  <1>2. PICK r, l : r = Head(inbox) /\ l = Len(outbox)
    OBVIOUS
  <1>3. /\ r.cmd \in DOMAIN Reply /\ r.req \in Nat /\ r = inbox[1] /\ 1 \in DOMAIN inbox
        /\ inbox # <<>> /\ inbox \in Seq(Message)
    <2>1. inbox \in Seq(Message) /\ inbox # <<>>
      BY <1>1 DEF Answer, LinksInv, TypeOK
    <2>2. r \in Message /\ r = inbox[1] /\ 1 \in DOMAIN inbox
      BY <1>2, <2>1
    <2> QED  BY <2>1, <2>2 DEF Message
  <1>4. PICK frames : /\ outbox' = outbox \o Tagged(frames, r.req)
                      /\ IF granted THEN frames = Reply[r.cmd].yes
                                    ELSE frames \in Reply[r.cmd].no
    BY <1>1, <1>2 DEF Answer
  <1>5. frames \in Seq(PartType)
    BY <1>3, <1>4, ModuleAssumption
  <1>6. PICK tagged : tagged = Tagged(frames, r.req)
    OBVIOUS
  <1>7. /\ tagged \in Seq(Frame) /\ DOMAIN tagged = DOMAIN frames
        /\ \A n \in DOMAIN frames : tagged[n].cmd = frames[n].cmd
    <2>1. tagged \in Seq(Frame)
      BY <1>3, <1>5, <1>6, TaggedType
    <2> QED  BY <1>6, <2>1 DEF Tagged
  <1>8. outbox \in Seq(Frame) /\ l \in Nat
    BY <1>2 DEF LinksInv, TypeOK
  <1>9. \A cmd : Names(outbox, cmd)' <=> Names(outbox, cmd) \/ Names(frames, cmd)
    <2>1. \A n \in DOMAIN outbox : n \in DOMAIN outbox' /\ outbox'[n] = outbox[n]
      BY <1>4, <1>6, <1>7, <1>8
    <2>2. \A n \in DOMAIN frames : l + n \in DOMAIN outbox' /\ outbox'[l + n] = tagged[n]
      BY <1>2, <1>4, <1>6, <1>7, <1>8
    <2>3. \A n \in DOMAIN outbox' : \/ n \in DOMAIN outbox
                                    \/ n - l \in DOMAIN frames /\ n = l + (n - l)
      BY <1>2, <1>4, <1>6, <1>7, <1>8
    <2> QED  BY <1>7, <2>1, <2>2, <2>3 DEF Names
  <1>10. \A cmd \in News : ~Names(frames, cmd)
    BY <1>3, <1>4, AnswersAssumption
  <1>11. /\ awake' = awake /\ line' = line /\ connectionList' = connectionList
         /\ inbox' = Tail(inbox)
    BY <1>1 DEF Answer, AnswerP4, kept
  <1>12. Names(inbox, "RESET_PIN") => r.cmd = "RESET_PIN" \/ Names(inbox, "RESET_PIN")'
    <2> SUFFICES ASSUME NEW n \in DOMAIN inbox, inbox[n].cmd = "RESET_PIN",
                        r.cmd # "RESET_PIN"
                 PROVE  Names(inbox, "RESET_PIN")'
      BY DEF Names
    <2>1. n # 1 /\ n - 1 \in DOMAIN inbox' /\ inbox'[n - 1] = inbox[n]
      BY <1>3, <1>11
    <2> QED  BY <2>1 DEF Names
  <1>13. Names(frames, "STARTUP_IND") <=> granted /\ r.cmd \in Restarted \ {"SET_UART_REQ"}
    BY <1>3, <1>4, AnswersAssumption
  <1>14. NoLinks' = NoLinks
    BY DEF NoLinks
  <1>15. Queued' <=> Queued \/ Names(frames, "STARTUP_IND")
    BY <1>9 DEF Queued
  <1>16. Queued' => links' = NoLinks
    BY <1>1, <1>2, <1>13, <1>15 DEF LinksInv, Sending
  <1>17. Resetting => Resetting' \/ Queued'
    BY <1>1, <1>2, <1>11, <1>12, <1>13, <1>15 DEF Resetting, Restarted
  <1>18. links' = links \/ Resetting' \/ Queued'
    BY <1>1, <1>2, <1>13, <1>15 DEF Resetting
  <1>19. links' = links => /\ \A p, lists : Becomes(p, lists) => Becomes(p, lists)'
                           /\ Announced => Announced'
    <2>1. \A list, g : After(list, g)' = After(list, g)
      BY <1>14 DEF After, NoLinks
    <2>2. ASSUME links' = links, NEW p, NEW lists, Becomes(p, lists) PROVE Becomes(p, lists)'
      BY <1>11, <1>14, <2>1, <2>2 DEF Becomes
    <2> QED  BY <1>11, <2>2 DEF Announced
  <1>20. Following => Following'
    BY <1>11, <1>15, <1>17, <1>18, <1>19 DEF Following
  <1>21. Names(line, "STARTUP_IND")' = Names(line, "STARTUP_IND")
    BY <1>11 DEF Names
  <1> QED
    BY <1>9, <1>10, <1>14, <1>15, <1>16, <1>17, <1>18, <1>19, <1>20, <1>21 DEF LinksInv, Sending

(* What the module says unasked.                                           *)
LEMMA TellAhead ==
    ASSUME LinksInv, NEW f \in Frame, Tell(f.cmd, f.status, f.data), f.req = 0,
           f.cmd # "STARTUP_IND", links' = After(links, f), deaf' = deaf,
           connectionList' = connectionList
    PROVE  Sending' /\ (Following => Following')
  <1>1. /\ outbox = <<>> /\ outbox' = outbox /\ inbox' = inbox /\ awake' = awake
        /\ line' = IF deaf THEN line ELSE Append(line, f)
    <2>1. f = [cmd |-> f.cmd, status |-> f.status, data |-> f.data, req |-> 0]
      BY DEF Frame
    <2> QED  BY <2>1, Zenon DEF Tell, module
  <1>2. \A cmd : ~Names(outbox, cmd) /\ ~Names(outbox, cmd)'
    BY <1>1 DEF Names
  <1>3. Resetting' = Resetting
    BY <1>1 DEF Resetting, Names
  <1>4. CASE deaf
    BY <1>1, <1>2, <1>3, <1>4 DEF Sending, Following, Queued, Resetting
  <1>5. CASE ~deaf
    <2>1. line' = Append(line, f) /\ line \in Seq(Frame)
      BY <1>1, <1>5 DEF LinksInv, TypeOK
    <2>2. \A p \in 0 .. Len(line) : \A lists : Becomes(p, lists) =>
            p \in 0 .. Len(line)' /\ \E more : Becomes(p, more)'
      BY <2>1, OneMore DEF LinksInv
    <2>3. Following => Following'
      <3>1. (\E p \in 0 .. Len(line) : \E lists : Becomes(p, lists)) =>
              (\E p \in 0 .. Len(line) : \E lists : Becomes(p, lists))'
        BY <2>2
      <3> QED  BY <1>2, <1>3, <3>1 DEF Following, Queued
    <2>4. Announced => Announced'
      <3>1. \A p \in 1 .. Len(line) : p \in 0 .. Len(line)
        BY <2>1
      <3>2. \A p \in 1 .. Len(line) : p \in 0 .. Len(line)' => p \in 1 .. Len(line)'
        BY <2>1
      <3> QED  BY <2>2, <3>1, <3>2 DEF Announced
    <2>5. Names(line, "STARTUP_IND")' => Names(line, "STARTUP_IND")
      <3>1. \A n \in DOMAIN line' : (n \in DOMAIN line /\ line'[n] = line[n]) \/ line'[n] = f
        BY <2>1
      <3> QED  BY <3>1 DEF Names
    <2> QED  BY <1>2, <1>3, <2>3, <2>4, <2>5 DEF LinksInv, Sending, Queued
  <1> QED  BY <1>4, <1>5

LEMMA UnaskedAhead ==
    ASSUME LinksInv, FailedLink \/ (\E c \in Connections : LinkEvent(c))
                     \/ (\E a \in Advertisers : Hear(a))
    PROVE  Sending' /\ (Following => Following')
  <1> DEFINE Said(cmd, status, about) ==
               [cmd |-> cmd, status |-> status, data |-> about, req |-> 0]
  <1>1. \A cmd, status, about \in STRING : Said(cmd, status, about) \in Frame
    BY DEF Frame
  <1>2. connectionList' = connectionList /\ deaf' = deaf
    BY DEF FailedLink, LinkEvent, Hear, kept, radio
  <1>3. "" \in STRING /\ "Success" \in STRING /\ "disabled" \in STRING
    BY Literals, LinkLiteralsAssumption
  <1>4. CASE FailedLink
    <2>1. PICK f : f = Said("CONNECT_IND", "Failed", "invalid")
      OBVIOUS
    <2>2. f \in Frame /\ f.cmd = "CONNECT_IND" /\ f.data = "invalid"
      BY <1>1, <2>1, LinkLiteralsAssumption
    <2>3. After(links, f) = links
      BY <2>2, LinksAssumption DEF After
    <2>4. Tell(f.cmd, f.status, f.data) /\ f.req = 0 /\ links' = links
      BY <1>4, <2>1 DEF FailedLink, radio
    <2> QED  BY <1>2, <2>2, <2>3, <2>4, TellAhead
  <1>5. ASSUME NEW c \in Connections, LinkEvent(c)
        PROVE  Sending' /\ (Following => Following')
    <2>0. c \in STRING
      BY LinksAssumption
    <2>1. CASE Tell("CONNECT_IND", "Success", c)
                 /\ links' = [links EXCEPT ![c].connected = TRUE]
      <3>1. PICK f : f = Said("CONNECT_IND", "Success", c)
        OBVIOUS
      <3>2. f \in Frame
        BY <1>1, <1>3, <2>0, <3>1, LinkLiteralsAssumption
      <3>3. After(links, f) = links' /\ f.cmd # "STARTUP_IND"
        BY <2>1, <3>1 DEF After
      <3>4. Tell(f.cmd, f.status, f.data) /\ f.req = 0
        BY <2>1, <3>1
      <3> QED  BY <1>2, <3>2, <3>3, <3>4, TellAhead
    <2>2. CASE Tell("MAXPAYLOAD_IND", "", c)
                 /\ links' = [links EXCEPT ![c].payload = TRUE]
      <3>1. PICK f : f = Said("MAXPAYLOAD_IND", "", c)
        OBVIOUS
      <3>2. f \in Frame
        BY <1>1, <1>3, <2>0, <3>1, LinkLiteralsAssumption
      <3>3. After(links, f) = links' /\ f.cmd # "STARTUP_IND"
        BY <2>2, <3>1 DEF After
      <3>4. Tell(f.cmd, f.status, f.data) /\ f.req = 0
        BY <2>2, <3>1
      <3> QED  BY <1>2, <3>2, <3>3, <3>4, TellAhead
    <2>3. ASSUME NEW open \in BOOLEAN,
                 Tell("LINKOPEN_RSP", IF open THEN "enabled" ELSE "disabled", c),
                 links' = [links EXCEPT ![c].open = open]
          PROVE  Sending' /\ (Following => Following')
      <3>1. PICK f, status : /\ status = (IF open THEN "enabled" ELSE "disabled")
                             /\ f = Said("LINKOPEN_RSP", status, c)
        OBVIOUS
      <3>2. status \in STRING /\ (status = "enabled") = open
        BY <1>3, <3>1, LinkLiteralsAssumption
      <3>3. f \in Frame
        BY <1>1, <2>0, <3>1, <3>2, LinkLiteralsAssumption
      <3>4. After(links, f) = links' /\ f.cmd # "STARTUP_IND"
        BY <2>3, <3>1, <3>2 DEF After
      <3>5. Tell(f.cmd, f.status, f.data) /\ f.req = 0
        BY <2>3, <3>1
      <3> QED  BY <1>2, <3>3, <3>4, <3>5, TellAhead
    <2>4. CASE Tell("DISCONNECT_IND", "", c) /\ links' = [links EXCEPT ![c] = Closed]
      <3>1. PICK f : f = Said("DISCONNECT_IND", "", c)
        OBVIOUS
      <3>2. f \in Frame
        BY <1>1, <1>3, <2>0, <3>1, LinkLiteralsAssumption
      <3>3. After(links, f) = links' /\ f.cmd # "STARTUP_IND"
        BY <2>4, <3>1 DEF After
      <3>4. Tell(f.cmd, f.status, f.data) /\ f.req = 0
        BY <2>4, <3>1
      <3> QED  BY <1>2, <3>2, <3>3, <3>4, TellAhead
    <2>5. \A open : open \in {~links[c].open} => open \in BOOLEAN
      OBVIOUS
    <2> QED  BY <1>5, <2>1, <2>2, <2>3, <2>4, <2>5 DEF LinkEvent
  <1>6. ASSUME NEW a \in Advertisers, Hear(a)
        PROVE  Sending' /\ (Following => Following')
    <2>1. PICK f : f = Said("SCAN_IND", "", a)
      OBVIOUS
    <2>2. f \in Frame /\ f.cmd = "SCAN_IND"
      BY <1>1, <1>3, <2>1, LinkLiteralsAssumption, LinksAssumption
    <2>3. After(links, f) = links
      BY <2>2 DEF After
    <2>4. Tell(f.cmd, f.status, f.data) /\ f.req = 0 /\ links' = links
      BY <1>6, <2>1 DEF Hear, radio
    <2> QED  BY <1>2, <2>2, <2>3, <2>4, TellAhead
  <1> QED  BY <1>4, <1>5, <1>6

(* A start that is still to come is as good as the one before it.          *)
LEMMA LaterStart ==
    ASSUME TypeOK, NEW p \in 0 .. Len(line), NEW lists, Becomes(p, lists),
           NEW m \in DOMAIN line, line[m].cmd = "STARTUP_IND", p <= m
    PROVE  Becomes(m, lists)
  <1>0. PICK l : l = Len(line)
    OBVIOUS
  <1>1. /\ l \in Nat /\ m \in 1 .. l /\ m \in 0 .. l /\ m # 0 /\ p \in 0 .. l
        /\ m + 1 .. l \subseteq p + 1 .. l
    BY <1>0 DEF TypeOK
  <1>2. lists[m] = NoLinks
    <2>1. CASE p = m
      BY <1>1, <2>1 DEF Becomes
    <2>2. CASE p # m
      <3>1. m \in p + 1 .. l
        BY <1>1, <2>2
      <3>2. lists[m] = After(lists[m - 1], line[m])
        BY <1>0, <3>1 DEF Becomes
      <3> QED  BY <3>2 DEF After
    <2> QED  BY <2>1, <2>2
  <1> QED  BY <1>0, <1>1, <1>2 DEF Becomes

LEMMA ReceiveAhead ==
    ASSUME LinksInv, ReceiveP4
    PROVE  Sending' /\ (uartOpen /\ Following => Following')
  <1>1. /\ line # <<>> /\ line' = Tail(line) /\ line \in Seq(Frame)
        /\ outbox' = outbox /\ inbox' = inbox /\ awake' = awake /\ links' = links
        /\ deaf' = deaf
        /\ uartOpen => connectionList' = After(connectionList, Head(line))
    BY Updated DEF ReceiveP4, HandleRxPacket, LinksInv, TypeOK, module, radio
  <1>2. /\ NoLinks' = NoLinks /\ \A cmd : Names(outbox, cmd)' = Names(outbox, cmd)
        /\ Queued' = Queued /\ Resetting' = Resetting
    BY <1>1 DEF NoLinks, Names, Queued, Resetting
  <1>3. uartOpen /\ Following => Following'
    <2>1. ASSUME uartOpen, NEW p \in 0 .. Len(line), NEW lists, Becomes(p, lists)
          PROVE  (\E q \in 0 .. Len(line) : \E more : Becomes(q, more))'
      BY <1>1, <2>1, OneLess DEF LinksInv
    <2> QED  BY <1>2, <2>1 DEF Following
  <1>4. ASSUME Names(line, "STARTUP_IND")', Announced PROVE Announced'
    <2>1. PICK n \in DOMAIN line' : line'[n].cmd = "STARTUP_IND"
      BY <1>4 DEF Names
    <2>2. PICK l, m : l = Len(line) /\ m = n + 1
      OBVIOUS
    <2>3. l \in Nat /\ Len(line') = l - 1 /\ m \in 1 .. l /\ m \in DOMAIN line /\ m > 1
          /\ line[m].cmd = "STARTUP_IND"
      BY <1>1, <2>1, <2>2
    <2>4. PICK p, lists : p \in 1 .. Len(line) /\ Becomes(p, lists)
      BY <1>4 DEF Announced
    <2>5. \E q \in 0 .. Len(line) : q > 1 /\ Becomes(q, lists)
      <3>1. CASE p > m
        BY <2>2, <2>3, <2>4, <3>1
      <3>2. CASE p <= m
        <4>1. p \in 0 .. Len(line) /\ m \in 0 .. Len(line)
          BY <2>2, <2>3, <2>4
        <4> QED  BY <2>3, <2>4, <3>2, <4>1, LaterStart DEF LinksInv
      <3>3. p > m \/ p <= m
        BY <2>2, <2>3, <2>4
      <3> QED  BY <3>1, <3>2, <3>3
    <2>6. PICK q \in 0 .. Len(line) : q > 1 /\ Becomes(q, lists)
      BY <2>5
    <2>7. q \notin {0, 1}
      BY <2>6
    <2>8. \E o \in 0 .. Len(line)' : \E more : (q > 1 => o > 0) /\ Becomes(o, more)'
      BY <1>1, <2>6, <2>7, OneLess DEF LinksInv
    <2>9. \A o \in 0 .. Len(line)' : o > 0 => o \in 1 .. Len(line)'
      BY <2>3
    <2> QED  BY <2>6, <2>8, <2>9 DEF Announced
  <1>5. Names(line, "STARTUP_IND")' => Names(line, "STARTUP_IND")
    <2>1. \A n \in DOMAIN line' : n + 1 \in DOMAIN line /\ line'[n] = line[n + 1]
      BY <1>1
    <2> QED  BY <2>1 DEF Names
  <1> QED  BY <1>1, <1>2, <1>3, <1>4, <1>5 DEF LinksInv, Sending

-----------------------------------------------------------------------------
(* What the main thread does to the module and the line.                   *)
LEMMA TransmitAhead ==
    ASSUME LinksInv, Transmit, PlainStep PROVE Sending' /\ (Following => Following')
  <1>1. PICK cmd, n : cmd = Step.cmd /\ n = requests'
    OBVIOUS
  <1>2. /\ awake' = (awake \/ cmd = "RESET_PIN")
        /\ inbox' = IF awake' THEN Append(inbox, [cmd |-> cmd, req |-> n]) ELSE inbox
        /\ outbox' = outbox /\ line' = line
    BY <1>1, AnswersAssumption DEF Transmit
  <1>3. connectionList' = connectionList /\ links' = links /\ deaf' = deaf
    BY DEF PlainStep, kept, radio
  <1>4. inbox \in Seq(Message) /\ awake \in BOOLEAN
    BY DEF LinksInv, TypeOK
  <1>5. \A j \in DOMAIN inbox : j \in DOMAIN inbox' /\ inbox'[j] = inbox[j]
    BY <1>2, <1>4
  <1>6. awake' /\ cmd = "RESET_PIN" => Names(inbox, "RESET_PIN")'
    <2> SUFFICES ASSUME awake', cmd = "RESET_PIN" PROVE Names(inbox, "RESET_PIN")'
      OBVIOUS
    <2>1. PICK l : l = Len(inbox) + 1
      OBVIOUS
    <2>2. l \in DOMAIN inbox' /\ inbox'[l] = [cmd |-> cmd, req |-> n]
      BY <1>2, <1>4, <2>1
    <2> QED  BY <2>2 DEF Names
  <1>7. Resetting => Resetting'
    BY <1>2, <1>3, <1>5, <1>6 DEF Resetting, Names
  <1>8. NoLinks' = NoLinks /\ \A list, g : After(list, g)' = After(list, g)
    BY DEF NoLinks, After
  <1>9. \A p, lists : Becomes(p, lists)' = Becomes(p, lists)
    BY <1>2, <1>3, <1>8 DEF Becomes
  <1>10. Queued' = Queued /\ (Announced => Announced')
    BY <1>2, <1>9 DEF Queued, Names, Announced
  <1>11. \A cmd_ : Names(outbox, cmd_)' = Names(outbox, cmd_)
                   /\ Names(line, cmd_)' = Names(line, cmd_)
    BY <1>2 DEF Names
  <1>12. Following => Following'
    BY <1>2, <1>7, <1>9, <1>10 DEF Following
  <1> QED  BY <1>3, <1>7, <1>8, <1>10, <1>11, <1>12 DEF LinksInv, Sending

LEMMA HoldAhead ==
    ASSUME LinksInv, HoldP4 PROVE Sending' /\ Following'
  <1>1. outbox' = <<>> /\ ~awake'
    BY DEF HoldP4, HoldInReset
  <1>2. \A cmd : ~Names(outbox, cmd)'
    BY <1>1 DEF Names
  <1>3. Resetting'
    BY <1>1 DEF Resetting
  <1> QED  BY <1>2, <1>3 DEF Sending, Following, Queued

LEMMA OpenAhead ==
    ASSUME LinksInv, OpenP4 PROVE Sending'
  <1>1. outbox' = outbox /\ links' = links /\ line' = <<>>
    BY DEF OpenP4, OpenUart, module
  <1>2. /\ \A cmd : Names(outbox, cmd)' = Names(outbox, cmd) /\ ~Names(line, cmd)'
        /\ Queued' = Queued /\ NoLinks' = NoLinks
    BY <1>1 DEF Names, Queued, NoLinks
  <1> QED  BY <1>1, <1>2 DEF LinksInv, Sending

-----------------------------------------------------------------------------
(* The main thread in Init.                                                *)

(* Whom it can trust depends on these only.                                *)
LEMMA TrustStays ==
    ASSUME LinksInv, Following => Following', uartOpen' = uartOpen, ready' = ready,
           call'.op = call.op, call'.k = call.k, call'.ok = call.ok,
           cmdConfirmationArray' = cmdConfirmationArray
    PROVE  Trusted'
  <1>1. Starting' = Starting /\ Begun' = Begun /\ \A i : Renewed(i)' = Renewed(i)
    BY DEF Starting, Running, Begun, Renewed, AwaitsStart, Afresh, Begins, Length
  <1> QED  BY <1>1 DEF LinksInv, Trusted

(* A step that fails.                                                      *)
LEMMA TrustFails ==
    ASSUME LinksInv, Following => Following', uartOpen' = uartOpen, ready' = ready,
           Running, Fail
    PROVE  Trusted'
  <1>1. call'.op = call.op /\ ~call'.ok
    BY DEF Fail, LinksInv, TypeOK, Position
  <1>2. Starting' = Starting
    BY <1>1 DEF Starting, Running
  <1> QED  BY <1>1, <1>2 DEF LinksInv, Trusted

(* A step that succeeds, other than the ones Init starts with, the         *)
(* resetting of the array and the wait.                                    *)
LEMMA TrustAdvances ==
    ASSUME LinksInv, NEW what, At(what), Advance, what \notin {"clear", "wait"},
           Following => Following', uartOpen' \/ uartOpen => uartOpen /\ uartOpen',
           ready' = ready, cmdConfirmationArray' = cmdConfirmationArray
    PROVE  Trusted'
  <1>1. PICK op, k : op = call.op /\ k = call.k
    OBVIOUS
  <1>2. op \in Ops /\ k \in DOMAIN Script[op] /\ k \in Nat /\ Script[op][k].do = what
    BY <1>1, AtStep DEF LinksInv, Step
  <1>3. call'.op = op /\ call'.k = k + 1 /\ call'.ok = call.ok
    BY <1>1 DEF Advance, LinksInv, TypeOK, Position
  <1>4. Starting' = Starting
    BY <1>1, <1>3 DEF Starting, Running
  <1>5. \A h \in 1 .. (k + 1) - 1 : h \in 1 .. k - 1 \/ h = k
    BY <1>2
  <1>6. Begun' => Begun
    <2> SUFFICES ASSUME NEW w \in 1 .. (k + 1) - 1, w <= Len(Script[op]),
                        AwaitsStart(Script[op], w)
                 PROVE  Begun
      BY <1>3 DEF Begun, AwaitsStart, Afresh, Begins, Length
    <2>1. w # k
      BY <1>2 DEF AwaitsStart
    <2> QED  BY <1>1, <1>5, <2>1 DEF Begun, Length
  <1>7. \A i : Renewed(i)' => Renewed(i)
    BY <1>1, <1>2, <1>3, <1>5 DEF Renewed, Afresh, Begins, Length
  <1> QED  BY <1>3, <1>4, <1>6, <1>7 DEF LinksInv, Trusted

(* After a step Init starts with nothing has been reset yet.               *)
LEMMA TrustBegins ==
    ASSUME LinksInv, Running, call.op \in Opening, call.k \in DOMAIN Script[call.op],
           Begins(Step), Advance, ready' = ready
    PROVE  Trusted'
  <1>1. PICK op, k : op = call.op /\ k = call.k
    OBVIOUS
  <1>2. k \in DOMAIN Script[op] /\ k \in Nat /\ Begins(Script[op][k])
    BY <1>1 DEF LinksInv, TypeOK, Position, Step
  <1>3. call'.op = op /\ call'.k = k + 1
    BY <1>1 DEF Advance, LinksInv, TypeOK, Position
  <1>4. Starting /\ Starting'
    BY <1>1, <1>3 DEF Starting, Running
  <1>5. \A h \in 1 .. (k + 1) - 1 : \A i : ~Afresh(Script[op], h, i)
    BY <1>2 DEF Afresh
  <1>6. \A i : ~Renewed(i)'
    BY <1>3, <1>5 DEF Renewed, Afresh, Begins
  <1>7. ~Begun'
    <2> SUFFICES ASSUME NEW w \in 1 .. (k + 1) - 1, AwaitsStart(Script[op], w) PROVE FALSE
      BY <1>3 DEF Begun, AwaitsStart, Afresh, Begins
    <2>1. 1 \in 1 .. Slots
      BY Tables
    <2>2. PICK h \in 1 .. w - 1 : Afresh(Script[op], h, 1)
      BY <2>1 DEF AwaitsStart
    <2>3. h \in 1 .. (k + 1) - 1
      BY <1>2
    <2> QED  BY <1>5, <2>2, <2>3
  <1>8. ~ready'
    BY <1>4 DEF LinksInv, Trusted
  <1> QED  BY <1>4, <1>6, <1>7, <1>8 DEF Trusted

(* A slot is reset.                                                        *)
LEMMA TrustClears ==
    ASSUME LinksInv, ClearSlot, Following => Following'
    PROVE  Trusted'
  <1>1. PICK op, k, s : op = call.op /\ k = call.k /\ s = Step.slot
    OBVIOUS
  <1>2. /\ op \in Ops /\ k \in DOMAIN Script[op] /\ k \in Nat
        /\ Script[op][k].do = "clear" /\ Script[op][k].slot = s /\ Advance
    BY <1>1, AtStep DEF LinksInv, Step, ClearSlot
  <1>3. call'.op = op /\ call'.k = k + 1 /\ call'.ok = call.ok
    BY <1>1, <1>2 DEF Advance, LinksInv, TypeOK, Position
  <1>4. Starting' = Starting /\ uartOpen' = uartOpen /\ ready' = ready
    BY <1>1, <1>3 DEF Starting, Running, ClearSlot
  <1>5. \A h \in 1 .. (k + 1) - 1 : h \in 1 .. k - 1 \/ h = k
    BY <1>2
  <1>6. Begun' => Begun
    <2> SUFFICES ASSUME NEW w \in 1 .. (k + 1) - 1, w <= Len(Script[op]),
                        AwaitsStart(Script[op], w)
                 PROVE  Begun
      BY <1>3 DEF Begun, AwaitsStart, Afresh, Begins, Length
    <2>1. w # k
      BY <1>2 DEF AwaitsStart
    <2> QED  BY <1>1, <1>5, <2>1 DEF Begun, Length
  <1>7. \A i : Renewed(i)' => Renewed(i) \/ i = s
    BY <1>1, <1>2, <1>3, <1>5 DEF Renewed, Afresh, Begins, Length
  <1>8. \A i \in 1 .. Slots :
          cmdConfirmationArray'[i].cmd = IF i = s THEN "CNFINVALID"
                                         ELSE cmdConfirmationArray[i].cmd
    BY <1>1 DEF ClearSlot, LinksInv, TypeOK, Free, CNFINVALID
  <1>9. \A i \in 1 .. Slots :
          Renewed(i)' /\ cmdConfirmationArray'[i].cmd = "STARTUP_IND" =>
            Renewed(i) /\ cmdConfirmationArray[i].cmd = "STARTUP_IND"
    BY <1>7, <1>8
  <1> QED  BY <1>3, <1>4, <1>6, <1>9 DEF LinksInv, Trusted

(* The wait that Init must pass finds the start in a slot that was reset.  *)
LEMMA TrustConfirms ==
    ASSUME LinksInv, Confirmed, Following => Following'
    PROVE  Trusted'
  <1>1. PICK op, k, s : op = call.op /\ k = call.k /\ s = call.slot
    OBVIOUS
  <1>2. /\ op \in Ops /\ k \in DOMAIN Script[op] /\ k \in Nat /\ Running
        /\ Script[op][k].do = "wait" /\ Script[op][k].cmd = cmdConfirmationArray[s].cmd
    <2>1. At("wait") /\ Matches
      BY DEF Confirmed
    <2> QED  BY <1>1, <2>1, AtStep DEF LinksInv, Step, Matches, At
  <1>3. /\ uartOpen' = uartOpen /\ ready' = ready /\ (Advance \/ Fail)
        /\ cmdConfirmationArray' = cmdConfirmationArray
    BY DEF Confirmed, driver
  <1>4. CASE Fail
    BY <1>2, <1>3, <1>4, TrustFails
  <1>5. CASE Advance
    <2>1. call'.op = op /\ call'.k = k + 1 /\ call'.ok = call.ok
      BY <1>1, <1>5 DEF Advance, LinksInv, TypeOK, Position
    <2>2. Starting' = Starting
      BY <1>1, <2>1 DEF Starting, Running
    <2>3. \A h \in 1 .. (k + 1) - 1 : h \in 1 .. k - 1 \/ h = k
      BY <1>2
    <2>4. \A i : Renewed(i)' => Renewed(i)
      BY <1>1, <1>2, <2>1, <2>3 DEF Renewed, Afresh, Begins, Length
    <2>5. ASSUME Begun', uartOpen, Starting, call.ok PROVE Following
      <3>1. PICK w \in 1 .. (k + 1) - 1 : w <= Len(Script[op]) /\ AwaitsStart(Script[op], w)
        BY <2>1, <2>5 DEF Begun, AwaitsStart, Afresh, Begins, Length
      <3>2. CASE w # k
        <4>1. Begun
          BY <1>1, <2>3, <3>1, <3>2 DEF Begun, Length
        <4> QED  BY <2>5, <4>1 DEF LinksInv, Trusted
      <3>3. CASE w = k
        <4>1. s \in 1 .. Slots
          BY <1>1 DEF LinksInv, TypeOK, Position
        <4>2. cmdConfirmationArray[s].cmd = "STARTUP_IND"
          BY <1>2, <3>1, <3>3 DEF AwaitsStart
        <4>3. PICK h \in 1 .. k - 1 : Afresh(Script[op], h, s)
          BY <3>1, <3>3, <4>1 DEF AwaitsStart
        <4>4. h <= Len(Script[op])
          BY <1>2, <3>1, <3>3
        <4>5. Renewed(s)
          BY <1>1, <4>3, <4>4 DEF Renewed, Length
        <4> QED  BY <2>5, <4>1, <4>2, <4>5 DEF LinksInv, Trusted
      <3> QED  BY <3>2, <3>3
    <2> QED  BY <1>3, <2>1, <2>2, <2>4, <2>5 DEF LinksInv, Trusted
  <1> QED  BY <1>3, <1>4, <1>5

LEMMA TrustStarts ==
    ASSUME LinksInv, StartP4, Following => Following'
    PROVE  Trusted'
  <1>1. PICK op \in Ops : Start(op)
    BY DEF StartP4
  <1>2. /\ uartOpen' = uartOpen /\ ready' = ready /\ (op \in Opening) = ~ready
        /\ call'.op = op /\ call'.k = 1
    BY <1>1 DEF Start, Idle, driver
  <1>3. \A h \in 1 .. 1 - 1 : FALSE
    OBVIOUS
  <1>4. ~Begun' /\ \A i : ~Renewed(i)'
    BY <1>2, <1>3 DEF Begun, Renewed
  <1>5. Starting' => ~ready'
    BY <1>2 DEF Starting
  <1> QED  BY <1>2, <1>4, <1>5 DEF LinksInv, Trusted

(* An Init that returns true has passed the wait.                          *)
LEMMA TrustFinishes ==
    ASSUME LinksInv, FinishP4, Following => Following'
    PROVE  Trusted'
  <1>1. PICK op, k : op = call.op /\ k = call.k
    OBVIOUS
  <1>2. op \in Ops /\ k \in Nat \ {0} /\ Running /\ Ended
    BY <1>1 DEF FinishP4, Finish, Ended, Running, LinksInv, TypeOK, Position, NoOp
  <1>3. uartOpen' = uartOpen /\ ~Running'
    BY DEF FinishP4, Finish, Idle, Running
  <1>4. ready' /\ ~ready => op \in Opening /\ call.ok
    BY <1>1, StartingAssumption DEF FinishP4, Finish
  <1>5. ASSUME op \in Opening PROVE Begun
    <2>1. PICK w \in DOMAIN Script[op] :
            /\ AwaitsStart(Script[op], w)
            /\ \A y \in DOMAIN Script[op] : Script[op][y].do = "return" => w < y
      BY <1>2, <1>5, StartingAssumption
    <2>2. Script[op] \in Seq(StepType)
      BY <1>2, Tables
    <2>3. w \in 1 .. Len(Script[op])
      BY <2>1, <2>2
    <2>4. w < k
      <3>1. CASE k <= Len(Script[op])
        <4>1. k \in DOMAIN Script[op]
          BY <1>2, <2>2, <3>1
        <4>2. Script[op][k].do = "return"
          BY <1>1, <1>2, <3>1 DEF Ended, Length, Step
        <4> QED  BY <2>1, <4>1, <4>2
      <3>2. CASE ~(k <= Len(Script[op]))
        BY <1>2, <2>2, <2>3, <3>2
      <3> QED  BY <3>1, <3>2
    <2>5. w \in 1 .. k - 1 /\ w <= Len(Script[op])
      BY <1>2, <2>2, <2>3, <2>4
    <2> QED  BY <1>1, <2>1, <2>5 DEF Begun, Length
  <1>6. ASSUME uartOpen, ready' PROVE Following
    <2>1. CASE ready
      BY <1>6, <2>1 DEF LinksInv, Trusted
    <2>2. CASE ~ready
      BY <1>1, <1>2, <1>4, <1>5, <1>6, <2>2 DEF LinksInv, Trusted, Starting
    <2> QED  BY <2>1, <2>2
  <1> QED  BY <1>3, <1>6 DEF Trusted, Starting

(* The start arrives: from here on everything has been heard.              *)
LEMMA TrustReceives ==
    ASSUME LinksInv, ReceiveP4, uartOpen /\ Following => Following'
    PROVE  Trusted'
  <1>1. /\ uartOpen' = uartOpen /\ ready' = ready /\ call' = call /\ line # <<>>
        /\ line \in Seq(Frame)
    BY DEF ReceiveP4, HandleRxPacket, LinksInv, TypeOK
  <1>2. PICK f : f = Head(line)
    OBVIOUS
  <1>3. Starting' = Starting /\ Begun' = Begun /\ \A i : Renewed(i)' = Renewed(i)
    BY <1>1 DEF Starting, Running, Begun, Renewed, AwaitsStart, Afresh, Begins, Length
  <1>4. ASSUME uartOpen, NEW i \in 1 .. Slots, cmdConfirmationArray'[i].cmd = "STARTUP_IND"
        PROVE  cmdConfirmationArray[i].cmd = "STARTUP_IND" \/ f.cmd = "STARTUP_IND"
    BY <1>2, <1>4, Literal DEF ReceiveP4, HandleRxPacket, Store, Free
  <1>5. f.cmd = "STARTUP_IND" => Following
    <2> SUFFICES ASSUME f.cmd = "STARTUP_IND" PROVE Following
      OBVIOUS
    <2>1. 1 \in DOMAIN line /\ line[1] = f /\ 1 .. Len(line) \subseteq 0 .. Len(line)
      BY <1>1, <1>2
    <2>2. Names(line, "STARTUP_IND")
      BY <2>1 DEF Names
    <2> QED  BY <2>1, <2>2 DEF LinksInv, Sending, Following, Announced
  <1> QED  BY <1>1, <1>3, <1>4, <1>5 DEF LinksInv, Trusted

-----------------------------------------------------------------------------
LEMMA TrustPlain ==
    ASSUME LinksInv, PlainStep PROVE Sending' /\ Trusted'
  <1>1. CASE Transmit
    <2>1. Sending' /\ (Following => Following')
      BY <1>1, TransmitAhead
    <2>2. /\ At("send") /\ Advance /\ uartOpen' = uartOpen /\ ready' = ready
          /\ cmdConfirmationArray' = cmdConfirmationArray
      BY <1>1 DEF Transmit, driver
    <2> QED  BY <2>1, <2>2, TrustAdvances
  <1>2. CASE ~Transmit
    <2>0. \/ Fault \/ ClearSlot \/ Confirmed \/ NextSlot \/ Delay \/ GiveUp \/ ReadPacket
          \/ CloseUart
      BY <1>2 DEF PlainStep
    <2>1. /\ links' = links /\ deaf' = deaf /\ connectionList' = connectionList
          /\ awake' = awake /\ inbox' = inbox /\ outbox' = outbox /\ line' = line
          /\ ready' = ready
      BY <2>0 DEF PlainStep, Fault, ClearSlot, Confirmed, NextSlot, Delay, GiveUp,
         ReadPacket, CloseUart, kept, radio, module, driver
    <2>2. Sending' /\ (Following => Following')
      BY <2>1, WorldStays DEF LinksInv
    <2>3. CASE Fault \/ GiveUp
      BY <2>2, <2>3, TrustFails DEF Fault, GiveUp, At, driver
    <2>4. CASE ClearSlot
      BY <2>2, <2>4, TrustClears
    <2>5. CASE Confirmed
      BY <2>2, <2>5, TrustConfirms
    <2>6. CASE NextSlot \/ Delay
      BY <2>2, <2>6, TrustStays DEF NextSlot, Delay, driver, LinksInv, TypeOK, Position
    <2>7. CASE ReadPacket
      BY <2>2, <2>7, TrustAdvances DEF ReadPacket, driver
    <2>8. CASE CloseUart
      <3>1. ~uartOpen' /\ Advance
        BY <2>8 DEF CloseUart
      <3>2. Starting' = Starting
        BY <3>1 DEF Advance, Starting, Running, LinksInv, TypeOK, Position
      <3> QED  BY <2>1, <2>2, <3>1, <3>2 DEF LinksInv, Trusted
    <2> QED  BY <2>0, <2>2, <2>3, <2>4, <2>5, <2>6, <2>7, <2>8
  <1> QED  BY <1>1, <1>2

(* The steps that Init begins with, in a function that has them.           *)
LEMMA BeginsInit ==
    ASSUME LinksInv, NEW what, At(what), Begins(Step)
    PROVE  Running /\ call.op \in Opening /\ call.k \in DOMAIN Script[call.op]
  <1>1. call.op \in Ops /\ call.k \in DOMAIN Script[call.op] /\ Running
    BY AtStep DEF LinksInv, At
  <1>2. call.op \in Opening
    BY <1>1, StartingAssumption DEF Step
  <1> QED  BY <1>1, <1>2

LEMMA TrustSets ==
    ASSUME LinksInv, SetP4 PROVE Sending' /\ Trusted'
  <1>1. PICK what \in {"set", "pin"} : At(what)
    BY DEF SetP4, SetState
  <1>2. /\ Advance /\ uartOpen' = uartOpen /\ ready' = ready
        /\ cmdConfirmationArray' = cmdConfirmationArray
        /\ links' = links /\ deaf' = deaf /\ awake' = awake /\ inbox' = inbox
        /\ outbox' = outbox /\ line' = line
        /\ (Step.status # "connections" => connectionList' = connectionList)
    BY DEF SetP4, SetState, driver, module, radio
  <1>3. Sending' /\ (Step.status # "connections" /\ Following => Following')
    BY <1>2, WorldStays DEF LinksInv
  <1>4. CASE Step.status = "connections"
    <2>1. Begins(Step)
      BY <1>4 DEF Begins
    <2> QED  BY <1>1, <1>2, <1>3, <2>1, BeginsInit, TrustBegins
  <1>5. CASE Step.status # "connections"
    BY <1>1, <1>2, <1>3, <1>5, TrustAdvances
  <1> QED  BY <1>4, <1>5

LEMMA LinksStep ==
    ASSUME LinksInv, [NextP4]_allVars PROVE LinksInv'
  <1>0. TypeOK'
    BY TypeStepP4 DEF LinksInv
  <1>1. CASE UNCHANGED allVars
    <2>1. Sending' /\ (Following => Following')
      BY <1>1, WorldStays DEF allVars, vars, kept, radio, module, LinksInv
    <2>2. Trusted'
      BY <1>1, <2>1, TrustStays DEF allVars, vars, driver
    <2> QED  BY <1>0, <2>1, <2>2 DEF LinksInv
  <1>2. CASE StartP4
    <2>1. Sending' /\ (Following => Following')
      BY <1>2, WorldStays DEF StartP4, Start, kept, radio, module, LinksInv
    <2> QED  BY <1>0, <1>2, <2>1, TrustStarts DEF LinksInv
  <1>3. CASE PlainStep
    BY <1>0, <1>3, TrustPlain DEF LinksInv
  <1>4. CASE FinishP4
    <2>1. Sending' /\ (Following => Following')
      BY <1>4, WorldStays DEF FinishP4, Finish, kept, radio, module, LinksInv
    <2> QED  BY <1>0, <1>4, <2>1, TrustFinishes DEF LinksInv
  <1>5. CASE OpenP4
    <2>1. At("open") /\ Advance /\ ready' = ready
      BY <1>5 DEF OpenP4, OpenUart
    <2>2. Begins(Step)
      BY <2>1 DEF At, Begins
    <2> QED  BY <1>0, <1>5, <2>1, <2>2, OpenAhead, BeginsInit, TrustBegins DEF LinksInv
  <1>6. CASE HoldP4
    <2>1. /\ At("hold") /\ Advance /\ uartOpen' = uartOpen /\ ready' = ready
          /\ cmdConfirmationArray' = cmdConfirmationArray
      BY <1>6 DEF HoldP4, HoldInReset, driver
    <2> QED  BY <1>0, <1>6, <2>1, HoldAhead, TrustAdvances DEF LinksInv
  <1>7. CASE SetP4
    BY <1>0, <1>7, TrustSets DEF LinksInv
  <1>8. CASE ReceiveP4
    BY <1>0, <1>8, ReceiveAhead, TrustReceives DEF LinksInv
  <1>9. CASE ModuleP4
    <2>1. Sending' /\ (Following => Following')
      BY <1>9, AnswerAhead, EmitAhead, UnaskedAhead DEF ModuleP4
    <2>2. /\ uartOpen' = uartOpen /\ ready' = ready /\ call' = call
          /\ cmdConfirmationArray' = cmdConfirmationArray
      BY <1>9 DEF ModuleP4, AnswerP4, Answer, EmitP4, Emit, FailedLink, LinkEvent, Hear,
         Tell, driver
    <2> QED  BY <1>0, <2>1, <2>2, TrustStays DEF LinksInv
  <1> QED
    BY <1>1, <1>2, <1>3, <1>4, <1>5, <1>6, <1>7, <1>8, <1>9 DEF NextP4, MainP4

LEMMA LinksStart == InitP4 => LinksInv
  <1> SUFFICES ASSUME InitP4 PROVE LinksInv
    OBVIOUS
  <1>1. TypeOK
    BY TypeInit DEF InitP4
  <1>2. outbox = <<>> /\ line = <<>> /\ ~Running /\ ~ready
    BY DEF InitP4, Init, Idle, Running
  <1>3. \A cmd : ~Names(outbox, cmd) /\ ~Names(line, cmd)
    BY <1>2 DEF Names
  <1> QED  BY <1>1, <1>2, <1>3 DEF LinksInv, Sending, Queued, Trusted, Starting

(* When nothing is under way, the driver's list of connections is that of  *)
(* the module: HandleRxPacket follows every frame that tells of one, and   *)
(* empties the list when the module starts (ProteusIV.c:343-484); no other *)
(* start of the module than those it reports loses a connection.           *)
THEOREM ListIsRight == SpecP4 => []ConnectionsAgree
  <1>1. LinksInv => ConnectionsAgree
    <2> SUFFICES ASSUME LinksInv, ready, uartOpen, ~deaf, awake,
                        inbox \o outbox \o line = <<>>
                 PROVE  connectionList = links
      BY DEF ConnectionsAgree
    <2>1. inbox \in Seq(Message) /\ outbox \in Seq(Frame) /\ line \in Seq(Frame)
      BY DEF LinksInv, TypeOK
    <2>2. inbox = <<>> /\ outbox = <<>> /\ Len(line) = 0
      BY <2>1
    <2>3. ~Queued /\ ~Resetting
      BY <2>2 DEF Queued, Resetting, Names
    <2>4. PICK p, lists : p \in 0 .. Len(line) /\ Becomes(p, lists)
      BY <2>3 DEF LinksInv, Trusted, Following
    <2>5. p = 0
      BY <2>2, <2>4
    <2> QED  BY <2>2, <2>4, <2>5 DEF Becomes
  <1>2. LinksInv /\ [NextP4]_allVars => LinksInv'
    BY LinksStep
  <1> QED  BY <1>1, <1>2, LinksStart, PTL DEF SpecP4

-----------------------------------------------------------------------------
(* The scan of Proteus-IV. Where the core's invariant holds of it.         *)

(* What the module tells unasked is not recorded.                          *)
LEMMA TellRequesting ==
    ASSUME Serial, Inv, NEW cmd \in News, NEW status, NEW about, Tell(cmd, status, about)
    PROVE  Requesting'
  <1>1. PICK f : f = [cmd |-> cmd, status |-> status, data |-> about, req |-> 0]
    OBVIOUS
  <1>2. /\ line' = line \/ line' = Append(line, f)
        /\ UNCHANGED <<call, asked, requests, served, inbox, outbox>>
        /\ UNCHANGED cmdConfirmationArray
    BY <1>1 DEF Tell, module, history, driver
  <1>3. Unsolicited(f)
    BY <1>1, AnswersAssumption DEF Unsolicited
  <1>4. Untouched
    BY <1>2 DEF Untouched, Empty
  <1>5. ASSUME \A x \in DOMAIN line : Unsolicited(line[x])
        PROVE  (\A x \in DOMAIN line : Unsolicited(line[x]))'
    <2>1. line \in Seq(Frame)
      BY DEF Inv, TypeOK
    <2>2. \A x \in DOMAIN line' : line'[x] = f \/ (x \in DOMAIN line /\ line'[x] = line[x])
      BY <1>2, <2>1
    <2> QED  BY <1>3, <1>5, <2>2 DEF Unsolicited
  <1>6. \A frames, a, b : requests # 0 /\ Apart(frames) /\ Flight(frames, a, b)
          => Flight(frames, a, b)'
    <2>1. CASE line' = line
      BY <1>2, <2>1 DEF Flight, OfPart, Unsolicited
    <2>2. CASE line' = Append(line, f)
      BY <1>2, <1>3, <2>2, FlightNoise DEF Inv
    <2> QED  BY <1>2, <2>1, <2>2
  <1> QED  BY <1>2, <1>4, <1>5, <1>6, NoiseStep

(* The steps of Proteus-IV are those of the core, but for what is told.    *)
Telling == \E cmd \in News : \E status, about : Tell(cmd, status, about)

LEMMA UnaskedTells ==
    FailedLink \/ (\E c \in Connections : LinkEvent(c)) \/ (\E a \in Advertisers : Hear(a))
      => Telling
BY DEF FailedLink, LinkEvent, Hear, Telling, News

LEMMA StepsP4 ==
    [NextP4]_allVars => [Next]_vars \/ Emit("") \/ Telling
  <1> SUFFICES ASSUME [NextP4]_allVars PROVE [Next]_vars \/ Emit("") \/ Telling
    OBVIOUS
  <1>1. CASE UNCHANGED allVars
    BY <1>1 DEF allVars
  <1>2. CASE StartP4
    BY <1>2 DEF StartP4, Next
  <1>3. CASE MainP4
    BY <1>3, MainP4Step DEF Next
  <1>4. CASE ReceiveP4
    BY <1>4 DEF ReceiveP4, Next
  <1>5. CASE AnswerP4
    BY <1>5 DEF AnswerP4, Next, ModuleStep
  <1>6. CASE EmitP4
    BY <1>6 DEF EmitP4
  <1>7. CASE ModuleP4 /\ ~AnswerP4 /\ ~EmitP4
    BY <1>7, UnaskedTells DEF ModuleP4
  <1> QED  BY <1>1, <1>2, <1>3, <1>4, <1>5, <1>6, <1>7 DEF NextP4, ModuleP4

(* What is under way is known of Proteus-IV, too.                          *)
LEMMA InvStepP4 ==
    ASSUME Serial, Timely, Inv, [NextP4]_allVars PROVE Inv'
  <1>1. TypeOK'
    BY TypeStepP4 DEF Inv
  <1>2. CASE [Next]_vars
    BY <1>2, InvStep
  <1>3. CASE Emit("")
    <2>1. Requesting'
      BY <1>3, EmitRequesting
    <2>2. Powered'
      BY <1>3, PoweredStay DEF Emit, driver
    <2> QED  BY <1>1, <2>1, <2>2 DEF Inv
  <1>4. CASE Telling
    <2>1. Requesting'
      BY <1>4, TellRequesting DEF Telling
    <2>2. Powered'
      BY <1>4, PoweredStay DEF Telling, Tell, driver
    <2> QED  BY <1>1, <2>1, <2>2 DEF Inv
  <1> QED  BY <1>2, <1>3, <1>4, StepsP4

-----------------------------------------------------------------------------
(* What a scan has told, and to whom.                                      *)

(* The list has what was heard, as far as it has room.                     *)
ListType == DOMAIN scanResult = {"devices", "number"}
Collecting ==
    /\ ListType /\ IsFiniteSet(heard)
    /\ "scan" \in pointers =>
         LET devices == scanResult.devices
         IN  /\ devices \subseteq heard /\ Cardinality(devices) <= ScanDevices
             /\ Cardinality(devices) < ScanDevices => devices = heard

(* Who lends a list has started the driver and does not stop it.           *)
Borrowing == lent => ready /\ (Running => call.op \notin Opening \cup Closing)

Unanswering == Running /\ ~call.ok => call.why = "wait"

(* The module scans only for a list; and during ScanStart only once this   *)
(* was granted.                                                            *)
Sent == \E h \in 1 .. call.k - 1 : Sends(Script[call.op], h)
Scanning ==
    /\ scanning => "scan" \in pointers
    /\ In("ScanStart") /\ call.ok /\ call.k > 1 => "scan" \in pointers
    /\ In("ScanStart") /\ scanning => asked \subseteq served /\ Sent

(* A module that has granted the end of the scan tells of no device after  *)
(* its answer, so that nothing is heard when the count has been made.      *)
Counted ==
    \E c \in 1 .. call.k - 1 :
        /\ c \in DOMAIN Script[call.op]
        /\ Script[call.op][c].do = "set" /\ Script[call.op][c].status = "scan count"
Followed ==
    \A x \in DOMAIN line : line[x].cmd = "SCAN_IND" =>
        outbox # <<>> \/ \E y \in x + 1 .. Len(line) : line[y].req = requests
Right ==
    /\ scanResult.number = Min({Cardinality(heard), ScanDevices})
    /\ scanResult.devices \subseteq heard
Stopped == In("ScanStop") /\ requests \in asked /\ requests \in served
Stopping ==
    /\ In("ScanStop") /\ call.ok /\ Sent => requests \in asked
    /\ Stopped => ~scanning /\ Followed /\ (call.ok /\ ~Counted => "scan" \in pointers)
    /\ In("ScanStop") /\ call.ok /\ Counted => Right
    /\ ~Running /\ returned.op = "ScanStop" /\ returned.ok => ~lent /\ Right

ScanInv == Collecting /\ Borrowing /\ Unanswering /\ Scanning /\ Stopping
CountInv == Inv /\ Lent /\ ScanInv

LEMMA ScanTables ==
    ASSUME NEW op \in Ops
    PROVE  /\ "ScanStart" \notin Opening \cup Closing /\ "ScanStop" \notin Opening \cup Closing
           /\ op = "ScanStart" => BeginsScan(Script[op])
           /\ op = "ScanStop"  => EndsScan(Script[op])
           /\ \A j \in DOMAIN Script[op] :
                /\ Sends(Script[op], j) =>
                     /\ Script[op][j].cmd = "SCAN_START_REQ" => op = "ScanStart"
                     /\ Script[op][j].cmd = "SCAN_STOP_REQ" <=> op = "ScanStop"
                /\ Script[op][j].status = "scan"       => op = "ScanStart" /\ j = 1
                /\ Script[op][j].status = "scan NULL"  => op = "ScanStart"
                /\ Script[op][j].status = "scan count" => op = "ScanStop"
                /\ Script[op][j].status = "scan over"  => op = "ScanStop"
                /\ Script[op][j].status = "pointers"   => op \in Opening
  <1>1. \A j \in DOMAIN Script[op] : Script[op][j].status = "scan" => op = "ScanStart" /\ j = 1
    BY PointerAssumption DEF Lends
  <1> QED  BY <1>1, ScanAssumption

LEMMA LeastOf ==
    ASSUME NEW a \in Nat, NEW b \in Nat, a <= b
    PROVE  Min({a, b}) = a /\ Min({b, a}) = a
  <1>1. PICK S : S = {a, b} /\ S = {b, a}
    OBVIOUS
  <1>2. \E x \in S : \A y \in S : x <= y
    BY <1>1
  <1>3. Min(S) = CHOOSE x \in S : \A y \in S : x <= y
    BY DEF Min
  <1>4. Min(S) \in S /\ \A y \in S : Min(S) <= y
    BY <1>2, <1>3
  <1>5. Min(S) = a
    BY <1>1, <1>4
  <1> QED  BY <1>1, <1>5

(* A list that is lent and counted.                                        *)
LEMMA CountRight ==
    ASSUME Collecting, "scan" \in pointers
    PROVE  /\ Cardinality(scanResult.devices) = Min({Cardinality(heard), ScanDevices})
           /\ scanResult.devices \subseteq heard
  <1>1. PICK devices, d, n : /\ devices = scanResult.devices
                             /\ d = Cardinality(devices) /\ n = Cardinality(heard)
    OBVIOUS
  <1>2. /\ IsFiniteSet(heard) /\ devices \subseteq heard /\ d <= ScanDevices
        /\ d < ScanDevices => devices = heard
    BY <1>1 DEF Collecting
  <1>3. n \in Nat
    BY <1>1, <1>2, FS_CardinalityType
  <1>4. d \in Nat /\ d <= n
    BY <1>1, <1>2, <1>3, FS_Subset, FS_CardinalityType
  <1>5. ScanDevices \in Nat
    BY LinksAssumption
  <1>6. CASE d < ScanDevices
    <2>1. n = d /\ n <= ScanDevices
      BY <1>1, <1>2, <1>6
    <2>2. Min({n, ScanDevices}) = n
      BY <1>3, <1>5, <2>1, LeastOf
    <2> QED  BY <1>1, <1>2, <2>1, <2>2
  <1>7. CASE ~(d < ScanDevices)
    <2>1. d = ScanDevices /\ ScanDevices <= n
      BY <1>2, <1>3, <1>4, <1>5, <1>7
    <2>2. Min({n, ScanDevices}) = ScanDevices
      BY <1>3, <1>5, <2>1, LeastOf
    <2> QED  BY <1>1, <1>2, <2>1, <2>2
  <1> QED  BY <1>6, <1>7

(* Once the count was made no device is heard.                             *)
LEMMA NoneToCome ==
    ASSUME Serial, CountInv, In("ScanStop"), call.ok, Counted
    PROVE  \A x \in DOMAIN line : line[x].cmd # "SCAN_IND"
  <1>1. PICK op, k, steps : op = call.op /\ k = call.k /\ steps = Script[op]
    OBVIOUS
  <1>2. /\ Running /\ op = "ScanStop" /\ op \in Ops /\ k \in Nat /\ Len(steps) \in Nat
        /\ DOMAIN steps = 1 .. Len(steps) /\ Going(steps, k)
    BY <1>1, Here DEF In, CountInv
  <1>3. EndsScan(steps)
    BY <1>1, <1>2, ScanTables
  <1>4. PICK c \in 1 .. k - 1 : /\ c \in DOMAIN steps /\ steps[c].do = "set"
                                /\ steps[c].status = "scan count"
    BY <1>1 DEF Counted
  <1>12. k \in Nat /\ c \in Int /\ c >= 1 /\ c <= k - 1
    <2>1. k \in Nat /\ c \in 1 .. k - 1
      BY <1>2, <1>4
    <2> QED  BY <2>1
  <1>5. Sent
    <2>1. PICK h \in 1 .. c - 1 : Sends(steps, h)
      BY <1>3, <1>4 DEF EndsScan
    <2>2. h \in 1 .. k - 1
      BY <1>12, <2>1
    <2> QED  BY <1>1, <2>1, <2>2 DEF Sent
  <1>6. requests \in asked
    BY <1>5 DEF CountInv, ScanInv, Stopping
  <1>7. ~Awaiting(steps, k)
    <2> SUFFICES ASSUME NEW g, Pending(steps, g, k) PROVE FALSE
      BY DEF Awaiting
    <2>1. /\ g \in 1 .. k - 1 /\ steps[g].do = "send"
          /\ \A x \in g + 1 .. k - 1 : steps[x].do \in {"clear", "wait"}
      BY DEF Pending
    <2>5. g \in 1 .. k - 1
      BY <2>1
    <2>2. g \in DOMAIN steps
      <3>1. k \in 1 .. Len(steps) + 1 /\ Len(steps) \in Nat
        BY <1>2 DEF Going
      <3>2. g \in 1 .. Len(steps)
        BY <2>5, <3>1
      <3> QED  BY <1>2, <3>2
    <2>3. g < c
      BY <1>3, <1>4, <2>1, <2>2 DEF EndsScan, Sends
    <2>4. c \in g + 1 .. k - 1
      BY <1>12, <2>5, <2>3
    <2> QED  BY <1>4, <2>1, <2>4
  <1>8. Quiet /\ asked \subseteq served
    BY <1>2, <1>7 DEF Going, Settled
  <1>9. Followed
    BY <1>6, <1>8 DEF CountInv, ScanInv, Stopping, Stopped
  <1>10. requests # 0
    BY <1>6 DEF CountInv, Inv, TypeOK
  <1> SUFFICES ASSUME NEW x \in DOMAIN line, line[x].cmd = "SCAN_IND" PROVE FALSE
    OBVIOUS
  <1>11. PICK y \in x + 1 .. Len(line) : line[y].req = requests
    BY <1>8, <1>9 DEF Followed, Quiet
  <1>13. y \in DOMAIN line
    BY <1>11 DEF CountInv, Inv, TypeOK
  <1> QED  BY <1>8, <1>10, <1>11, <1>13 DEF Quiet, Unsolicited

-----------------------------------------------------------------------------
(* Steps that leave the call where it is.                                  *)
LEMMA ScanStays ==
    ASSUME CountInv, call'.op = call.op, call'.k = call.k, call'.ok = call.ok,
           call'.why = call.why,
           UNCHANGED <<pointers, scanResult, lent, heard, scanning, asked, requests,
                       served, ready, returned>>,
           Stopped => Followed'
    PROVE  ScanInv'
  <1>1. /\ Running' = Running /\ \A o : In(o)' = In(o)
        /\ Sent' = Sent /\ Counted' = Counted /\ Stopped' = Stopped /\ Right' = Right
    BY DEF Running, In, Sent, Counted, Stopped, Right
  <1>2. Collecting' /\ Borrowing' /\ Unanswering'
    BY <1>1 DEF CountInv, ScanInv, Collecting, ListType, Borrowing, Unanswering
  <1>3. Scanning'
    BY <1>1 DEF CountInv, ScanInv, Scanning
  <1>4. Stopping'
    BY <1>1 DEF CountInv, ScanInv, Stopping
  <1> QED  BY <1>2, <1>3, <1>4 DEF ScanInv

(* One more frame on the line.                                             *)
LEMMA FollowedOn ==
    ASSUME TypeOK, NEW f, line' = Append(line, f), requests' = requests,
           f.cmd # "SCAN_IND", f.req = requests \/ (Followed /\ outbox' = outbox)
    PROVE  Followed'
  <1>1. PICK l : l = Len(line)
    OBVIOUS
  <1>2. /\ l \in Nat /\ Len(line') = l + 1 /\ line'[l + 1] = f /\ DOMAIN line' = 1 .. l + 1
        /\ \A n \in 1 .. l : line'[n] = line[n]
    BY <1>1 DEF TypeOK
  <1> SUFFICES ASSUME NEW x \in 1 .. l + 1, line'[x].cmd = "SCAN_IND"
               PROVE  outbox' # <<>> \/ \E y \in x + 1 .. l + 1 : line'[y].req = requests
    BY <1>2 DEF Followed
  <1>3. x \in 1 .. l
    <2>1. x # l + 1
      BY <1>2
    <2> QED  BY <1>2, <2>1
  <1>4. CASE f.req = requests
    <2>1. l + 1 \in x + 1 .. l + 1
      BY <1>2, <1>3
    <2> QED  BY <1>2, <1>4, <2>1
  <1>5. CASE Followed /\ outbox' = outbox
    <2>1. line[x].cmd = "SCAN_IND" /\ x \in DOMAIN line
      BY <1>1, <1>2, <1>3 DEF TypeOK
    <2>2. outbox # <<>> \/ \E y \in x + 1 .. l : line[y].req = requests
      BY <1>1, <1>5, <2>1 DEF Followed
    <2>3. ASSUME NEW y \in x + 1 .. l PROVE y \in x + 1 .. l + 1 /\ line'[y] = line[y]
      BY <1>2, <1>3
    <2> QED  BY <1>5, <2>2, <2>3
  <1> QED  BY <1>4, <1>5

LEMMA EmitScan == ASSUME Serial, CountInv, EmitP4 PROVE ScanInv'
  <1>1. PICK op, k, f : op = call.op /\ k = call.k /\ f = [Head(outbox) EXCEPT !.data = ""]
    OBVIOUS
  <1>2. /\ outbox # <<>> /\ outbox' = Tail(outbox) /\ line' = Append(line, f)
        /\ UNCHANGED <<pointers, scanResult, lent, heard, scanning, asked, requests,
                       served, ready, returned, call>>
    BY <1>1 DEF EmitP4, Emit, history, driver, kept, radio
  <1>3. outbox[1] \in Frame /\ f.cmd = outbox[1].cmd /\ f.req = outbox[1].req
    <2>1. Head(outbox) \in Frame /\ Head(outbox) = outbox[1]
      BY <1>2 DEF CountInv, Inv, TypeOK
    <2> QED  BY <1>1, <2>1 DEF Frame
  <1>4. PICK h : Running /\ call.ok /\ Pending(Script[op], h, k)
    <2>1. ~Quiet
      BY <1>2 DEF Quiet
    <2> QED  BY <1>1, <2>1, Somebody DEF CountInv
  <1>5. /\ UnderWay(Script[op], h, k) /\ requests # 0 /\ Answerable(Script[op][h].cmd)
    BY <1>1, <1>4, WhileUnderWay DEF CountInv
  <1>6. PICK frames, i, j : Answered(Script[op], h, k, frames, i, j)
    BY <1>2, <1>5 DEF UnderWay, Unread
  <1>7. /\ Len(frames) \in Nat /\ \A m \in 1 .. Len(frames) : frames[m].cmd \in Recorded
    BY <1>5, <1>6, AnswerShape DEF Answered, Apart
  <1>8. f.req = requests /\ f.cmd \in Recorded
    <2>1. /\ j \in 0 .. Len(frames) /\ Len(outbox) = Len(frames) - j
          /\ \A m \in 1 .. Len(frames) - j : OfPart(outbox[m], frames[j + m])
      BY <1>6 DEF Answered, Flight
    <2>2. Len(outbox) >= 1
      BY <1>2 DEF CountInv, Inv, TypeOK
    <2>3. 1 \in 1 .. Len(frames) - j /\ j + 1 \in 1 .. Len(frames)
      BY <1>7, <2>1, <2>2
    <2>4. OfPart(outbox[1], frames[j + 1]) /\ frames[j + 1].cmd \in Recorded
      BY <1>7, <2>1, <2>3
    <2> QED  BY <1>3, <2>4 DEF OfPart
  <1>9. f.cmd # "SCAN_IND"
    BY <1>8, AnswersAssumption DEF News
  <1>10. Followed'
    BY <1>2, <1>8, <1>9, FollowedOn DEF CountInv, Inv
  <1> QED  BY <1>2, <1>10, ScanStays

LEMMA TellScan ==
    ASSUME CountInv, FailedLink \/ (\E c \in Connections : LinkEvent(c))
                     \/ (\E a \in Advertisers : Hear(a))
    PROVE  ScanInv'
  <1>1. /\ UNCHANGED <<pointers, scanResult, lent, heard, scanning, asked, requests,
                       served, ready, returned, call, outbox>>
    BY DEF FailedLink, LinkEvent, Hear, Tell, module, history, driver, kept, radio
  <1>2. Stopped => Followed'
    <2> SUFFICES ASSUME Stopped PROVE Followed'
      OBVIOUS
    <2>1. ~scanning /\ Followed
      BY DEF CountInv, ScanInv, Stopping
    <2>2. \A a : ~Hear(a)
      BY <2>1 DEF Hear
    <2>3. PICK cmd \in News \ {"SCAN_IND"} : \E status, about : Tell(cmd, status, about)
      BY <2>2 DEF FailedLink, LinkEvent, News
    <2>4. PICK status, about : Tell(cmd, status, about)
      BY <2>3
    <2>5. PICK f : f = [cmd |-> cmd, status |-> status, data |-> about, req |-> 0]
      OBVIOUS
    <2>6. f.cmd # "SCAN_IND" /\ (line' = line \/ line' = Append(line, f))
      BY <2>3, <2>4, <2>5 DEF Tell
    <2>7. CASE line' = line
      BY <1>1, <2>1, <2>7 DEF Followed
    <2>8. CASE line' = Append(line, f)
      BY <1>1, <2>1, <2>6, <2>8, FollowedOn DEF CountInv, Inv
    <2> QED  BY <2>6, <2>7, <2>8
  <1> QED  BY <1>1, <1>2, ScanStays

(* A granted ScanStop ends the scan, a granted ScanStart begins it.        *)
LEMMA AnswerScan == ASSUME Serial, CountInv, AnswerP4 PROVE ScanInv'
  <1>0. PICK cmd : cmd = Head(inbox).cmd
    OBVIOUS
  <1>1. PICK granted \in BOOLEAN :
          /\ Answer(granted)
          /\ granted /\ cmd = "SCAN_STOP_REQ" => scanning
          /\ scanning' = IF ~granted THEN scanning
                         ELSE CASE cmd = "SCAN_START_REQ"                 -> TRUE
                                [] cmd \in {"SCAN_STOP_REQ"} \cup Restarted -> FALSE
                                [] OTHER                                  -> scanning
    BY <1>0 DEF AnswerP4
  <1>2. PICK op, k, steps : op = call.op /\ k = call.k /\ steps = Script[op]
    OBVIOUS
  <1>3. /\ UNCHANGED <<pointers, scanResult, lent, heard, asked, requests, ready,
                       returned, call, line>>
        /\ inbox # <<>> /\ inbox' = Tail(inbox)
        /\ served' = IF granted THEN served \cup {Head(inbox).req} ELSE served
    BY <1>1 DEF AnswerP4, Answer, driver, history, kept
  <1>4. PICK h : Running /\ call.ok /\ Pending(steps, h, k)
    <2>1. ~Quiet
      BY <1>3 DEF Quiet
    <2> QED  BY <1>2, <2>1, Somebody DEF CountInv
  <1>5. /\ op \in Ops /\ h \in 1 .. Len(steps) /\ h < k /\ steps[h].do = "send"
        /\ k \in 1 .. Len(steps)
        /\ Answerable(steps[h].cmd) /\ UnderWay(steps, h, k) /\ requests \in asked
    BY <1>2, <1>4, WhileUnderWay DEF CountInv
  <1>6. Unread(steps, h, k) /\ asked \subseteq served \cup {requests}
    BY <1>3, <1>5 DEF UnderWay, Answered
  <1>7. /\ Head(inbox).cmd = steps[h].cmd /\ Head(inbox).req = requests
        /\ requests \notin served /\ outbox = <<>>
    BY <1>6 DEF Unread
  <1>8. /\ Running' = Running /\ \A o : In(o)' = In(o)
        /\ Sent' = Sent /\ Counted' = Counted /\ Right' = Right
    BY <1>3 DEF Running, In, Sent, Counted, Right
  <1>9. Collecting' /\ Borrowing' /\ Unanswering'
    BY <1>3, <1>8 DEF CountInv, ScanInv, Collecting, ListType, Borrowing, Unanswering
  <1>10. CASE ~granted
    <2>1. scanning' = scanning /\ served' = served
      BY <1>1, <1>3, <1>10
    <2>2. ~Stopped
      BY <1>7 DEF Stopped
    <2> QED  BY <1>3, <2>1, <2>2, ScanStays
  <1>11. CASE granted
    <2>1. asked' \subseteq served' /\ served' = served \cup {requests}
      BY <1>3, <1>6, <1>7, <1>11
    <2>2. Len(steps) \in Nat /\ DOMAIN steps = 1 .. Len(steps)
      BY <1>2, <1>4, Here DEF CountInv
    <2>3. Sends(steps, h)
      BY <1>5, <2>2 DEF Sends
    <2>4. h \in 1 .. k - 1 /\ k > 1
      <3>1. h \in 1 .. Len(steps) /\ k \in 1 .. Len(steps) /\ h < k /\ Len(steps) \in Nat
        BY <1>5, <2>2
      <3> QED  BY <3>1
    <2>5. Sent
      BY <1>2, <2>3, <2>4 DEF Sent
    <2>6. /\ cmd = "SCAN_START_REQ" => op = "ScanStart"
          /\ cmd = "SCAN_STOP_REQ" <=> op = "ScanStop"
      <3>1. \A j \in DOMAIN steps : Sends(steps, j) =>
                /\ steps[j].cmd = "SCAN_START_REQ" => op = "ScanStart"
                /\ steps[j].cmd = "SCAN_STOP_REQ" <=> op = "ScanStop"
        BY <1>2, <1>5, ScanTables
      <3>2. h \in DOMAIN steps /\ steps[h].cmd = cmd
        BY <1>0, <1>5, <1>7, <2>2
      <3> QED  BY <2>3, <3>1, <3>2
    <2>7. cmd = "SCAN_START_REQ" => "scan" \in pointers
      BY <1>2, <1>4, <2>4, <2>6 DEF CountInv, ScanInv, Scanning, In
    <2>8. cmd # "SCAN_START_REQ" /\ scanning' => scanning
      <3>1. CASE cmd \in {"SCAN_STOP_REQ"} \cup Restarted
        BY <1>1, <1>11, <3>1
      <3>2. CASE cmd # "SCAN_START_REQ" /\ cmd \notin {"SCAN_STOP_REQ"} \cup Restarted
        BY <1>1, <1>11, <3>2
      <3> QED  BY <3>1, <3>2
    <2>9. Scanning'
      <3>1. scanning' => "scan" \in pointers'
        BY <1>3, <2>7, <2>8 DEF CountInv, ScanInv, Scanning
      <3>2. In("ScanStart")' /\ call'.ok /\ call'.k > 1 => "scan" \in pointers'
        BY <1>3, <1>8 DEF CountInv, ScanInv, Scanning
      <3> QED  BY <1>8, <2>1, <2>5, <3>1, <3>2 DEF Scanning
    <2>10. In("ScanStop") => ~scanning' /\ Followed' /\ "scan" \in pointers'
      <3> SUFFICES ASSUME In("ScanStop") PROVE ~scanning' /\ Followed' /\ "scan" \in pointers'
        OBVIOUS
      <3>1. cmd = "SCAN_STOP_REQ" /\ cmd # "SCAN_START_REQ"
        BY <1>2, <2>6 DEF In
      <3>2. scanning /\ ~scanning'
        BY <1>1, <1>11, <3>1
      <3>3. "scan" \in pointers'
        BY <1>3, <3>2 DEF CountInv, ScanInv, Scanning
      <3>4. outbox' # <<>>
        <4>1. PICK yes, frames : /\ yes = Reply[steps[h].cmd].yes
                                 /\ frames = Tagged(yes, requests)
          OBVIOUS
        <4>2. yes # <<>> /\ yes \in Seq(PartType) /\ requests \in Nat
          BY <1>5, <4>1, ModuleAssumption DEF Answerable, Distinct, CountInv, Inv, TypeOK
        <4>3. frames \in Seq(Frame) /\ DOMAIN frames = DOMAIN yes
          BY <4>1, <4>2, TaggedType DEF Tagged
        <4>4. frames # <<>>
          <5>1. DOMAIN yes = 1 .. Len(yes) /\ Len(yes) \in Nat /\ Len(yes) # 0
            BY <4>2
          <5>2. 1 \in DOMAIN frames
            BY <4>3, <5>1
          <5> QED  BY <5>2
        <4>5. outbox' = outbox \o frames
          BY <1>1, <1>7, <1>11, <4>1 DEF Answer
        <4>6. outbox' = frames
          BY <1>7, <4>3, <4>5, Prepended
        <4> QED  BY <4>4, <4>6
      <3>5. Followed'
        BY <3>4 DEF Followed
      <3> QED  BY <3>2, <3>3, <3>5
    <2>11. Stopping'
      <3>1. Stopped' => In("ScanStop")
        BY <1>8 DEF Stopped
      <3> QED  BY <1>3, <1>8, <2>10, <3>1 DEF CountInv, ScanInv, Stopping
    <2> QED  BY <1>9, <2>9, <2>11 DEF ScanInv
  <1> QED  BY <1>10, <1>11

(* The first frame of the line arrives.                                    *)
LEMMA FollowedLess ==
    ASSUME TypeOK, line # <<>>, line' = Tail(line), requests' = requests,
           outbox' = outbox, Followed
    PROVE  Followed'
  <1>1. PICK l : l = Len(line)
    OBVIOUS
  <1>2. /\ l \in Nat /\ l > 0 /\ Len(line') = l - 1 /\ DOMAIN line' = 1 .. l - 1
        /\ \A n \in 1 .. l - 1 : line'[n] = line[n + 1]
    BY <1>1 DEF TypeOK
  <1> SUFFICES ASSUME NEW x \in 1 .. l - 1, line'[x].cmd = "SCAN_IND"
               PROVE  outbox' # <<>> \/ \E y \in x + 1 .. l - 1 : line'[y].req = requests
    BY <1>2 DEF Followed
  <1>3. x + 1 \in 1 .. l /\ line[x + 1].cmd = "SCAN_IND" /\ DOMAIN line = 1 .. l
    BY <1>1, <1>2 DEF TypeOK
  <1>4. outbox # <<>> \/ \E y \in (x + 1) + 1 .. l : line[y].req = requests
    BY <1>1, <1>3 DEF Followed
  <1>5. ASSUME NEW y \in (x + 1) + 1 .. l PROVE y - 1 \in x + 1 .. l - 1 /\ line'[y - 1] = line[y]
    <2>1. y - 1 \in x + 1 .. l - 1 /\ y - 1 \in 1 .. l - 1 /\ (y - 1) + 1 = y
      BY <1>2
    <2> QED  BY <1>2, <2>1
  <1> QED  BY <1>4, <1>5

(* A device that is heard is put on the list, as far as there is room; a   *)
(* list that was counted stays as it is.                                   *)
LEMMA ReceiveScan == ASSUME Serial, CountInv, ReceiveP4 PROVE ScanInv'
  <1>1. /\ UNCHANGED <<pointers, lent, scanning, asked, requests, served, ready,
                       returned, call, outbox>>
        /\ line # <<>> /\ line' = Tail(line)
    BY DEF ReceiveP4, HandleRxPacket, module, history, radio
  <1>2. PICK f : f = Head(line)
    OBVIOUS
  <1>3. f = line[1] /\ 1 \in DOMAIN line
    BY <1>1, <1>2 DEF CountInv, Inv, TypeOK
  <1>4. \/ scanResult' = scanResult /\ heard' = heard
        \/ /\ scanResult' = Scanned(f)
           /\ heard' = IF f.cmd = "SCAN_IND" /\ lent THEN heard \cup {f.data} ELSE heard
    BY <1>2 DEF ReceiveP4
  <1>5. Stopped => Followed'
    BY <1>1, FollowedLess DEF CountInv, ScanInv, Inv, Stopping
  <1>6. CASE scanResult' = scanResult /\ heard' = heard
    BY <1>1, <1>5, <1>6, ScanStays
  <1>7. CASE ~(scanResult' = scanResult /\ heard' = heard)
    <2>1. f.cmd = "SCAN_IND"
      BY <1>4, <1>7 DEF Scanned
    <2>2. lent
      BY <1>4, <1>7 DEF Scanned, CountInv, Lent
    <2>3. heard' = heard \cup {f.data} /\ scanResult' = Scanned(f)
      BY <1>4, <1>7, <2>1, <2>2
    <2>4. IsFiniteSet(heard')
      BY <2>3, FS_AddElement DEF CountInv, ScanInv, Collecting
    <2>5. Collecting'
      <3> SUFFICES ASSUME "scan" \in pointers
                   PROVE  LET devices == scanResult.devices'
                          IN  /\ devices \subseteq heard' /\ Cardinality(devices) <= ScanDevices
                              /\ Cardinality(devices) < ScanDevices => devices = heard'
        <4>1. ListType'
          BY <2>3 DEF Scanned, ListType, CountInv, ScanInv, Collecting
        <4> QED  BY <1>1, <2>4, <4>1 DEF Collecting
      <3>1. PICK devices, more, d : /\ devices = scanResult.devices
                                    /\ more = scanResult'.devices /\ d = Cardinality(devices)
        OBVIOUS
      <3>2. /\ devices \subseteq heard /\ d <= ScanDevices
            /\ d < ScanDevices => devices = heard
        BY <3>1 DEF CountInv, ScanInv, Collecting
      <3>3. IsFiniteSet(devices) /\ d \in Nat /\ ScanDevices \in Nat
        BY <3>1, <3>2, FS_Subset, FS_CardinalityType, LinksAssumption
           DEF CountInv, ScanInv, Collecting
      <3>4. CASE d < ScanDevices
        <4>1. scanResult' = [scanResult EXCEPT !.devices = @ \cup {f.data}]
          BY <2>1, <2>3, <3>1, <3>4 DEF Scanned
        <4>2. more = devices \cup {f.data}
          BY <3>1, <4>1 DEF CountInv, ScanInv, Collecting, ListType
        <4>3. more = heard'
          BY <2>3, <3>2, <3>4, <4>2
        <4>4. Cardinality(more) = d \/ Cardinality(more) = d + 1
          BY <3>1, <3>3, <4>2, FS_AddElement
        <4>5. Cardinality(more) <= ScanDevices
          BY <3>3, <3>4, <4>4
        <4> QED  BY <3>1, <4>3, <4>5
      <3>5. CASE ~(d < ScanDevices)
        <4>1. scanResult' = scanResult
          BY <2>3, <3>1, <3>5 DEF Scanned
        <4> QED  BY <2>3, <3>1, <3>2, <3>5, <4>1
      <3> QED  BY <3>4, <3>5
    <2>6. /\ Running' = Running /\ \A o : In(o)' = In(o)
          /\ Sent' = Sent /\ Counted' = Counted /\ Stopped' = Stopped
      BY <1>1 DEF Running, In, Sent, Counted, Stopped
    <2>7. Borrowing' /\ Unanswering' /\ Scanning'
      BY <1>1, <2>6 DEF CountInv, ScanInv, Borrowing, Unanswering, Scanning
    <2>8. ~(In("ScanStop") /\ call.ok /\ Counted)
      BY <1>3, <2>1, NoneToCome
    <2>9. Stopping'
      BY <1>1, <1>5, <2>2, <2>6, <2>8 DEF CountInv, ScanInv, Stopping
    <2> QED  BY <2>5, <2>7, <2>9 DEF ScanInv
  <1> QED  BY <1>6, <1>7

-----------------------------------------------------------------------------
(* The main thread.                                                        *)
LEMMA AtP4 ==
    ASSUME Serial, CountInv, NEW what, At(what),
           NEW op, op = call.op, NEW k, k = call.k
    PROVE  /\ op \in Ops /\ k \in Nat /\ k >= 1 /\ k \in DOMAIN Script[op]
           /\ k \in 1 .. Len(Script[op]) /\ Script[op][k].do = what
           /\ call \in Position /\ Running
  <1>1. Running
    BY DEF At
  <1>2. op \in Ops /\ k \in Nat /\ k >= 1 /\ call \in Position
    BY <1>1, Here DEF CountInv
  <1>3. k \in DOMAIN Script[op] /\ k \in 1 .. Len(Script[op]) /\ Script[op][k].do = what
    BY AtStep DEF CountInv, Inv, Step
  <1> QED  BY <1>1, <1>2, <1>3

(* What is behind a call after one more step.                              *)
LEMMA Behind ==
    ASSUME CountInv, NEW op, op = call.op, NEW k, k = call.k, k \in Nat, k >= 1,
           call'.op = op, call'.k = k + 1
    PROVE  /\ Sent' <=> Sent \/ Sends(Script[op], k)
           /\ Counted' <=> Counted \/ (/\ k \in DOMAIN Script[op] /\ Script[op][k].do = "set"
                                       /\ Script[op][k].status = "scan count")
  <1>1. \A h : h \in 1 .. (k + 1) - 1 <=> h \in 1 .. k - 1 \/ h = k
    OBVIOUS
  <1> QED  BY <1>1 DEF Sent, Counted

(* A step that succeeds, but for the assignments and the requests.         *)
LEMMA ScanAdvances ==
    ASSUME Serial, CountInv, NEW what, At(what), what \notin {"set", "send"}, Advance,
           UNCHANGED <<pointers, scanResult, lent, heard, asked, requests, ready, returned>>,
           scanning' => scanning /\ served' = served,
           In("ScanStop") => served' = served /\ (Followed => Followed')
    PROVE  ScanInv'
  <1>1. PICK op, k : op = call.op /\ k = call.k
    OBVIOUS
  <1>2. /\ op \in Ops /\ k \in Nat /\ k >= 1 /\ k \in DOMAIN Script[op]
        /\ Script[op][k].do = what /\ call \in Position /\ Running
    BY <1>1, AtP4
  <1>3. call'.op = op /\ call'.k = k + 1 /\ call'.ok = call.ok /\ call'.why = call.why
    BY <1>1, <1>2 DEF Advance, Position
  <1>4. /\ Running' /\ \A o : In(o)' = In(o)
        /\ Right' = Right
    BY <1>1, <1>2, <1>3 DEF Running, In, Right
  <1>5. (Sent' <=> Sent) /\ (Counted' <=> Counted)
    BY <1>1, <1>2, <1>3, Behind DEF Sends
  <1>6. Collecting' /\ Borrowing' /\ Unanswering'
    BY <1>1, <1>2, <1>3, <1>4
       DEF CountInv, ScanInv, Collecting, ListType, Borrowing, Unanswering
  <1>7. Scanning'
    <2>1. In("ScanStart") /\ call.ok => "scan" \in pointers
      <3> SUFFICES ASSUME In("ScanStart"), call.ok PROVE "scan" \in pointers
        OBVIOUS
      <3>1. op = "ScanStart" /\ Script[op][1].do = "set"
        BY <1>1, <1>2, ScanTables DEF In, BeginsScan
      <3>2. k # 1
        BY <1>2, <3>1
      <3>3. k > 1
        BY <1>2, <3>2
      <3> QED  BY <1>1, <3>3 DEF CountInv, ScanInv, Scanning
    <2> QED  BY <1>3, <1>4, <1>5, <2>1 DEF CountInv, ScanInv, Scanning
  <1>8. Stopping'
    <2>1. Stopped' => Stopped /\ Followed'
      BY <1>4 DEF Stopped, CountInv, ScanInv, Stopping
    <2> QED  BY <1>3, <1>4, <1>5, <2>1 DEF CountInv, ScanInv, Stopping
  <1> QED  BY <1>6, <1>7, <1>8 DEF ScanInv

(* A wait that fails: the request was not granted.                         *)
LEMMA ScanFails ==
    ASSUME Serial, MaxFaults = 0, CountInv, Inv', At("wait"), Fail,
           UNCHANGED <<pointers, scanResult, lent, heard, scanning, asked, requests,
                       served, ready, returned, line, outbox>>
    PROVE  ScanInv'
  <1>1. PICK op : op = call.op
    OBVIOUS
  <1>2. /\ call \in Position /\ Running /\ Step.do = "wait"
    BY <1>1, AtP4 DEF At
  <1>3. /\ call'.op = op /\ call'.ok = FALSE
        /\ call'.why = IF call.ok THEN "wait" ELSE call.why
    BY <1>1, <1>2 DEF Fail, Position
  <1>4. Running' /\ (\A o : In(o)' = In(o)) /\ Right' = Right /\ Followed' = Followed
    BY <1>1, <1>2, <1>3 DEF Running, In, Right, Followed
  <1>5. call'.why = "wait"
    BY <1>2, <1>3 DEF CountInv, ScanInv, Unanswering
  <1>6. ~(asked' \subseteq served')
    BY <1>3, <1>4, <1>5 DEF Inv, Requesting, Failing
  <1>7. Collecting' /\ Borrowing' /\ Unanswering'
    BY <1>1, <1>2, <1>3, <1>4, <1>5
       DEF CountInv, ScanInv, Collecting, ListType, Borrowing, Unanswering
  <1>8. Scanning'
    <2>1. ~(In("ScanStart") /\ scanning)
      BY <1>6 DEF CountInv, ScanInv, Scanning
    <2> QED  BY <1>3, <1>4, <2>1 DEF CountInv, ScanInv, Scanning
  <1>9. Stopping'
    <2>1. Stopped' => Stopped
      BY <1>4 DEF Stopped
    <2> QED  BY <1>3, <1>4, <2>1 DEF CountInv, ScanInv, Stopping
  <1> QED  BY <1>7, <1>8, <1>9 DEF ScanInv

(* A request is sent.                                                      *)
LEMMA TransmitScan ==
    ASSUME Serial, CountInv, Transmit,
           UNCHANGED <<pointers, scanResult, lent, heard, scanning>>
    PROVE  ScanInv'
  <1>1. PICK op, k : op = call.op /\ k = call.k
    OBVIOUS
  <1>2. /\ op \in Ops /\ k \in Nat /\ k >= 1 /\ k \in DOMAIN Script[op]
        /\ Script[op][k].do = "send" /\ call \in Position /\ Running
    BY <1>1, AtP4 DEF Transmit
  <1>3. call'.op = op /\ call'.k = k + 1 /\ call'.ok = call.ok /\ call'.why = call.why
    BY <1>1, <1>2 DEF Transmit, Advance, Position
  <1>4. /\ UNCHANGED <<served, ready, returned, line, outbox>>
        /\ requests' = requests + 1 /\ requests' \in asked'
    BY DEF Transmit, driver
  <1>5. requests' \notin served'
    <2>1. served \subseteq 1 .. requests /\ requests \in Nat
      BY DEF CountInv, Inv, Requesting, TypeOK
    <2>2. requests + 1 \notin 1 .. requests
      BY <2>1
    <2> QED  BY <1>4, <2>1, <2>2
  <1>6. Running' /\ (\A o : In(o)' = In(o)) /\ Right' = Right
    BY <1>1, <1>2, <1>3 DEF Running, In, Right
  <1>7. Counted' <=> Counted
    BY <1>1, <1>2, <1>3, Behind
  <1>8. Collecting' /\ Borrowing' /\ Unanswering'
    BY <1>1, <1>2, <1>3, <1>4, <1>6
       DEF CountInv, ScanInv, Collecting, ListType, Borrowing, Unanswering
  <1>9. Scanning'
    <2>1. In("ScanStart") => ~scanning /\ (call.ok => "scan" \in pointers)
      <3> SUFFICES ASSUME In("ScanStart") PROVE ~scanning /\ (call.ok => "scan" \in pointers)
        OBVIOUS
      <3>1. op = "ScanStart" /\ BeginsScan(Script[op]) /\ Sends(Script[op], k)
        BY <1>1, <1>2, ScanTables DEF In, Sends
      <3>2. ~Sent
        <4> SUFFICES ASSUME NEW h \in 1 .. k - 1, Sends(Script[op], h) PROVE FALSE
          BY <1>1 DEF Sent
        <4>1. h = k
          BY <3>1 DEF BeginsScan, Sends
        <4>2. h # k
          BY <1>2
        <4> QED  BY <4>1, <4>2
      <3>3. k # 1
        BY <1>2, <3>1 DEF BeginsScan
      <3>4. k > 1
        BY <1>2, <3>3
      <3> QED  BY <1>1, <3>2, <3>4 DEF CountInv, ScanInv, Scanning
    <2> QED  BY <1>3, <1>6, <2>1 DEF CountInv, ScanInv, Scanning
  <1>10. Stopping'
    <2>1. ~Stopped'
      BY <1>5 DEF Stopped
    <2> QED  BY <1>3, <1>4, <1>6, <1>7, <2>1 DEF CountInv, ScanInv, Stopping
  <1> QED  BY <1>8, <1>9, <1>10 DEF ScanInv

LEMMA StartScan == ASSUME CountInv, StartP4 PROVE ScanInv'
  <1>1. PICK op \in Ops : Start(op) /\ (lent => op \notin Closing \cup {"ScanStart"})
    BY DEF StartP4
  <1>2. /\ UNCHANGED <<pointers, scanResult, lent, heard, scanning, requests, served,
                       ready, returned>>
        /\ asked' = {} /\ ~Running /\ (op \in Opening) = ~ready
        /\ call'.op = op /\ call'.k = 1 /\ call'.ok = TRUE
    BY <1>1 DEF StartP4, Start, driver, module, kept, radio, Idle
  <1>3. Running'
    BY <1>2, Tables DEF Running, NoOp
  <1>4. Right' = Right /\ ~Sent' /\ ~Counted'
    BY <1>2 DEF Right, Sent, Counted
  <1>5. Collecting' /\ Unanswering'
    BY <1>2 DEF CountInv, ScanInv, Collecting, ListType, Unanswering
  <1>6. Borrowing'
    BY <1>1, <1>2 DEF CountInv, ScanInv, Borrowing
  <1>7. Scanning'
    <2>1. op = "ScanStart" => ~scanning
      BY <1>1 DEF CountInv, Lent, ScanInv, Scanning
    <2> QED  BY <1>2, <2>1 DEF CountInv, ScanInv, Scanning, In
  <1>8. Stopping'
    BY <1>2, <1>3, <1>4 DEF Stopping, Stopped
  <1> QED  BY <1>5, <1>6, <1>7, <1>8 DEF ScanInv

LEMMA FinishScan == ASSUME Serial, CountInv, FinishP4 PROVE ScanInv'
  <1>1. PICK op, k, steps : op = call.op /\ k = call.k /\ steps = Script[op]
    OBVIOUS
  <1>2. /\ Running /\ op \in Ops /\ k \in Nat /\ k >= 1 /\ Len(steps) \in Nat
        /\ DOMAIN steps = 1 .. Len(steps)
    BY <1>1, Here DEF CountInv, FinishP4, Finish, Ended
  <1>3. /\ UNCHANGED <<pointers, scanResult, heard, scanning, asked, requests, served>>
        /\ call' = Idle /\ ~Running'
        /\ lent' = CASE op = "ScanStart"             -> call.ok
                     [] op = "ScanStop" /\ call.ok   -> FALSE
                     [] OTHER                        -> lent
        /\ returned'.op = op /\ returned'.ok = call.ok
        /\ ready' = CASE op \in Opening -> call.ok
                      [] op \in Closing -> ready /\ ~call.ok
                      [] OTHER          -> ready
    BY <1>1 DEF FinishP4, Finish, kept, radio, module, history, Idle, Running
  <1>4. Right' = Right
    BY <1>3 DEF Right
  <1>5. Collecting' /\ Unanswering'
    BY <1>3 DEF CountInv, ScanInv, Collecting, ListType, Unanswering
  <1>6. Borrowing'
    <2> SUFFICES ASSUME lent' PROVE ready'
      BY <1>3 DEF Borrowing
    <2>1. CASE op = "ScanStart" \/ op = "ScanStop"
      <3>1. op \notin Opening /\ op \notin Closing
        BY <1>2, <2>1, ScanTables
      <3>2. ready
        BY <1>1, <1>2, <3>1 DEF CountInv, Inv, Powered
      <3> QED  BY <1>3, <3>1, <3>2
    <2>2. CASE ~(op = "ScanStart" \/ op = "ScanStop")
      <3>1. lent' = lent
        BY <1>3, <2>2
      <3>2. ready /\ op \notin Opening /\ op \notin Closing
        BY <1>1, <1>2, <3>1 DEF CountInv, ScanInv, Borrowing
      <3> QED  BY <1>3, <3>2
    <2> QED  BY <2>1, <2>2
  <1>7. Scanning'
    BY <1>3 DEF CountInv, ScanInv, Scanning, In
  <1>8. Stopping'
    <2> SUFFICES ASSUME op = "ScanStop", call.ok PROVE ~lent' /\ Right'
      BY <1>3 DEF Stopping, Stopped, In
    <2>1. ~lent'
      BY <1>3
    <2>2. PICK c \in 1 .. Len(steps) :
            steps[c].do = "set" /\ steps[c].status = "scan count"
      <3>1. PICK o \in 1 .. Len(steps) : steps[o].status = "scan over"
        BY <1>1, <1>2, PointerAssumption DEF Comes
      <3>2. PICK c \in 1 .. o - 1 : steps[c].do = "set" /\ steps[c].status = "scan count"
        <4>1. EndsScan(steps)
          BY <1>1, <1>2, ScanTables
        <4>2. o \in DOMAIN steps
          BY <1>2, <3>1
        <4> QED  BY <3>1, <4>1, <4>2 DEF EndsScan
      <3>3. c \in 1 .. Len(steps)
        <4>1. o \in 1 .. Len(steps) /\ c \in 1 .. o - 1 /\ Len(steps) \in Nat
          BY <1>2
        <4> QED  BY <4>1
      <3> QED  BY <3>2, <3>3
    <2>3. ~(k <= Len(steps))
      <3>1. k \in DOMAIN steps => steps[k].do # "return"
        BY <1>1, <1>2, ScanTables DEF EndsScan
      <3>2. k <= Len(steps) => steps[k].do = "return"
        BY <1>1 DEF FinishP4, Finish, Ended, Length, Step
      <3> QED  BY <1>2, <3>1, <3>2
    <2>4. c \in 1 .. k - 1 /\ c \in DOMAIN steps
      <3>1. c \in 1 .. Len(steps) /\ k \in Nat /\ Len(steps) \in Nat
        BY <1>2
      <3> QED  BY <1>2, <2>3, <3>1
    <2>5. Counted
      BY <1>1, <2>2, <2>4 DEF Counted
    <2> QED  BY <1>1, <1>2, <1>4, <2>1, <2>5 DEF CountInv, ScanInv, Stopping, In
  <1> QED  BY <1>5, <1>6, <1>7, <1>8 DEF ScanInv

(* The assignments: the list is lent, taken back, counted.                 *)
LEMMA SetScan == ASSUME Serial, MaxFaults = 0, CountInv, SetP4 PROVE ScanInv'
  <1>1. PICK op, k, steps, what :
          op = call.op /\ k = call.k /\ steps = Script[op] /\ what = Step.status
    OBVIOUS
  <1>2. PICK do \in {"set", "pin"} : At(do)
    BY DEF SetP4, SetState
  <1>3. /\ op \in Ops /\ k \in Nat /\ k >= 1 /\ k \in DOMAIN steps /\ k \in 1 .. Len(steps)
        /\ steps[k].do = do /\ call \in Position /\ Running
    BY <1>1, <1>2, AtP4
  <1>4. call'.op = op /\ call'.k = k + 1 /\ call'.ok = call.ok /\ call'.why = call.why
    BY <1>1, <1>3 DEF SetP4, SetState, Advance, Position
  <1>5. /\ UNCHANGED <<scanning, asked, requests, served, ready, returned, line, outbox>>
        /\ pointers' = Assigned(what) /\ scanResult' = ScanResultAfter(what)
        /\ lent' = (IF what = "scan" THEN TRUE ELSE lent)
        /\ heard' = (IF what = "scan" THEN {} ELSE heard)
    BY <1>1 DEF SetP4, SetState, radio, driver, module, history
  <1>6. steps[k].status = what
    BY <1>1 DEF Step
  <1>7. /\ what = "scan"       => op = "ScanStart" /\ k = 1
        /\ what = "scan NULL"  => op = "ScanStart"
        /\ what = "scan count" => op = "ScanStop"
        /\ what = "scan over"  => op = "ScanStop"
        /\ what = "pointers"   => op \in Opening
    <2>1. k \in DOMAIN Script[op] /\ Script[op][k].status = what
      BY <1>1, <1>3, <1>6
    <2> QED  BY <1>3, <2>1, ScanTables
  <1>8. Quiet /\ (call.ok => Settled(steps, k) /\ Going(steps, k))
    <2>1. steps[k].do \notin {"clear", "wait"}
      BY <1>3
    <2> QED  BY <1>1, <1>3, <2>1, NothingPending, Here DEF CountInv
  <1>9. /\ Running' /\ (\A o : In(o)' = In(o)) /\ Followed' = Followed
        /\ Stopped' = Stopped
    BY <1>1, <1>3, <1>4, <1>5 DEF Running, In, Followed, Stopped
  <1>10. /\ Sent' <=> Sent
         /\ Counted' <=> Counted \/ (do = "set" /\ what = "scan count")
    BY <1>1, <1>3, <1>4, <1>6, Behind DEF Sends
  <1>11. Unanswering'
    BY <1>1, <1>3, <1>4 DEF CountInv, ScanInv, Unanswering
  <1>12. what \notin {"scan", "scan NULL", "scan over", "pointers"} =>
           ("scan" \in pointers' <=> "scan" \in pointers)
    BY <1>5 DEF Assigned
  <1>13. CASE what = "scan"
    <2>1. op = "ScanStart" /\ k = 1 /\ In("ScanStart") /\ ~In("ScanStop")
      BY <1>1, <1>3, <1>7, <1>13 DEF In
    <2>2. "scan" \in pointers' /\ lent' /\ heard' = {}
      BY <1>5, <1>13 DEF Assigned
    <2>3. scanResult' = [scanResult EXCEPT !.devices = {}]
      BY <1>5, <1>13 DEF ScanResultAfter
    <2>4. ListType' /\ scanResult'.devices = {}
      BY <2>3 DEF CountInv, ScanInv, Collecting, ListType
    <2>5. Collecting'
      <3>1. IsFiniteSet({}) /\ Cardinality({}) = 0 /\ ScanDevices \in Nat
        BY FS_EmptySet, LinksAssumption
      <3>2. Cardinality(scanResult'.devices) <= ScanDevices
        BY <2>4, <3>1
      <3> QED  BY <2>2, <2>4, <3>1, <3>2 DEF Collecting
    <2>6. op \notin Opening \cup Closing /\ ready
      <3>1. op \notin Opening \cup Closing
        BY <1>3, <2>1, ScanTables
      <3> QED  BY <1>1, <1>3, <3>1 DEF CountInv, Inv, Powered
    <2>7. Borrowing'
      BY <1>4, <1>5, <2>6 DEF Borrowing
    <2>8. ~Sent
      <3>1. 1 .. k - 1 = {}
        BY <2>1
      <3> QED  BY <1>1, <3>1 DEF Sent
    <2>9. ~scanning
      BY <2>1, <2>8 DEF CountInv, ScanInv, Scanning
    <2>10. Scanning'
      BY <1>5, <2>2, <2>9 DEF Scanning
    <2>11. Stopping'
      BY <1>9, <2>1 DEF Stopping, Stopped
    <2> QED  BY <1>11, <2>5, <2>7, <2>10, <2>11 DEF ScanInv
  <1>14. CASE what # "scan"
    <2>1. lent' = lent /\ heard' = heard /\ ("scan" \in pointers' => "scan" \in pointers)
      BY <1>5, <1>14 DEF Assigned
    <2>2. ListType' /\ scanResult'.devices = scanResult.devices
      BY <1>5, <1>14 DEF ScanResultAfter, CountInv, ScanInv, Collecting, ListType
    <2>3. Collecting'
      BY <2>1, <2>2 DEF CountInv, ScanInv, Collecting
    <2>4. Borrowing'
      BY <1>1, <1>3, <1>4, <1>5, <2>1 DEF CountInv, ScanInv, Borrowing
    <2>5. ASSUME "scan" \in pointers, "scan" \notin pointers'
          PROVE  ~scanning /\ (In("ScanStart") => ~call.ok) /\ (In("ScanStop") => Counted)
      <3>1. CASE what = "scan NULL"
        <4>1. op = "ScanStart" /\ In("ScanStart") /\ ~In("ScanStop")
          BY <1>1, <1>3, <1>7, <3>1 DEF In
        <4>2. ~call.ok
          <5>1. BeginsScan(steps)
            BY <1>1, <1>3, <4>1, ScanTables
          <5>2. \A j \in DOMAIN steps : steps[j].status = "scan NULL" =>
                  \E h \in 1 .. j - 1 : steps[h].do = "return"
            BY <5>1 DEF BeginsScan
          <5>3. PICK h \in 1 .. k - 1 : steps[h].do = "return"
            BY <1>3, <1>6, <3>1, <5>2
          <5> QED  BY <1>8, <5>3 DEF Going
        <4>3. ~(asked \subseteq served)
          BY <1>1, <1>3, <4>2 DEF CountInv, ScanInv, Unanswering, Inv, Requesting, Failing
        <4> QED  BY <4>1, <4>2, <4>3 DEF CountInv, ScanInv, Scanning
      <3>2. CASE what = "scan over"
        <4>1. op = "ScanStop" /\ In("ScanStop") /\ ~In("ScanStart")
          BY <1>1, <1>3, <1>7, <3>2 DEF In
        <4>2. EndsScan(steps)
          BY <1>1, <1>3, <4>1, ScanTables
        <4>3. call.ok
          <5>1. \A y \in DOMAIN steps : steps[y].fail = 0
            BY <4>2 DEF EndsScan
          <5>2. k # Len(steps) + 1
            <6>1. k \in 1 .. Len(steps)
              BY <1>3
            <6> QED  BY <6>1
          <5> QED  BY <1>1, <1>3, <5>1, <5>2 DEF CountInv, Inv, Powered
        <4>6. PICK c \in 1 .. k - 1 : steps[c].do = "set" /\ steps[c].status = "scan count"
          BY <1>3, <1>6, <3>2, <4>2 DEF EndsScan
        <4>7. c \in DOMAIN steps /\ c \in 1 .. Len(steps) /\ c \in Nat /\ c < k
          <5>1. c \in 1 .. k - 1 /\ k \in Nat /\ k \in 1 .. Len(steps)
            BY <1>3
          <5>2. c \in 1 .. Len(steps) /\ c \in Nat /\ c < k
            <6>1. k \in DOMAIN steps => Len(steps) \in Nat /\ DOMAIN steps = 1 .. Len(steps)
              BY <1>1, <1>3, Here DEF CountInv
            <6> QED  BY <1>3, <5>1, <6>1
          <5> QED  BY <1>1, <1>3, <5>2, Here DEF CountInv
        <4>4. Sent
          <5>1. PICK h \in 1 .. c - 1 : Sends(steps, h)
            BY <4>2, <4>6, <4>7 DEF EndsScan
          <5>2. h \in 1 .. k - 1
            BY <1>3, <4>7, <5>1
          <5> QED  BY <1>1, <5>1, <5>2 DEF Sent
        <4>5. Stopped
          BY <1>8, <4>1, <4>3, <4>4 DEF CountInv, ScanInv, Stopping, Settled, Stopped
        <4>8. Counted
          BY <1>1, <4>6, <4>7 DEF Counted
        <4> QED  BY <4>1, <4>5, <4>8 DEF CountInv, ScanInv, Stopping
      <3>3. CASE what = "pointers"
        <4>1. op \in Opening /\ lent
          BY <1>7, <2>5, <3>3 DEF CountInv, Lent
        <4> QED  BY <1>1, <1>3, <4>1 DEF CountInv, ScanInv, Borrowing
      <3> QED  BY <1>12, <1>14, <2>5, <3>1, <3>2, <3>3
    <2>6. Scanning'
      <3>1. scanning' => "scan" \in pointers'
        BY <1>5, <2>5 DEF CountInv, ScanInv, Scanning
      <3>2. In("ScanStart") /\ call.ok => "scan" \in pointers
        <4> SUFFICES ASSUME In("ScanStart"), call.ok PROVE "scan" \in pointers
          OBVIOUS
        <4>1. op = "ScanStart" /\ steps[1].status = "scan"
          BY <1>1, <1>3, ScanTables DEF In, BeginsScan
        <4>2. k # 1
          BY <1>6, <1>14, <4>1
        <4>3. k > 1
          BY <1>3, <4>2
        <4> QED  BY <1>1, <4>3 DEF CountInv, ScanInv, Scanning
      <3> QED  BY <1>4, <1>5, <1>9, <1>10, <2>5, <3>1, <3>2 DEF CountInv, ScanInv, Scanning
    <2>7. CASE ~In("ScanStop")
      BY <1>9, <1>11, <2>3, <2>4, <2>6, <2>7 DEF ScanInv, Stopping, Stopped
    <2>8. CASE In("ScanStop")
      <3>1. op = "ScanStop" /\ EndsScan(steps) /\ do = "set"
        <4>1. op = "ScanStop" /\ EndsScan(steps)
          BY <1>1, <1>3, <2>8, ScanTables DEF In
        <4>2. steps[k].do # "pin"
          BY <1>3, <4>1 DEF EndsScan
        <4> QED  BY <1>3, <4>1, <4>2
      <3>2. CASE what = "scan count"
        <4>1. Sent
          <5>1. PICK h \in 1 .. k - 1 : Sends(steps, h)
            BY <1>3, <1>6, <3>1, <3>2 DEF EndsScan
          <5> QED  BY <1>1, <5>1 DEF Sent
        <4>2. call.ok => requests \in asked
          BY <2>8, <4>1 DEF CountInv, ScanInv, Stopping
        <4>3. call.ok => Stopped
          BY <1>8, <2>8, <4>2 DEF Settled, Stopped
        <4>4. call.ok => Right'
          <5>1. CASE "scan" \in pointers
            <6>1. scanResult' = [scanResult EXCEPT !.number = Cardinality(scanResult.devices)]
              BY <1>5, <3>2, <5>1 DEF ScanResultAfter
            <6>2. scanResult'.number = Cardinality(scanResult.devices)
              BY <6>1 DEF CountInv, ScanInv, Collecting, ListType
            <6>3. /\ Cardinality(scanResult.devices) = Min({Cardinality(heard), ScanDevices})
                  /\ scanResult.devices \subseteq heard
              BY <5>1, CountRight DEF CountInv, ScanInv
            <6> QED  BY <2>1, <2>2, <6>2, <6>3 DEF Right
          <5>2. CASE "scan" \notin pointers
            <6>1. scanResult' = scanResult
              BY <1>5, <3>2, <5>2 DEF ScanResultAfter
            <6>2. call.ok => Right
              BY <2>8, <4>3, <5>2 DEF CountInv, ScanInv, Stopping
            <6> QED  BY <2>1, <6>1, <6>2 DEF Right
          <5> QED  BY <5>1, <5>2
        <4>5. Counted'
          BY <1>10, <3>1, <3>2
        <4> HIDE <1>1
        <4>6. Stopping'
          BY <1>4, <1>5, <1>9, <1>10, <2>8, <4>2, <4>4, <4>5
             DEF CountInv, ScanInv, Stopping
        <4> QED  BY <1>11, <2>3, <2>4, <2>6, <4>6 DEF ScanInv
      <3>3. CASE what # "scan count"
        <4>1. scanResult' = scanResult
          BY <1>5, <1>14, <3>3 DEF ScanResultAfter
        <4>2. Right' = Right /\ (Counted' <=> Counted)
          BY <1>10, <2>1, <3>3, <4>1 DEF Right
        <4>3. "scan" \in pointers /\ ~Counted => "scan" \in pointers'
          BY <2>5, <2>8
        <4>4. Stopping'
          BY <1>4, <1>5, <1>9, <1>10, <2>1, <2>8, <4>2, <4>3
             DEF CountInv, ScanInv, Stopping
        <4> QED  BY <1>11, <2>3, <2>4, <2>6, <4>4 DEF ScanInv
      <3> QED  BY <3>2, <3>3
    <2> QED  BY <2>7, <2>8
  <1> QED  BY <1>13, <1>14


(* The steps of the core that touch neither the list nor the scan.         *)
LEMMA PlainScan ==
    ASSUME Serial, Timely, MaxFaults = 0, CountInv, Inv', PlainStep
    PROVE  ScanInv'
  <1>1. UNCHANGED <<pointers, scanResult, lent, heard, scanning>>
    BY DEF PlainStep, kept, radio
  <1>2. ~Fault
    <2>1. faults \in 0 .. 0
      BY DEF CountInv, Inv, TypeOK
    <2>2. ~(faults < MaxFaults)
      BY <2>1
    <2> QED  BY <2>2 DEF Fault
  <1>3. CASE Transmit
    BY <1>1, <1>3, TransmitScan
  <1>4. CASE ClearSlot \/ ReadPacket \/ CloseUart
    <2>1. PICK what \in {"clear", "read", "close"} : At(what) /\ Advance
      BY <1>4 DEF ClearSlot, ReadPacket, CloseUart
    <2>2. UNCHANGED <<asked, requests, served, ready, returned, line, outbox>>
      BY <1>4 DEF ClearSlot, ReadPacket, CloseUart, module, history, driver
    <2>3. Followed => Followed'
      BY <2>2 DEF Followed
    <2> QED  BY <1>1, <2>1, <2>2, <2>3, ScanAdvances
  <1>5. CASE Confirmed \/ GiveUp
    <2>1. At("wait") /\ (Advance \/ Fail)
      BY <1>5 DEF Confirmed, GiveUp
    <2>2. UNCHANGED <<asked, requests, served, ready, returned, line, outbox>>
      BY <1>5 DEF Confirmed, GiveUp, module, history, driver
    <2>3. Followed => Followed'
      BY <2>2 DEF Followed
    <2>4. CASE Advance
      BY <1>1, <2>1, <2>2, <2>3, <2>4, ScanAdvances
    <2>5. CASE Fail
      BY <1>1, <2>1, <2>2, <2>5, ScanFails
    <2> QED  BY <2>1, <2>4, <2>5
  <1>6. CASE NextSlot \/ Delay
    <2>1. call \in Position
      BY DEF CountInv, Inv, TypeOK
    <2>2. /\ call'.op = call.op /\ call'.k = call.k /\ call'.ok = call.ok
          /\ call'.why = call.why
      BY <1>6, <2>1 DEF NextSlot, Delay, Position
    <2>3. UNCHANGED <<asked, requests, served, ready, returned, line, outbox>>
      BY <1>6 DEF NextSlot, Delay, module, history, driver
    <2>4. Stopped => Followed'
      BY <2>3 DEF Followed, CountInv, ScanInv, Stopping
    <2> QED  BY <1>1, <2>2, <2>3, <2>4, ScanStays
  <1> QED  BY <1>2, <1>3, <1>4, <1>5, <1>6 DEF PlainStep

(* The UART is opened, the module held in reset; ScanStop does neither.    *)
LEMMA OpenScan == ASSUME Serial, CountInv, OpenP4 PROVE ScanInv'
  <1>1. /\ UNCHANGED <<pointers, scanResult, lent, heard, scanning, asked, requests,
                       served, ready, returned>>
        /\ line' = <<>> /\ At("open") /\ Advance
    BY DEF OpenP4, OpenUart, module, history, kept
  <1>2. Followed'
    BY <1>1 DEF Followed
  <1> QED  BY <1>1, <1>2, ScanAdvances

LEMMA HoldScan == ASSUME Serial, CountInv, HoldP4 PROVE ScanInv'
  <1>1. /\ UNCHANGED <<pointers, scanResult, lent, heard, asked, requests, ready, returned>>
        /\ scanning' = FALSE /\ At("hold") /\ Advance
    BY DEF HoldP4, HoldInReset, driver, history, kept
  <1>2. ~In("ScanStop")
    <2> SUFFICES ASSUME In("ScanStop") PROVE FALSE
      OBVIOUS
    <2>1. PICK op, k : op = call.op /\ k = call.k
      OBVIOUS
    <2>2. op \in Ops /\ k \in DOMAIN Script[op] /\ Script[op][k].do = "hold"
      BY <1>1, <2>1, AtP4
    <2>3. EndsScan(Script[op])
      BY <2>1, <2>2, ScanTables DEF In
    <2> QED  BY <2>2, <2>3 DEF EndsScan
  <1> QED  BY <1>1, <1>2, ScanAdvances

-----------------------------------------------------------------------------
LEMMA CountStep ==
    ASSUME Serial, Timely, MaxFaults = 0, CountInv, [NextP4]_allVars PROVE CountInv'
  <1>1. Inv'
    BY InvStepP4 DEF CountInv
  <1>2. Lent'
    BY LentStep DEF CountInv, PInv, Inv
  <1>3. CASE UNCHANGED allVars
    <2>1. UNCHANGED <<call, pointers, scanResult, lent, heard, scanning, asked, requests,
                      served, ready, returned, line, outbox>>
      BY <1>3 DEF allVars, vars, kept, radio, module, history, driver
    <2>2. Stopped => Followed'
      BY <2>1 DEF Followed, CountInv, ScanInv, Stopping
    <2>3. ScanInv'
      BY <2>1, <2>2, ScanStays
    <2> QED  BY <1>1, <1>2, <2>3 DEF CountInv
  <1>4. CASE NextP4
    <2>1. MainP4 => ScanInv'
      BY <1>1, PlainScan, FinishScan, OpenScan, HoldScan, SetScan DEF MainP4
    <2>2. ModuleP4 => ScanInv'
      BY AnswerScan, EmitScan, TellScan DEF ModuleP4
    <2>3. ScanInv'
      BY <1>4, <2>1, <2>2, StartScan, ReceiveScan DEF NextP4
    <2> QED  BY <1>1, <1>2, <2>3 DEF CountInv
  <1> QED  BY <1>3, <1>4

LEMMA CountInit == InitP4 => CountInv
  <1> SUFFICES ASSUME InitP4 PROVE CountInv
    OBVIOUS
  <1>1. Inv /\ Lent
    BY InvInit, LentInit DEF InitP4, PInv
  <1>2. /\ pointers = {} /\ ~lent /\ heard = {} /\ ~scanning /\ ~Running
        /\ scanResult = Uninitialized /\ returned.op = NoOp
    BY DEF InitP4, Init, Idle, Running
  <1>3. Collecting
    BY <1>2, FS_EmptySet DEF Collecting, ListType, Uninitialized
  <1>4. Borrowing /\ Unanswering /\ Scanning
    BY <1>2 DEF Borrowing, Unanswering, Scanning, In
  <1>5. Stopping
    BY <1>2 DEF Stopping, Stopped, In, NoOp
  <1> QED  BY <1>1, <1>3, <1>4, <1>5 DEF CountInv, ScanInv

(* When ScanStop has returned true, the caller's list has the number of    *)
(* the devices that were heard since ScanStart lent it, as far as it has   *)
(* room, and no other device: the interrupt handler fills the list while   *)
(* the main thread empties and counts it (ProteusIV.c:1524-1596, :486-540),*)
(* and what the module still tells between granting the stop and its       *)
(* answer arrives before the count is made.                                *)
THEOREM CountsAreRight ==
    ASSUME Serial, Timely, MaxFaults = 0 PROVE SpecP4 => []CountIsRight
  <1>1. CountInv => CountIsRight
    BY DEF CountInv, ScanInv, Stopping, Right, CountIsRight
  <1>2. CountInv /\ [NextP4]_allVars => CountInv'
    BY CountStep
  <1> QED  BY <1>1, <1>2, CountInit, PTL DEF SpecP4
=============================================================================
