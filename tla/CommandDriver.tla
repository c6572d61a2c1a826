--------------------------- MODULE CommandDriver ---------------------------
(***************************************************************************)
(* The request/confirmation core that the binary-protocol drivers share.   *)
(* A call of the driver sends a request and polls cmdConfirmationArray in  *)
(* Wait4CNF; HandleRxPacket, in the interrupt that delivers the module's   *)
(* frames, fills that array. What a driver adds to this core is in the     *)
(* constants: which steps each function takes, which frames are recorded.  *)
(* The source lines are those of ProteusIII.c, the first driver modelled.  *)
(*                                                                         *)
(* Three processes: the main thread, which runs one call at a time; the    *)
(* receive interrupt, which preempts it between any two steps and is never *)
(* preempted by it; the radio module, which is external to the code.       *)
(***************************************************************************)
EXTENDS DriverSteps, SequencesExt

CONSTANTS
    Script,          \* the steps of every function a caller may use
    Opening,         \* the functions that start the driver (Init)
    Closing,         \* the functions that stop it (Deinit)
    MaxCount,        \* polls of Wait4CNF before it gives up, less one
    Recorded,        \* the commands HandleRxPacket records
    Statusless,      \* those it records with CMD_Status_NoStatus
    Reply,           \* how the module answers a request: [yes, no]
    Indications,     \* frames the module sends unasked
    BootFrames,      \* what it sends after a restart
    ResetPins,       \* the edges that end a reset, among the requests
    Data,            \* what CheckPacket tells apart in a frame's payload
    Restarts,        \* the module may restart by itself
    LateAnswers,     \* an answer may be slower than the caller's patience
    FastAnswers,     \* an answer may be faster than the caller's next step
    MaxCalls,        \* bound: calls
    MaxIndications,  \* bound: frames sent unasked
    MaxFaults        \* bound: failed hardware accesses and lost frames

Ops == DOMAIN Script

-----------------------------------------------------------------------------
(* No function waits before it has cleared the whole array, or after it    *)
(* returns; the module has an answer to all that can be sent.              *)
ScriptAssumption ==
    \A op \in Ops : \A j \in DOMAIN Script[op] :
        LET step == Script[op][j]
        IN  /\ step.do = "clear" => step.slot # 0
            /\ step.do = "send" => step.cmd \in DOMAIN Reply
            /\ step.do = "wait" =>
                 /\ \A i \in 1 .. Slots : \E h \in 1 .. j - 1 :
                      Script[op][h].do = "clear" /\ Script[op][h].slot = i
                 /\ \A h \in 1 .. j - 1 : Script[op][h].do # "return"
                 /\ step.cmd # "CNFINVALID"

ASSUME DriverAssumption ==
    /\ Slots \in Nat \ {0} /\ MaxCount \in Nat \ {0}
    /\ Ops \subseteq STRING /\ "none" \notin Ops
    /\ \A op \in Ops : Script[op] \in Seq(StepType)
    /\ ScriptAssumption
    /\ Recorded \subseteq STRING /\ "CNFINVALID" \notin Recorded

ASSUME ModuleAssumption ==
    /\ \A req \in DOMAIN Reply : /\ Reply[req].yes \in Seq(PartType)
                                 /\ Reply[req].no \subseteq Seq(PartType)
    /\ Indications \subseteq PartType /\ BootFrames \in Seq(PartType)
    /\ Data \subseteq STRING
    /\ \A knob \in {Restarts, LateAnswers, FastAnswers} : knob \in BOOLEAN
    /\ MaxCalls \in Nat /\ MaxIndications \in Nat /\ MaxFaults \in Nat

(* True of any strings; the provers have no axiom for it.                  *)
ASSUME LiteralAssumption ==
    {"", "none", "CNFINVALID", "Invalid", "NoStatus", "Success"} \subseteq STRING

CNFINVALID == "CNFINVALID"
NoOp       == "none"

VARIABLES
    cmdConfirmationArray,  \* per slot: cmd, status, history: whose answer
    rxPacket,              \* the frame HandleRxPacket saw last
    call,                  \* the main thread: function, step, locals
    uartOpen, ready,       \* uartInit was called; Init has returned true
    awake,                 \* the module: is out of reset,
    inbox, outbox,         \* has requests to read, frames to send
    line,                  \* frames sent and not yet handled
    asked,                 \* history: the requests of the latest call
    requests,              \* history: how many requests there were
    served,                \* history: those the module granted
    seen,                  \* history: what was recorded since the call began
    response,              \* history: the frame the call gave its caller
    returned,              \* history: how the latest call ended
    calls, indications, faults    \* the bounded counters

driver  == <<cmdConfirmationArray, rxPacket, uartOpen, ready>>
module  == <<awake, inbox, outbox, served>>
history == <<asked, requests, response>>
bounds  == <<calls, indications, faults>>
vars == <<driver, call, module, line, history, seen, returned, bounds>>

Frame   == [cmd : STRING, status : STRING, data : STRING, req : Nat]
NoFrame == [cmd |-> "", status |-> "", data |-> "", req |-> 0]
(* A static variable starts as zeros: no command, CMD_Status_Success.      *)
Zeroed  == [cmd |-> "", status |-> "Success", req |-> 0]
(* The status of a free slot is never read.                                *)
Free    == [cmd |-> CNFINVALID, status |-> "Invalid", req |-> 0]
Idle    == [op |-> NoOp, k |-> 1, count |-> 0, slot |-> 1, ok |-> TRUE,
            why |-> ""]

Init ==
    /\ cmdConfirmationArray = [i \in 1 .. Slots |-> Zeroed]
    /\ rxPacket = NoFrame
    /\ call = Idle
    /\ uartOpen = FALSE /\ ready = FALSE
    /\ awake = TRUE /\ inbox = <<>> /\ outbox = <<>> /\ line = <<>>
    /\ asked = {} /\ requests = 0 /\ served = {} /\ seen = {}
    /\ response = NoFrame
    /\ returned = [op |-> NoOp, ok |-> TRUE, why |-> "", asked |-> {}]
    /\ calls = 0 /\ indications = 0 /\ faults = 0

-----------------------------------------------------------------------------
(* The main thread: calls and their steps.                                 *)
Running == call.op # NoOp
Length  == Len(Script[call.op])
Step    == Script[call.op][call.k]
At(what) == Running /\ call.k <= Length /\ Step.do = what
Ended    == Running /\ (call.k <= Length => Step.do = "return")

Advance == call' = [call EXCEPT !.k = @ + 1, !.count = 0, !.slot = 1]

(* Mutant of Fail: whatever fails, the function returns at once.           *)
FailAtOnce ==
    call' = [call EXCEPT !.k = Length + 1, !.count = 0, !.slot = 1, !.ok = FALSE,
                         !.why = IF call.ok THEN Step.do ELSE call.why]

(* A step returned false: the function leads on to its own clean-up, or    *)
(* returns.                                                                *)
Fail ==
    call' = [call EXCEPT !.k = IF Step.fail = 0 THEN Length + 1 ELSE Step.fail,
                         !.count = 0, !.slot = 1, !.ok = FALSE,
                         !.why = IF call.ok THEN Step.do ELSE call.why]

(* A caller calls a function. The library wants Init first, and other      *)
(* functions between a successful Init and Deinit.                         *)
Start(op) ==
    /\ ~Running /\ calls < MaxCalls
    /\ (op \in Opening) = ~ready
    /\ call' = [Idle EXCEPT !.op = op]
    /\ calls' = calls + 1
    /\ asked' = {} /\ seen' = {} /\ response' = NoFrame
    /\ UNCHANGED <<driver, module, line, requests, returned, indications, faults>>

(* A pin or the UART refuses.                                              *)
Fault ==
    /\ \/ At("send") \/ At("pin") \/ At("hold") \/ At("open") \/ At("close")
    /\ faults < MaxFaults
    /\ faults' = faults + 1
    /\ Fail
    /\ UNCHANGED <<driver, module, line, history, seen, returned,
                   calls, indications>>

(* Transparent_Transmit of txPacket, or the edge of a pin that makes the   *)
(* module speak. A module in reset hears only the end of the reset.        *)
Transmit ==
    /\ At("send")
    /\ requests' = requests + 1
    /\ asked' = asked \cup {requests'}
    /\ awake' = (awake \/ Step.cmd \in ResetPins)
    /\ inbox' = IF awake' THEN Append(inbox, [cmd |-> Step.cmd, req |-> requests'])
                          ELSE inbox
    /\ Advance
    /\ UNCHANGED <<driver, outbox, served, line, response, seen, returned, bounds>>

(* The reset pin goes low and stays low for some milliseconds: what the    *)
(* module had to say is lost, but what it had begun to send has arrived    *)
(* when the pin goes up.                                                   *)
HoldInReset ==
    /\ At("hold")
    /\ LateAnswers \/ line = <<>>
    /\ awake' = FALSE
    /\ inbox' = <<>> /\ outbox' = <<>>
    /\ served' = served \ {f.req : f \in Range(outbox)}
    /\ Advance
    /\ UNCHANGED <<driver, line, history, seen, returned, bounds>>

(* Mutant of ClearSlot: only Init resets the array.                        *)
ClearAtInit ==
    /\ At("clear")
    /\ cmdConfirmationArray' = IF ready THEN cmdConfirmationArray
                               ELSE [cmdConfirmationArray EXCEPT ![Step.slot] = Free]
    /\ Advance
    /\ UNCHANGED <<rxPacket, uartOpen, ready, module, line, history, seen,
                   returned, bounds>>

(* One turn of the loop that resets the array. The interrupt may come      *)
(* between two turns.                                                      *)
ClearSlot ==
    /\ At("clear")
    /\ cmdConfirmationArray' =
         [cmdConfirmationArray EXCEPT ![Step.slot] = Free]
    /\ Advance
    /\ UNCHANGED <<rxPacket, uartOpen, ready, module, line, history, seen,
                   returned, bounds>>

Matches == cmdConfirmationArray[call.slot].cmd = Step.cmd

(* Wait4CNF finds the confirmation in the slot it looks at.                *)
Confirmed ==
    /\ At("wait") /\ Matches
    /\ IF cmdConfirmationArray[call.slot].status = Step.status
       THEN Advance ELSE Fail
    /\ UNCHANGED <<driver, module, line, history, seen, returned, bounds>>

NextSlot ==
    /\ At("wait") /\ ~Matches /\ call.slot < Slots
    /\ call' = [call EXCEPT !.slot = @ + 1]
    /\ UNCHANGED <<driver, module, line, history, seen, returned, bounds>>

(* Real time enters here and in HoldInReset: unless LateAnswers, the last  *)
(* of the delays ends after the module has said all it has to say to the   *)
(* request.                                                                *)
Unanswered ==
    \A m \in Range(inbox) \cup Range(outbox) \cup Range(line) : m.req \notin asked

(* Mutant of Delay: the delays are not counted.                            *)
DelayUncounted ==
    /\ At("wait") /\ ~Matches /\ call.slot = Slots /\ call.count < MaxCount
    /\ call' = [call EXCEPT !.slot = 1]
    /\ UNCHANGED <<driver, module, line, history, seen, returned, bounds>>

(* Nothing found, and there is time left: WE_Delay.                        *)
Delay ==
    /\ At("wait") /\ ~Matches /\ call.slot = Slots /\ call.count < MaxCount
    /\ call.count + 1 = MaxCount => LateAnswers \/ Unanswered
    /\ call' = [call EXCEPT !.slot = 1, !.count = @ + 1]
    /\ UNCHANGED <<driver, module, line, history, seen, returned, bounds>>

GiveUp ==
    /\ At("wait") /\ ~Matches /\ call.slot = Slots /\ call.count >= MaxCount
    /\ Fail
    /\ UNCHANGED <<driver, module, line, history, seen, returned, bounds>>

(* The caller's buffer is filled from rxPacket.                            *)
ReadPacket ==
    /\ At("read")
    /\ response' = rxPacket
    /\ Advance
    /\ UNCHANGED <<driver, module, line, asked, requests, seen, returned, bounds>>

CheckPacket ==
    /\ At("check")
    /\ IF rxPacket.data = Step.status THEN Advance ELSE Fail
    /\ UNCHANGED <<driver, module, line, history, seen, returned, bounds>>

(* A test and an assignment of the driver's own state: the driver's module *)
(* says which.                                                             *)
TestState(holds) ==
    /\ At("test")
    /\ IF holds THEN Advance ELSE Fail
    /\ UNCHANGED <<driver, module, line, history, seen, returned, bounds>>

SetState ==
    /\ \/ At("set") \/ At("pin")
    /\ Advance
    /\ UNCHANGED <<driver, module, line, history, seen, returned, bounds>>

(* uartInit: what was sent before it is lost, like what is sent after      *)
(* uartDeinit.                                                             *)
OpenUart ==
    /\ At("open")
    /\ uartOpen' = TRUE
    /\ line' = <<>>
    /\ Advance
    /\ UNCHANGED <<cmdConfirmationArray, rxPacket, ready, module, history,
                   seen, returned, bounds>>

CloseUart ==
    /\ At("close")
    /\ uartOpen' = FALSE
    /\ Advance
    /\ UNCHANGED <<cmdConfirmationArray, rxPacket, ready, module, line, history,
                   seen, returned, bounds>>

Finish ==
    /\ Ended
    /\ call' = Idle
    /\ returned' = [op |-> call.op, ok |-> call.ok, why |-> call.why,
                    asked |-> asked]
    /\ ready' = CASE call.op \in Opening -> call.ok
                  [] call.op \in Closing -> ready /\ ~call.ok
                  [] OTHER               -> ready
    /\ UNCHANGED <<cmdConfirmationArray, rxPacket, uartOpen, module, line,
                   history, seen, bounds>>

-----------------------------------------------------------------------------
(* The receive interrupt.                                                  *)
RecordedStatus(f) == IF f.cmd \in Statusless THEN "NoStatus" ELSE f.status

(* Mutant of Store: the loop ends one slot early.                          *)
StoreButLast(f) ==
    LET free == {i \in 1 .. Slots - 1 : cmdConfirmationArray[i].cmd = CNFINVALID}
    IN  cmdConfirmationArray' =
          [i \in 1 .. Slots |->
             IF i \in free /\ \A j \in free : i <= j
             THEN IF f.cmd \in Recorded
                  THEN [cmd |-> f.cmd, status |-> RecordedStatus(f), req |-> f.req]
                  ELSE Free
             ELSE cmdConfirmationArray[i]]

(* Mutant of Store: indications are recorded, too.                         *)
StoreAll(f) ==
    LET free == {i \in 1 .. Slots : cmdConfirmationArray[i].cmd = CNFINVALID}
    IN  cmdConfirmationArray' =
          [i \in 1 .. Slots |->
             IF i \in free /\ \A j \in free : i <= j
             THEN [cmd |-> f.cmd, status |-> RecordedStatus(f), req |-> f.req]
             ELSE cmdConfirmationArray[i]]

(* The first free slot, if there is one, takes the confirmation. A frame   *)
(* that is not recorded "stores" CNFINVALID: the slot stays free.          *)
Store(f) ==
    LET free == {i \in 1 .. Slots : cmdConfirmationArray[i].cmd = CNFINVALID}
    IN  cmdConfirmationArray' =
          [i \in 1 .. Slots |->
             IF i \in free /\ \A j \in free : i <= j
             THEN IF f.cmd \in Recorded
                  THEN [cmd |-> f.cmd, status |-> RecordedStatus(f), req |-> f.req]
                  ELSE Free
             ELSE cmdConfirmationArray[i]]

(* Unless FastAnswers, the module needs longer to answer than the caller   *)
(* to get from Transmit to the loop of Wait4CNF.                           *)
InNoHurry(f) == FastAnswers \/ ~(f.req \in asked /\ At("clear"))

HandleRxPacket ==
    /\ line # <<>> /\ InNoHurry(Head(line))
    /\ line' = Tail(line)
    /\ IF uartOpen
       THEN LET f == Head(line)
            IN  /\ rxPacket' = f
                /\ Store(f)
                /\ seen' = IF f.cmd \in Recorded
                           THEN seen \cup {<<f.cmd, RecordedStatus(f)>>} ELSE seen
       ELSE UNCHANGED <<rxPacket, cmdConfirmationArray, seen>>
    /\ UNCHANGED <<uartOpen, ready, call, module, history, returned, bounds>>

(* A frame whose checksum is wrong is not interpreted.                     *)
LoseFrame ==
    /\ line # <<>> /\ faults < MaxFaults
    /\ line' = Tail(line)
    /\ faults' = faults + 1
    /\ UNCHANGED <<driver, call, module, history, seen, returned, calls, indications>>

-----------------------------------------------------------------------------
(* The radio module. It answers requests in order, with all that belongs   *)
(* to granting them or with one of its refusals.                           *)
Tagged(frames, req) ==
    [i \in DOMAIN frames |-> [cmd |-> frames[i].cmd, status |-> frames[i].status,
                              data |-> "", req |-> req]]

Answer(granted) ==
    /\ awake /\ inbox # <<>>
    /\ LET r == Head(inbox)
       IN  /\ \/ granted /\ outbox' = outbox \o Tagged(Reply[r.cmd].yes, r.req)
              \/ ~granted /\ \E no \in Reply[r.cmd].no :
                               outbox' = outbox \o Tagged(no, r.req)
           /\ served' = IF granted THEN served \cup {r.req} ELSE served
    /\ inbox' = Tail(inbox)
    /\ UNCHANGED <<driver, awake, call, line, history, seen, returned, bounds>>

Emit(data) ==
    /\ outbox # <<>>
    /\ outbox' = Tail(outbox)
    /\ line' = Append(line, [Head(outbox) EXCEPT !.data = data])
    /\ UNCHANGED <<driver, awake, inbox, served, call, history, seen, returned, bounds>>

Indicate(cmd, status) ==
    /\ awake /\ indications < MaxIndications
    /\ indications' = indications + 1
    /\ line' = Append(line, [cmd |-> cmd, status |-> status, data |-> "", req |-> 0])
    /\ UNCHANGED <<driver, call, module, history, seen, returned, calls, faults>>

(* The module restarts by itself.                                          *)
Restart ==
    /\ Restarts
    /\ awake /\ indications < MaxIndications
    /\ indications' = indications + 1
    /\ inbox' = <<>>
    /\ outbox' = Tagged(BootFrames, 0)
    /\ served' = served \ {f.req : f \in Range(outbox)}
    /\ UNCHANGED <<driver, awake, call, line, history, seen, returned, calls, faults>>

-----------------------------------------------------------------------------
MainStep ==
    \/ Fault \/ Transmit \/ HoldInReset \/ ClearSlot
    \/ Confirmed \/ NextSlot \/ Delay \/ GiveUp
    \/ ReadPacket \/ CheckPacket \/ SetState
    \/ OpenUart \/ CloseUart \/ Finish
    \/ \E holds \in BOOLEAN : TestState(holds)

ModuleStep ==
    \/ \E granted \in BOOLEAN : Answer(granted)
    \/ \E data \in Data : Emit(data)
    \/ \E i \in Indications : Indicate(i.cmd, i.status)
    \/ Restart

Next ==
    \/ \E op \in Ops : Start(op)
    \/ MainStep
    \/ HandleRxPacket
    \/ LoseFrame
    \/ ModuleStep

Spec == Init /\ [][Next]_vars

-----------------------------------------------------------------------------
(* What most drivers' tables have in common: a function makes one request  *)
(* at a time and waits for the last frame of its answer (Serial).          *)

(* A wait of this function ends the request made at step h.                *)
Completes(steps, h, w) ==
    LET yes == Reply[steps[h].cmd].yes
    IN  steps[w].do = "wait" /\ steps[w].cmd = yes[Len(yes)].cmd

(* When step k is reached, the request made at step h is under way.        *)
Pending(steps, h, k) ==
    /\ h \in 1 .. k - 1 /\ steps[h].do = "send"
    /\ \A x \in h + 1 .. k - 1 :
         steps[x].do \in {"clear", "wait"} /\ ~Completes(steps, h, x)

(* Slot i has been reset since the last wait before step h.                *)
Cleared(steps, k, h, i) ==
    \E x \in 1 .. k - 1 :
        /\ steps[x].do = "clear" /\ steps[x].slot = i
        /\ \A y \in x + 1 .. k - 1 : steps[y].do = "wait" => y > h

(* Step w waits for a frame of the consent to the request made at step h.  *)
Expects(steps, h, w) ==
    LET yes == Reply[steps[h].cmd].yes
    IN  \E n \in DOMAIN yes : /\ yes[n].cmd = steps[w].cmd
                              /\ RecordedStatus(yes[n]) = steps[w].status

(* All frames of an answer find a slot, and a refusal differs from the     *)
(* consent in its last frame.                                              *)
Distinct(cmd) ==
    LET yes == Reply[cmd].yes
    IN  /\ yes # <<>>
        /\ \A frames \in {yes} \cup Reply[cmd].no :
             /\ Len(frames) <= Slots
             /\ \A m \in DOMAIN frames :
                  /\ frames[m].cmd \in Recorded
                  /\ \A n \in DOMAIN frames : frames[m].cmd = frames[n].cmd => m = n
        /\ \A no \in Reply[cmd].no : \A m \in DOMAIN no, n \in DOMAIN yes :
             no[m].cmd = yes[n].cmd =>
               /\ m < Len(no)   => RecordedStatus(no[m]) = RecordedStatus(yes[n])
               /\ n = Len(yes)  => RecordedStatus(no[m]) # RecordedStatus(yes[n])

OneAtATime(steps) ==
    \A k \in DOMAIN steps :
        /\ steps[k].do = "send" =>
             /\ Distinct(steps[k].cmd)
             /\ \E w \in k + 1 .. Len(steps) :
                  /\ Completes(steps, k, w)
                  /\ \A x \in k + 1 .. w - 1 : steps[x].do \in {"clear", "wait"}
        /\ steps[k].do = "wait" =>
             \E h \in 1 .. k - 1 :
                 /\ Pending(steps, h, k) /\ Expects(steps, h, k)
                 /\ \A i \in 1 .. Slots : Cleared(steps, k, h, i)
        /\ steps[k].do = "clear" =>
             \A h \in 1 .. k - 1 : Pending(steps, h, k) =>
                 \A x \in h + 1 .. k - 1 : steps[x].do = "clear"
        /\ steps[k].fail # 0 =>
             \A y \in steps[k].fail .. Len(steps) : steps[y].do \notin {"send", "wait"}

(* The UART is open while a request is made and when Init has returned     *)
(* true; only Deinit closes it.                                            *)
Past(steps, k, what) == \E y \in 1 .. k - 1 : steps[y].do = what
OpenMeanwhile(op) ==
    LET steps == Script[op]
        Begins(k) == k <= Len(steps) => steps[k].do \in {"send", "return"}
    IN  /\ op \in Opening =>
             \A k \in 1 .. Len(steps) + 1 :
                 Begins(k) /\ ~Past(steps, k, "return") => Past(steps, k, "open")
        /\ \A k \in DOMAIN steps : steps[k].do = "close" =>
             \/ op \in Opening /\ Past(steps, k, "return")
             \/ /\ op \in Closing \ Opening
                /\ \A y \in DOMAIN steps :
                     steps[y].fail = 0
                       /\ (y > k => steps[y].do \in {"clear", "set", "return"})

Serial ==
    /\ Opening \cap Closing = {}
    /\ \A op \in Ops : OneAtATime(Script[op]) /\ OpenMeanwhile(op)
    /\ \A i \in Indications : i.cmd \notin Recorded

-----------------------------------------------------------------------------
(* Properties.                                                             *)

Slot     == [cmd : Recorded \cup {CNFINVALID, ""}, status : STRING, req : Nat]
Message  == [cmd : DOMAIN Reply, req : Nat]
Position == [op : Ops \cup {NoOp}, k : Nat \ {0}, count : Nat, slot : 1 .. Slots,
             ok : BOOLEAN, why : STRING]
Ending   == [op : Ops \cup {NoOp}, ok : BOOLEAN, why : STRING, asked : SUBSET Nat]

(* Type correctness of the driver's variables and of the queues.           *)
TypeOK ==
    /\ cmdConfirmationArray \in [1 .. Slots -> Slot]
    /\ rxPacket \in Frame /\ response \in Frame
    /\ call \in Position /\ returned \in Ending
    /\ uartOpen \in BOOLEAN /\ ready \in BOOLEAN /\ awake \in BOOLEAN
    /\ inbox \in Seq(Message) /\ outbox \in Seq(Frame) /\ line \in Seq(Frame)
    /\ asked \subseteq 1 .. requests /\ served \subseteq Nat
    /\ requests \in Nat
    /\ calls \in 0 .. MaxCalls
    /\ indications \in 0 .. MaxIndications
    /\ faults \in 0 .. MaxFaults

(* A call keeps the contract of its caller.                                *)
Outcome == IF returned.op = NoOp         THEN "none"
           ELSE IF returned.ok           THEN "true"
           ELSE IF returned.why = "wait" THEN "false"
           ELSE "declined"
Contract == INSTANCE CallContract WITH active <- Running,
                                       granted <- served \cap asked,
                                       outcome <- Outcome
KeepsContract == Contract!Spec

(* Whatever the module, the line and the timing do: a call returns true    *)
(* only if, for each of its waits, a frame of the kind and with the status *)
(* it waited for was recorded since the call began. What an earlier call   *)
(* left in cmdConfirmationArray does not count.                            *)
ConfirmedByKind ==
    \A op \in Ops : returned.op = op /\ returned.ok /\ ~Running =>
        \A j \in DOMAIN Script[op] : Script[op][j].do = "wait" =>
            <<Script[op][j].cmd, Script[op][j].status>> \in seen

(* An answer that the running call still waits for never meets a full      *)
(* array.                                                                  *)
Awaited(f) ==
    /\ f.req \in asked /\ Running
    /\ \E j \in call.k .. Length :
         /\ Script[call.op][j].do = "wait" /\ Script[call.op][j].cmd = f.cmd
         /\ \A h \in call.k .. j : Script[call.op][h].do # "clear"
InArray(f) ==
    \E i \in 1 .. Slots : cmdConfirmationArray[i].req = f.req
                          /\ cmdConfirmationArray[i].cmd = f.cmd
FindsSlot ==
    \A f \in Range(line) :
        /\ line # <<>> /\ f = Head(line) /\ line' = Tail(line) /\ uartOpen
        /\ f.cmd \in Recorded /\ Awaited(f) /\ faults' = faults
        => InArray(f)'
AwaitedNeverDropped == [][FindsSlot]_vars

(* A call returns, whatever the module does.                               *)
Returns == Running ~> ~Running
FairSpec == Spec /\ WF_vars(MainStep)
=============================================================================
