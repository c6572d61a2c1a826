------------------------------ MODULE DaphnisI ------------------------------
(***************************************************************************)
(* The LoRaWAN driver DaphnisI. Its requests are those of Calypso (module  *)
(* ATDriver, where SendRequest is taken apart); its own are the functions  *)
(* that go on after the confirmation and wait for events: HandleRxLine     *)
(* stores each event in the first free slot of DaphnisI_events, and        *)
(* WaitForEvents empties the slots, one by one, and then searches them.    *)
(***************************************************************************)
EXTENDS Integers, Sequences, FiniteSets, SequencesExt

CONSTANTS
    DaphnisI_Called,       \* the functions called
    EVENT_BUFFER_LENGTH,
    Prompt,    \* lines may come before the caller waits for them
    Late,      \* lines may come after the caller has given up
    MaxCallsD, MaxForeign    \* bounds

ASSUME DaphnisIAssumption ==
    /\ EVENT_BUFFER_LENGTH \in Nat \ {0}
    /\ Prompt \in BOOLEAN /\ Late \in BOOLEAN
    /\ MaxCallsD \in Nat /\ MaxForeign \in Nat

VARIABLES
    DaphnisI_requestPending, DaphnisI_cmdConfirmStatus, DaphnisI_events,
    DaphnisI_open,           \* uartInit was called
    thread,                  \* the main thread: function, where it is
    saying,                  \* the module: the lines it has still to send
    initialised,             \* Init has returned true
    outcome,                 \* history: how the latest call ended
    granted,                 \* history: the module did what this call asked
    disturbed,               \* history: an event came that it did not cause
    callsMade, disturbances  \* the bounded counters

driverD  == <<DaphnisI_requestPending, DaphnisI_cmdConfirmStatus, DaphnisI_events,
              DaphnisI_open>>
historyD == <<outcome, granted, disturbed>>
boundsD  == <<callsMade, disturbances>>
varsD    == <<driverD, thread, saying, initialised, historyD, boundsD>>

Free  == "DaphnisI_ATEvent_Invalid"
SlotsD == 1 .. EVENT_BUFFER_LENGTH
AtRest == [op |-> "none", k |-> 1, at |-> "next", slot |-> 1]

InitD ==
    /\ DaphnisI_requestPending = FALSE /\ DaphnisI_cmdConfirmStatus = "Invalid"
    /\ DaphnisI_events = [s \in SlotsD |-> Free]
    /\ DaphnisI_open = FALSE /\ initialised = FALSE
    /\ thread = AtRest /\ saying = <<>>
    /\ outcome = [op |-> "none", ok |-> TRUE]
    /\ granted = TRUE /\ disturbed = FALSE
    /\ callsMade = 0 /\ disturbances = 0

-----------------------------------------------------------------------------
(* The functions, as steps.                                                *)
Ask(request) == [do |-> "ask", request |-> request]
Await(awaited, success, reset) ==
    [do |-> "await", awaited |-> awaited, success |-> success, reset |-> reset]
Do(what) == [do |-> what]

TxConf == {"TxConfSuccess", "TxConfError"}
TxResp == {"TxRespSuccess", "TxRespFail"}

AwaitStartUp == Await({"StartUp"}, "StartUp", TRUE)
PinResetSteps == <<Do("pin"), AwaitStartUp>>
ResetSteps == <<Ask("reset"), AwaitStartUp>>

(* Mutant of SendPayload: the events of the transmission before stay.      *)
SendPayloadKeepsEvents ==
    <<Ask("transmit"), Await(TxConf, "TxConfSuccess", FALSE)>>

(* DaphnisI_P2P_SendPayloadString                                          *)
SendPayload == <<Ask("transmit"), Await(TxConf, "TxConfSuccess", TRUE)>>

(* To one device the response may be a failure; a broadcast and a message  *)
(* to a remote GPIO wait for the success only.                             *)
Unicast   == SendPayload \o <<Await(TxResp, "TxRespSuccess", FALSE)>>
Broadcast == SendPayload \o <<Await({"TxRespSuccess"}, "TxRespSuccess", FALSE)>>

(* Init, by the reset pin or else by the command; then the version.        *)
InitByPin   == <<Do("open")>> \o PinResetSteps \o <<Ask("plain")>>
InitByReset == <<Do("open")>> \o ResetSteps \o <<Ask("plain")>>

ScriptD ==
    [InitByPin |-> InitByPin, InitByReset |-> InitByReset, Deinit |-> <<Do("close")>>,
     PinReset |-> PinResetSteps, Reset |-> ResetSteps, Test |-> <<Ask("plain")>>,
     TransmitUnicast |-> Unicast, TransmitBroadcast |-> Broadcast]

ASSUME DaphnisICalled == DaphnisI_Called \subseteq DOMAIN ScriptD

Opens  == {"InitByPin", "InitByReset"}
StepD  == ScriptD[thread.op][thread.k]
Busy   == thread.op # "none"
AtStep(do, what) == Busy /\ StepD.do = do /\ thread.at = what
GoTo(what) == thread' = [thread EXCEPT !.at = what]

End(ok) ==
    /\ outcome' = [op |-> thread.op, ok |-> ok]
    /\ thread' = AtRest
    /\ initialised' = IF thread.op \in Opens THEN ok
                      ELSE initialised /\ thread.op # "Deinit"

(* A step has succeeded: the next one, or the end.                         *)
Succeed ==
    IF thread.k = Len(ScriptD[thread.op]) THEN End(TRUE)
    ELSE /\ thread' = [AtRest EXCEPT !.op = thread.op, !.k = thread.k + 1]
         /\ UNCHANGED <<outcome, initialised>>

(* A step has failed: Init deinitialises when the module does not start,   *)
(* but not when it does not tell its version.                              *)
StartUpFailed == thread.op \in Opens /\ thread.k < Len(ScriptD[thread.op])
Abandon ==
    IF StartUpFailed
    THEN /\ GoTo("undo")
         /\ UNCHANGED <<outcome, initialised>>
    ELSE End(FALSE)

CallD(op) ==
    /\ ~Busy /\ callsMade < MaxCallsD
    /\ (op \in Opens) = ~initialised
    /\ op \in Opens => ~DaphnisI_open
    /\ thread' = [AtRest EXCEPT !.op = op]
    /\ callsMade' = callsMade + 1
    /\ granted' = TRUE /\ disturbed' = FALSE
    /\ UNCHANGED <<driverD, saying, initialised, outcome, disturbances>>

-----------------------------------------------------------------------------
(* The module. What it says to a request, if it is not lost on the way:    *)
(* any beginning of a dialogue. The response to a message may come before  *)
(* or after its time on air.                                               *)
Dialogues(request) ==
    CASE request = "plain" -> {<<"OK">>, <<"ERROR">>}
      [] request = "reset" -> {<<"OK", "StartUp">>, <<"ERROR">>}
      [] request = "pin"   -> {<<"StartUp">>}
      [] OTHER -> {<<"ERROR">>, <<"OK", "TxConfError">>}
                    \cup {<<"OK", "TxConfSuccess", "TxTime", r>> : r \in TxResp}
                    \cup {<<"OK", "TxConfSuccess", r, "TxTime">> : r \in TxResp}

Proof(request) ==
    CASE request = "plain" -> "OK"
      [] request \in {"reset", "pin"} -> "StartUp"
      [] OTHER -> "TxRespSuccess"

(* The module hears the request; what it still had to say comes first,     *)
(* unless it is reset.                                                     *)
Answer(request, unsaid) ==
    \E d \in UNION {Prefixes(dialogue) : dialogue \in Dialogues(request)} :
        /\ saying' = unsaid \o [i \in DOMAIN d |-> [what |-> d[i], call |-> callsMade]]
        /\ granted' = (granted /\ Proof(request) \in Range(d))

-----------------------------------------------------------------------------
(* SendRequest                                                             *)
SendRequest ==
    /\ AtStep("ask", "next")
    /\ DaphnisI_requestPending' = TRUE
    /\ Answer(StepD.request, saying)
    /\ GoTo("arm")
    /\ UNCHANGED <<DaphnisI_cmdConfirmStatus, DaphnisI_events, DaphnisI_open,
                   initialised, outcome, disturbed, boundsD>>

(* WaitForConfirm                                                          *)
ArmD ==
    /\ AtStep("ask", "arm")
    /\ DaphnisI_cmdConfirmStatus' = "Invalid"
    /\ GoTo("poll")
    /\ UNCHANGED <<DaphnisI_requestPending, DaphnisI_events, DaphnisI_open, saying,
                   initialised, historyD, boundsD>>

(* With a module that answers in time, no line of this call is to come.    *)
GivesUp == Late \/ \A l \in Range(saying) : l.call # callsMade

WaitForConfirm ==
    /\ AtStep("ask", "poll")
    /\ DaphnisI_cmdConfirmStatus = "Invalid" => GivesUp
    /\ DaphnisI_requestPending' = FALSE
    /\ IF DaphnisI_cmdConfirmStatus = "Success" THEN Succeed ELSE Abandon
    /\ UNCHANGED <<DaphnisI_cmdConfirmStatus, DaphnisI_events, DaphnisI_open, saying,
                   granted, disturbed, boundsD>>

(* WaitForEvents                                                           *)
BeginWait ==
    /\ AtStep("await", "next")
    /\ GoTo(IF StepD.reset THEN "clear" ELSE "look")
    /\ UNCHANGED <<driverD, saying, initialised, historyD, boundsD>>

ClearEvent ==
    /\ AtStep("await", "clear")
    /\ DaphnisI_events' = [DaphnisI_events EXCEPT ![thread.slot] = Free]
    /\ thread' = IF thread.slot = EVENT_BUFFER_LENGTH
                 THEN [thread EXCEPT !.at = "look", !.slot = 1]
                 ELSE [thread EXCEPT !.slot = @ + 1]
    /\ UNCHANGED <<DaphnisI_requestPending, DaphnisI_cmdConfirmStatus, DaphnisI_open,
                   saying, initialised, historyD, boundsD>>

Found == DaphnisI_events[thread.slot] \in StepD.awaited

FindEvent ==
    /\ AtStep("await", "look") /\ Found
    /\ IF DaphnisI_events[thread.slot] = StepD.success THEN Succeed ELSE Abandon
    /\ UNCHANGED <<driverD, saying, granted, disturbed, boundsD>>

(* The search goes round, with a delay after the last slot.                *)
NextEvent ==
    /\ AtStep("await", "look") /\ ~Found
    /\ thread' = [thread EXCEPT !.slot = IF @ = EVENT_BUFFER_LENGTH THEN 1 ELSE @ + 1]
    /\ UNCHANGED <<driverD, saying, initialised, historyD, boundsD>>

MissEvent ==
    /\ AtStep("await", "look") /\ ~Found /\ thread.slot = EVENT_BUFFER_LENGTH
    /\ GivesUp /\ (Late \/ \A s \in SlotsD : DaphnisI_events[s] \notin StepD.awaited)
    /\ Abandon
    /\ UNCHANGED <<driverD, saying, granted, disturbed, boundsD>>

(* Init up to the reset                                                    *)
OpenD ==
    /\ AtStep("open", "next")
    /\ DaphnisI_requestPending' = FALSE
    /\ DaphnisI_events' = [s \in SlotsD |-> Free]
    /\ DaphnisI_open' = TRUE
    /\ Succeed
    /\ UNCHANGED <<DaphnisI_cmdConfirmStatus, saying, granted, disturbed, boundsD>>

(* The reset pin goes low and high.                                        *)
PulseReset ==
    /\ AtStep("pin", "next")
    /\ Answer("pin", <<>>)
    /\ Succeed
    /\ UNCHANGED <<driverD, disturbed, boundsD>>

(* Deinit, called or on the way out of Init                                *)
CloseD ==
    /\ AtStep("close", "next") \/ (Busy /\ thread.at = "undo")
    /\ DaphnisI_requestPending' = FALSE
    /\ DaphnisI_open' = FALSE
    /\ End(thread.op = "Deinit")
    /\ UNCHANGED <<DaphnisI_cmdConfirmStatus, DaphnisI_events, saying, granted,
                   disturbed, boundsD>>

-----------------------------------------------------------------------------
(* The receive interrupt.                                                  *)
Vacant == {s \in SlotsD : DaphnisI_events[s] = Free}

(* Events that find no free slot are lost.                                 *)
Store(event) ==
    IF Vacant = {} THEN DaphnisI_events
    ELSE [DaphnisI_events EXCEPT
            ![CHOOSE s \in Vacant : \A r \in Vacant : s <= r] = event]

HandleRxLineD(what) ==
    /\ DaphnisI_cmdConfirmStatus' =
         IF DaphnisI_open /\ DaphnisI_requestPending
         THEN CASE what = "OK"    -> "Success"
                [] what = "ERROR" -> "Failed"
                [] OTHER          -> DaphnisI_cmdConfirmStatus
         ELSE DaphnisI_cmdConfirmStatus
    /\ DaphnisI_events' = IF DaphnisI_open /\ what \notin {"OK", "ERROR"}
                          THEN Store(what) ELSE DaphnisI_events
    /\ UNCHANGED <<DaphnisI_requestPending, DaphnisI_open>>

(* Unless the module is prompt, a line of this call comes no sooner than   *)
(* its caller waits for it.                                                *)
InTime(line) ==
    \/ Prompt \/ line.call # callsMade
    \/ IF line.what \in {"OK", "ERROR"} THEN thread.at = "poll"
       ELSE ~Busy \/ thread.at = "look"

Say ==
    /\ saying # <<>> /\ InTime(Head(saying))
    /\ saying' = Tail(saying)
    /\ HandleRxLineD(Head(saying).what)
    /\ UNCHANGED <<thread, initialised, historyD, boundsD>>

(* An event that the module sends on its own, data received for example.   *)
Disturb ==
    /\ disturbances < MaxForeign /\ DaphnisI_open
    /\ disturbances' = disturbances + 1
    /\ disturbed' = TRUE
    /\ HandleRxLineD("RxData")
    /\ UNCHANGED <<thread, saying, initialised, outcome, granted, callsMade>>

NextD == \/ \E op \in DaphnisI_Called : CallD(op)
         \/ SendRequest \/ ArmD \/ WaitForConfirm
         \/ BeginWait \/ ClearEvent \/ FindEvent \/ NextEvent \/ MissEvent
         \/ OpenD \/ PulseReset \/ CloseD
         \/ Say \/ Disturb

SpecD == InitD /\ [][NextD]_varsD

-----------------------------------------------------------------------------
(* With a module that answers in time, but not before it is awaited: a     *)
(* function that returns true has got from the module what it asked for,   *)
(* a transmission its response, whatever events older calls have left or   *)
(* are still to cause; and one that returns false has not, unless foreign  *)
(* events filled the slots. Three slots are as many as a transmission      *)
(* causes (P2P.c:36-292, DaphnisI.c:255-262, :600-642).                    *)
EventsTruthful ==
    ~Busy /\ outcome.op \in DaphnisI_Called \ {"Deinit"} =>
        /\ outcome.ok => granted
        /\ granted /\ ~disturbed => outcome.ok
=============================================================================
