----------------------------- MODULE AdrasteaI -----------------------------
(***************************************************************************)
(* The LTE-M driver AdrasteaI. Its module has two prompts: the menu of its *)
(* processor and, behind the command "map", the prompt for AT commands.    *)
(* The receive interrupt follows in AdrasteaI_ATMode where the module is,  *)
(* and itself sends "map" when the module has started, unless the main     *)
(* thread is waking it. Functions that change the prompt wait for          *)
(* AdrasteaI_ATMode in loops without an end.                               *)
(***************************************************************************)
EXTENDS Integers, Sequences, FiniteSets, SequencesExt

CONSTANTS
    AdrasteaI_Called,      \* the functions called
    Overdue,               \* lines may come after the caller has given up
    Unwoken,               \* PinWakeUp may fail
    MaxCallsA, MaxUnasked  \* bounds: calls; events and restarts

ASSUME AdrasteaIAssumption ==
    /\ Overdue \in BOOLEAN /\ Unwoken \in BOOLEAN
    /\ MaxCallsA \in Nat /\ MaxUnasked \in Nat

VARIABLES
    AdrasteaI_requestPending, AdrasteaI_cmdConfirmStatus,
    AdrasteaI_pendingCommandName, AdrasteaI_responseincoming,
    AdrasteaI_currentResponse,    \* the lines of the response so far
    AdrasteaI_ATMode, AdrasteaI_wakingUp,
    AdrasteaI_open,               \* uartInit was called
    caller,                       \* the main thread: function, where it is
    prompt,                       \* where the module is
    spoken,                       \* the lines it has still to send
    result,                       \* history: how the latest call ended
    obeyed,                       \* history: the module did what was asked,
    whole,                        \*   said all of it,
    alone,                        \*   and nothing else
    calledA, unasked              \* the bounded counters

requestA == <<AdrasteaI_requestPending, AdrasteaI_cmdConfirmStatus>>
response == <<AdrasteaI_pendingCommandName, AdrasteaI_responseincoming,
              AdrasteaI_currentResponse>>
modes    == <<AdrasteaI_ATMode, AdrasteaI_wakingUp, AdrasteaI_open>>
moduleA  == <<prompt, spoken>>
historyA == <<result, obeyed, whole, alone>>
boundsA  == <<calledA, unasked>>
varsA    == <<requestA, response, modes, caller, moduleA, historyA, boundsA>>

Unoccupied == [op |-> "none", k |-> 1, at |-> "next"]

(* The module was on before the program started.                           *)
InitA ==
    /\ AdrasteaI_requestPending = FALSE /\ AdrasteaI_cmdConfirmStatus = "Invalid"
    /\ AdrasteaI_pendingCommandName = "" /\ AdrasteaI_responseincoming = FALSE
    /\ AdrasteaI_currentResponse = <<>>
    /\ AdrasteaI_ATMode = "Off" /\ AdrasteaI_wakingUp = FALSE
    /\ AdrasteaI_open = FALSE
    /\ caller = Unoccupied
    /\ prompt \in {"menu", "AT"} /\ spoken = <<>>
    /\ result = [op |-> "none", ok |-> TRUE, text |-> <<>>]
    /\ obeyed = TRUE /\ whole = TRUE /\ alone = TRUE
    /\ calledA = 0 /\ unasked = 0

-----------------------------------------------------------------------------
(* The functions, as steps. A Try that fails goes on with the next step,   *)
(* one that succeeds passes over some.                                     *)
AskA(command) == [do |-> "ask", command |-> command]
Tell(text)    == [do |-> "tell", text |-> text]
Until(mode)   == [do |-> "until", mode |-> mode]
DoA(what)     == [do |-> what]
Try(command, over) == [do |-> "try", command |-> command, over |-> over]

LeaveMap == <<Tell("ctrl-D"), Until("Off")>>

(* Mutant of PinWakeUp: the module is not known to be awake.               *)
PinWakeUpForgets == <<DoA("wake"), AskA("sleepSet disable"), Tell("map")>>

PinWakeUp == <<DoA("wake"), AskA("sleepSet disable"), Tell("map"), DoA("awake")>>

(* Mutant of FactoryReset: the module is not waited for to leave.          *)
FactoryResetAtOnce == <<AskA("F0"), Until("Ready")>>

FactoryReset == <<AskA("F0"), Until("Off"), Until("Ready")>>

ScriptA ==
    [InitByPin |-> <<DoA("open"), DoA("pin"), Until("Ready"), AskA("CGMR")>>,
     InitByUart |-> <<DoA("open"), Try("", 0), Try("RESET", 1), Tell("reset all"),
                      Until("Ready"), AskA("CGMR")>>,
     Deinit |-> <<DoA("close")>>, PinReset |-> <<DoA("pin")>>,
     PinWakeUp |-> PinWakeUp,
     SetPowerMode |-> LeaveMap \o <<AskA("pwrMode"), Tell("map"), Until("Ready")>>,
     EnableSleep |-> LeaveMap \o <<AskA("sleepSet enable")>>,
     FactoryReset |-> FactoryReset,
     Reset |-> <<AskA("RESET")>>, Set |-> <<AskA("CFUN")>>, Get |-> <<AskA("CGMI")>>]

ASSUME AdrasteaICalled == AdrasteaI_Called \subseteq DOMAIN ScriptA

OpensA == {"InitByPin", "InitByUart"}
StepA  == ScriptA[caller.op][caller.k]
Calling == caller.op # "none"
AtA(do, what) == Calling /\ StepA.do \in do /\ caller.at = what
Move(what) == caller' = [caller EXCEPT !.at = what]

EndA(ok) ==
    /\ result' = [op |-> caller.op, ok |-> ok, text |-> AdrasteaI_currentResponse]
    /\ caller' = Unoccupied

(* The next step, or one further on.                                       *)
Pass(over) ==
    IF caller.k = Len(ScriptA[caller.op]) THEN EndA(TRUE)
    ELSE /\ caller' = [Unoccupied EXCEPT !.op = caller.op, !.k = caller.k + 1 + over]
         /\ UNCHANGED result
Advance == Pass(0)

(* A caller wakes the module up after it has sent it to sleep.             *)
CallA(op) ==
    /\ ~Calling /\ calledA < MaxCallsA
    /\ (op \in OpensA) = ~AdrasteaI_open
    /\ op = "PinWakeUp" => prompt = "asleep"
    /\ op = "InitByUart" => prompt # "asleep"
    /\ caller' = [Unoccupied EXCEPT !.op = op]
    /\ calledA' = calledA + 1
    /\ obeyed' = TRUE /\ whole' = TRUE /\ alone' = TRUE
    /\ UNCHANGED <<requestA, response, modes, moduleA, result, unasked>>

-----------------------------------------------------------------------------
(* The module.                                                             *)
Queries_A == {"CGMR", "CGMI"}
MenuCommands == {"pwrMode", "sleepSet enable", "sleepSet disable"}
Place(command) == IF command \in MenuCommands THEN "menu" ELSE "AT"

Confirms == {"OK", "Configured to", "Sleep -"}
Line(what) == [what |-> what, call |-> calledA]

Success(command) ==
    IF command = "pwrMode" THEN "Configured to"
    ELSE IF command \in MenuCommands THEN "Sleep -" ELSE "OK"

(* What the module says: the echo, which only an AT command has, the       *)
(* response, and the verdict.                                              *)
Dialogue(command, done) ==
    (IF command \in MenuCommands THEN <<>> ELSE <<command>>)
      \o (IF done /\ command \in Queries_A THEN <<"text">> ELSE <<>>)
      \o <<IF done THEN Success(command) ELSE "ERROR">>

(* Where the module is when it has done so. A power mode may end the power *)
(* of its processor.                                                       *)
Leads(command) ==
    CASE command = "pwrMode" -> {"menu", "starting"}
      [] command = "sleepSet enable" -> {"asleep"}
      [] command \in {"F0", "RESET"} -> {"starting"}
      [] OTHER -> {prompt}

MustObey(command) ==
    command = "RESET" \/ (command = "sleepSet disable" /\ ~Unwoken)

(* A command arrives. Away from its prompt it is not understood; one line  *)
(* of the answer may be lost.                                              *)
Hear(command) ==
    IF prompt # Place(command)
    THEN /\ obeyed' = (obeyed /\ StepA.do = "try")
         /\ UNCHANGED <<prompt, spoken, whole>>
    ELSE \E done \in IF MustObey(command) THEN {TRUE} ELSE BOOLEAN :
         LET says == Dialogue(command, done)
             mayLose == IF MustObey(command) /\ command # "RESET" THEN {}
                        ELSE DOMAIN says
         IN  \E lost \in {0} \cup mayLose :
             LET heard == IF lost = 0 THEN says ELSE RemoveAt(says, lost)
             IN  /\ spoken' = spoken \o [i \in DOMAIN heard |-> Line(heard[i])]
                 /\ obeyed' = (obeyed /\ \/ StepA.do = "try"
                                         \/ done /\ Success(command) \in Range(heard))
                 /\ whole' = (whole /\ lost = 0)
                 /\ prompt' \in IF done THEN Leads(command) ELSE {prompt}

(* The texts that are no requests: they lead from one prompt to the next.  *)
HearText(text, unsaid) ==
    CASE text = "map" /\ prompt = "menu" ->
           /\ prompt' = "AT"
           /\ spoken' = unsaid \o <<Line("Open MAP CLI"), Line("%SCMNOTIFYEV")>>
      [] text = "ctrl-D" /\ prompt = "AT" ->
           /\ prompt' = "menu"
           /\ spoken' = Append(unsaid, Line("MAP CLI Closed"))
      [] text = "reset all" /\ prompt = "menu" ->
           /\ prompt' = "starting" /\ spoken' = <<>>
      [] OTHER -> prompt' = prompt /\ spoken' = unsaid

(* The module has started.                                                 *)
StartUp ==
    /\ prompt = "starting"
    /\ prompt' = "menu"
    /\ spoken' = Append(spoken, Line("MCU menu"))
    /\ UNCHANGED <<requestA, response, modes, caller, historyA, boundsA>>

(* It starts again by itself.                                              *)
RestartA ==
    /\ unasked < MaxUnasked /\ AdrasteaI_open
    /\ caller.op = "PinWakeUp" => Unwoken
    /\ unasked' = unasked + 1
    /\ prompt' = "starting" /\ spoken' = <<>>
    /\ obeyed' = (obeyed /\ ~ /\ Calling /\ StepA.do = "ask"
                              /\ \E l \in Range(spoken) :
                                    l.call = calledA /\ l.what \in Confirms)
    /\ whole' = FALSE /\ alone' = FALSE
    /\ UNCHANGED <<requestA, response, modes, caller, result, calledA>>
-----------------------------------------------------------------------------
(* The main thread: SendRequest                                            *)
Asking == {"ask", "try"}

(* Mutant of PendA: the response of the request before stays.              *)
PendAKeepsResponse ==
    /\ AtA(Asking, "next")
    /\ AdrasteaI_requestPending' = TRUE
    /\ Move("name")
    /\ UNCHANGED <<AdrasteaI_cmdConfirmStatus, response, modes, moduleA, historyA, boundsA>>

PendA ==
    /\ AtA(Asking, "next")
    /\ AdrasteaI_requestPending' = TRUE
    /\ AdrasteaI_currentResponse' = <<>>
    /\ Move("name")
    /\ UNCHANGED <<AdrasteaI_cmdConfirmStatus, AdrasteaI_pendingCommandName,
                   AdrasteaI_responseincoming, modes, moduleA, historyA, boundsA>>

(* A module that is being woken has started after 100 ms.                  *)
TransmitA ==
    /\ AtA(Asking, "name")
    /\ caller.op = "PinWakeUp" => prompt # "starting"
    /\ AdrasteaI_pendingCommandName' =
         IF StepA.command \in MenuCommands THEN "" ELSE StepA.command
    /\ Hear(StepA.command)
    /\ Move("arm")
    /\ UNCHANGED <<requestA, AdrasteaI_responseincoming, AdrasteaI_currentResponse,
                   modes, result, alone, boundsA>>

(* WaitForConfirm                                                          *)
ArmA ==
    /\ AtA(Asking, "arm")
    /\ AdrasteaI_cmdConfirmStatus' = "Invalid"
    /\ Move("poll")
    /\ UNCHANGED <<AdrasteaI_requestPending, response, modes, moduleA, historyA, boundsA>>

ModeLines == {"MCU menu", "Open MAP CLI", "MAP CLI Closed", "%SCMNOTIFYEV"}

(* With a module that answers in time, no answer to this call is to come.  *)
NothingToCome ==
    Overdue \/ \A l \in Range(spoken) : l.what \in ModeLines \/ l.call # calledA

WaitForConfirmA ==
    /\ AtA(Asking, "poll")
    /\ AdrasteaI_cmdConfirmStatus = "Invalid" => NothingToCome
    /\ AdrasteaI_requestPending' = FALSE
    /\ AdrasteaI_responseincoming' = FALSE
    /\ CASE AdrasteaI_cmdConfirmStatus = "Success" ->
              Pass(IF StepA.do = "try" THEN StepA.over ELSE 0)
         [] AdrasteaI_cmdConfirmStatus # "Success" /\ StepA.do = "try" -> Advance
         [] OTHER -> EndA(FALSE)
    /\ UNCHANGED <<AdrasteaI_cmdConfirmStatus, AdrasteaI_pendingCommandName,
                   AdrasteaI_currentResponse, modes, moduleA, obeyed, whole, alone, boundsA>>

(* The other steps.                                                        *)
Arrives == AdrasteaI_ATMode = StepA.mode

UntilMode ==
    /\ AtA({"until"}, "next") /\ Arrives
    /\ Advance
    /\ UNCHANGED <<requestA, response, modes, moduleA, obeyed, whole, alone, boundsA>>

TellA ==
    /\ AtA({"tell"}, "next")
    /\ HearText(StepA.text, spoken)
    /\ Advance
    /\ UNCHANGED <<requestA, response, modes, obeyed, whole, alone, boundsA>>

OpenA ==
    /\ AtA({"open"}, "next")
    /\ AdrasteaI_requestPending' = FALSE
    /\ AdrasteaI_open' = TRUE
    /\ Advance
    /\ UNCHANGED <<AdrasteaI_cmdConfirmStatus, response, AdrasteaI_ATMode,
                   AdrasteaI_wakingUp, moduleA, obeyed, whole, alone, boundsA>>

(* Neither this nor Init resets AdrasteaI_ATMode.                          *)
PulseResetA ==
    /\ AtA({"pin"}, "next")
    /\ prompt' = "starting" /\ spoken' = <<>>
    /\ Advance
    /\ UNCHANGED <<requestA, response, modes, obeyed, whole, alone, boundsA>>

PulseWakeUp ==
    /\ AtA({"wake"}, "next")
    /\ AdrasteaI_wakingUp' = TRUE
    /\ prompt' = IF prompt = "asleep" THEN "starting" ELSE prompt
    /\ Advance
    /\ UNCHANGED <<requestA, response, AdrasteaI_ATMode, AdrasteaI_open, spoken,
                   obeyed, whole, alone, boundsA>>

Awake ==
    /\ AtA({"awake"}, "next")
    /\ AdrasteaI_wakingUp' = FALSE
    /\ Advance
    /\ UNCHANGED <<requestA, response, AdrasteaI_ATMode, AdrasteaI_open, moduleA,
                   obeyed, whole, alone, boundsA>>

CloseA ==
    /\ AtA({"close"}, "next")
    /\ AdrasteaI_requestPending' = FALSE
    /\ AdrasteaI_currentResponse' = <<>>
    /\ AdrasteaI_open' = FALSE
    /\ Advance
    /\ UNCHANGED <<AdrasteaI_cmdConfirmStatus, AdrasteaI_pendingCommandName,
                   AdrasteaI_responseincoming, AdrasteaI_ATMode, AdrasteaI_wakingUp,
                   moduleA, obeyed, whole, alone, boundsA>>

MainA == \/ PendA \/ TransmitA \/ ArmA \/ WaitForConfirmA \/ UntilMode \/ TellA
         \/ OpenA \/ PulseResetA \/ PulseWakeUp \/ Awake \/ CloseA

-----------------------------------------------------------------------------
(* The receive interrupt.                                                  *)
(* Everything between the echo and the verdict is the response.            *)
HandleResponse(line) ==
    IF ~AdrasteaI_requestPending
    THEN UNCHANGED <<AdrasteaI_cmdConfirmStatus, AdrasteaI_responseincoming,
                     AdrasteaI_currentResponse>>
    ELSE IF line.what \in Confirms \cup {"ERROR"}
    THEN /\ AdrasteaI_responseincoming' = FALSE
         /\ AdrasteaI_cmdConfirmStatus' = IF line.what = "ERROR" THEN "Failed" ELSE "Success"
         /\ UNCHANGED AdrasteaI_currentResponse
    ELSE /\ AdrasteaI_currentResponse' =
              IF AdrasteaI_responseincoming THEN Append(AdrasteaI_currentResponse, line)
              ELSE AdrasteaI_currentResponse
         /\ AdrasteaI_responseincoming' =
              (AdrasteaI_responseincoming \/ /\ AdrasteaI_pendingCommandName # ""
                                             /\ line.what = AdrasteaI_pendingCommandName)
         /\ UNCHANGED AdrasteaI_cmdConfirmStatus

ModeAfter(what) ==
    CASE what = "%SCMNOTIFYEV"  -> "Ready"
      [] what \in {"MCU menu", "MAP CLI Closed"} -> "Off"
      [] what = "Open MAP CLI"  -> "Map"
      [] OTHER                  -> AdrasteaI_ATMode

HandleRxLineA(line, unsaid) ==
    /\ HandleResponse(line)
    /\ AdrasteaI_ATMode' = ModeAfter(line.what)
    /\ IF line.what = "MCU menu" /\ ~AdrasteaI_wakingUp
       THEN HearText("map", unsaid)
       ELSE prompt' = prompt /\ spoken' = unsaid

(* The main thread has seen the present mode: a module takes far longer to *)
(* the next than the thread from one look to the next. The answer to a     *)
(* request comes while it is waited for.                                   *)
Watching ==
    \/ ~Calling
    \/ caller.at = "poll" /\ AdrasteaI_cmdConfirmStatus = "Invalid"
    \/ AtA({"until"}, "next") /\ ~Arrives

InTimeA(line) ==
    IF line.what \in ModeLines THEN Watching
    ELSE Overdue \/ line.call # calledA \/ (Calling /\ caller.at = "poll")

(* A line arrives. While the UART is closed nobody hears it.               *)
SayA ==
    /\ spoken # <<>> /\ InTimeA(Head(spoken))
    /\ IF AdrasteaI_open THEN HandleRxLineA(Head(spoken), Tail(spoken))
       ELSE /\ spoken' = Tail(spoken)
            /\ UNCHANGED <<AdrasteaI_cmdConfirmStatus, AdrasteaI_responseincoming,
                           AdrasteaI_currentResponse, AdrasteaI_ATMode, prompt>>
    /\ UNCHANGED <<AdrasteaI_requestPending, AdrasteaI_pendingCommandName,
                   AdrasteaI_wakingUp, AdrasteaI_open, caller, historyA, boundsA>>

(* An event that no request has caused.                                    *)
EventA ==
    /\ unasked < MaxUnasked /\ AdrasteaI_open
    /\ unasked' = unasked + 1
    /\ alone' = FALSE
    /\ HandleRxLineA(Line("+event"), spoken)
    /\ UNCHANGED <<AdrasteaI_requestPending, AdrasteaI_pendingCommandName,
                   AdrasteaI_wakingUp, AdrasteaI_open, caller, result, obeyed, whole,
                   calledA>>

NextA == \/ \E op \in AdrasteaI_Called : CallA(op)
         \/ MainA \/ StartUp \/ RestartA \/ SayA \/ EventA

(* Fairness: the functions go on while the module starts and its lines     *)
(* arrive, which is what their endless loops rely on. No function has to   *)
(* be called, nothing need happen unasked.                                 *)
SpecA == InitA /\ [][NextA]_varsA /\ WF_varsA(MainA) /\ WF_varsA(StartUp) /\ WF_varsA(SayA)

-----------------------------------------------------------------------------
(* Properties.                                                             *)

ResultOf(op) == ~Calling /\ result.op = op

(* A function returns true exactly when the module has done and confirmed  *)
(* everything it was asked in this call (SendRequest and WaitForConfirm,   *)
(* AdrasteaI.c:397-502, on the main thread, HandleRxLine, :645-717, in the *)
(* interrupt); the response it then hands on is that of its own request,   *)
(* whole when no line was lost. Checked for answers that come before the   *)
(* caller gives up, the response also only when nothing came unasked.      *)
AnswersAgree ==
    /\ \A op \in AdrasteaI_Called \ {"Deinit", "PinReset"} :
         ResultOf(op) => result.ok = obeyed
    /\ ResultOf("Get") /\ result.ok /\ alone =>
         /\ \A l \in Range(result.text) : l = [what |-> "text", call |-> calledA]
         /\ whole => Len(result.text) = 1

(* After Init, SetPowerMode and FactoryReset have returned true the module *)
(* is at the prompt for AT commands and the driver knows it. Their waits   *)
(* for AdrasteaI_ATMode (AdrasteaI.c:310, ATPower.c:46 and :89,            *)
(* ATDevice.c:439 and :443) must not lead to this by what the mode was     *)
(* before. (A second Init's wait may end by it; its request then fails, as *)
(* the module is still starting, and Init returns false.)                  *)
TakesRequests ==
    \A op \in OpensA \cup {"SetPowerMode", "FactoryReset"} :
        ResultOf(op) /\ result.ok /\ alone =>
            prompt = "AT" /\ AdrasteaI_ATMode = "Ready"
=============================================================================
