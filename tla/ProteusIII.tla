----------------------------- MODULE ProteusIII -----------------------------
(***************************************************************************)
(* The Proteus-III Bluetooth LE driver: its functions (the table in        *)
(* Proteus) over the core of CommandDriver, the state it keeps beside the  *)
(* core (bleState, getDevicesP) and what the module's link does meanwhile. *)
(***************************************************************************)
EXTENDS CommandDriver, Proteus

CONSTANT EarlyLinks       \* a peer may connect before Init has returned

VARIABLES
    bleState,       \* what ProteusIII_GetDriverState returns
    getDevicesP,    \* "NULL" or "caller": the structure GetDevices fills
    listed,         \* history: the answer the structure now holds
    mode            \* the module: Idle, Connected, ChannelOpen or DTM

added   == <<bleState, getDevicesP, listed, mode>>
allVars == <<vars, added>>

-----------------------------------------------------------------------------
(* What the module reports as its action when it says GETSTATE_CNF.        *)
Action(m)  == IF m \in {"Connected", "ChannelOpen"} THEN "Connected" ELSE m
Actions    == {"", "Idle", "Connected", "DTM"}
LinkFrames == {Part("CONNECT_IND", "Success"), Part("CHANNELOPEN_RSP", "Success"),
               Part("DISCONNECT_IND", "")}
Rebooted   == {"RESET_REQ", "FACTORYRESET_REQ", "SET_REQ", "RESET_PIN"}
AboutState == \E i \in DOMAIN outbox : outbox[i].cmd = "GETSTATE_CNF"

(* The constants of the core that this driver fixes.                       *)
ASSUME ProteusIIIAssumption ==
    /\ Ops \subseteq DOMAIN Functions
    /\ \A op \in Ops : Script[op] = Functions[op]
    /\ LinkFrames \subseteq Indications
    /\ Actions \subseteq Data

(* Each of its functions makes one request at a time, and what the module  *)
(* sends unasked goes to callbacks, never into the array.                  *)
ASSUME SerialAssumption == Serial

(* Init holds the module in reset before it takes the link to be idle, and *)
(* asks for nothing that ends that; the others leave reset pin, UART and   *)
(* bleState alone. (A PinReset that follows leaves the old state until the *)
(* module has started, an Init by UART does not reset it first.)           *)
ResetBefore(steps, k) ==
    \E x, y \in 1 .. k - 1 :
        x < y /\ steps[x].do = "hold" /\ steps[y].do = "set" /\ steps[y].status = "Initial"
ResetsFirst(op) ==
    LET steps == Script[op]
    IN  /\ \A j \in DOMAIN steps : steps[j].cmd # "DTMSTART_REQ"
        /\ \A k \in 1 .. Len(steps) + 1 :
             (k <= Len(steps) => steps[k].do = "return") /\ ~Past(steps, k, "return")
               => ResetBefore(steps, k)
LeavesLink(op) ==
    \A j \in DOMAIN Script[op] :
        Script[op][j].do \notin {"hold", "open"} /\ Script[op][j].status # "Initial"

ASSUME LinkAssumption ==
    \A op \in Ops \ {"InitByUart", "PinReset"} :
        IF op \in Opening THEN ResetsFirst(op) ELSE LeavesLink(op)

(* The module says that it has started, and tells of its link unasked only.*)
Starts(frames)  == \E n \in DOMAIN frames : frames[n].cmd = "GETSTATE_CNF"
Linkless(frames) ==
    \A n \in DOMAIN frames :
        frames[n].cmd \notin {"CONNECT_IND", "CHANNELOPEN_RSP", "DISCONNECT_IND"}

ASSUME ReportAssumption ==
    /\ Starts(BootFrames) /\ Linkless(BootFrames)
    /\ \A cmd \in DOMAIN Reply :
         /\ cmd \in Rebooted => Starts(Reply[cmd].yes)
         /\ \A frames \in {Reply[cmd].yes} \cup Reply[cmd].no : Linkless(frames)
    /\ \A i \in Indications \ LinkFrames :
         i.cmd \notin {"CHANNELOPEN_RSP", "DISCONNECT_IND"}

-----------------------------------------------------------------------------
InitP3 ==
    /\ Init
    /\ bleState = "Idle" /\ getDevicesP = "NULL" /\ listed = {}
    /\ mode = "Idle"

StartP3 ==
    /\ \E op \in Ops : Start(op)
    /\ UNCHANGED added

(* The steps of the core that touch nothing of the driver's own.           *)
PlainStep ==
    /\ \/ Fault \/ Transmit \/ ClearSlot \/ Confirmed \/ NextSlot \/ Delay
       \/ GiveUp \/ ReadPacket \/ CheckPacket \/ OpenUart \/ CloseUart \/ Finish
    /\ UNCHANGED added

HoldP3 ==
    /\ HoldInReset
    /\ mode' = "Idle"
    /\ UNCHANGED <<bleState, getDevicesP, listed>>

TestP3 ==
    /\ TestState(bleState = Step.status)
    /\ UNCHANGED added

(* Mutant of SetP3: numberOfDevices is not set to 0.                       *)
SetUncounted ==
    /\ SetState
    /\ getDevicesP' = CASE Step.status = "devicesP"          -> "caller"
                        [] Step.status \in {"NULL", "Initial"} -> "NULL"
                        [] OTHER                              -> getDevicesP
    /\ bleState' = IF Step.status = "Initial" THEN "Idle" ELSE bleState
    /\ UNCHANGED <<listed, mode>>

SetP3 ==
    /\ SetState
    /\ getDevicesP' = CASE Step.status = "devicesP"          -> "caller"
                        [] Step.status \in {"NULL", "Initial"} -> "NULL"
                        [] OTHER                              -> getDevicesP
    /\ bleState' = IF Step.status = "Initial" THEN "Idle" ELSE bleState
    /\ listed' = IF Step.status = "devicesP" THEN {} ELSE listed
    /\ UNCHANGED mode

MainP3 == PlainStep \/ HoldP3 \/ TestP3 \/ SetP3

(* Mutant of StateAfter: a lost link is not noted.                         *)
StateAfterUnlost(f) ==
    CASE f.cmd = "GETSTATE_CNF" /\ f.data = "Idle"       -> "Idle"
      [] f.cmd = "CHANNELOPEN_RSP"                       -> "ChannelOpen"
      [] f.cmd = "CONNECT_IND" /\ f.status = "Success"   -> "Connected"
      [] OTHER                                           -> bleState

(* HandleRxPacket: the state a frame tells of.                             *)
StateAfter(f) ==
    CASE f.cmd = "GETSTATE_CNF" /\ f.data = "Idle"       -> "Idle"
      [] f.cmd = "CHANNELOPEN_RSP"                       -> "ChannelOpen"
      [] f.cmd = "CONNECT_IND" /\ f.status = "Success"   -> "Connected"
      [] f.cmd = "DISCONNECT_IND"                        -> "Idle"
      [] OTHER                                           -> bleState

(* HandleRxPacket: a list of devices goes where getDevicesP points.        *)
Lists(f) == f.cmd = "GETDEVICES_CNF" /\ f.status = "Success" /\ getDevicesP # "NULL"

ReceiveP3 ==
    /\ HandleRxPacket
    /\ IF uartOpen
       THEN LET f == Head(line)
            IN  /\ bleState' = StateAfter(f)
                /\ listed' = IF Lists(f) THEN {f.req} ELSE listed
       ELSE UNCHANGED <<bleState, listed>>
    /\ UNCHANGED <<getDevicesP, mode>>

-----------------------------------------------------------------------------
(* The module and its link.                                                *)
AnswerP3 ==
    /\ ~AboutState
    /\ \E granted \in BOOLEAN :
         /\ Answer(granted)
         /\ LET cmd == Head(inbox).cmd
            IN  /\ granted /\ cmd = "DATA_REQ" => mode = "ChannelOpen"
                /\ granted /\ cmd = "DTMSTART_REQ" => mode = "Idle"
                /\ mode' = CASE granted /\ cmd \in Rebooted        -> "Idle"
                             [] granted /\ cmd = "DTMSTART_REQ"    -> "DTM"
                             [] OTHER                              -> mode
    /\ UNCHANGED <<bleState, getDevicesP, listed>>

EmitP3 ==
    /\ outbox # <<>>
    /\ Emit(IF Head(outbox).cmd = "GETSTATE_CNF" THEN Action(mode) ELSE "")
    /\ UNCHANGED added

(* The module reports its state before it reads on or has a new link.      *)
LinkEvent ==
    /\ ~AboutState
    /\ \/ /\ mode = "Idle" /\ (ready \/ EarlyLinks)
          /\ Indicate("CONNECT_IND", "Success")
          /\ mode' = "Connected"
       \/ /\ mode = "Connected"
          /\ Indicate("CHANNELOPEN_RSP", "Success")
          /\ mode' = "ChannelOpen"
       \/ /\ mode \in {"Connected", "ChannelOpen"}
          /\ Indicate("DISCONNECT_IND", "")
          /\ mode' = "Idle"
    /\ UNCHANGED <<bleState, getDevicesP, listed>>

OtherIndication ==
    /\ \E i \in Indications \ LinkFrames : Indicate(i.cmd, i.status)
    /\ UNCHANGED added

RestartP3 ==
    /\ Restart
    /\ mode' = "Idle"
    /\ UNCHANGED <<bleState, getDevicesP, listed>>

ModuleP3 == AnswerP3 \/ EmitP3 \/ LinkEvent \/ OtherIndication \/ RestartP3

LoseP3 == LoseFrame /\ UNCHANGED added

NextP3 == StartP3 \/ MainP3 \/ ReceiveP3 \/ LoseP3 \/ ModuleP3

SpecP3     == InitP3 /\ [][NextP3]_allVars
FairSpecP3 == SpecP3 /\ WF_allVars(MainP3)

-----------------------------------------------------------------------------
(* Type correctness of what the driver adds to the core.                   *)
TypeOKP3 ==
    /\ TypeOK
    /\ bleState \in {"Idle", "Connected", "ChannelOpen"}
    /\ getDevicesP \in {"NULL", "caller"}
    /\ listed \subseteq Nat
    /\ mode \in {"Idle", "Connected", "ChannelOpen", "DTM"}

(* The interrupt writes through getDevicesP, so it may point to the        *)
(* caller's structure only while GetDevices has not returned.              *)
DevicesPointerSafe == getDevicesP # "NULL" => call.op = "GetDevices"

(* GetDevices returned true: the structure was filled during this call.    *)
DevicesFilled ==
    returned.op = "GetDevices" /\ returned.ok /\ ~Running => listed # {}

(* After a call of GetDevices the caller's structure holds the answer to   *)
(* this call, or no device at all.                                         *)
DevicesOwn == returned.op = "GetDevices" /\ ~Running => listed \subseteq asked

(* When the driver is in use and nothing is under way from the module,     *)
(* ProteusIII_GetDriverState says what the link really is.                 *)
Known(m)   == IF m = "DTM" THEN "Idle" ELSE m
LinkAgrees ==
    ready /\ uartOpen /\ line = <<>> /\ ~AboutState => bleState = Known(mode)
=============================================================================
