------------------------------- MODULE Thyone -------------------------------
(***************************************************************************)
(* The Thyone-I driver (mesh radio) as a table over the core of            *)
(* CommandDriver. ThyoneE.c is the same but for the pin that wakes the     *)
(* module up and some settings.                                            *)
(***************************************************************************)
EXTENDS DriverSteps, Functions

(* A request the module answers by restarting.                             *)
Restarting(req) == Request(req, "START_IND", "NoStatus")

Reset        == Restarting("RESET_REQ")
FactoryReset == Restarting("FACTORYRESET_REQ")
Sleep        == Simple("SLEEP_REQ", "SLEEP_CNF")
SetRam       == Simple("SETRAM_REQ", "SETRAM_CNF")
GetRam       == Simple("GETRAM_REQ", "GETRAM_CNF") \o <<Read>>
Get          == Simple("GET_REQ", "GET_CNF") \o <<Read>>
GetState     == Simple("GETSTATE_REQ", "GETSTATE_CNF") \o <<Read>>
SetRFChannelRuntime == Simple("SETCHANNEL_REQ", "SETCHANNEL_CNF")
SetSetting   == Simple("SET_REQ", "SET_CNF") \o <<Wait("START_IND", "NoStatus")>>

Update(differs) == Get \o (IF differs THEN SetSetting ELSE <<>>)
CheckNSet       == Update(TRUE)
CheckEqual      == Update(FALSE)

(* The five ways to send.                                                  *)
Sending(req) == Simple(req, "DATA_CNF") \o <<Wait("TXCOMPLETE_RSP", "Success")>>
TransmitBroadcast         == Sending("BROADCAST_DATA_REQ")
TransmitMulticast         == Sending("MULTICAST_DATA_REQ")
TransmitUnicast           == Sending("UNICAST_DATA_REQ")
TransmitMulticastExtended == Sending("MULTICAST_DATA_EX_REQ")
TransmitUnicastExtended   == Sending("UNICAST_DATA_EX_REQ")

(* The pins of the module, and those of another module of the mesh: of     *)
(* what it reads there the other module's answer is awaited, not the       *)
(* confirmation before it.                                                 *)
GPIOLocalSetConfig  == Simple("GPIO_LOCAL_SETCONFIG_REQ", "GPIO_LOCAL_SETCONFIG_CNF")
GPIOLocalGetConfig  == Simple("GPIO_LOCAL_GETCONFIG_REQ", "GPIO_LOCAL_GETCONFIG_CNF") \o <<Read>>
GPIOLocalWrite      == Simple("GPIO_LOCAL_WRITE_REQ", "GPIO_LOCAL_WRITE_CNF")
GPIOLocalRead       == Simple("GPIO_LOCAL_READ_REQ", "GPIO_LOCAL_READ_CNF") \o <<Read>>
GPIORemoteSetConfig == Simple("GPIO_REMOTE_SETCONFIG_REQ", "GPIO_REMOTE_SETCONFIG_CNF")
GPIORemoteWrite     == Simple("GPIO_REMOTE_WRITE_REQ", "GPIO_REMOTE_WRITE_CNF")
GPIORemoteGetConfig ==
    Request("GPIO_REMOTE_GETCONFIG_REQ", "GPIO_REMOTE_GETCONFIG_RSP", "NoStatus") \o <<Read>>
GPIORemoteRead      ==
    Request("GPIO_REMOTE_READ_REQ", "GPIO_REMOTE_READ_RSP", "NoStatus") \o <<Read>>

PinWakeup == <<Pin>> \o Clear \o <<Send("SLEEP_PIN"), Wait("START_IND", "NoStatus")>>
PinReset  == <<Hold>> \o Restarting("RESET_PIN")
Deinit    == <<Pin, Close>>

(* A reset that fails leads to Deinit.                                     *)
StartUp(reset) ==
    <<Pin, Open>> \o OrElse(reset, Len(reset) + 4) \o <<Return>> \o Deinit
InitByPin  == StartUp(PinReset)
InitByUart == StartUp(Reset)

Functions ==
    [InitByPin |-> InitByPin, InitByUart |-> InitByUart, Deinit |-> Deinit,
     PinWakeup |-> PinWakeup, PinReset |-> PinReset, Reset |-> Reset,
     FactoryReset |-> FactoryReset, Sleep |-> Sleep, SetRam |-> SetRam,
     GetRam |-> GetRam, Get |-> Get, GetState |-> GetState, Set |-> SetSetting,
     CheckNSet |-> CheckNSet, CheckEqual |-> CheckEqual,
     SetRFChannelRuntime |-> SetRFChannelRuntime,
     TransmitBroadcast |-> TransmitBroadcast, TransmitMulticast |-> TransmitMulticast,
     TransmitUnicast |-> TransmitUnicast,
     TransmitMulticastExtended |-> TransmitMulticastExtended,
     TransmitUnicastExtended |-> TransmitUnicastExtended,
     GPIOLocalSetConfig |-> GPIOLocalSetConfig, GPIOLocalGetConfig |-> GPIOLocalGetConfig,
     GPIOLocalWrite |-> GPIOLocalWrite, GPIOLocalRead |-> GPIOLocalRead,
     GPIORemoteSetConfig |-> GPIORemoteSetConfig, GPIORemoteWrite |-> GPIORemoteWrite,
     GPIORemoteGetConfig |-> GPIORemoteGetConfig, GPIORemoteRead |-> GPIORemoteRead]

(* Thyone-e has no pin to wake it up and always resets by pin.             *)
FunctionsE == Restrict(Functions, DOMAIN Functions \ {"PinWakeup", "InitByUart"})

(* HandleRxPacket.                                                         *)
StatuslessCommands == {"RESET_CNF", "START_IND", "GPIO_REMOTE_GETCONFIG_RSP", "GPIO_REMOTE_READ_RSP"}
RecordedCommands ==
    StatuslessCommands \cup
    {"DATA_CNF", "TXCOMPLETE_RSP", "GETSTATE_CNF", "GET_CNF", "SET_CNF", "GETRAM_CNF",
     "SETRAM_CNF", "SETCHANNEL_CNF", "FACTORYRESET_CNF", "SLEEP_CNF",
     "GPIO_LOCAL_SETCONFIG_CNF", "GPIO_LOCAL_GETCONFIG_CNF", "GPIO_LOCAL_WRITE_CNF",
     "GPIO_LOCAL_READ_CNF", "GPIO_REMOTE_SETCONFIG_CNF", "GPIO_REMOTE_GETCONFIG_CNF",
     "GPIO_REMOTE_WRITE_CNF", "GPIO_REMOTE_READ_CNF"}

Started == Part("START_IND", "")
(* The other module may not answer what this one has confirmed.            *)
FromAfar(cnf, last) ==
    [Then(cnf, last) EXCEPT !.no = @ \cup {<<Part(cnf, "Success")>>}]
(* Of GPIO_REMOTE_READ_CNF the handler records CMD_Status_Invalid,         *)
(* whatever the frame says.                                                *)
UnreadStatus(reply) ==
    LET Blank(frames) == [i \in DOMAIN frames |->
            IF frames[i].cmd = "GPIO_REMOTE_READ_CNF"
            THEN [frames[i] EXCEPT !.status = "Invalid"] ELSE frames[i]]
    IN  [yes |-> Blank(reply.yes), no |-> {Blank(no) : no \in reply.no}]
Sent == FromAfar("DATA_CNF", Part("TXCOMPLETE_RSP", "Success"))
Replies ==
    [RESET_REQ |-> Then("RESET_CNF", Started),
     FACTORYRESET_REQ |-> Then("FACTORYRESET_CNF", Started),
     SET_REQ |-> Then("SET_CNF", Started),
     RESET_PIN |-> Unrefused(Started), SLEEP_PIN |-> Unrefused(Started),
     BROADCAST_DATA_REQ |-> Sent, MULTICAST_DATA_REQ |-> Sent, UNICAST_DATA_REQ |-> Sent,
     MULTICAST_DATA_EX_REQ |-> Sent, UNICAST_DATA_EX_REQ |-> Sent,
     SLEEP_REQ |-> Plain("SLEEP_CNF"), SETRAM_REQ |-> Plain("SETRAM_CNF"),
     GETRAM_REQ |-> Plain("GETRAM_CNF"), GET_REQ |-> Plain("GET_CNF"),
     GETSTATE_REQ |-> Plain("GETSTATE_CNF"), SETCHANNEL_REQ |-> Plain("SETCHANNEL_CNF"),
     GPIO_LOCAL_SETCONFIG_REQ |-> Plain("GPIO_LOCAL_SETCONFIG_CNF"),
     GPIO_LOCAL_GETCONFIG_REQ |-> Plain("GPIO_LOCAL_GETCONFIG_CNF"),
     GPIO_LOCAL_WRITE_REQ |-> Plain("GPIO_LOCAL_WRITE_CNF"),
     GPIO_LOCAL_READ_REQ |-> Plain("GPIO_LOCAL_READ_CNF"),
     GPIO_REMOTE_SETCONFIG_REQ |-> Plain("GPIO_REMOTE_SETCONFIG_CNF"),
     GPIO_REMOTE_WRITE_REQ |-> Plain("GPIO_REMOTE_WRITE_CNF"),
     GPIO_REMOTE_GETCONFIG_REQ |->
        FromAfar("GPIO_REMOTE_GETCONFIG_CNF", Part("GPIO_REMOTE_GETCONFIG_RSP", "")),
     GPIO_REMOTE_READ_REQ |->
        UnreadStatus(FromAfar("GPIO_REMOTE_READ_CNF", Part("GPIO_REMOTE_READ_RSP", "")))]
Unasked == {Part("DATA_IND", "")}
=============================================================================
