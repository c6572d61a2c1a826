------------------------------- MODULE MetisE -------------------------------
(***************************************************************************)
(* The Metis-e driver (wireless M-Bus) as a table over the core of         *)
(* CommandDriver. HandleRxPacket records every frame, data indications     *)
(* too: two of them fill the array before a confirmation arrives.          *)
(***************************************************************************)
EXTENDS DriverSteps

(* A request the module answers by restarting.                             *)
Restarting(req) == Request(req, "RESET_IND", "Success")

Reset        == Restarting("RESET_REQ")
FactoryReset == Restarting("FACTORY_RESET_REQ")
Standby      == Simple("STANDBY_REQ", "STANDBY_CNF")
Shutdown     == Simple("SHUTDOWN_REQ", "SHUTDOWN_CNF")
ReceiveStart == Simple("RXSTART_REQ", "RXSTART_CNF")
ReceiveStop  == Simple("RXSTOP_REQ", "RXSTOP_CNF")
TransmitData == Simple("DATAEX_REQ", "DATAEX_CNF")

(* From flash and in RAM. What the caller is given is looked for in        *)
(* rxPacket and may not be there.                                          *)
GetDefault == Simple("GET_REQ", "GET_CNF") \o <<Test("option"), Read>>
GetRuntime == Simple("GET_RAM_REQ", "GET_RAM_CNF") \o <<Test("option"), Read>>
SetDefault == Simple("SET_REQ", "SET_CNF")
SetRuntime == Simple("SET_RAM_REQ", "SET_RAM_CNF")

Update(differs) == GetDefault \o (IF differs THEN SetDefault ELSE <<>>)
CheckNSet       == Update(TRUE)
CheckEqual      == Update(FALSE)

PinWakeup == <<Pin>> \o Clear \o <<Send("WAKEUP_PIN"), Wait("RESET_IND", "Success")>>
PinReset  == <<Hold>> \o Request("RESET_PIN", "RESET_IND", "Success")

(* A factory reset if wanted, then each setting as CheckNSet, except that  *)
(* a length that does not match ends it. (Before the first setting is read *)
(* the length compared is uninitialized: any outcome.)                     *)
Configure(factory, differs) ==
    (IF factory THEN FactoryReset ELSE <<>>)
      \o GetDefault \o <<Test("length")>>
      \o (IF differs THEN SetDefault ELSE <<>>) \o PinReset

(* Init only opens the UART: it neither resets the module nor waits.       *)
StartUp == <<Pin, Open>>
Deinit  == <<Pin, Close>>

Functions ==
    [Init |-> StartUp, Deinit |-> Deinit, PinWakeup |-> PinWakeup,
     PinReset |-> PinReset, Reset |-> Reset, FactoryReset |-> FactoryReset,
     Standby |-> Standby, Shutdown |-> Shutdown, GetDefault |-> GetDefault,
     Get |-> GetRuntime, CheckNSet |-> CheckNSet, CheckEqual |-> CheckEqual,
     SetDefault |-> SetDefault, Set |-> SetRuntime,
     ReceiveStart |-> ReceiveStart, ReceiveStop |-> ReceiveStop,
     Transmit |-> TransmitData, Configure |-> Configure(FALSE, TRUE),
     ConfigureAfterReset |-> Configure(TRUE, FALSE)]

(* HandleRxPacket: whatever the command.                                   *)
RecordedCommands ==
    {"RESET_IND", "STANDBY_IND", "DATAEX_IND", "GET_CNF", "GET_RAM_CNF", "SET_CNF",
     "SET_RAM_CNF", "FACTORY_RESET_CNF", "RESET_CNF", "SHUTDOWN_CNF", "STANDBY_CNF",
     "DATAEX_CNF", "RXSTART_CNF", "RXSTOP_CNF"}
StatuslessCommands == {}

Started == Part("RESET_IND", "Success")
Replies ==
    [RESET_REQ |-> Then("RESET_CNF", Started),
     FACTORY_RESET_REQ |-> Then("FACTORY_RESET_CNF", Started),
     WAKEUP_PIN |-> Unrefused(Started), RESET_PIN |-> Unrefused(Started),
     STANDBY_REQ |-> Plain("STANDBY_CNF"), SHUTDOWN_REQ |-> Plain("SHUTDOWN_CNF"),
     RXSTART_REQ |-> Plain("RXSTART_CNF"), RXSTOP_REQ |-> Plain("RXSTOP_CNF"),
     DATAEX_REQ |-> Plain("DATAEX_CNF"), GET_REQ |-> Plain("GET_CNF"),
     GET_RAM_REQ |-> Plain("GET_RAM_CNF"), SET_REQ |-> Plain("SET_CNF"),
     SET_RAM_REQ |-> Plain("SET_RAM_CNF")]
Unasked == {Part("DATAEX_IND", "Success")}
=============================================================================
