------------------------------- MODULE Proteus -------------------------------
(***************************************************************************)
(* The Bluetooth LE drivers with one link, as tables over the core of      *)
(* CommandDriver: the steps of their functions, what HandleRxPacket        *)
(* records, and how the module answers. The definitions are those of       *)
(* ProteusIII.c; what ProteusII.c and ProteusE.c leave out and add is at   *)
(* the end.                                                                *)
(***************************************************************************)
EXTENDS DriverSteps, Functions, TLC

(* The functions. One step is one call that can fail, be interrupted or    *)
(* change state. Parameter checks that return false at once and the plain  *)
(* wrappers of Get and CheckNSet have no steps of their own.               *)

(* A request the module answers by restarting: it reports its state then.  *)
Rebooting(req)   == Request(req, "GETSTATE_CNF", "NoStatus")

Reset              == Rebooting("RESET_REQ")
FactoryReset       == Rebooting("FACTORYRESET_REQ")
Disconnect         == Simple("DISCONNECT_REQ", "DISCONNECT_CNF")
Sleep              == Simple("SLEEP_REQ", "SLEEP_CNF")
UartDisable        == Simple("UART_DISABLE_REQ", "UART_DISABLE_CNF")
ScanStart          == Simple("SCANSTART_REQ", "SCANSTART_CNF")
ScanStop           == Simple("SCANSTOP_REQ", "SCANSTOP_CNF")
Connect            == Simple("CONNECT_REQ", "CONNECT_CNF")
Passkey            == Simple("PASSKEY_REQ", "PASSKEY_CNF")
NumericCompareConfirm == Simple("NUMERIC_COMP_REQ", "NUMERIC_COMP_CNF")
DeleteBonds        == Simple("DELETE_BONDS_REQ", "DELETE_BONDS_CNF")
DeleteBond         == Simple("DELETE_BONDS_REQ", "DELETE_BONDS_CNF")
AllowUnbondedConnections ==
    Simple("ALLOWUNBONDEDCONNECTIONS_REQ", "ALLOWUNBONDEDCONNECTIONS_CNF")
DTMRun             == Simple("DTM_REQ", "DTM_CNF")

(* Those that first ask ProteusIII_GetDriverState.                         *)
PhyUpdate == <<Test("ChannelOpen")>> \o Simple("PHYUPDATE_REQ", "PHYUPDATE_CNF")
SetBeacon == <<Test("Idle")>> \o Simple("SETBEACON_REQ", "SETBEACON_CNF")

TransmitData ==
    <<Test("ChannelOpen")>> \o Simple("DATA_REQ", "DATA_CNF")
                            \o <<Wait("TXCOMPLETE_RSP", "Success")>>

(* Those that hand over what is in rxPacket.                               *)
Get      == Simple("GET_REQ", "GET_CNF") \o <<Read>>
GetState == Rebooting("GETSTATE_REQ") \o <<Read>>
GetBonds == Simple("GET_BONDS_REQ", "GET_BONDS_CNF") \o <<Read>>

(* The GPIO functions are requests of the same two forms.                  *)
GPIOLocalWriteConfig  == Simple("GPIO_LOCAL_WRITECONFIG_REQ", "GPIO_LOCAL_WRITECONFIG_CNF")
GPIOLocalReadConfig   == Simple("GPIO_LOCAL_READCONFIG_REQ", "GPIO_LOCAL_READCONFIG_CNF") \o <<Read>>
GPIOLocalWrite        == Simple("GPIO_LOCAL_WRITE_REQ", "GPIO_LOCAL_WRITE_CNF")
GPIOLocalRead         == Simple("GPIO_LOCAL_READ_REQ", "GPIO_LOCAL_READ_CNF") \o <<Read>>
GPIORemoteWriteConfig == Simple("GPIO_REMOTE_WRITECONFIG_REQ", "GPIO_REMOTE_WRITECONFIG_CNF")
GPIORemoteReadConfig  == Simple("GPIO_REMOTE_READCONFIG_REQ", "GPIO_REMOTE_READCONFIG_CNF") \o <<Read>>
GPIORemoteWrite       == Simple("GPIO_REMOTE_WRITE_REQ", "GPIO_REMOTE_WRITE_CNF")
GPIORemoteRead        == Simple("GPIO_REMOTE_READ_REQ", "GPIO_REMOTE_READ_CNF") \o <<Read>>

(* The module confirms the new setting, then restarts with it.             *)
SetSetting == Simple("SET_REQ", "SET_CNF") \o <<Wait("GETSTATE_CNF", "NoStatus")>>

(* The value read differs from the wanted one; CheckEqual: it is equal.    *)
CheckNSet  == Get \o SetSetting
CheckEqual == Get

DTMEnable  == Rebooting("DTMSTART_REQ") \o <<Check("DTM")>>

(* Mutants of GetDevices: a failure returns at once; the pointer is set    *)
(* only when the answer has come.                                          *)
GetDevicesLeaving ==
    <<Set("devicesP")>> \o Simple("GETDEVICES_REQ", "GETDEVICES_CNF") \o <<Set("NULL")>>
GetDevicesTooLate ==
    Simple("GETDEVICES_REQ", "GETDEVICES_CNF") \o <<Set("devicesP"), Set("NULL")>>

(* getDevicesP is NULL again on the way out, whether or not a step failed. *)
GetDevices ==
    LET ask == Simple("GETDEVICES_REQ", "GETDEVICES_CNF")
    IN  <<Set("devicesP")>> \o OrElse(ask, Len(ask) + 2) \o <<Set("NULL")>>

(* The pins. Lowering a wake-up pin only prepares the edge that counts.    *)
PinWakeup     == <<Pin>> \o Clear \o <<Send("SLEEP_PIN"), Wait("GETSTATE_CNF", "NoStatus")>>
PinUartEnable == <<Pin>> \o Clear \o <<Send("UART_PIN"), Wait("UART_ENABLE_IND", "Success")>>
PinReset      == <<Hold>> \o Clear \o Rebooting("RESET_PIN")

Deinit == <<Pin>> \o Clear \o <<Close>>

(* A reset that fails leads to Deinit, past the assignments that end Init. *)
StartUp(reset) ==
    <<Pin, Open>> \o OrElse(reset, Len(reset) + 5)
                  \o <<Set("Initial"), Return>> \o Deinit

InitByPin  == StartUp(PinReset)
InitByUart == StartUp(Reset)

Functions ==
    [InitByPin |-> InitByPin, InitByUart |-> InitByUart, Deinit |-> Deinit,
     PinWakeup |-> PinWakeup, PinUartEnable |-> PinUartEnable,
     PinReset |-> PinReset, Reset |-> Reset, Disconnect |-> Disconnect,
     Sleep |-> Sleep, UartDisable |-> UartDisable, Transmit |-> TransmitData,
     SetBeacon |-> SetBeacon, FactoryReset |-> FactoryReset,
     CheckNSet |-> CheckNSet, CheckEqual |-> CheckEqual, Set |-> SetSetting,
     Get |-> Get, GetState |-> GetState, ScanStart |-> ScanStart,
     ScanStop |-> ScanStop, GetDevices |-> GetDevices, Connect |-> Connect,
     Passkey |-> Passkey, NumericCompareConfirm |-> NumericCompareConfirm,
     PhyUpdate |-> PhyUpdate, GPIOLocalWriteConfig |-> GPIOLocalWriteConfig,
     GPIOLocalReadConfig |-> GPIOLocalReadConfig,
     GPIOLocalWrite |-> GPIOLocalWrite, GPIOLocalRead |-> GPIOLocalRead,
     GPIORemoteWriteConfig |-> GPIORemoteWriteConfig,
     GPIORemoteReadConfig |-> GPIORemoteReadConfig,
     GPIORemoteWrite |-> GPIORemoteWrite, GPIORemoteRead |-> GPIORemoteRead,
     GetBonds |-> GetBonds, DeleteBonds |-> DeleteBonds, DeleteBond |-> DeleteBond,
     AllowUnbondedConnections |-> AllowUnbondedConnections,
     DTMEnable |-> DTMEnable, DTMRun |-> DTMRun]

-----------------------------------------------------------------------------
(* HandleRxPacket: what it records, and with which status.                 *)
StatusCommands ==
    {"GETDEVICES_CNF", "RESET_CNF", "SCANSTART_CNF", "SCANSTOP_CNF", "GET_CNF",
     "SET_CNF", "SETBEACON_CNF", "PASSKEY_CNF", "PHYUPDATE_CNF", "CONNECT_CNF",
     "DATA_CNF", "DISCONNECT_CNF", "FACTORYRESET_CNF", "SLEEP_CNF",
     "UART_DISABLE_CNF", "UART_ENABLE_IND", "GPIO_LOCAL_WRITECONFIG_CNF",
     "GPIO_LOCAL_READCONFIG_CNF", "GPIO_LOCAL_WRITE_CNF", "GPIO_LOCAL_READ_CNF",
     "GPIO_REMOTE_WRITECONFIG_CNF", "GPIO_REMOTE_READCONFIG_CNF",
     "GPIO_REMOTE_WRITE_CNF", "GPIO_REMOTE_READ_CNF", "GET_BONDS_CNF",
     "DELETE_BONDS_CNF", "ALLOWUNBONDEDCONNECTIONS_CNF", "TXCOMPLETE_RSP",
     "NUMERIC_COMP_CNF", "DTMSTART_CNF", "DTM_CNF"}
StatuslessCommands == {"GETSTATE_CNF"}
RecordedCommands   == StatusCommands \cup StatuslessCommands

-----------------------------------------------------------------------------
(* The radio module, as far as the driver relies on it: how it grants and  *)
(* refuses each request. It may ignore any of them.                        *)
Ready == Part("GETSTATE_CNF", "")

Replies ==
    [RESET_REQ |-> Then("RESET_CNF", Ready),
     FACTORYRESET_REQ |-> Then("FACTORYRESET_CNF", Ready),
     SET_REQ |-> Then("SET_CNF", Ready),
     DTMSTART_REQ |-> Then("DTMSTART_CNF", Ready),
     DATA_REQ |-> [Then("DATA_CNF", Part("TXCOMPLETE_RSP", "Success")) EXCEPT
                     !.no = @ \cup {<<Part("DATA_CNF", "Success"),
                                      Part("TXCOMPLETE_RSP", "Failed")>>}],
     GETSTATE_REQ |-> Unrefused(Ready),
     RESET_PIN |-> Unrefused(Ready), SLEEP_PIN |-> Unrefused(Ready),
     UART_PIN |-> Unrefused(Part("UART_ENABLE_IND", "Success")),
     DISCONNECT_REQ |-> Plain("DISCONNECT_CNF"), SLEEP_REQ |-> Plain("SLEEP_CNF"),
     UART_DISABLE_REQ |-> Plain("UART_DISABLE_CNF"),
     SETBEACON_REQ |-> Plain("SETBEACON_CNF"), GET_REQ |-> Plain("GET_CNF"),
     SCANSTART_REQ |-> Plain("SCANSTART_CNF"), SCANSTOP_REQ |-> Plain("SCANSTOP_CNF"),
     GETDEVICES_REQ |-> Plain("GETDEVICES_CNF"), CONNECT_REQ |-> Plain("CONNECT_CNF"),
     PASSKEY_REQ |-> Plain("PASSKEY_CNF"),
     NUMERIC_COMP_REQ |-> Plain("NUMERIC_COMP_CNF"),
     PHYUPDATE_REQ |-> Plain("PHYUPDATE_CNF"),
     GPIO_LOCAL_WRITECONFIG_REQ |-> Plain("GPIO_LOCAL_WRITECONFIG_CNF"),
     GPIO_LOCAL_READCONFIG_REQ |-> Plain("GPIO_LOCAL_READCONFIG_CNF"),
     GPIO_LOCAL_WRITE_REQ |-> Plain("GPIO_LOCAL_WRITE_CNF"),
     GPIO_LOCAL_READ_REQ |-> Plain("GPIO_LOCAL_READ_CNF"),
     GPIO_REMOTE_WRITECONFIG_REQ |-> Plain("GPIO_REMOTE_WRITECONFIG_CNF"),
     GPIO_REMOTE_READCONFIG_REQ |-> Plain("GPIO_REMOTE_READCONFIG_CNF"),
     GPIO_REMOTE_WRITE_REQ |-> Plain("GPIO_REMOTE_WRITE_CNF"),
     GPIO_REMOTE_READ_REQ |-> Plain("GPIO_REMOTE_READ_CNF"),
     GET_BONDS_REQ |-> Plain("GET_BONDS_CNF"),
     DELETE_BONDS_REQ |-> Plain("DELETE_BONDS_CNF"),
     ALLOWUNBONDEDCONNECTIONS_REQ |-> Plain("ALLOWUNBONDEDCONNECTIONS_CNF"),
     DTM_REQ |-> Plain("DTM_CNF")]

-----------------------------------------------------------------------------
(* Proteus-II always resets by pin and has no GPIO functions.              *)
GpioFunctions ==
    {"GPIOLocalWriteConfig", "GPIOLocalReadConfig", "GPIOLocalWrite", "GPIOLocalRead",
     "GPIORemoteWriteConfig", "GPIORemoteReadConfig", "GPIORemoteWrite", "GPIORemoteRead"}
GpioCommands ==
    {"GPIO_LOCAL_WRITECONFIG_CNF", "GPIO_LOCAL_READCONFIG_CNF", "GPIO_LOCAL_WRITE_CNF",
     "GPIO_LOCAL_READ_CNF", "GPIO_REMOTE_WRITECONFIG_CNF", "GPIO_REMOTE_READCONFIG_CNF",
     "GPIO_REMOTE_WRITE_CNF", "GPIO_REMOTE_READ_CNF"}

FunctionsII ==
    Restrict(Functions, DOMAIN Functions
                          \ (GpioFunctions \cup {"InitByUart", "AllowUnbondedConnections"}))
RecordedII ==
    RecordedCommands \ (GpioCommands \cup {"ALLOWUNBONDEDCONNECTIONS_CNF"})

(* Proteus-e is a peripheral only: it neither scans nor connects, and has  *)
(* neither beacons nor a pin to wake it up. Its settings may be changed in *)
(* RAM, without a restart.                                                 *)
CentralFunctions ==
    {"ScanStart", "ScanStop", "GetDevices", "Connect", "Passkey",
     "NumericCompareConfirm", "SetBeacon", "PinWakeup", "InitByUart"}
CentralCommands ==
    {"SCANSTART_CNF", "SCANSTOP_CNF", "GETDEVICES_CNF", "CONNECT_CNF", "PASSKEY_CNF",
     "NUMERIC_COMP_CNF", "SETBEACON_CNF"}

SetRAM == Simple("SET_RAM_REQ", "SET_RAM_CNF")
GetRAM == Simple("GET_RAM_REQ", "GET_RAM_CNF") \o <<Read>>

FunctionsE ==
    [SetRAM |-> SetRAM, GetRAM |-> GetRAM]
      @@ Restrict(Functions, DOMAIN Functions \ CentralFunctions)
RecordedE ==
    (RecordedCommands \ CentralCommands) \cup {"SET_RAM_CNF", "GET_RAM_CNF"}
RepliesE ==
    [SET_RAM_REQ |-> Plain("SET_RAM_CNF"), GET_RAM_REQ |-> Plain("GET_RAM_CNF")]
      @@ Replies

(* Links come and go, data arrives; HandleRxPacket records none of it.     *)
Unasked == {Part("CONNECT_IND", "Success"), Part("DATA_IND", "")}
=============================================================================
