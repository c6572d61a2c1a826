------------------------------ MODULE ProteusIV ------------------------------
(***************************************************************************)
(* The Proteus-IV driver (Bluetooth LE with several connections) as a      *)
(* table over the core of CommandDriver. What it keeps beside the core is  *)
(* in ProteusIVLinks.                                                      *)
(***************************************************************************)
EXTENDS DriverSteps

Started == Wait("STARTUP_IND", "Success")

(* The module confirms, restarts and says so.                              *)
Restarting(req, cnf) == Simple(req, cnf) \o <<Started>>
Reset        == Restarting("RESET_REQ", "RESET_CNF")
FactoryReset == Restarting("FACTORYRESET_REQ", "FACTORYRESET_CNF")

(* A setting that differs; the setting of the UART, after which the module *)
(* is not understood any more; a value that the setting has already.       *)
SetSetting   == Restarting("SET_REQ", "SET_CNF")
SetUart      == Simple("SET_UART_REQ", "SET_CNF")
SetEqual     == Request("SET_EQUAL_REQ", "SET_CNF", "Failed_3")

Disconnect   == Simple("DISCONNECT_REQ", "DISCONNECT_CNF")
Sleep        == Simple("SLEEP_REQ", "SLEEP_CNF")
UartDisable  == Simple("UARTDISABLE_REQ", "UARTDISABLE_CNF")
TransmitData == Simple("DATA_REQ", "DATA_CNF")
SetRAM       == Simple("SETRAM_REQ", "SETRAM_CNF")
AdvertisingStart == Simple("ADVERTISING_REQ", "ADVERTISING_CNF")
AdvertisingStop  == Simple("ADVERTISING_REQ", "ADVERTISING_CNF")
Connect      == Simple("CONNECT_REQ", "CONNECT_CNF")
Passkey      == Simple("PASSKEY_REQ", "PASSKEY_CNF")
NumericCompareConfirm == Simple("NUMERIC_COMP_REQ", "NUMERIC_COMP_CNF")
PhyUpdate    == Simple("PHYUPDATE_REQ", "PHYUPDATE_CNF")
DeleteBonds  == Simple("DELETEBONDS_REQ", "DELETEBONDS_CNF")
DeleteBond   == Simple("DELETEBONDS_REQ", "DELETEBONDS_CNF")
Get          == Simple("GET_REQ", "GET_CNF") \o <<Read>>
GetRAM       == Simple("GETRAM_REQ", "GETRAM_CNF") \o <<Read>>
GetState     == Simple("GETSTATE_REQ", "GETSTATE_CNF") \o <<Read>>

(* What the interrupt is to fill, and how long.                            *)
Lending(pointer, ask) ==
    <<Set(pointer)>> \o OrElse(ask, Len(ask) + 2) \o <<Set(pointer \o " NULL")>>

GetConnectionInfo ==
    Lending("info", Simple("CONNECTIONINFO_REQ", "CONNECTIONINFO_CNF"))
GetBonds == Lending("bonds", Simple("GETBONDS_REQ", "GETBONDS_CNF"))

(* A scan that has begun keeps the caller's list until it is stopped.      *)
ScanStart ==
    LET ask == Simple("SCAN_START_REQ", "SCAN_CNF")
    IN  <<Set("scan")>> \o OrElse(ask, Len(ask) + 3) \o <<Return, Set("scan NULL")>>
ScanStop == Simple("SCAN_STOP_REQ", "SCAN_CNF") \o <<Set("scan count"), Set("scan over")>>

PinReset      == <<Hold>> \o Clear \o Request("RESET_PIN", "STARTUP_IND", "Success")
UartPinEnable == Clear \o <<Pin, Send("UART_PIN"), Wait("UARTENABLE_IND", "Success")>>
Deinit        == <<Pin>> \o Clear \o <<Close>>

StartUp(reset) ==
    <<Pin, Open, Set("connections")>> \o OrElse(reset, Len(reset) + 6)
      \o <<Set("pointers"), Return>> \o Deinit
InitByPin  == StartUp(PinReset)
InitByUart == StartUp(Reset)

Functions ==
    [InitByPin |-> InitByPin, InitByUart |-> InitByUart, Deinit |-> Deinit,
     PinReset |-> PinReset, UartPinEnable |-> UartPinEnable, Reset |-> Reset,
     FactoryReset |-> FactoryReset, Set |-> SetSetting, SetUart |-> SetUart,
     SetEqual |-> SetEqual, Disconnect |-> Disconnect, Sleep |-> Sleep,
     UartDisable |-> UartDisable, Transmit |-> TransmitData, Get |-> Get,
     GetRAM |-> GetRAM, SetRAM |-> SetRAM, GetState |-> GetState,
     ScanStart |-> ScanStart, ScanStop |-> ScanStop,
     AdvertisingStart |-> AdvertisingStart, AdvertisingStop |-> AdvertisingStop,
     GetConnectionInfo |-> GetConnectionInfo, Connect |-> Connect,
     Passkey |-> Passkey, NumericCompareConfirm |-> NumericCompareConfirm,
     PhyUpdate |-> PhyUpdate, GetBonds |-> GetBonds, DeleteBonds |-> DeleteBonds,
     DeleteBond |-> DeleteBond]

(* HandleRxPacket. Every confirmation has a status here.                   *)
RecordedCommands ==
    {"CONNECTIONINFO_CNF", "GETBONDS_CNF", "RESET_CNF", "SCAN_CNF", "ADVERTISING_CNF",
     "GET_CNF", "SET_CNF", "GETRAM_CNF", "SETRAM_CNF", "PASSKEY_CNF", "PHYUPDATE_CNF",
     "CONNECT_CNF", "DATA_CNF", "DISCONNECT_CNF", "DELETEBONDS_CNF",
     "FACTORYRESET_CNF", "SLEEP_CNF", "TXCOMPLETE_RSP", "NUMERIC_COMP_CNF",
     "GETSTATE_CNF", "UARTDISABLE_CNF", "UARTENABLE_IND", "STARTUP_IND"}
StatuslessCommands == {}

Startup == Part("STARTUP_IND", "Success")
Replies ==
    [RESET_REQ |-> Then("RESET_CNF", Startup),
     FACTORYRESET_REQ |-> Then("FACTORYRESET_CNF", Startup),
     SET_REQ |-> Then("SET_CNF", Startup), SET_UART_REQ |-> Plain("SET_CNF"),
     SET_EQUAL_REQ |-> [Plain("SET_CNF") EXCEPT !.yes = <<Part("SET_CNF", "Failed_3")>>],
     RESET_PIN |-> Unrefused(Startup),
     UART_PIN |-> Unrefused(Part("UARTENABLE_IND", "Success")),
     DATA_REQ |-> Then("DATA_CNF", Part("TXCOMPLETE_RSP", "Success")),
     DISCONNECT_REQ |-> Plain("DISCONNECT_CNF"), SLEEP_REQ |-> Plain("SLEEP_CNF"),
     UARTDISABLE_REQ |-> Plain("UARTDISABLE_CNF"), GET_REQ |-> Plain("GET_CNF"),
     GETRAM_REQ |-> Plain("GETRAM_CNF"), SETRAM_REQ |-> Plain("SETRAM_CNF"),
     GETSTATE_REQ |-> Plain("GETSTATE_CNF"), SCAN_START_REQ |-> Plain("SCAN_CNF"),
     SCAN_STOP_REQ |-> Plain("SCAN_CNF"), ADVERTISING_REQ |-> Plain("ADVERTISING_CNF"),
     CONNECTIONINFO_REQ |-> Plain("CONNECTIONINFO_CNF"), CONNECT_REQ |-> Plain("CONNECT_CNF"),
     PASSKEY_REQ |-> Plain("PASSKEY_CNF"), NUMERIC_COMP_REQ |-> Plain("NUMERIC_COMP_CNF"),
     PHYUPDATE_REQ |-> Plain("PHYUPDATE_CNF"), GETBONDS_REQ |-> Plain("GETBONDS_CNF"),
     DELETEBONDS_REQ |-> Plain("DELETEBONDS_CNF")]
Unasked == {Part("CONNECT_IND", "")}
=============================================================================
