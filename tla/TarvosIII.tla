------------------------------ MODULE TarvosIII ------------------------------
(***************************************************************************)
(* The Tarvos-III driver as a table over the core of CommandDriver: the    *)
(* steps of its functions, what HandleRxPacket records, and how the module *)
(* answers. TarvosE.c, ThebeII.c, ThemistoI.c and TelestoIII.c differ from *)
(* TarvosIII.c in names, value ranges, comments and the bytes of the ping  *)
(* command only: the table is theirs, too.                                 *)
(***************************************************************************)
EXTENDS DriverSteps

Reset        == Simple("RESET_REQ", "RESET_CNF")
FactoryReset == Simple("FACTORY_RESET_REQ", "FACTORY_RESET_CNF")
Standby      == Simple("STANDBY_REQ", "STANDBY_CNF")
Shutdown     == Simple("SHUTDOWN_REQ", "SHUTDOWN_CNF")
Get          == Simple("GET_REQ", "GET_CNF") \o <<Read>>
SetSetting   == Simple("SET_REQ", "SET_CNF")
TransmitData == Simple("DATA_REQ", "DATA_CNF")
TransmitExtended     == Simple("DATAEX_REQ", "DATA_CNF")
SetVolatileDestNetID == Simple("SET_DESTNETID_REQ", "SET_DESTNETID_CNF")
SetVolatileDestAddr  == Simple("SET_DESTADDR_REQ", "SET_DESTADDR_CNF")
Ping                 == Simple("PINGDUT_REQ", "PINGDUT_CNF")

(* The setting read differs from the wanted value, or is equal.            *)
Update(differs) == Get \o (IF differs THEN SetSetting ELSE <<>>)

CheckNSet  == Update(TRUE)
CheckEqual == Update(FALSE)

(* The value asked for is noted for HandleRxPacket to compare with the one *)
(* the module confirms, and forgotten after the wait (not when the request *)
(* cannot be transmitted).                                                 *)
Volatile(variable, req, cnf) ==
    LET cleared == 2 + Len(Clear)
        invalid == cleared + 2
    IN  <<Set(variable), Send(req)>> \o Clear
          \o OrElse(<<Wait(cnf, "Success")>>, invalid) \o <<Set("INVALID")>>

SetVolatileTXPower == Volatile("powerVolatile", "SET_PAPOWER_REQ", "SET_PAPOWER_CNF")
SetVolatileChannel == Volatile("channelVolatile", "SET_CHANNEL_REQ", "SET_CHANNEL_CNF")

(* Sniffer mode on, then repeater mode off, each if it is not so already.  *)
EnableSnifferMode(cfgDiffers, rpDiffers) == Update(cfgDiffers) \o Update(rpDiffers)

(* Raising the wake-up pin only prepares the edge that counts. The module  *)
(* tells by its indication what it woke up from.                           *)
PinWakeup(standby) ==
    <<Pin>> \o Clear
      \o (IF standby THEN <<Send("STANDBY_PIN"), Wait("STANDBY_IND", "Success")>>
                     ELSE <<Send("SHUTDOWN_PIN"), Wait("RESET_IND", "Success")>>)
PinReset == <<Hold>> \o Request("RESET_PIN", "RESET_IND", "Success")

(* A factory reset if wanted, then each setting as CheckNSet, except that  *)
(* a length that does not match ends it.                                   *)
Configure(factory, differs) ==
    (IF factory THEN FactoryReset ELSE <<>>)
      \o Get \o <<Test("length")>>
      \o (IF differs THEN SetSetting ELSE <<>>) \o PinReset

Deinit == <<Pin, Close>>

StartUp == <<Pin, Open>> \o OrElse(PinReset, Len(PinReset) + 4) \o <<Return>> \o Deinit

Functions ==
    [Init |-> StartUp, Deinit |-> Deinit,
     WakeFromStandby |-> PinWakeup(TRUE), WakeFromShutdown |-> PinWakeup(FALSE),
     PinReset |-> PinReset, Reset |-> Reset, FactoryReset |-> FactoryReset,
     Standby |-> Standby, Shutdown |-> Shutdown, Get |-> Get,
     CheckNSet |-> CheckNSet, CheckEqual |-> CheckEqual, Set |-> SetSetting,
     EnableSniffer |-> EnableSnifferMode(TRUE, FALSE),
     EnableSnifferOnly |-> EnableSnifferMode(TRUE, TRUE),
     SnifferEnabled |-> EnableSnifferMode(FALSE, FALSE),
     SetVolatile_TXPower |-> SetVolatileTXPower,
     SetVolatile_Channel |-> SetVolatileChannel,
     SetVolatile_DestNetID |-> SetVolatileDestNetID,
     SetVolatile_DestAddr |-> SetVolatileDestAddr,
     Transmit |-> TransmitData, Transmit_Extended |-> TransmitExtended,
     Ping |-> Ping, Configure |-> Configure(FALSE, TRUE),
     ConfigureAfterReset |-> Configure(TRUE, FALSE)]

(* HandleRxPacket. The status of SET_CHANNEL_CNF and SET_PAPOWER_CNF is    *)
(* whether the value confirmed is the one asked for.                       *)
RecordedCommands ==
    {"RESET_IND", "STANDBY_IND", "FACTORY_RESET_CNF", "RESET_CNF", "SHUTDOWN_CNF",
     "STANDBY_CNF", "DATA_CNF", "GET_CNF", "SET_DESTADDR_CNF", "SET_DESTNETID_CNF",
     "SET_CNF", "SET_CHANNEL_CNF", "SET_PAPOWER_CNF", "PINGDUT_CNF"}
StatuslessCommands == {}

(* The module: it says RESET_IND when it has started.                      *)
Started     == Part("RESET_IND", "Success")
StandbyOver == Part("STANDBY_IND", "Success")
Replies ==
    [RESET_REQ |-> Then("RESET_CNF", Started),
     FACTORY_RESET_REQ |-> Then("FACTORY_RESET_CNF", Started),
     RESET_PIN |-> Unrefused(Started),
     SHUTDOWN_PIN |-> [yes |-> <<Started>>, no |-> {<<>>, <<StandbyOver>>}],
     STANDBY_PIN |-> [yes |-> <<StandbyOver>>, no |-> {<<>>, <<Started>>}],
     STANDBY_REQ |-> Plain("STANDBY_CNF"), SHUTDOWN_REQ |-> Plain("SHUTDOWN_CNF"),
     GET_REQ |-> Plain("GET_CNF"), SET_REQ |-> Plain("SET_CNF"),
     DATA_REQ |-> Plain("DATA_CNF"), DATAEX_REQ |-> Plain("DATA_CNF"),
     SET_DESTNETID_REQ |-> Plain("SET_DESTNETID_CNF"),
     SET_DESTADDR_REQ |-> Plain("SET_DESTADDR_CNF"),
     SET_CHANNEL_REQ |-> Plain("SET_CHANNEL_CNF"),
     SET_PAPOWER_REQ |-> Plain("SET_PAPOWER_CNF"),
     PINGDUT_REQ |-> Plain("PINGDUT_CNF")]
Unasked == {Part("DATAEX_IND", "")}
=============================================================================
