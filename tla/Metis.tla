-------------------------------- MODULE Metis --------------------------------
(***************************************************************************)
(* The Metis driver (wireless M-Bus) as a table over the core of           *)
(* CommandDriver. A GET_CNF that is about another setting than the one     *)
(* usConfirmation notes, or of another length, is recorded as failed: here *)
(* the status is in the frame. HandleRxPacket knows six settings, those of *)
(* Metis_UserSettings_t; a GET_CNF about any other address, which here is  *)
(* GET_OTHER_CNF, it does not record.                                      *)
(***************************************************************************)
EXTENDS DriverSteps

Reset        == Simple("RESET_REQ", "RESET_CNF")
FactoryReset == Simple("FACTORYRESET_REQ", "FACTORYRESET_CNF")
SetUartSpeed == Simple("SETUARTSPEED", "SETUARTSPEED_CNF")
Get          == Simple("GET_REQ", "GET_CNF") \o <<Read>>
SetSetting   == Simple("SET_REQ", "SET_CNF")
GetFirmwareVersion == Simple("GET_FWRELEASE_REQ", "GET_FWRELEASE_CNF") \o <<Read>>
GetSerialNumber    == Simple("GET_SERIALNO_REQ", "GET_SERIALNO_CNF") \o <<Read>>

(* The setting read differs from the wanted value, or is equal.            *)
Update(differs) == Get \o (IF differs THEN SetSetting ELSE <<>>)
CheckNSet       == Update(TRUE)
CheckEqual      == Update(FALSE)

(* From a start address that is one of the six settings, or another one.   *)
GetMultiple      == Get
GetMultipleOther == Simple("GET_OTHER_REQ", "GET_CNF") \o <<Read>>

(* Waits for the confirmation of another request.                          *)
SetVolatileModePreselect == Simple("SET_MODE", "SET_CNF")

(* At 868 MHz, only in a mode that can send.                               *)
TransmitData(at868) ==
    (IF at868 THEN Get \o <<Test("not C2/T2")>> ELSE <<>>)
      \o Simple("DATA_REQ", "DATA_CNF")

(* A pulse: nothing is awaited.                                            *)
PinReset == <<Hold, Pin, Release>>

(* A factory reset if wanted, then each setting as CheckNSet, except that  *)
(* a length that does not match ends it.                                   *)
Configure(factory, differs) ==
    (IF factory THEN FactoryReset ELSE <<>>)
      \o Get \o <<Test("length")>>
      \o (IF differs THEN SetSetting ELSE <<>>) \o PinReset

Deinit == <<Pin, Close>>

(* UART output, RSSI, AES and the mode are set if they are not as they     *)
(* should be. A failing Set or Reset leads to Deinit; a failing Get does   *)
(* not.                                                                    *)
Setting(differs, deinit) ==
    Get \o (IF differs THEN OrElse(SetSetting, deinit) ELSE <<>>)
Preparation(differs, deinit) ==
    <<Pin, Open>> \o Setting(differs, deinit) \o Setting(differs, deinit)
                  \o Setting(differs, deinit) \o Setting(differs, deinit)
                  \o OrElse(Reset, deinit) \o <<Return>>
StartUp(differs) ==
    Preparation(differs, Len(Preparation(differs, 0)) + 1) \o Deinit

Functions ==
    [Init |-> StartUp(TRUE), InitPrepared |-> StartUp(FALSE), Deinit |-> Deinit,
     PinReset |-> PinReset, Reset |-> Reset, FactoryReset |-> FactoryReset,
     SetUartSpeed |-> SetUartSpeed, Get |-> Get, GetMultiple |-> GetMultiple,
     CheckNSet |-> CheckNSet, CheckEqual |-> CheckEqual, Set |-> SetSetting,
     GetFirmwareVersion |-> GetFirmwareVersion, GetSerialNumber |-> GetSerialNumber,
     Transmit_868 |-> TransmitData(TRUE), Transmit_169 |-> TransmitData(FALSE),
     Configure |-> Configure(FALSE, TRUE),
     ConfigureAfterReset |-> Configure(TRUE, FALSE)]

(* The functions whose confirmation is not the one they wait for, or is    *)
(* not recorded: they always time out, though the module does as asked.    *)
Unconfirmed ==
    [GetMultipleOther |-> GetMultipleOther,
     SetVolatile_ModePreselect |-> SetVolatileModePreselect]

(* HandleRxPacket.                                                         *)
RecordedCommands ==
    {"GET_CNF", "FACTORYRESET_CNF", "SET_CNF", "SET_MODE_CNF", "RESET_CNF",
     "DATA_CNF", "SETUARTSPEED_CNF", "GET_SERIALNO_CNF", "GET_FWRELEASE_CNF"}
StatuslessCommands == {}

Replies ==
    [RESET_REQ |-> Plain("RESET_CNF"), FACTORYRESET_REQ |-> Plain("FACTORYRESET_CNF"),
     SETUARTSPEED |-> Plain("SETUARTSPEED_CNF"), GET_REQ |-> Plain("GET_CNF"),
     GET_OTHER_REQ |-> Plain("GET_OTHER_CNF"), SET_MODE |-> Plain("SET_MODE_CNF"),
     SET_REQ |-> Plain("SET_CNF"), DATA_REQ |-> Plain("DATA_CNF"),
     GET_FWRELEASE_REQ |-> Plain("GET_FWRELEASE_CNF"),
     GET_SERIALNO_REQ |-> Plain("GET_SERIALNO_CNF")]
Unasked == {Part("DATA_IND", "")}
=============================================================================
