-------------------------------- MODULE Radios --------------------------------
(***************************************************************************)
(* The binary-protocol drivers beside Proteus-III: one of them, chosen at  *)
(* the start, over the core of CommandDriver. The host is built for one    *)
(* module, so a behaviour has one device. Its functions, frames and        *)
(* answers are in its table (TarvosIII, Metis, MetisE, Thyone, Proteus),   *)
(* whose names carry the device here.                                      *)
(***************************************************************************)
EXTENDS CommandDriver

CONSTANTS
    Owner,       \* per function: the device
    UnaskedBy,   \* per device: the frames it sends unasked
    Rouses,      \* the functions that wake up: those that put to sleep
    CallsOf,     \* bound: calls, per device
    LeavesOpen   \* the devices whose Init may fail with the UART open

Devices == DOMAIN UnaskedBy

ASSUME RadiosAssumption ==
    /\ Owner \in [Ops -> Devices]
    /\ \A d \in Devices : UnaskedBy[d] \subseteq Indications
    /\ \A op \in DOMAIN Rouses : op \in Ops /\ Rouses[op] \subseteq Ops
    /\ \A d \in Devices : CallsOf[d] \in 0 .. MaxCalls
    /\ LeavesOpen \subseteq Devices

(* What may fail although the pins and the UART do as they are told.       *)
MayFail == {"wait", "check", "test"}

(* From step k the function comes to uartDeinit before anything can fail   *)
(* or return, and it does not open the UART again.                         *)
LeadsToClose(steps, k) ==
    /\ \E c \in k .. Len(steps) :
         /\ steps[c].do = "close"
         /\ \A y \in k .. c - 1 : steps[y].do \notin MayFail \cup {"return"}
    /\ \A y \in k .. Len(steps) : steps[y].do # "open"

(* A step of Init that fails leads to Deinit.                              *)
ASSUME InitAssumption ==
    \A op \in Opening : op \in Ops /\ Owner[op] \notin LeavesOpen =>
        \A k \in DOMAIN Script[op] : Script[op][k].do \in MayFail =>
            Script[op][k].fail # 0 /\ LeadsToClose(Script[op], Script[op][k].fail)

VARIABLE device

radioVars == <<vars, device>>

(* What a step of the running call will want to find in a frame.           *)
Wanted ==
    IF Running THEN {s.status : s \in {t \in Range(Script[call.op]) : t.do = "check"}}
    ELSE {}

(* The reset pin goes high again, and nothing is awaited.                  *)
ReleaseReset ==
    /\ At("release")
    /\ awake' = TRUE
    /\ Advance
    /\ UNCHANGED <<driver, inbox, outbox, served, line, history, seen, returned, bounds>>

(* A caller wakes up a module that it has put to sleep.                    *)
StartOwn(op) ==
    /\ Owner[op] = device /\ calls < CallsOf[device]
    /\ op \in DOMAIN Rouses => returned.ok /\ returned.op \in Rouses[op]
    /\ Start(op)

InitRadio == Init /\ device \in Devices

NextRadio ==
    /\ \/ \E op \in Ops : StartOwn(op)
       \/ MainStep
       \/ ReleaseReset
       \/ HandleRxPacket
       \/ \E granted \in BOOLEAN : Answer(granted)
       \/ \E data \in {""} \cup Wanted : Emit(data)
       \/ \E i \in UnaskedBy[device] : Indicate(i.cmd, i.status)
    /\ UNCHANGED device

SpecRadio == InitRadio /\ [][NextRadio]_radioVars

-----------------------------------------------------------------------------
(* An Init that fails leaves the UART closed, whatever step failed: the    *)
(* caller may try again, and uartInit finds its peripheral unused.         *)
FailedInitCloses ==
    returned.op \in Opening /\ ~returned.ok /\ ~Running /\ device \notin LeavesOpen
        => ~uartOpen
=============================================================================
