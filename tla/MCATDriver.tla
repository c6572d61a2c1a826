----------------------------- MODULE MCATDriver -----------------------------
(* The drivers that talk to their module in lines, one at a time: Calypso  *)
(* with one function of each kind and an event whose name begins like a    *)
(* command, DaphnisI, StephanoI and AdrasteaI.                             *)
EXTENDS Calypso, ATDriver, DaphnisI, StephanoI, AdrasteaI

VARIABLE device      \* the driver in use

Called == {"test", "connect", "get", "wlanScan", "Restart",
           "fileRead", "fileWrite", "send"}
Requests_MC == [f \in Called |-> Table[f]] @@ <<>>
Begins_MC == [connect |-> {"connect"}, eventgeneral |-> {}]
ErrorCodes_MC == {NotRunning, -1}
Calm    == {{}, {"late", "fast", "stale", "anytime"}}

(* The functions called while the module answers whenever it likes: one of *)
(* each way to go through its requests.                                    *)
Unpaced == {"connect", "get", "Restart", "fileRead", "send",
            "Init", "Deinit", "PinReset"}

DaphnisI_MC == DOMAIN ScriptD

(* Get differs from Set only in that a response comes.                     *)
AdrasteaI_MC == DOMAIN ScriptA \ {"Set"}

(* A plain command, two queries, a write and a message.                    *)
Wants(expected, size) == [expected |-> expected, size |-> size]
StephanoI_MC ==
    [Plain |-> <<Wants("Success", 0)>>,
     Query |-> <<Wants("Success", 2)>>, Long |-> <<Wants("Success", 3)>>,
     Write |-> <<Wants("Ready4Data", 0), Wants("Success", 0)>>,
     Send  |-> <<Wants("Ready4Data", 0), Wants("SendOK", 0)>>]

InitLines ==
    /\ device \in {"Calypso", "DaphnisI", "StephanoI", "AdrasteaI"}
    /\ Init /\ InitD /\ InitS /\ InitA
    /\ device # "Calypso" => world = {}
    /\ device # "AdrasteaI" => prompt = "AT"

NextLines ==
    /\ UNCHANGED device
    /\ \/ device = "Calypso"   /\ Next  /\ UNCHANGED <<varsD, varsS, varsA>>
                              /\ (world = {} \/ call'.op \in Unpaced \cup {"none"})
       \/ device = "DaphnisI"  /\ NextD /\ UNCHANGED <<vars, varsS, varsA>>
       \/ device = "StephanoI" /\ NextS /\ UNCHANGED <<vars, varsD, varsA>>
       \/ device = "AdrasteaI" /\ NextA /\ UNCHANGED <<vars, varsD, varsS>>

(* The fairness of SpecA and of Calypso: the drivers not in use rest.      *)
SpecLines ==
    /\ InitLines /\ [][NextLines]_<<device, vars, varsD, varsS, varsA>>
    /\ WF_vars(Main) /\ WF_vars(Receive) /\ WF_vars(Serve) /\ WF_vars(Boot)
    /\ WF_varsA(MainA) /\ WF_varsA(StartUp) /\ WF_varsA(SayA)

(* Every call returns. Calypso: whatever is lost WaitForConfirm gives up,  *)
(* and the loops over chunks end: Read and SendTo go on by what they asked *)
(* for or sent, Write by what was written, and Read fails on a chunk that  *)
(* brings nothing (Calypso.c:405, ATFile.c:111-237, :636). AdrasteaI: the  *)
(* waits for AdrasteaI_ATMode, which have no time-out (AdrasteaI.c:310,    *)
(* ATPower.c:46), end, since the interrupt sends "map" whenever the module *)
(* has started (:722-729), where PinWakeUp succeeds.                       *)
AllReturn == (Running \/ Calling) ~> ~(Running \/ Calling)
=============================================================================
