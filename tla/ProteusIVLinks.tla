--------------------------- MODULE ProteusIVLinks ---------------------------
(***************************************************************************)
(* What the Proteus-IV driver keeps beside the core of CommandDriver: the  *)
(* list of connections, which its interrupt handler follows, and three     *)
(* pointers to structures of the caller that the handler fills; and the    *)
(* module's connections and scans meanwhile.                               *)
(***************************************************************************)
EXTENDS CommandDriver, ProteusIV, FiniteSetsExt

CONSTANTS
    Connections,    \* the connection IDs the list has an entry for
    Advertisers,    \* the devices that a scan may hear
    ScanDevices     \* PROTEUSIV_MAX_NUMBER_OF_SCANDEVICES

ASSUME LinksAssumption ==
    /\ \A op \in Ops : op \in DOMAIN Functions /\ Script[op] = Functions[op]
    /\ Connections \subseteq STRING /\ "invalid" \notin Connections
    /\ Advertisers \subseteq STRING /\ IsFiniteSet(Advertisers)
    /\ ScanDevices \in Nat

(* True of any strings; the provers have no axiom for it.                  *)
ASSUME LinkLiteralsAssumption ==
    {"invalid", "CONNECT_IND", "MAXPAYLOAD_IND", "LINKOPEN_RSP", "DISCONNECT_IND",
     "SCAN_IND", "enabled", "disabled", "Failed"} \subseteq STRING

(* From step k a function comes to this assignment before it returns.      *)
Comes(steps, k, what) ==
    \E c \in k .. Len(steps) :
        /\ steps[c].do = "set" /\ steps[c].status = what
        /\ \A y \in k .. c - 1 : steps[y].do # "return"

(* A function that sets a pointer does so first, and a step that fails     *)
(* leads on to where the pointer is NULL again.                            *)
Lends(steps, what, null) ==
    \A j \in DOMAIN steps :
        /\ steps[j].status = what => j = 1
        /\ steps[j].do \notin {"set", "return"} =>
             steps[j].fail > 1 /\ Comes(steps, steps[j].fail, null)

ASSUME PointerAssumption ==
    \A op \in Ops :
        LET steps == Script[op]
        IN  /\ \A j \in DOMAIN steps :
                 /\ steps[j].status = "info"  => op = "GetConnectionInfo"
                 /\ steps[j].status = "bonds" => op = "GetBonds"
                 /\ steps[j].status = "scan"  => op = "ScanStart"
            /\ op = "GetConnectionInfo" =>
                 Lends(steps, "info", "info NULL") /\ Comes(steps, 2, "info NULL")
            /\ op = "GetBonds" =>
                 Lends(steps, "bonds", "bonds NULL") /\ Comes(steps, 2, "bonds NULL")
            /\ op = "ScanStart" => Lends(steps, "scan", "scan NULL")
            /\ op = "ScanStop"  => Comes(steps, 1, "scan over")

(* The frames that tell of connections, and those that tell of devices;    *)
(* no answer to a request holds one. A module that restarts on a request   *)
(* says so in its answer, unless it will talk in another way from then on. *)
News      == {"CONNECT_IND", "DISCONNECT_IND", "MAXPAYLOAD_IND", "LINKOPEN_RSP", "SCAN_IND"}
Restarted == {"RESET_REQ", "FACTORYRESET_REQ", "SET_REQ", "SET_UART_REQ", "RESET_PIN"}
Names(parts, cmd) == \E n \in DOMAIN parts : parts[n].cmd = cmd

ASSUME AnswersAssumption ==
    /\ ResetPins = {"RESET_PIN"}
    /\ News \cap Recorded = {}
    /\ \A req \in DOMAIN Reply :
         /\ req \in Restarted \ {"SET_UART_REQ"} <=> Names(Reply[req].yes, "STARTUP_IND")
         /\ \A no \in Reply[req].no : ~Names(no, "STARTUP_IND")
         /\ \A parts \in {Reply[req].yes} \cup Reply[req].no, cmd \in News :
              ~Names(parts, cmd)

(* Init opens the UART and empties the list before it resets the array;    *)
(* then it waits for the module to start. No other function does either.   *)
Begins(step) == step.do = "open" \/ step.status = "connections"
Afresh(steps, h, i) ==
    /\ steps[h].do = "clear" /\ steps[h].slot = i
    /\ \A y \in DOMAIN steps : Begins(steps[y]) => y < h
AwaitsStart(steps, w) ==
    /\ steps[w].do = "wait" /\ steps[w].cmd = "STARTUP_IND"
    /\ \A i \in 1 .. Slots : \E h \in 1 .. w - 1 : Afresh(steps, h, i)

ASSUME StartingAssumption ==
    /\ Opening \cap Closing = {}
    /\ \A op \in Ops :
         LET steps == Script[op]
         IN  IF op \in Opening
             THEN \E w \in DOMAIN steps :
                    /\ AwaitsStart(steps, w)
                    /\ \A y \in DOMAIN steps : steps[y].do = "return" => w < y
             ELSE \A y \in DOMAIN steps : ~Begins(steps[y])

(* What ScanStart lends before it asks it takes back only when it fails;   *)
(* ScanStop counts what it asked the module to end, then takes it back.    *)
Sends(steps, j) == j \in DOMAIN steps /\ steps[j].do = "send"
BeginsScan(steps) ==
    /\ 1 \in DOMAIN steps /\ steps[1].do = "set" /\ steps[1].status = "scan"
    /\ \A i, j \in DOMAIN steps : Sends(steps, i) /\ Sends(steps, j) => i = j
    /\ \A j \in DOMAIN steps : steps[j].status = "scan NULL" =>
         \E h \in 1 .. j - 1 : steps[h].do = "return"
EndsScan(steps) ==
    \A j \in DOMAIN steps :
        /\ steps[j].fail = 0 /\ steps[j].do \in {"clear", "send", "wait", "set"}
        /\ steps[j].status = "scan count" =>
             /\ \E h \in 1 .. j - 1 : Sends(steps, h)
             /\ \A h \in DOMAIN steps : Sends(steps, h) => h < j
        /\ steps[j].status = "scan over" =>
             \E h \in 1 .. j - 1 : steps[h].do = "set" /\ steps[h].status = "scan count"

ASSUME ScanAssumption ==
    /\ {"ScanStart", "ScanStop"} \cap (Opening \cup Closing) = {}
    /\ \A op \in Ops :
         LET steps == Script[op]
         IN  /\ op = "ScanStart" => BeginsScan(steps)
             /\ op = "ScanStop"  => EndsScan(steps)
             /\ \A j \in DOMAIN steps :
                  /\ Sends(steps, j) =>
                       /\ steps[j].cmd = "SCAN_START_REQ" => op = "ScanStart"
                       /\ steps[j].cmd = "SCAN_STOP_REQ" <=> op = "ScanStop"
                  /\ steps[j].status = "scan NULL"  => op = "ScanStart"
                  /\ steps[j].status = "scan count" => op = "ScanStop"
                  /\ steps[j].status = "scan over"  => op = "ScanStop"
                  /\ steps[j].status = "pointers"   => op \in Opening

VARIABLES
    connectionList,   \* ProteusIV_connection_list
    pointers,         \* which of the three pointers are not NULL
    scanResult,       \* the caller's list: devices in use, numberOfDevices
    links,            \* the module: its connections,
    scanning,         \* whether it scans,
    deaf,             \* whether it talks at another speed than the host
    lent,             \* history: the caller waits for its list of devices
    heard             \* history: what a SCAN_IND told of since it lent it

kept    == <<connectionList, pointers, scanResult>>
radio   == <<links, scanning, deaf>>
allVars == <<vars, kept, radio, lent, heard>>

Closed     == [connected |-> FALSE, open |-> FALSE, payload |-> FALSE]
(* The caller's list before a scan: an entry happens to look in use.       *)
Uninitialized == [devices |-> {"garbage"}, number |-> 0]
NoLinks    == [c \in Connections |-> Closed]

InitP4 ==
    /\ Init
    /\ connectionList = NoLinks /\ pointers = {}
    /\ scanResult = Uninitialized
    /\ links = NoLinks /\ scanning = FALSE /\ deaf = FALSE
    /\ lent = FALSE /\ heard = {}

-----------------------------------------------------------------------------
(* The main thread.                                                        *)
(* A caller that has lent its list stops the scan before it lends the list *)
(* again or stops the driver.                                              *)
StartP4 ==
    /\ \E op \in Ops : Start(op) /\ (lent => op \notin Closing \cup {"ScanStart"})
    /\ UNCHANGED <<kept, radio, lent, heard>>

PlainStep ==
    /\ \/ Fault \/ Transmit \/ ClearSlot \/ Confirmed \/ NextSlot \/ Delay
       \/ GiveUp \/ ReadPacket \/ CloseUart
    /\ UNCHANGED <<kept, radio, lent, heard>>

FinishP4 ==
    /\ Finish
    /\ lent' = CASE call.op = "ScanStart"             -> call.ok
                 [] call.op = "ScanStop" /\ call.ok   -> FALSE
                 [] OTHER                             -> lent
    /\ UNCHANGED <<kept, radio, heard>>

(* The caller opens the UART at the speed it has given the module.         *)
OpenP4 ==
    /\ OpenUart
    /\ deaf' = FALSE
    /\ UNCHANGED <<kept, links, scanning, lent, heard>>

HoldP4 ==
    /\ HoldInReset
    /\ links' = NoLinks /\ scanning' = FALSE
    /\ UNCHANGED <<kept, deaf, lent, heard>>

(* The pointers and the list after an assignment.                          *)
Assigned(what) ==
    CASE what \in {"scan", "info", "bonds"} -> pointers \cup {what}
      [] what \in {"scan NULL", "scan over"} -> pointers \ {"scan"}
      [] what = "info NULL"                 -> pointers \ {"info"}
      [] what = "bonds NULL"                -> pointers \ {"bonds"}
      [] what = "pointers"                  -> {}
      [] OTHER                              -> pointers

(* Mutant of ScanResultAfter: the old entries stay in use.                 *)
ScanResultKept(what) ==
    IF what = "scan count" /\ "scan" \in pointers
    THEN [scanResult EXCEPT !.number = Cardinality(scanResult.devices)]
    ELSE scanResult

(* The entries in use are counted one by one; since the interrupt only     *)
(* adds entries, at the first free place, their number is what it was at   *)
(* some moment of the loop. That the pointer is NULL again is another      *)
(* step.                                                                   *)
ScanResultAfter(what) ==
    CASE what = "scan" -> [scanResult EXCEPT !.devices = {}]
      [] what = "scan count" /\ "scan" \in pointers ->
           [scanResult EXCEPT !.number = Cardinality(scanResult.devices)]
      [] OTHER -> scanResult

SetP4 ==
    /\ SetState
    /\ LET what == Step.status
       IN  /\ connectionList' = IF what = "connections" THEN NoLinks ELSE connectionList
           /\ pointers' = Assigned(what)
           /\ scanResult' = ScanResultAfter(what)
           /\ IF what = "scan" THEN lent' = TRUE /\ heard' = {}
                               ELSE UNCHANGED <<lent, heard>>
    /\ UNCHANGED radio

MainP4 == PlainStep \/ FinishP4 \/ OpenP4 \/ HoldP4 \/ SetP4

-----------------------------------------------------------------------------
(* HandleRxPacket.                                                         *)
(* A frame about a connection that the list has an entry for.              *)
Noted(f) ==
    LET c == f.data
    IN  IF c \notin Connections THEN connectionList
        ELSE CASE f.cmd = "CONNECT_IND"    -> [connectionList EXCEPT ![c].connected = TRUE]
               [] f.cmd = "DISCONNECT_IND" -> [connectionList EXCEPT ![c] = Closed]
               [] f.cmd = "MAXPAYLOAD_IND" -> [connectionList EXCEPT ![c].payload = TRUE]
               [] f.cmd = "LINKOPEN_RSP"   ->
                    [connectionList EXCEPT ![c].open = f.status = "enabled"]
               [] OTHER                    -> connectionList

(* Mutant of ListAfter: a start-up leaves the list as it is.               *)
ListUnreset(f) == Noted(f)

ListAfter(f) == IF f.cmd = "STARTUP_IND" THEN NoLinks ELSE Noted(f)

(* A device that is on the list is updated, another takes a free entry.    *)
Scanned(f) ==
    IF /\ f.cmd = "SCAN_IND" /\ "scan" \in pointers
       /\ Cardinality(scanResult.devices) < ScanDevices
    THEN [scanResult EXCEPT !.devices = @ \cup {f.data}]
    ELSE scanResult

ReceiveP4 ==
    /\ HandleRxPacket
    /\ LET f == Head(line)
       IN  IF uartOpen
           THEN /\ connectionList' = ListAfter(f)
                /\ scanResult' = Scanned(f)
                /\ heard' = IF f.cmd = "SCAN_IND" /\ lent THEN heard \cup {f.data}
                                                          ELSE heard
           ELSE UNCHANGED <<connectionList, scanResult, heard>>
    /\ UNCHANGED <<pointers, radio, lent>>

-----------------------------------------------------------------------------
(* The module. What it says at another speed is not understood, and it     *)
(* does not understand the host; the reset pin works all the same. A       *)
(* module that does not start is as good as one at another speed.          *)
AnswerP4 ==
    /\ \E granted \in BOOLEAN :
         LET cmd == Head(inbox).cmd
         IN  /\ Answer(granted)
             /\ granted /\ cmd = "DATA_REQ"       => \E c \in Connections : links[c].open
             /\ granted /\ cmd = "SCAN_START_REQ" => ~scanning
             /\ granted /\ cmd = "SCAN_STOP_REQ"  => scanning
             /\ deaf => ~granted /\ outbox' = outbox
             /\ IF granted /\ cmd \in Restarted
                THEN links' = NoLinks ELSE links' = links
             /\ scanning' = IF ~granted THEN scanning
                            ELSE CASE cmd = "SCAN_START_REQ"                 -> TRUE
                                   [] cmd \in {"SCAN_STOP_REQ"} \cup Restarted -> FALSE
                                   [] OTHER                                  -> scanning
             /\ deaf' = \/ deaf
                        \/ granted /\ cmd = "SET_UART_REQ"
                        \/ ~granted /\ cmd = "RESET_PIN"
    /\ UNCHANGED <<kept, lent, heard>>

EmitP4 ==
    /\ Emit("")
    /\ UNCHANGED <<kept, radio, lent, heard>>

(* A frame sent unasked, once all answers have been sent.                  *)
Tell(cmd, status, about) ==
    /\ awake /\ outbox = <<>> /\ indications < MaxIndications
    /\ indications' = indications + 1
    /\ line' = IF deaf THEN line
               ELSE Append(line, [cmd |-> cmd, status |-> status, data |-> about, req |-> 0])
    /\ UNCHANGED <<driver, call, module, history, seen, returned, calls, faults>>

(* A connection is made, learns its payload size, opens, closes and ends.  *)
LinkEvent(c) ==
    /\ \/ /\ ~links[c].connected
          /\ Tell("CONNECT_IND", "Success", c)
          /\ links' = [links EXCEPT ![c].connected = TRUE]
       \/ /\ links[c].connected
          /\ Tell("MAXPAYLOAD_IND", "", c)
          /\ links' = [links EXCEPT ![c].payload = TRUE]
       \/ /\ links[c].connected
          /\ \E open \in {~links[c].open} :
               /\ Tell("LINKOPEN_RSP", IF open THEN "enabled" ELSE "disabled", c)
               /\ links' = [links EXCEPT ![c].open = open]
       \/ /\ links[c].connected
          /\ Tell("DISCONNECT_IND", "", c)
          /\ links' = [links EXCEPT ![c] = Closed]
    /\ UNCHANGED <<kept, scanning, deaf, lent, heard>>

(* A connection that could not be made has no ID.                          *)
FailedLink ==
    /\ Tell("CONNECT_IND", "Failed", "invalid")
    /\ UNCHANGED <<kept, radio, lent, heard>>

Hear(a) ==
    /\ scanning
    /\ Tell("SCAN_IND", "", a)
    /\ UNCHANGED <<kept, radio, lent, heard>>

ModuleP4 ==
    \/ AnswerP4 \/ EmitP4 \/ FailedLink
    \/ \E c \in Connections : LinkEvent(c)
    \/ \E a \in Advertisers : Hear(a)

NextP4 == StartP4 \/ MainP4 \/ ReceiveP4 \/ ModuleP4

SpecP4 == InitP4 /\ [][NextP4]_allVars

-----------------------------------------------------------------------------
(* Properties.                                                             *)

(* When the driver is in use and nothing is under way from the module, the *)
(* list tells which connections there are, which are open and whose        *)
(* payload size is known - through resets, restarts and lost connections - *)
(* unless the module was told to use its UART in another way.              *)
ConnectionsAgree ==
    ready /\ uartOpen /\ ~deaf /\ awake /\ inbox \o outbox \o line = <<>>
        => connectionList = links

(* The interrupt handler writes only into structures that are lent to it:  *)
(* the two a running call has named, and the list of a scan that was       *)
(* started and not stopped.                                                *)
PointersSafe ==
    uartOpen =>
      /\ "info" \in pointers  => call.op = "GetConnectionInfo"
      /\ "bonds" \in pointers => call.op = "GetBonds"
      /\ "scan" \in pointers  => lent \/ call.op = "ScanStop"

(* A stopped scan leaves the caller the number of the devices it heard, as *)
(* far as its list had room for them.                                      *)
CountIsRight ==
    returned.op = "ScanStop" /\ returned.ok /\ ~Running =>
        /\ scanResult.number = Min({Cardinality(heard), ScanDevices})
        /\ scanResult.devices \subseteq heard
=============================================================================
