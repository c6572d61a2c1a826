------------------------------ MODULE ATDriver ------------------------------
(***************************************************************************)
(* The request/response core of the Wi-Fi drivers Calypso and CordeliaI,   *)
(* which talk to their module in lines of text: SendRequest and            *)
(* WaitForConfirm on the main thread, HandleRxLine in the receive          *)
(* interrupt, and the module, external to the code. A line is either a     *)
(* verdict ("ok", "error") or starts with '+' and a name ("plus"): the     *)
(* data of a response, or an event, which the module sends unasked.        *)
(* Source lines are those of Calypso.c; CordeliaI.c has the same core.     *)
(***************************************************************************)
EXTENDS Integers, Sequences, FiniteSets, SequencesExt

CONSTANTS
    Requests,    \* per function: the requests it makes, in order
    Begins,      \* per event: the command names its name begins with
    ErrorCodes,  \* why the module may deny a request
    Bytes,       \* what a caller writes, reads or sends in one call
    Chunk,       \* what fits into one request
    Worlds,      \* sets of "late", "fast", "stale", "anytime": see world
    MaxPolls,    \* turns of WaitForConfirm's loop before it gives up
    MaxCalls, MaxEvents, MaxFaults   \* bounds

Functions == DOMAIN Requests
Events    == DOMAIN Begins
Handling  == {"Init", "Deinit", "PinReset"}
Ops       == Functions \cup Handling

(* way: "once", or the loop over chunks that writes, reads or sends;       *)
(* reply: what is wanted of the response: "none", the line "parsed", or    *)
(* lines that may be "missing"; excused: the error code that is no error.  *)
(* What is written or read comes with a response, and an excuse is for a   *)
(* request that another follows.                                           *)
RequestType == [name : STRING, way : {"once", "write", "read", "send"},
                reply : {"none", "parsed", "missing"}, excused : Int]

ASSUME ATAssumption ==
    /\ \A f \in Functions : Requests[f] \in Seq(RequestType) /\ Requests[f] # <<>>
    /\ \A f \in Functions : \A k \in DOMAIN Requests[f] :
         /\ Requests[f][k].way \in {"read", "write"} => Requests[f][k].reply = "parsed"
         /\ Requests[f][k].excused # 0 => k < Len(Requests[f])
    /\ Functions \cap (Handling \cup {"none"}) = {}
    /\ \A e \in Events : Begins[e] \subseteq STRING
    /\ ErrorCodes \subseteq Int \ {0}
    /\ Bytes \in Nat \ {0} /\ Chunk \in Nat \ {0}
    /\ Worlds \subseteq SUBSET {"late", "fast", "stale", "anytime"}
    /\ MaxPolls \in Nat /\ MaxCalls \in Nat /\ MaxEvents \in Nat /\ MaxFaults \in Nat

(* A loop over chunks is a function of its own. No line that comes unasked *)
(* begins like a command whose response is read (the events: ATEvent.c:52, *)
(* and "eventstartup"), and none is without a name; "any" is no command:   *)
(* see CopyName.                                                           *)
ASSUME TableAssumption ==
    /\ \A f \in Functions : \A k \in DOMAIN Requests[f] :
         /\ Requests[f][k].way # "once" => Len(Requests[f]) = 1
         /\ Requests[f][k].name # "any"
         /\ Requests[f][k].reply # "none" =>
              \A e \in Events \cup {"eventstartup"} :
                  /\ Requests[f][k].name # e
                  /\ e \in Events => Requests[f][k].name \notin Begins[e]
    /\ "" \notin Events /\ \A e \in Events : "" \notin Begins[e]

VARIABLES
    requestPending, pendingCommandName, currentResponse, lastErrorCode,
    cmdConfirmStatus,
    uartOpen, ready,       \* uartInit was called; Init has returned true
    call,                  \* the main thread: function, where it is, locals
    awake, inbox, outbox,  \* the module: is up, has to serve, is sending
    world,        \* "late": answers outlast the caller's patience; "fast":
                  \* they come before WaitForConfirm is called; "stale": lines
                  \* that begin like the command before come while SendRequest
                  \* delays the next one, "anytime": '+' lines while it copies
                  \* the name of the next one
    asked, settled,        \* history: the requests of the latest call, and
                           \* those the module granted or whose denial is excused;
                           \* a chunk of a file without a byte is not granted
    moved,                 \* history: positions of data the module took or gave
    verdict,               \* history: error code of the latest request, or 0
    handed,                \* history: the latest response given to a function
    returned,              \* history: how the latest call ended
    calls, events, faults  \* the bounded counters

driver  == <<requestPending, pendingCommandName, currentResponse,
             lastErrorCode, cmdConfirmStatus, uartOpen, ready>>
module  == <<awake, inbox, outbox>>
history == <<asked, settled, moved, verdict>>
bounds  == <<calls, events, faults>>
vars == <<driver, call, module, world, history, handed, returned, bounds>>

NoReq  == <<0, 0, 0>>
NoName == ""
Handed(req, name, lines) == [req |-> req, name |-> name, lines |-> lines]
NoResponse == Handed(NoReq, NoName, <<>>)
Idle  == [op |-> "none", k |-> 1, at |-> "pend", polls |-> 0, offset |-> 0,
          count |-> 0]

Init ==
    /\ requestPending = FALSE /\ pendingCommandName = NoName /\ currentResponse = <<>>
    /\ lastErrorCode = 0 /\ cmdConfirmStatus = "Invalid"
    /\ uartOpen = FALSE /\ ready = FALSE
    /\ call = Idle
    /\ awake = TRUE /\ inbox = <<>> /\ outbox = <<>>
    /\ world \in Worlds
    /\ asked = {} /\ settled = {} /\ moved = {} /\ verdict = 0
    /\ handed = NoResponse
    /\ returned = [op |-> "none", ok |-> TRUE, count |-> 0]
    /\ calls = 0 /\ events = 0 /\ faults = 0

Running == call.op # "none"
At(what) == Running /\ call.at = what
Goto(what) == call' = [call EXCEPT !.at = what]
Request == Requests[call.op][call.k]

ChunkSize == IF Bytes - call.offset > Chunk THEN Chunk ELSE Bytes - call.offset

(* Tells the requests apart: call, request of the function, chunk.         *)
Id == <<calls, call.k, call.offset>>

Return(ok, count) ==
    /\ returned' = [op |-> call.op, ok |-> ok, count |-> count]
    /\ call' = Idle

-----------------------------------------------------------------------------
(* Mutant of Pend: the error of the request before stays.                  *)
PendKeepsError ==
    /\ At("pend")
    /\ requestPending' = TRUE
    /\ currentResponse' = <<>>
    /\ Goto("delay")
    /\ UNCHANGED <<pendingCommandName, lastErrorCode, cmdConfirmStatus, uartOpen, ready,
                   module, world, history, handed, returned, bounds>>

(* SendRequest: the flag goes up and the old response is dropped first.    *)
Pend ==
    /\ At("pend")
    /\ requestPending' = TRUE
    /\ currentResponse' = <<>> /\ lastErrorCode' = 0
    /\ Goto("delay")
    /\ UNCHANGED <<pendingCommandName, cmdConfirmStatus, uartOpen, ready, module,
                   world, history, handed, returned, bounds>>

(* After the minimum interval since the last confirmation: the old name    *)
(* is cleared.                                                             *)
Unname ==
    /\ At("delay")
    /\ pendingCommandName' = NoName
    /\ Goto("unnamed")
    /\ UNCHANGED <<requestPending, currentResponse, lastErrorCode, cmdConfirmStatus,
                   uartOpen, ready, module, world, history, handed, returned, bounds>>

(* The new name is being copied and its length is still 0: the comparison  *)
(* in HandleRxLine, of that many characters, finds any line equal.         *)
CopyName ==
    /\ At("unnamed")
    /\ pendingCommandName' = "any"
    /\ Goto("naming")
    /\ UNCHANGED <<requestPending, currentResponse, lastErrorCode, cmdConfirmStatus,
                   uartOpen, ready, module, world, history, handed, returned, bounds>>

MeasureName ==
    /\ At("naming")
    /\ pendingCommandName' = Request.name
    /\ Goto("transmit")
    /\ UNCHANGED <<requestPending, currentResponse, lastErrorCode, cmdConfirmStatus,
                   uartOpen, ready, module, world, history, handed, returned, bounds>>

(* The request leaves. The result of uartTransmit is ignored, and a module *)
(* that is not up does not hear.                                           *)
Transmit ==
    /\ At("transmit")
    /\ asked' = asked \cup {Id}
    /\ verdict' = 0
    /\ \E sent \in BOOLEAN :
         /\ sent \/ faults < MaxFaults
         /\ faults' = IF sent THEN faults ELSE faults + 1
         /\ inbox' = IF sent /\ awake
                     THEN Append(inbox, [req |-> Id, name |-> Request.name,
                                         way |-> Request.way, reply |-> Request.reply,
                                         excused |-> Request.excused,
                                         offset |-> call.offset, size |-> ChunkSize])
                     ELSE inbox
    /\ Goto("arm")
    /\ UNCHANGED <<driver, awake, outbox, world, settled, moved, handed,
                   returned, calls, events>>

(* Mutant of Arm: the status of the latest confirmation stays.             *)
ArmStale ==
    /\ At("arm")
    /\ call' = [call EXCEPT !.at = "poll", !.polls = 0]
    /\ UNCHANGED <<driver, module, world, history, handed, returned, bounds>>

(* WaitForConfirm begins: it forgets a confirmation that is already there. *)
Arm ==
    /\ At("arm")
    /\ cmdConfirmStatus' = "Invalid"
    /\ call' = [call EXCEPT !.at = "poll", !.polls = 0]
    /\ UNCHANGED <<requestPending, pendingCommandName, currentResponse, lastErrorCode,
                   uartOpen, ready, module, world, history, handed, returned, bounds>>

Poll ==
    /\ At("poll") /\ cmdConfirmStatus = "Invalid" /\ call.polls < MaxPolls
    /\ call' = [call EXCEPT !.polls = @ + 1]
    /\ UNCHANGED <<driver, module, world, history, handed, returned, bounds>>

(* A request has failed: the function returns false, unless the error is   *)
(* one it expects, as Restart does of Stop.                                *)
Fail ==
    IF Request.excused # 0 /\ lastErrorCode = Request.excused
    THEN /\ call' = [call EXCEPT !.k = @ + 1, !.at = "pend"]
         /\ UNCHANGED returned
    ELSE Return(FALSE, call.count)

(* Mutant of Timeout: the request stays pending.                           *)
TimeoutPending ==
    /\ At("poll") /\ cmdConfirmStatus = "Invalid" /\ call.polls = MaxPolls
    /\ "late" \notin world =>
         \A m \in Range(inbox) \cup Range(outbox) : m.req # Id
    /\ Fail
    /\ UNCHANGED <<driver, module, world, history, handed, bounds>>

(* WaitForConfirm gives up.                                                *)
Timeout ==
    /\ At("poll") /\ cmdConfirmStatus = "Invalid" /\ call.polls = MaxPolls
    /\ "late" \notin world =>
         \A m \in Range(inbox) \cup Range(outbox) : m.req # Id
    /\ requestPending' = FALSE
    /\ Fail
    /\ UNCHANGED <<pendingCommandName, currentResponse, lastErrorCode, cmdConfirmStatus,
                   uartOpen, ready, module, world, history, handed, bounds>>

(* It finds a confirmation and copies the response for the function.       *)
Confirm ==
    /\ At("poll") /\ cmdConfirmStatus # "Invalid"
    /\ requestPending' = FALSE
    /\ IF cmdConfirmStatus = "Success"
       THEN /\ handed' = IF Request.reply = "none" THEN handed
                         ELSE Handed(Id, Request.name, currentResponse)
            /\ Goto("parse")
            /\ UNCHANGED returned
       ELSE /\ Fail
            /\ UNCHANGED handed
    /\ UNCHANGED <<pendingCommandName, currentResponse, lastErrorCode, cmdConfirmStatus,
                   uartOpen, ready, module, world, history, bounds>>

(* Mutant of Parses: a chunk without a byte will do.                       *)
ParsesEmpty == Request.reply = "parsed" =>
                   /\ handed.lines # <<>>
                   /\ Head(handed.lines).name = Request.name

(* The response has to start with the name of the command, and that of     *)
(* Read has to bring a byte: at the end of a file Read fails.              *)
Parses == Request.reply = "parsed" =>
              /\ handed.lines # <<>>
              /\ Head(handed.lines).name = Request.name
              /\ Request.way = "read" => Head(handed.lines).n > 0

(* What the first line of the response says of the chunk.                  *)
Said == IF Request.way \in {"read", "write"} THEN Head(handed.lines).n ELSE ChunkSize

(* Mutant of Stride: the writer trusts that all was written.               *)
StrideOfChunk == ChunkSize

(* How far the loop over chunks goes on: Read by what it asked for, Write  *)
(* by what was written, SendTo by what it sent.                            *)
Stride == IF Request.way = "write" THEN Said ELSE ChunkSize

(* The request succeeded: the next chunk, the next request, or the end.    *)
Proceed ==
    /\ At("parse")
    /\ LET offset == call.offset + Stride
           count  == call.count + Said
       IN  IF ~Parses THEN Return(FALSE, call.count)
           ELSE IF Request.way # "once" /\ offset < Bytes
           THEN /\ call' = [call EXCEPT !.at = "pend", !.offset = offset, !.count = count]
                /\ UNCHANGED returned
           ELSE IF call.k < Len(Requests[call.op])
           THEN /\ call' = [call EXCEPT !.at = "pend", !.k = @ + 1]
                /\ UNCHANGED returned
           ELSE Return(TRUE, IF Request.way = "once" THEN 0 ELSE count)
    /\ UNCHANGED <<driver, module, world, history, handed, bounds>>

-----------------------------------------------------------------------------
(* Init, Deinit and the reset pin.                                         *)
Open ==
    /\ At("open")
    /\ requestPending' = FALSE
    /\ uartOpen' = TRUE /\ ready' = TRUE
    /\ Return(TRUE, 0)
    /\ UNCHANGED <<pendingCommandName, currentResponse, lastErrorCode, cmdConfirmStatus,
                   module, world, history, handed, bounds>>

Quit ==
    /\ At("quit")
    /\ requestPending' = FALSE /\ currentResponse' = <<>>
    /\ ready' = FALSE
    /\ Goto("close")
    /\ UNCHANGED <<pendingCommandName, lastErrorCode, cmdConfirmStatus, uartOpen,
                   module, world, history, handed, returned, bounds>>

Close ==
    /\ At("close")
    /\ uartOpen' = FALSE
    /\ Return(TRUE, 0)
    /\ UNCHANGED <<requestPending, pendingCommandName, currentResponse, lastErrorCode,
                   cmdConfirmStatus, ready, module, world, history, handed, bounds>>

(* The reset pin goes low: the module forgets; a line it had begun to send *)
(* may have arrived.                                                       *)
LowerReset ==
    /\ At("reset")
    /\ awake' = FALSE /\ inbox' = <<>>
    /\ outbox' \in {<<>>} \cup {outbox}
    /\ Goto("release")
    /\ UNCHANGED <<driver, world, history, handed, returned, bounds>>

(* It goes high, and PinReset does not wait for the module to be up.       *)
RaiseReset ==
    /\ At("release")
    /\ Return(TRUE, 0)
    /\ UNCHANGED <<driver, module, world, history, handed, bounds>>

(* A caller calls a function: Init first, the others until Deinit.         *)
Start(op) ==
    /\ ~Running /\ calls < MaxCalls
    /\ (op = "Init") = ~ready
    /\ call' = [Idle EXCEPT !.op = op,
                            !.at = CASE op = "Init"     -> "open"
                                     [] op = "Deinit"   -> "quit"
                                     [] op = "PinReset" -> "reset"
                                     [] OTHER           -> "pend"]
    /\ calls' = calls + 1
    /\ asked' = {} /\ settled' = {} /\ moved' = {} /\ verdict' = 0
    /\ UNCHANGED <<driver, module, world, handed, returned, events, faults>>

-----------------------------------------------------------------------------
(* The receive interrupt. Only a '+' line that starts like the name of the *)
(* pending command is part of the response.                                *)
Response(l) == l.kind = "plus" /\ requestPending
               /\ \/ pendingCommandName = "any"
                  \/ l.name = pendingCommandName
                  \/ l.name \in Events /\ pendingCommandName \in Begins[l.name]

(* Mutant of RefusesRequest: an event handler may send.                    *)
RefusesNone(executingEventCallback) == FALSE

(* SendRequest, when a handler of events calls it.                         *)
RefusesRequest(executingEventCallback) == executingEventCallback

(* Whether or not the handler of the application tries to send a request   *)
(* of its own, from the interrupt, while another may be under way.         *)
EventCallback(l) ==
    \/ /\ currentResponse' = IF Response(l) THEN Append(currentResponse, l)
                             ELSE currentResponse
       /\ UNCHANGED <<requestPending, pendingCommandName>>
    \/ /\ l.kind = "plus" /\ ~RefusesRequest(TRUE)
       /\ currentResponse' = <<>>
       /\ requestPending' = TRUE
       /\ pendingCommandName' = "test"

(* Until SendRequest has stored the new name, lines are compared with the  *)
(* one before, and while it copies it with nothing: world says whether a   *)
(* line may come then that would be taken for part of the response.        *)
HandleRxLine(l) ==
    /\ uartOpen
    /\ At("delay")  /\ Response(l) => "stale" \in world
    /\ At("naming") /\ Response(l) => "anytime" \in world
    /\ cmdConfirmStatus' = IF ~requestPending \/ l.kind = "plus" THEN cmdConfirmStatus
                           ELSE IF l.kind = "ok" THEN "Success" ELSE "Failed"
    /\ lastErrorCode' = IF requestPending /\ l.kind = "error" THEN l.n ELSE lastErrorCode
    /\ EventCallback(l)

(* A line of a response arrives.                                           *)
Receive ==
    /\ outbox # <<>>
    /\ outbox' = Tail(outbox)
    /\ IF uartOpen
       THEN HandleRxLine(Head(outbox))
       ELSE UNCHANGED <<requestPending, pendingCommandName, currentResponse,
                        lastErrorCode, cmdConfirmStatus>>
    /\ UNCHANGED <<uartOpen, ready, call, awake, inbox, world, history, handed,
                   returned, bounds>>

(* A line that nobody asked for arrives.                                   *)
Event(e) ==
    /\ awake /\ events < MaxEvents
    /\ events' = events + 1
    /\ HandleRxLine([kind |-> "plus", name |-> e, n |-> 0, req |-> NoReq])
    /\ UNCHANGED <<uartOpen, ready, call, module, world, history, handed,
                   returned, calls, faults>>

-----------------------------------------------------------------------------
(* The module. It answers each request with OK, after the data asked for,  *)
(* or with an error; of a chunk to write it takes at least one byte, and   *)
(* of a chunk to read it gives what the file has there, down to nothing.   *)
Amounts(r) ==
    CASE r.way = "write" -> 1 .. r.size
      [] r.way = "read"  -> 0 .. r.size
      [] r.way = "send"  -> {r.size}
      [] OTHER           -> {0}

Verdict(kind, r, n) == [kind |-> kind, name |-> NoName, n |-> n, req |-> r.req]
Reply(r, n) == [kind |-> "plus", name |-> r.name, n |-> n, req |-> r.req]

(* A request of a call that has ended counts for nothing.                  *)
Latest(r) == asked \cap {r.req}

Grant(r, n) ==
    /\ outbox' = outbox \o (IF r.reply = "none" THEN <<>> ELSE <<Reply(r, n)>>)
                        \o <<Verdict("ok", r, 0)>>
    /\ settled' = IF r.way = "read" /\ n = 0 THEN settled ELSE settled \cup Latest(r)
    /\ moved' = IF Latest(r) = {} THEN moved
                ELSE moved \cup (r.offset .. r.offset + n - 1)
    /\ UNCHANGED verdict

Deny(r, code) ==
    /\ outbox' = Append(outbox, Verdict("error", r, code))
    /\ settled' = IF code = r.excused THEN settled \cup Latest(r) ELSE settled
    /\ verdict' = code
    /\ UNCHANGED moved

Serve ==
    /\ awake /\ inbox # <<>>
    /\ "fast" \in world \/ At("poll")
    /\ inbox' = Tail(inbox)
    /\ \/ \E n \in Amounts(Head(inbox)) : Grant(Head(inbox), n)
       \/ \E code \in ErrorCodes : Deny(Head(inbox), code)
    /\ UNCHANGED <<driver, call, awake, world, asked, handed, returned, bounds>>

(* The module is up again and says so.                                     *)
Boot ==
    /\ ~awake /\ ~At("release")
    /\ awake' = TRUE
    /\ outbox' = Append(outbox, Reply([name |-> "eventstartup", req |-> NoReq], 0))
    /\ UNCHANGED <<driver, call, inbox, world, history, handed, returned, bounds>>

Main == \/ Pend \/ Unname \/ CopyName \/ MeasureName \/ Transmit
        \/ Arm \/ Poll \/ Timeout \/ Confirm \/ Proceed
        \/ Open \/ Quit \/ Close \/ LowerReset \/ RaiseReset

Next == \/ \E op \in Ops : Start(op)
        \/ Main \/ Receive \/ Serve \/ Boot
        \/ \E e \in Events : Event(e)

(* The main thread goes on while it runs a function; the module answers,   *)
(* comes up after a reset, and its lines arrive.                           *)
Spec == Init /\ [][Next]_vars
             /\ WF_vars(Main) /\ WF_vars(Receive) /\ WF_vars(Serve) /\ WF_vars(Boot)
-----------------------------------------------------------------------------
ReqId     == Nat \X Nat \X Nat
PlusLine  == [kind : {"plus"}, name : STRING \cup Events \cup {"eventstartup"},
              n : Nat, req : ReqId]
LastLine  == [kind : {"ok", "error"}, name : {NoName}, n : Int, req : ReqId]
Exchange  == {"delay", "unnamed", "naming", "transmit", "arm", "poll"}
Places    == Exchange \cup {"pend", "parse"}
               \cup {"open", "quit", "close", "reset", "release"}
CallType  == [op : Ops \cup {"none"}, k : Nat \ {0}, at : Places,
              polls : 0 .. MaxPolls, offset : 0 .. Bytes - 1, count : Nat]
InboxType == [req : ReqId, name : STRING, way : {"once", "write", "read", "send"},
              reply : {"none", "parsed", "missing"}, excused : Int,
              offset : 0 .. Bytes - 1, size : 1 .. Bytes]

TypeOK ==
    /\ requestPending \in BOOLEAN /\ uartOpen \in BOOLEAN
    /\ ready \in BOOLEAN /\ awake \in BOOLEAN
    /\ pendingCommandName \in STRING \cup {NoName, "any"} /\ lastErrorCode \in Int
    /\ cmdConfirmStatus \in {"Invalid", "Success", "Failed"}
    /\ currentResponse \in Seq(PlusLine)
    /\ call \in CallType
    /\ inbox \in Seq({m \in InboxType : m.offset + m.size <= Bytes})
    /\ outbox \in Seq(PlusLine \cup LastLine)
    /\ world \in Worlds
    /\ asked \subseteq ReqId /\ settled \subseteq asked
    /\ moved \subseteq 0 .. Bytes - 1 /\ verdict \in Int
    /\ handed \in [req : ReqId, name : STRING \cup {NoName}, lines : Seq(PlusLine)]
    /\ returned \in [op : Ops \cup {"none"}, ok : BOOLEAN, count : Nat]
    /\ calls \in Nat /\ events \in Nat /\ faults \in Nat

Timely == world = {}
Done   == ~Running /\ returned.op \in Functions /\ Timely

(* With a module that answers in time, a function that returns true has    *)
(* had every one of its requests granted, or denied for the one reason it  *)
(* excuses; one that returns false has not, or has read a chunk of a file  *)
(* that brought no byte. Events, but for those world = {} leaves out, a    *)
(* module that is still booting and a UART that did not send are in it     *)
(* (SendRequest and WaitForConfirm, Calypso.c:346-444, ATDevice_Restart,   *)
(* ATFile.c:636).                                                          *)
Truthful == Done => (returned.ok <=> asked \subseteq settled)

(* The bytes that Write, Read and SendTo report are those the module took  *)
(* or gave, each once, and Write and SendTo succeed with all of them,      *)
(* however the module divides what it is given (ATFile.c:111-237,          *)
(* ATSocket.c:267-356).                                                    *)
CountsBytes ==
    Done => /\ returned.count = Cardinality(moved)
            /\ returned.ok /\ Requests[returned.op][1].way \in {"write", "send"}
                 => moved = 0 .. Bytes - 1

(* After a failure GetLastError tells why the module denied the last       *)
(* request, and tells nothing if it did not answer: never what an earlier  *)
(* request was denied for, which Restart could take for its excuse.        *)
ErrorIsOwn == Done /\ ~returned.ok => lastErrorCode = verdict

(* What a function reads as its response is the response to its own        *)
(* request: no event, no line of an earlier request, nothing missing. So   *)
(* it is as long as no line that begins like the command before comes in   *)
(* the delay of SendRequest (Calypso.c:355-370, up to 3 ms), and no '+'    *)
(* line while it copies the name (:371-379): world = {}.                   *)
OwnResponse ==
    Timely /\ handed.req # NoReq =>
        /\ Len(handed.lines) = 1
        /\ \A l \in Range(handed.lines) : l.req = handed.req

(* Between two calls nothing that arrives, late answers included, changes  *)
(* what the driver tells of the call before: requestPending is down.       *)
ResultsKept ==
    [][~Running /\ ~Running' => UNCHANGED <<lastErrorCode, currentResponse,
                                            cmdConfirmStatus>>]_vars
=============================================================================
