--------------------------- MODULE ATDriver_proofs ---------------------------
(***************************************************************************)
(* What of the driver's state a line of the module may change, and when:   *)
(* for every set of functions, every module, however late or fast. Of a    *)
(* module that answers in time (Timely) the second half shows that what a  *)
(* function returns is what the module did.                                *)
(***************************************************************************)
EXTENDS ATDriver, StephanoI, DaphnisI, FiniteSetTheorems, TLAPS

(* A function is between its requests or in one of them, and what handles  *)
(* the module itself is at its own places.                                 *)
Located ==
    /\ call.op \in Functions => /\ call.at \in Exchange \cup {"pend", "parse"}
                                /\ call.k \in DOMAIN Requests[call.op]
    /\ call.op \in Handling  => call.at \in {"open", "quit", "close", "reset", "release"}

(* A request is pending only from the step of SendRequest that says so to  *)
(* the end of WaitForConfirm.                                              *)
PendingRuns == requestPending => Running /\ call.at \in Exchange

IInv == TypeOK /\ Located /\ PendingRuns

-----------------------------------------------------------------------------
LEMMA Amount ==
    /\ Bytes \in Nat \ {0} /\ Chunk \in Nat \ {0}
    /\ MaxPolls \in Nat
BY ATAssumption

LEMMA Apart ==
    /\ \A op \in Functions : op \notin Handling
    /\ Exchange \cup {"pend", "parse"} \subseteq Places
BY ATAssumption DEF Places

(* Where the main thread is when it is at a place of a function.           *)
LEMMA InFunction ==
    ASSUME IInv, Running, call.at \in Exchange \cup {"pend", "parse"}
    PROVE  /\ call.op \in Functions
           /\ call.k \in DOMAIN Requests[call.op]
           /\ Requests[call.op] \in Seq(RequestType)
           /\ Request \in RequestType
           /\ Id \in ReqId
           /\ ChunkSize \in 1 .. Bytes /\ call.offset + ChunkSize <= Bytes
<1> USE DEF IInv
<1>0. call \in CallType /\ calls \in Nat
  BY DEF TypeOK
<1>a. call.k \in Nat \ {0} /\ call.offset \in 0 .. Bytes - 1
      /\ call.op \in Ops \cup {"none"}
  BY <1>0 DEF CallType
<1>1. call.op \in Functions
  BY <1>a DEF Located, Running, Ops, Handling, Exchange
<1>2. /\ call.k \in DOMAIN Requests[call.op]
      /\ Requests[call.op] \in Seq(RequestType)
  BY <1>1, ATAssumption DEF Located
<1>3. Request \in RequestType
  <2>1. call.k \in 1 .. Len(Requests[call.op])
    BY <1>2
  <2> QED
    BY <2>1, <1>2 DEF Request
<1>4. Id \in ReqId
  <2>1. call.k \in Nat /\ call.offset \in Nat
    BY <1>a, Amount
  <2> QED
    BY <2>1, <1>0 DEF Id, ReqId
<1>5. ChunkSize \in 1 .. Bytes /\ call.offset + ChunkSize <= Bytes
  BY <1>a, Amount DEF ChunkSize
<1> QED
  BY <1>1, <1>2, <1>3, <1>4, <1>5

LEMMA Going ==
    ASSUME IInv, NEW where \in Exchange \cup {"parse"}, Running,
           call.at \in Exchange \cup {"pend", "parse"}, Goto(where)
    PROVE  call' \in CallType /\ Located' /\ Running' /\ call'.at = where
<1>1. call' \in CallType /\ call'.op = call.op /\ call'.k = call.k /\ call'.at = where
  BY DEF Goto, CallType, IInv, TypeOK, Places
<1> QED
  <2>1. call.op \in Functions /\ call.op \notin Handling
        /\ call.k \in DOMAIN Requests[call.op]
    BY InFunction, Apart
  <2> QED
    BY <1>1, <2>1 DEF Located, Running

LEMMA Returning ==
    ASSUME NEW ok \in BOOLEAN, NEW count \in Nat, Return(ok, count),
           call.op \in Ops \cup {"none"}
    PROVE  /\ call' \in CallType /\ Located'
           /\ returned' \in [op : Ops \cup {"none"}, ok : BOOLEAN, count : Nat]
<1>1. call' = Idle
  BY DEF Return
<1>2. Idle \in CallType
  BY ATAssumption DEF Idle, CallType, Places
<1>3. Located'
  BY <1>1, ATAssumption DEF Located, Idle, Handling
<1> QED
  BY <1>1, <1>2, <1>3 DEF Return

(* A request that has failed leads on to the next or out of the function.  *)
LEMMA Failing ==
    ASSUME IInv, At("poll"), Fail
    PROVE  /\ call' \in CallType /\ Located'
           /\ returned' \in [op : Ops \cup {"none"}, ok : BOOLEAN, count : Nat]
<1> USE DEF IInv, At
<1>1. /\ Running /\ call.at = "poll" /\ call \in CallType /\ call.op \in Functions
      /\ call.k \in DOMAIN Requests[call.op] /\ Requests[call.op] \in Seq(RequestType)
  BY InFunction DEF TypeOK, Exchange
<1>2. CASE Request.excused # 0 /\ lastErrorCode = Request.excused
  <2>1. call.k < Len(Requests[call.op])
    BY <1>1, <1>2, ATAssumption DEF Request
  <2>2. call' = [call EXCEPT !.k = @ + 1, !.at = "pend"] /\ UNCHANGED returned
    BY <1>2 DEF Fail
  <2>3. /\ call' \in CallType /\ call'.op = call.op /\ call'.at = "pend"
        /\ call'.k = call.k + 1
    <3>1. call.k + 1 \in Nat \ {0} /\ "pend" \in Places
      BY <1>1, Apart DEF CallType
    <3> QED
      BY <1>1, <2>2, <3>1 DEF CallType
  <2>4. call.k + 1 \in DOMAIN Requests[call.op]
    <3>1. call.k \in 1 .. Len(Requests[call.op])
      BY <1>1
    <3> QED
      BY <3>1, <2>1, <1>1
  <2> QED
    BY <2>2, <2>3, <2>4, <1>1, Apart DEF Located, TypeOK
<1>3. CASE ~(Request.excused # 0 /\ lastErrorCode = Request.excused)
  BY <1>1, <1>3, Returning DEF Fail, CallType
<1> QED
  BY <1>2, <1>3

(* A line changes neither the flag nor the main thread: event handlers     *)
(* cannot send.                                                            *)
LEMMA LineKeepsFlag ==
    ASSUME NEW l, EventCallback(l)
    PROVE  /\ requestPending' = requestPending
           /\ ~requestPending => currentResponse' = currentResponse
BY DEF EventCallback, RefusesRequest, Response

LEMMA ReceiveKeepsFlag ==
    ASSUME Receive
    PROVE  /\ requestPending' = requestPending /\ call' = call
           /\ ~requestPending => UNCHANGED <<lastErrorCode, currentResponse,
                                             cmdConfirmStatus>>
<1>1. CASE uartOpen
  <2>1. HandleRxLine(Head(outbox))
    BY <1>1 DEF Receive
  <2> QED
    BY <2>1, LineKeepsFlag DEF HandleRxLine, Receive
<1>2. CASE ~uartOpen
  BY <1>2 DEF Receive
<1> QED
  BY <1>1, <1>2

LEMMA EventKeepsFlag ==
    ASSUME NEW e, Event(e)
    PROVE  /\ requestPending' = requestPending /\ call' = call
           /\ ~requestPending => UNCHANGED <<lastErrorCode, currentResponse,
                                             cmdConfirmStatus>>
BY LineKeepsFlag DEF Event, HandleRxLine

LEMMA NoLine ==
    ASSUME NEW S PROVE <<>> \in Seq(S)
OBVIOUS

LEMMA OneLine ==
    ASSUME NEW S, NEW x \in S PROVE <<x>> \in Seq(S)
OBVIOUS

LEMMA HandedType ==
    ASSUME NEW req \in ReqId, NEW name \in STRING \cup {NoName}, NEW lines \in Seq(PlusLine)
    PROVE  Handed(req, name, lines)
             \in [req : ReqId, name : STRING \cup {NoName}, lines : Seq(PlusLine)]
BY DEF Handed

LEMMA TypesInit == Init => IInv
<1> SUFFICES ASSUME Init PROVE IInv
  OBVIOUS
<1>1. Idle \in CallType
  BY Amount DEF Idle, CallType, Places
<1>2. NoReq \in ReqId
  BY DEF NoReq, ReqId
<1>a. <<>> \in Seq(PlusLine)
  OBVIOUS
<1>b. NoResponse \in [req : ReqId, name : STRING \cup {NoName}, lines : Seq(PlusLine)]
  BY <1>2, <1>a, HandedType, Zenon DEF NoResponse
<1>c. /\ <<>> \in Seq({m \in InboxType : m.offset + m.size <= Bytes})
      /\ <<>> \in Seq(PlusLine \cup LastLine)
  BY NoLine
<1>d. returned \in [op : Ops \cup {"none"}, ok : BOOLEAN, count : Nat]
  BY DEF Init
<1>e. /\ requestPending \in BOOLEAN /\ uartOpen \in BOOLEAN
      /\ ready \in BOOLEAN /\ awake \in BOOLEAN
  BY DEF Init
<1>f. /\ pendingCommandName \in STRING \cup {NoName, "any"} /\ lastErrorCode \in Int
      /\ cmdConfirmStatus \in {"Invalid", "Success", "Failed"}
  BY DEF Init
<1>g. /\ currentResponse \in Seq(PlusLine)
      /\ inbox \in Seq({m \in InboxType : m.offset + m.size <= Bytes})
      /\ outbox \in Seq(PlusLine \cup LastLine)
  BY <1>a, <1>c DEF Init
<1>h. call \in CallType /\ world \in Worlds
      /\ handed \in [req : ReqId, name : STRING \cup {NoName}, lines : Seq(PlusLine)]
  BY <1>1, <1>b DEF Init
<1>i. /\ asked \subseteq ReqId /\ settled \subseteq asked
      /\ moved \subseteq 0 .. Bytes - 1 /\ verdict \in Int
      /\ calls \in Nat /\ events \in Nat /\ faults \in Nat
  BY DEF Init
<1>3. TypeOK
  BY <1>d, <1>e, <1>f, <1>g, <1>h, <1>i DEF TypeOK
<1>4. Located
  BY ATAssumption DEF Init, Located, Idle, Handling
<1> QED
  BY <1>3, <1>4 DEF IInv, PendingRuns, Init

LEMMA StartTypes ==
    ASSUME IInv, NEW op \in Ops, Start(op)
    PROVE  IInv'
<1> DEFINE place == CASE op = "Init"     -> "open"
                      [] op = "Deinit"   -> "quit"
                      [] op = "PinReset" -> "reset"
                      [] OTHER           -> "pend"
<1>1. call' = [Idle EXCEPT !.op = op, !.at = place]
  BY DEF Start
<1>2. /\ place \in {"open", "quit", "reset", "pend"}
      /\ op \in Handling => place # "pend"
      /\ op \in Functions => place = "pend"
  BY ATAssumption DEF Handling
<1> HIDE DEF place
<1>a. call' = [op |-> op, k |-> 1, at |-> place, polls |-> 0, offset |-> 0, count |-> 0]
  BY <1>1 DEF Idle
<1>b. /\ op \in Ops \cup {"none"} /\ 1 \in Nat \ {0} /\ place \in Places
      /\ 0 \in 0 .. MaxPolls /\ 0 \in 0 .. Bytes - 1 /\ 0 \in Nat
  BY <1>2, Amount DEF Places
<1>3. call' \in CallType /\ call'.op = op /\ call'.at = place /\ call'.k = 1
  BY <1>a, <1>b DEF CallType
<1>4. op \in Functions => 1 \in DOMAIN Requests[op]
  BY ATAssumption
<1>5. Located'
  BY <1>2, <1>3, <1>4 DEF Located
<1>6. TypeOK'
  BY <1>3 DEF Start, IInv, TypeOK, driver, module
<1> QED
  BY <1>5, <1>6 DEF IInv, PendingRuns, Start, driver, Running

LEMMA SendRequestTypes ==
    ASSUME IInv, Pend \/ Unname \/ CopyName \/ MeasureName
    PROVE  IInv'
<1>1. PICK where \in {"delay", "unnamed", "naming", "transmit"} : Goto(where)
  BY DEF Pend, Unname, CopyName, MeasureName
<1>2. Running /\ call.at \in Exchange \cup {"pend", "parse"}
  BY DEF Pend, Unname, CopyName, MeasureName, At, Exchange
<1>3. where \in Exchange
  BY <1>1 DEF Exchange
<1>4. call' \in CallType /\ Located' /\ Running' /\ call'.at = where
  BY <1>1, <1>2, <1>3, Going
<1>5. Request.name \in STRING
  BY <1>2, InFunction DEF RequestType
<1>6. CASE Pend
  BY <1>3, <1>4, <1>6 DEF Pend, IInv, TypeOK, PendingRuns, module, history, bounds
<1>7. CASE Unname
  BY <1>3, <1>4, <1>7 DEF Unname, IInv, TypeOK, PendingRuns, module, history, bounds
<1>8. CASE CopyName
  BY <1>3, <1>4, <1>8 DEF CopyName, IInv, TypeOK, PendingRuns, module, history, bounds
<1>9. CASE MeasureName
  BY <1>3, <1>4, <1>5, <1>9
  DEF MeasureName, IInv, TypeOK, PendingRuns, module, history, bounds
<1> QED
  BY <1>6, <1>7, <1>8, <1>9

LEMMA TransmitTypes ==
    ASSUME IInv, Transmit
    PROVE  IInv'
<1>1. Running /\ call.at \in Exchange \cup {"pend", "parse"} /\ Goto("arm")
      /\ "arm" \in Exchange
  BY DEF Transmit, At, Exchange
<1>2. call' \in CallType /\ Located' /\ Running' /\ call'.at = "arm"
  BY <1>1, Going
<1> DEFINE sending == [req |-> Id, name |-> Request.name, way |-> Request.way,
                       reply |-> Request.reply, excused |-> Request.excused,
                       offset |-> call.offset, size |-> ChunkSize]
           Whole == {m \in InboxType : m.offset + m.size <= Bytes}
<1>3. sending \in Whole
  BY <1>1, InFunction DEF InboxType, RequestType, IInv, TypeOK, CallType
<1>4. inbox \in Seq(Whole) /\ inbox' \in {inbox, Append(inbox, sending)}
  BY DEF Transmit, IInv, TypeOK
<1> HIDE DEF sending
<1>5. inbox' \in Seq(Whole)
  BY <1>3, <1>4
<1>6. Id \in ReqId
  BY <1>1, InFunction
<1>7. faults' \in Nat
  BY DEF Transmit, IInv, TypeOK
<1>8. TypeOK'
  BY <1>2, <1>5, <1>6, <1>7 DEF Transmit, IInv, TypeOK, driver
<1> QED
  BY <1>1, <1>2, <1>8 DEF IInv, PendingRuns, Transmit, driver

LEMMA ArmTypes ==
    ASSUME IInv, Arm \/ Poll
    PROVE  IInv'
<1>1. /\ Running /\ call.at \in {"arm", "poll"}
      /\ call \in CallType /\ call.polls \in 0 .. MaxPolls
  BY DEF Arm, Poll, At, IInv, TypeOK, CallType
<1>2. PICK polls \in 0 .. MaxPolls : call' = [call EXCEPT !.at = "poll", !.polls = polls]
  <2>1. CASE Arm
    <3>1. 0 \in 0 .. MaxPolls
      BY Amount
    <3>2. call' = [call EXCEPT !.at = "poll", !.polls = 0]
      BY <2>1 DEF Arm
    <3> QED
      BY <3>1, <3>2, Zenon
  <2>2. CASE Poll
    <3>1. call.polls + 1 \in 0 .. MaxPolls /\ call.at = "poll"
      BY <1>1, <2>2, Amount DEF Poll, At
    <3>2. call' = [call EXCEPT !.at = "poll", !.polls = call.polls + 1]
      BY <1>1, <2>2, <3>1 DEF Poll, CallType
    <3> QED
      BY <3>1, <3>2
  <2> QED
    BY <2>1, <2>2
<1>3. /\ call' \in CallType /\ call'.op = call.op /\ call'.k = call.k
      /\ call'.at = "poll" /\ "poll" \in Exchange
  BY <1>1, <1>2 DEF CallType, Places, Exchange
<1>4. Located' /\ Running'
  BY <1>1, <1>3, Apart DEF Located, Running, IInv, Handling
<1>5. TypeOK'
  BY <1>3 DEF Arm, Poll, IInv, TypeOK, driver, module, history, bounds
<1> QED
  BY <1>3, <1>4, <1>5 DEF IInv, PendingRuns

LEMMA TimeoutTypes ==
    ASSUME IInv, Timeout
    PROVE  IInv'
<1>1. At("poll") /\ Fail
  BY DEF Timeout
<1>2. TypeOK'
  BY <1>1, Failing DEF Timeout, IInv, TypeOK, module, history, bounds
<1> QED
  BY <1>1, <1>2, Failing DEF IInv, PendingRuns, Timeout

LEMMA ConfirmTypes ==
    ASSUME IInv, Confirm
    PROVE  IInv'
<1>1. At("poll") /\ Running /\ call.at \in Exchange \cup {"pend", "parse"}
  BY DEF Confirm, At, Exchange
<1>2. CASE cmdConfirmStatus = "Success"
  <2>1. Goto("parse")
    BY <1>2 DEF Confirm
  <2>2. call' \in CallType /\ Located'
    BY <1>1, <2>1, Going
  <2>3. handed' \in [req : ReqId, name : STRING \cup {NoName}, lines : Seq(PlusLine)]
    <3>1. /\ Id \in ReqId /\ Request.name \in STRING \cup {NoName}
          /\ currentResponse \in Seq(PlusLine)
      BY <1>1, InFunction DEF IInv, TypeOK, RequestType
    <3>2. Handed(Id, Request.name, currentResponse)
            \in [req : ReqId, name : STRING \cup {NoName}, lines : Seq(PlusLine)]
      BY <3>1, HandedType
    <3> QED
      BY <1>2, <3>2 DEF Confirm, IInv, TypeOK
  <2>4. TypeOK'
    BY <1>2, <2>2, <2>3 DEF Confirm, IInv, TypeOK, module, history, bounds
  <2> QED
    BY <2>2, <2>4 DEF IInv, PendingRuns, Confirm
<1>3. CASE cmdConfirmStatus # "Success"
  <2>1. Fail /\ UNCHANGED handed
    BY <1>3 DEF Confirm
  <2>2. TypeOK'
    BY <1>1, <2>1, Failing DEF Confirm, IInv, TypeOK, module, history, bounds
  <2> QED
    BY <1>1, <2>1, <2>2, Failing DEF IInv, PendingRuns, Confirm
<1> QED
  BY <1>2, <1>3

(* What a response says of a chunk is a number if the response parses.     *)
LEMMA SaidNumber ==
    ASSUME IInv, At("parse"), Parses
    PROVE  Said \in Nat /\ Stride \in Nat
<1>1. /\ Request \in RequestType /\ ChunkSize \in Nat
      /\ call.op \in Functions /\ call.k \in DOMAIN Requests[call.op]
  BY InFunction, Amount DEF At
<1>2. Request.way \in {"read", "write"} => Request.reply = "parsed"
  BY <1>1, ATAssumption DEF Request
<1>3. ASSUME Request.reply = "parsed" PROVE Head(handed.lines).n \in Nat
  <2>1. handed.lines \in Seq(PlusLine) /\ handed.lines # <<>>
    BY <1>3 DEF Parses, IInv, TypeOK
  <2>2. Head(handed.lines) \in PlusLine
    BY <2>1
  <2> QED
    BY <2>2 DEF PlusLine
<1> QED
  BY <1>1, <1>2, <1>3 DEF Said, Stride

LEMMA ProceedTypes ==
    ASSUME IInv, Proceed
    PROVE  IInv'
<1> DEFINE offset == call.offset + Stride
           count  == call.count + Said
<1>1. At("parse") /\ Running /\ call.at \in Exchange \cup {"pend", "parse"}
  BY DEF Proceed, At
<1>2. /\ call \in CallType /\ call.op \in Functions /\ call.op \notin Handling
      /\ call.op \in Ops \cup {"none"} /\ call.count \in Nat
      /\ call.offset \in Nat /\ call.k \in Nat \ {0}
      /\ call.k \in DOMAIN Requests[call.op]
      /\ Requests[call.op] \in Seq(RequestType)
  BY <1>1, InFunction, Apart, Amount DEF IInv, TypeOK, CallType
<1>3. ~requestPending /\ ~requestPending'
  BY <1>1 DEF Proceed, driver, IInv, PendingRuns, At, Exchange
<1>4. /\ call' \in CallType /\ Located'
      /\ returned' \in [op : Ops \cup {"none"}, ok : BOOLEAN, count : Nat]
  <2>1. CASE ~Parses
    <3>1. Return(FALSE, call.count)
      BY <2>1 DEF Proceed
    <3> QED
      BY <1>2, <3>1, Returning
  <2>2. CASE Parses /\ Request.way # "once" /\ offset < Bytes
    <3>1. offset \in 0 .. Bytes - 1 /\ count \in Nat
      BY <1>1, <1>2, <2>2, SaidNumber, Amount
    <3>2. /\ call' = [call EXCEPT !.at = "pend", !.offset = offset, !.count = count]
          /\ UNCHANGED returned
      BY <2>2 DEF Proceed
    <3> HIDE DEF offset, count
    <3>3. /\ call' \in CallType /\ call'.op = call.op /\ call'.k = call.k
          /\ call'.at = "pend"
      BY <1>2, <3>1, <3>2 DEF CallType, Places
    <3> QED
      BY <1>2, <3>2, <3>3 DEF Located, IInv, TypeOK
  <2>3. CASE /\ Parses /\ ~(Request.way # "once" /\ offset < Bytes)
             /\ call.k < Len(Requests[call.op])
    <3>1. call' = [call EXCEPT !.at = "pend", !.k = @ + 1] /\ UNCHANGED returned
      BY <2>3 DEF Proceed
    <3>2. call.k + 1 \in DOMAIN Requests[call.op] /\ call.k + 1 \in Nat \ {0}
      BY <1>2, <2>3
    <3>3. /\ call' \in CallType /\ call'.op = call.op /\ call'.k = call.k + 1
          /\ call'.at = "pend"
      BY <1>2, <3>1, <3>2 DEF CallType, Places
    <3> QED
      BY <1>2, <3>1, <3>2, <3>3 DEF Located, IInv, TypeOK
  <2>4. CASE /\ Parses /\ ~(Request.way # "once" /\ offset < Bytes)
             /\ ~(call.k < Len(Requests[call.op]))
    <3>1. PICK given \in {0, count} : Return(TRUE, given)
      BY <2>4 DEF Proceed
    <3>2. given \in Nat
      BY <1>1, <1>2, <2>4, SaidNumber
    <3> QED
      BY <1>2, <3>1, <3>2, Returning
  <2> QED
    BY <2>1, <2>2, <2>3, <2>4
<1>5. TypeOK'
  BY <1>4 DEF Proceed, IInv, TypeOK, driver, module, history, bounds
<1> QED
  BY <1>3, <1>4, <1>5 DEF IInv, PendingRuns

LEMMA HandlingTypes ==
    ASSUME IInv, Open \/ Quit \/ Close \/ LowerReset \/ RaiseReset
    PROVE  IInv'
<1>1. /\ Running /\ call \in CallType /\ call.op \in Ops \cup {"none"}
      /\ call.at \in {"open", "quit", "close", "reset", "release"}
  BY DEF Open, Quit, Close, LowerReset, RaiseReset, At, IInv, TypeOK, CallType
<1>2. ~requestPending
  BY <1>1 DEF IInv, PendingRuns, Exchange
<1>3. call.op \notin Functions
  BY <1>1 DEF IInv, Located, Exchange
<1>4. CASE Open \/ Close \/ RaiseReset
  <2>1. Return(TRUE, 0)
    BY <1>4 DEF Open, Close, RaiseReset
  <2>2. /\ call' \in CallType /\ Located'
        /\ returned' \in [op : Ops \cup {"none"}, ok : BOOLEAN, count : Nat]
    BY <1>1, <2>1, Returning
  <2>3. TypeOK' /\ ~requestPending'
    <3>1. CASE Open
      BY <1>2, <3>1, <2>2 DEF Open, IInv, TypeOK, module, history, bounds
    <3>2. CASE Close
      BY <1>2, <3>2, <2>2 DEF Close, IInv, TypeOK, module, history, bounds
    <3>3. CASE RaiseReset
      BY <1>2, <3>3, <2>2 DEF RaiseReset, IInv, TypeOK, driver, module, history, bounds
    <3> QED
      BY <1>4, <3>1, <3>2, <3>3
  <2> QED
    BY <2>2, <2>3 DEF IInv, PendingRuns
<1>5. CASE Quit \/ LowerReset
  <2>1. PICK where \in {"close", "release"} : Goto(where)
    BY <1>5 DEF Quit, LowerReset
  <2>2. call' \in CallType /\ call'.op = call.op /\ call'.at = where
    BY <1>1, <2>1 DEF Goto, CallType, Places
  <2>3. Located'
    BY <1>3, <2>2 DEF Located
  <2>4. outbox' \in Seq(PlusLine \cup LastLine)
    <3>1. outbox' \in {<<>>} \cup {outbox}
      BY <1>5 DEF Quit, LowerReset, module
    <3>2. outbox \in Seq(PlusLine \cup LastLine)
      BY DEF IInv, TypeOK
    <3>3. outbox' = <<>> \/ outbox' = outbox
      BY <3>1
    <3> QED
      BY <3>2, <3>3, NoLine
  <2>5. TypeOK' /\ ~requestPending'
    <3>1. CASE Quit
      <4>1. currentResponse' \in Seq(PlusLine)
        BY <3>1, NoLine DEF Quit
      <4>2. /\ UNCHANGED <<inbox, moved, settled, asked, handed, returned>>
            /\ requestPending' = FALSE /\ ready' = FALSE
        BY <3>1 DEF Quit, module, history
      <4> QED
        BY <4>1, <4>2, <2>2, <2>4, <3>1 DEF Quit, IInv, TypeOK, module, history, bounds
    <3>2. CASE LowerReset
      <4>1. inbox' \in Seq({m \in InboxType : m.offset + m.size <= Bytes})
        BY <3>2 DEF LowerReset
      <4> QED
        BY <1>2, <2>2, <2>4, <3>2, <4>1
        DEF LowerReset, IInv, TypeOK, driver, history, bounds
    <3> QED
      BY <1>5, <3>1, <3>2
  <2> QED
    BY <2>3, <2>5 DEF IInv, PendingRuns
<1> QED
  BY <1>4, <1>5

-----------------------------------------------------------------------------
(* The interrupt and the module.                                           *)
LEMMA LineTypes ==
    ASSUME IInv, NEW l \in PlusLine \cup LastLine, HandleRxLine(l)
    PROVE  /\ requestPending' = requestPending
           /\ pendingCommandName' = pendingCommandName
           /\ currentResponse' \in Seq(PlusLine)
           /\ lastErrorCode' \in Int
           /\ cmdConfirmStatus' \in {"Invalid", "Success", "Failed"}
<1>1. /\ UNCHANGED <<requestPending, pendingCommandName>>
      /\ currentResponse' = IF Response(l) THEN Append(currentResponse, l)
                            ELSE currentResponse
  BY DEF HandleRxLine, EventCallback, RefusesRequest
<1>2. Response(l) => l \in PlusLine
  BY DEF Response, LastLine
<1>3. currentResponse \in Seq(PlusLine)
  BY DEF IInv, TypeOK
<1>4. currentResponse' \in Seq(PlusLine)
  BY <1>1, <1>2, <1>3
<1>5. l.n \in Int
  BY DEF PlusLine, LastLine
<1> QED
  BY <1>1, <1>4, <1>5 DEF HandleRxLine, IInv, TypeOK

LEMMA ReceiveTypes ==
    ASSUME IInv, Receive
    PROVE  IInv'
<1>1. outbox \in Seq(PlusLine \cup LastLine) /\ outbox # <<>>
  BY DEF Receive, IInv, TypeOK
<1>2. /\ Head(outbox) \in PlusLine \cup LastLine
      /\ outbox' \in Seq(PlusLine \cup LastLine)
  BY <1>1 DEF Receive
<1>3. TypeOK' /\ requestPending' = requestPending
  <2>1. CASE uartOpen
    BY <1>2, <2>1, LineTypes DEF Receive, IInv, TypeOK, history, bounds
  <2>2. CASE ~uartOpen
    BY <1>2, <2>2 DEF Receive, IInv, TypeOK, history, bounds
  <2> QED
    BY <2>1, <2>2
<1> QED
  BY <1>3 DEF IInv, Located, PendingRuns, Running, Receive, Request

LEMMA EventTypes ==
    ASSUME IInv, NEW e \in Events, Event(e)
    PROVE  IInv'
<1> DEFINE l == [kind |-> "plus", name |-> e, n |-> 0, req |-> NoReq]
<1>1. l \in PlusLine
  BY DEF PlusLine, NoReq, ReqId
<1>2. HandleRxLine(l)
  BY DEF Event
<1> HIDE DEF l
<1>3. TypeOK' /\ requestPending' = requestPending
  BY <1>1, <1>2, LineTypes DEF Event, IInv, TypeOK, module, history
<1> QED
  BY <1>3 DEF IInv, Located, PendingRuns, Running, Event

LEMMA ServeTypes ==
    ASSUME IInv, Serve
    PROVE  IInv'
<1> DEFINE r == Head(inbox)
           Lines == PlusLine \cup LastLine
           Whole == {m \in InboxType : m.offset + m.size <= Bytes}
<1>1. inbox \in Seq(Whole) /\ inbox # <<>> /\ outbox \in Seq(Lines)
  BY DEF Serve, IInv, TypeOK
<1>2. r \in Whole /\ inbox' \in Seq(Whole)
  BY <1>1 DEF Serve
<1> HIDE DEF r
<1>3. /\ r.req \in ReqId /\ r.name \in STRING /\ r.offset \in Nat /\ r.size \in Nat
      /\ r.offset + r.size <= Bytes
  BY <1>2, Amount DEF InboxType
<1>4. ASSUME NEW n \in Amounts(r) PROVE n \in Nat /\ n <= r.size
  BY <1>3, <1>4, Amount DEF Amounts
<1>5. ASSUME NEW kind \in {"ok", "error"}, NEW n \in Int
      PROVE  Verdict(kind, r, n) \in Lines
  BY <1>3 DEF Verdict, LastLine
<1>6. ASSUME NEW n \in Nat PROVE Reply(r, n) \in Lines
  BY <1>3 DEF Reply, PlusLine
<1> DEFINE Typed == /\ outbox' \in Seq(Lines) /\ settled' \subseteq asked
                    /\ moved' \subseteq 0 .. Bytes - 1 /\ verdict' \in Int
<1>0. /\ Latest(r) \subseteq asked /\ settled \subseteq asked
      /\ moved \subseteq 0 .. Bytes - 1 /\ verdict \in Int
  BY DEF IInv, TypeOK, Latest
<1> HIDE DEF Lines
<1>a. ASSUME NEW n \in Amounts(r), Grant(r, n) PROVE Typed
  <2> DEFINE reply == IF r.reply = "none" THEN <<>> ELSE <<Reply(r, n)>>
             last  == <<Verdict("ok", r, 0)>>
             both  == outbox \o reply
  <2>1. reply \in Seq(Lines)
    BY <1>a, <1>4, <1>6, NoLine, OneLine
  <2>2. last \in Seq(Lines)
    BY <1>5, OneLine
  <2>3. outbox' = both \o last
    BY <1>a DEF Grant
  <2> HIDE DEF reply, last
  <2>4. both \in Seq(Lines)
    BY <1>1, <2>1
  <2>5. both \o last \in Seq(Lines)
    <3> HIDE DEF both
    <3> QED
      BY <2>2, <2>4
  <2>6. r.offset .. r.offset + n - 1 \subseteq 0 .. Bytes - 1
    BY <1>a, <1>3, <1>4, Amount
  <2> QED
    BY <1>a, <1>0, <2>3, <2>5, <2>6 DEF Grant
<1>b. ASSUME NEW code \in ErrorCodes, Deny(r, code) PROVE Typed
  <2>1. code \in Int
    BY ATAssumption
  <2>2. Verdict("error", r, code) \in Lines
    BY <1>5, <2>1
  <2>3. outbox' \in Seq(Lines)
    BY <1>1, <1>b, <2>2 DEF Deny
  <2> QED
    BY <1>0, <1>b, <2>1, <2>3 DEF Deny
<1>7. Typed
  <2>1. (\E n \in Amounts(r) : Grant(r, n)) \/ \E code \in ErrorCodes : Deny(r, code)
    BY DEF Serve, r
  <2> QED
    BY <2>1, <1>a, <1>b
<1> USE DEF Lines
<1>8. TypeOK'
  BY <1>2, <1>7 DEF Serve, IInv, TypeOK, driver, bounds
<1> QED
  BY <1>8 DEF IInv, Located, PendingRuns, Running, Serve, driver

LEMMA BootTypes ==
    ASSUME IInv, Boot
    PROVE  IInv'
<1> DEFINE l == Reply([name |-> "eventstartup", req |-> NoReq], 0)
<1>1. l \in PlusLine
  BY DEF Reply, PlusLine, NoReq, ReqId
<1> HIDE DEF l
<1>2. outbox' = Append(outbox, l) /\ outbox \in Seq(PlusLine \cup LastLine)
  BY DEF Boot, IInv, TypeOK, l
<1>3. outbox' \in Seq(PlusLine \cup LastLine)
  BY <1>1, <1>2
<1>4. TypeOK'
  BY <1>3 DEF Boot, IInv, TypeOK, driver, history, bounds
<1> QED
  BY <1>4 DEF IInv, Located, PendingRuns, Running, Boot, driver

LEMMA Inductive == IInv /\ [Next]_vars => IInv'
<1> SUFFICES ASSUME IInv, [Next]_vars PROVE IInv'
  OBVIOUS
<1>1. CASE UNCHANGED vars
  BY <1>1 DEF IInv, TypeOK, Located, PendingRuns, Running, vars, driver, module,
              history, bounds
<1> QED
  BY <1>1, StartTypes, SendRequestTypes, TransmitTypes, ArmTypes, TimeoutTypes,
     ConfirmTypes, ProceedTypes, HandlingTypes, ReceiveTypes, EventTypes, ServeTypes,
     BootTypes DEF Next, Main

(* While no call runs, no line changes what the driver tells of the call   *)
(* before: none finds the request pending.                                 *)
LEMMA QuietBetweenCalls ==
    IInv /\ [Next]_vars
        => (~Running /\ ~Running' => UNCHANGED <<lastErrorCode, currentResponse,
                                                 cmdConfirmStatus>>)
<1> SUFFICES ASSUME IInv, [Next]_vars, ~Running, ~Running'
             PROVE  UNCHANGED <<lastErrorCode, currentResponse, cmdConfirmStatus>>
  OBVIOUS
<1>1. ~requestPending
  BY DEF IInv, PendingRuns
<1>2. ASSUME NEW op \in Ops PROVE ~Start(op)
  <2>1. op # "none"
    BY ATAssumption DEF Ops, Handling
  <2>2. ASSUME Start(op) PROVE call'.op = op
    BY <2>2 DEF Start, Idle
  <2> QED
    BY <2>1, <2>2 DEF Running
<1>3. ~Main
  BY DEF Main, Pend, Unname, CopyName, MeasureName, Transmit, Arm, Poll, Timeout,
         Confirm, Proceed, Open, Quit, Close, LowerReset, RaiseReset, At
<1>4. CASE Receive
  BY <1>4, <1>1, ReceiveKeepsFlag
<1>5. ASSUME NEW e \in Events, Event(e)
      PROVE  UNCHANGED <<lastErrorCode, currentResponse, cmdConfirmStatus>>
  BY <1>5, <1>1, EventKeepsFlag
<1>6. CASE Serve \/ Boot
  BY <1>6 DEF Serve, Boot, driver
<1>7. CASE UNCHANGED vars
  BY <1>7 DEF vars, driver
<1> QED
  BY <1>2, <1>3, <1>4, <1>5, <1>6, <1>7 DEF Next

(* Every variable keeps its type; a request is pending only while a        *)
(* function waits for its answer (SendRequest and WaitForConfirm,          *)
(* Calypso.c:346-444).                                                     *)
THEOREM Invariance == Spec => []IInv
BY TypesInit, Inductive, PTL DEF Spec

(* The type invariant, whatever functions are called and whatever the      *)
(* module answers: the loops over chunks stay inside the caller's data.    *)
THEOREM TypeCorrect == Spec => []TypeOK
<1>1. IInv => TypeOK
  BY DEF IInv
<1> QED
  BY Invariance, <1>1, PTL

(* What GetLastError and the response tell of a call stays until the next: *)
(* late answers and events leave them alone (HandleRxLine, Calypso.c:553). *)
THEOREM KeepsResults == Spec => ResultsKept
BY Invariance, QuietBetweenCalls, PTL DEF Spec, ResultsKept

-----------------------------------------------------------------------------
(* The module that answers in time.                                        *)

(* The UART is open while the driver is ready, which it is in a function.  *)
Opened ==
    /\ ready => uartOpen
    /\ call.op \in Functions => ready
    /\ At("close") => ~ready

(* What HandleRxLine takes for the response, at each place of SendRequest  *)
(* and WaitForConfirm where a line may come.                               *)
Named ==
    /\ Running /\ call.at \in Exchange => requestPending
    /\ At("unnamed") => pendingCommandName = NoName
    /\ Running /\ call.at \in {"transmit", "arm", "poll"}
         => pendingCommandName = Request.name

(* A loop but Read counts what it goes on by; there is none over one       *)
(* request. Data have been moved up to the chunk under way, and n bytes of *)
(* it: Read may leave gaps behind the chunks that were not full.           *)
Tally == /\ Request.way # "read" => call.count = call.offset
         /\ Request.way = "once" => call.offset = 0
MovedTo(n) ==
    /\ Cardinality(moved) = call.count + n
    /\ moved \subseteq 0 .. call.offset + n - 1
    /\ Request.way # "read" => moved = 0 .. call.offset + n - 1

(* The request under way as the module sees it, and the line it answers a  *)
(* request for data with.                                                  *)
Message == [req |-> Id, name |-> Request.name, way |-> Request.way,
           reply |-> Request.reply, excused |-> Request.excused,
           offset |-> call.offset, size |-> ChunkSize]
Own(n) == [kind |-> "plus", name |-> Request.name, n |-> n, req |-> Id]
WantsReply == Request.reply # "none"

Startup(l)    == l.kind = "plus" /\ l.name = "eventstartup"
Startups(n)   == \A i \in 1 .. n : Startup(outbox[i])
Quiet         == Startups(Len(outbox))
Ends(kind, n) ==
    /\ outbox # <<>>
    /\ outbox[Len(outbox)] = [kind |-> kind, name |-> NoName, n |-> n, req |-> Id]

(* The requests of the call so far, in their order.                        *)
Earlier(id) == \/ id[2] < call.k
               \/ id[2] = call.k /\ id[3] < call.offset
Behind == \A id \in asked : Earlier(id)
Underway == /\ Id \in asked
           /\ \A id \in asked \ {Id} : Earlier(id)
           /\ asked \ {Id} \subseteq settled

Fresh   == lastErrorCode = 0 /\ (WantsReply => currentResponse = <<>>)
Gave(n) == /\ n \in Amounts(Message) /\ MovedTo(n)
           /\ Id \in settled <=> (Request.way = "read" => n > 0)
           /\ verdict = 0 /\ lastErrorCode = 0
Denied  == /\ MovedTo(0)
           /\ verdict # 0
           /\ Id \in settled <=> verdict = Request.excused

(* Before a request is sent, all those before it are settled.              *)
Preparing ==
    /\ call.at \in {"pend", "delay", "unnamed", "naming", "transmit"}
    /\ Quiet /\ inbox = <<>>
    /\ Behind /\ asked \subseteq settled /\ MovedTo(0)
    /\ call.at # "pend" => Fresh

(* It is sent, lost or with the module.                                    *)
Waiting ==
    /\ call.at \in {"arm", "poll"}
    /\ call.at = "poll" => cmdConfirmStatus = "Invalid"
    /\ Quiet /\ inbox \in {<<>>, <<Message>>} /\ (inbox # <<>> => awake)
    /\ Underway /\ Fresh /\ Id \notin settled
    /\ MovedTo(0) /\ verdict = 0

(* It is granted: the response and the verdict are on their way,           *)
Responding(n) ==
    /\ call.at = "poll" /\ cmdConfirmStatus = "Invalid" /\ inbox = <<>> /\ awake
    /\ Underway /\ Gave(n) /\ WantsReply /\ currentResponse = <<>>
    /\ Len(outbox) > 1 /\ Startups(Len(outbox) - 2)
    /\ outbox[Len(outbox) - 1] = Own(n) /\ Ends("ok", 0)

(* then the verdict alone,                                                 *)
Granting(n) ==
    /\ call.at = "poll" /\ cmdConfirmStatus = "Invalid" /\ inbox = <<>> /\ awake
    /\ Underway /\ Gave(n) /\ (WantsReply => currentResponse = <<Own(n)>>)
    /\ Startups(Len(outbox) - 1) /\ Ends("ok", 0)

(* then nothing.                                                           *)
Granted(n) ==
    /\ call.at = "poll" /\ cmdConfirmStatus = "Success" /\ inbox = <<>> /\ Quiet
    /\ Underway /\ Gave(n) /\ (WantsReply => currentResponse = <<Own(n)>>)

(* It is denied.                                                           *)
Denying ==
    /\ call.at = "poll" /\ cmdConfirmStatus = "Invalid" /\ inbox = <<>> /\ awake
    /\ Underway /\ Denied /\ lastErrorCode = 0
    /\ Startups(Len(outbox) - 1) /\ Ends("error", verdict)
Refused ==
    /\ call.at = "poll" /\ cmdConfirmStatus = "Failed" /\ inbox = <<>> /\ Quiet
    /\ Underway /\ Denied /\ lastErrorCode = verdict

(* The response is with the function.                                      *)
Parsing(n) ==
    /\ call.at = "parse" /\ Quiet /\ inbox = <<>>
    /\ Underway /\ Gave(n) /\ (WantsReply => handed.lines = <<Own(n)>>)

Stage ==
    \/ Preparing \/ Waiting \/ Denying \/ Refused
    \/ \E n \in 0 .. Bytes :
          Responding(n) \/ Granting(n) \/ Granted(n) \/ Parsing(n)

(* A call of a function, one that handles the module or none, and what the *)
(* latest call of a function has left behind.                              *)
Story ==
    /\ call.op \in Functions => Tally /\ Stage
    /\ call.op \notin Functions => Quiet /\ inbox = <<>>

Outcome ==
    ~Running /\ returned.op \in Functions =>
        /\ returned.ok <=> asked \subseteq settled
        /\ Cardinality(moved) = returned.count
        /\ returned.ok /\ Requests[returned.op][1].way \in {"write", "send"}
             => moved = 0 .. Bytes - 1
        /\ ~returned.ok => lastErrorCode = verdict

TInv == Opened /\ Named /\ (Timely => Story /\ Outcome /\ OwnResponse)

-----------------------------------------------------------------------------
(* What stays the same while the main thread stays with a request.         *)
LEMMA SameRequest ==
    ASSUME call'.op = call.op, call'.k = call.k, call'.offset = call.offset, calls' = calls
    PROVE  /\ Request' = Request /\ Id' = Id /\ ChunkSize' = ChunkSize
           /\ Message' = Message
           /\ WantsReply' <=> WantsReply
           /\ \A n : Own(n)' = Own(n)
<1>1. Request' = Request /\ Id' = Id /\ ChunkSize' = ChunkSize
  BY DEF Request, Id, ChunkSize
<1>2. Message' = Message /\ (WantsReply' <=> WantsReply)
  BY <1>1 DEF Message, WantsReply
<1>3. \A n : Own(n)' = Own(n)
  BY <1>1 DEF Own
<1> QED
  BY <1>1, <1>2, <1>3

LEMMA SameHistory ==
    ASSUME call'.op = call.op, call'.k = call.k, call'.offset = call.offset, calls' = calls,
           call'.count = call.count, UNCHANGED <<asked, settled, moved>>
    PROVE  /\ Underway' <=> Underway
           /\ Behind' <=> Behind
           /\ (Id \in settled)' <=> Id \in settled
           /\ MovedTo(0)' <=> MovedTo(0)
           /\ Tally' <=> Tally
<1>1. Id' = Id /\ Request' = Request
  BY SameRequest
<1>2. \A id : Earlier(id)' <=> Earlier(id)
  BY DEF Earlier
<1>3. (MovedTo(0)' <=> MovedTo(0)) /\ (Tally' <=> Tally)
  BY <1>1 DEF MovedTo, Tally
<1> QED
  BY <1>1, <1>2, <1>3 DEF Underway, Behind

LEMMA SameVerdict ==
    ASSUME call'.op = call.op, call'.k = call.k, call'.offset = call.offset, calls' = calls,
           call'.count = call.count, UNCHANGED <<asked, settled, moved, verdict>>
    PROVE  /\ lastErrorCode' = lastErrorCode => \A n : Gave(n)' <=> Gave(n)
           /\ Denied' <=> Denied
<1>1. Id' = Id /\ Message' = Message /\ Request' = Request
  BY SameRequest
<1>2. /\ \A n : (n \in Amounts(Message))' <=> n \in Amounts(Message)
      /\ \A n : MovedTo(n)' <=> MovedTo(n)
  BY <1>1 DEF Amounts, MovedTo
<1>3. lastErrorCode' = lastErrorCode => \A n : Gave(n)' <=> Gave(n)
  BY <1>1, <1>2 DEF Gave
<1>4. Denied' <=> Denied
  BY <1>1, SameHistory DEF Denied
<1> QED
  BY <1>3, <1>4

(* What a running function has of the constants.                           *)
LEMMA OfTable ==
    ASSUME IInv, call.op \in Functions
    PROVE  /\ Running /\ call.at \in Exchange \cup {"pend", "parse"}
           /\ Request \in RequestType
           /\ Request.way # "once" => Len(Requests[call.op]) = 1
           /\ Request.way \in {"read", "write"} => WantsReply /\ Request.reply = "parsed"
           /\ Request.name # "any"
           /\ WantsReply => \A e \in Events \cup {"eventstartup"} :
                                /\ Request.name # e
                                /\ e \in Events => Request.name \notin Begins[e]
<1>1. Running /\ call.at \in Exchange \cup {"pend", "parse"}
  BY ATAssumption DEF IInv, Located, Running
<1>2. call.k \in DOMAIN Requests[call.op] /\ Request \in RequestType
  BY <1>1, InFunction
<1>3. Request.way \in {"read", "write"} => WantsReply /\ Request.reply = "parsed"
  BY <1>2, ATAssumption DEF Request, WantsReply
<1> QED
  BY <1>1, <1>2, <1>3, TableAssumption DEF Request, WantsReply

(* What comes after the first of the lines on their way.                   *)
LEMMA NextLine ==
    ASSUME IInv, Receive
    PROVE  /\ Len(outbox) \in Nat \ {0} /\ Len(outbox') = Len(outbox) - 1
           /\ Head(outbox) = outbox[1]
           /\ \A i \in 1 .. Len(outbox) - 1 : outbox'[i] = outbox[i + 1]
           /\ outbox' # <<>> <=> Len(outbox) > 1
           /\ \A n \in 1 .. Len(outbox) :
                 Startups(n) => Startups(n - 1)' /\ Startup(Head(outbox))
<1>1. outbox \in Seq(PlusLine \cup LastLine) /\ outbox # <<>> /\ outbox' = Tail(outbox)
  BY DEF Receive, IInv, TypeOK
<1>2. /\ Len(outbox) \in Nat \ {0} /\ Len(outbox') = Len(outbox) - 1
      /\ Head(outbox) = outbox[1]
      /\ \A i \in 1 .. Len(outbox) - 1 : outbox'[i] = outbox[i + 1]
      /\ outbox' # <<>> <=> Len(outbox) > 1
  BY <1>1
<1>3. ASSUME NEW n \in 1 .. Len(outbox), Startups(n)
      PROVE  Startups(n - 1)' /\ Startup(Head(outbox))
  <2>1. ASSUME NEW i \in 1 .. n - 1 PROVE Startup(outbox[i])'
    <3>1. i + 1 \in 1 .. n /\ outbox'[i] = outbox[i + 1]
      BY <1>2
    <3> QED
      BY <1>3, <3>1 DEF Startups, Startup
  <2> QED
    BY <1>2, <1>3, <2>1 DEF Startups
<1> QED
  BY <1>2, <1>3

(* A line that nobody asked for is no response to a request for data.      *)
LEMMA Unasked ==
    ASSUME IInv, Named, Timely, call.op \in Functions, NEW l, l.kind = "plus",
           l.name \in Events \cup {"eventstartup"}, HandleRxLine(l)
    PROVE  /\ UNCHANGED <<requestPending, pendingCommandName, lastErrorCode,
                          cmdConfirmStatus>>
           /\ ~requestPending \/ WantsReply => currentResponse' = currentResponse
<1>1. /\ UNCHANGED <<requestPending, pendingCommandName, lastErrorCode, cmdConfirmStatus>>
      /\ currentResponse' = IF Response(l) THEN Append(currentResponse, l)
                            ELSE currentResponse
  BY DEF HandleRxLine, EventCallback, RefusesRequest
<1>2. At("delay") \/ At("naming") => ~Response(l)
  BY DEF HandleRxLine, Timely
<1>3. ASSUME requestPending, WantsReply, Response(l) PROVE FALSE
  <2>1. Running /\ call.at \in {"unnamed", "transmit", "arm", "poll"}
    BY <1>2, <1>3 DEF IInv, PendingRuns, Exchange, At
  <2>2. CASE call.at = "unnamed"
    <3>1. pendingCommandName = "" /\ "" # "any" /\ l.name # ""
      BY <2>1, <2>2, TableAssumption DEF Named, At, NoName
    <3> QED
      BY <1>3, <3>1, TableAssumption DEF Response
  <2>3. CASE call.at # "unnamed"
    <3>1. pendingCommandName = Request.name
      BY <2>1, <2>3 DEF Named
    <3> QED
      BY <1>3, <3>1, OfTable DEF Response
  <2> QED
    BY <2>2, <2>3
<1>4. ~requestPending => ~Response(l)
  BY DEF Response
<1> QED
  BY <1>1, <1>3, <1>4

(* A step of the module or of the interrupt leaves the main thread where   *)
(* it is.                                                                  *)
LEMMA Beside ==
    ASSUME TInv, UNCHANGED <<call, calls, uartOpen, ready, requestPending,
                             pendingCommandName, world, handed>>
    PROVE  /\ Opened' /\ Named' /\ (Timely' <=> Timely)
           /\ Timely => OwnResponse'
           /\ Running' <=> Running
<1>1. Request' = Request
  BY SameRequest
<1>2. Opened'
  BY DEF TInv, Opened, At, Running
<1>3. Named'
  BY <1>1 DEF TInv, Named, At, Running
<1>4. (Timely' <=> Timely) /\ (Running' <=> Running)
  BY DEF Timely, Running
<1>5. Timely => OwnResponse'
  BY DEF TInv, OwnResponse, Timely
<1> QED
  BY <1>2, <1>3, <1>4, <1>5

LEMMA OutcomeStays ==
    ASSUME Outcome, UNCHANGED <<call, returned, asked, settled, moved, verdict>>,
           ~Running => lastErrorCode' = lastErrorCode
    PROVE  Outcome'
BY DEF Outcome, Running

(* A line that the module says when it has started changes nothing.        *)
LEMMA StartupLine ==
    ASSUME IInv, TInv, Timely, call.op \in Functions, Receive, Startup(Head(outbox))
    PROVE  /\ UNCHANGED <<requestPending, pendingCommandName, lastErrorCode,
                          cmdConfirmStatus>>
           /\ ~requestPending \/ WantsReply => currentResponse' = currentResponse
<1>1. uartOpen
  BY DEF TInv, Opened
<1>2. HandleRxLine(Head(outbox))
  BY <1>1 DEF Receive
<1> QED
  BY <1>2, Unasked DEF TInv, Startup

LEMMA ReceiveStage ==
    ASSUME IInv, TInv, Timely, call.op \in Functions, Receive
    PROVE  Stage'
<1>0. Stage /\ uartOpen /\ call' = call /\ Named
  BY DEF TInv, Story, Opened, Receive
<1>1. UNCHANGED <<call, calls, asked, settled, moved, verdict, inbox, awake, handed>>
  BY DEF Receive, history, bounds
<1>2. /\ Id' = Id /\ Message' = Message /\ Request' = Request
      /\ (WantsReply' <=> WantsReply)
      /\ (Underway' <=> Underway) /\ (Behind' <=> Behind)
      /\ (Id \in settled)' <=> Id \in settled
      /\ MovedTo(0)' <=> MovedTo(0)
      /\ Denied' <=> Denied
  BY <1>1, SameRequest, SameHistory, SameVerdict
<1>3. \A n : Own(n)' = Own(n)
  BY <1>1, SameRequest
<1>4. lastErrorCode' = lastErrorCode => \A n : Gave(n)' <=> Gave(n)
  BY <1>1, SameVerdict
<1>5. /\ Len(outbox) \in Nat \ {0} /\ Len(outbox') = Len(outbox) - 1
      /\ Head(outbox) = outbox[1]
      /\ \A i \in 1 .. Len(outbox) - 1 : outbox'[i] = outbox[i + 1]
      /\ outbox' # <<>> <=> Len(outbox) > 1
      /\ \A n \in 1 .. Len(outbox) :
            Startups(n) => Startups(n - 1)' /\ Startup(Head(outbox))
  BY NextLine
<1>6. Quiet => Quiet' /\ Startup(Head(outbox))
  BY <1>5 DEF Quiet
<1>7. Startup(Head(outbox)) =>
         /\ UNCHANGED <<requestPending, pendingCommandName, lastErrorCode, cmdConfirmStatus>>
         /\ ~requestPending \/ WantsReply => currentResponse' = currentResponse
  BY StartupLine
<1>8. ASSUME NEW kind, NEW n, Ends(kind, n), Len(outbox) > 1 PROVE Ends(kind, n)'
  BY <1>2, <1>5, <1>8 DEF Ends
<1>9. HandleRxLine(Head(outbox))
  BY <1>0 DEF Receive
<1>10. call.at = "poll" => requestPending /\ pendingCommandName = Request.name
  BY <1>0, OfTable DEF Named, Exchange
<1>11. Startups(0)'
  BY DEF Startups
<1>a. CASE Preparing
  BY <1>1, <1>2, <1>6, <1>7, <1>a, OfTable DEF Stage, Preparing, Fresh
<1>b. CASE Waiting
  BY <1>1, <1>2, <1>6, <1>7, <1>b, OfTable DEF Stage, Waiting, Fresh
<1>c. CASE Refused
  BY <1>1, <1>2, <1>6, <1>7, <1>c DEF Stage, Refused
<1>d. CASE Denying
  <2>1. CASE Len(outbox) > 1
    <3>1. Startup(Head(outbox)) /\ Startups(Len(outbox) - 1)'
      BY <1>5, <1>d, <2>1 DEF Denying
    <3>2. Ends("error", verdict)'
      BY <1>1, <1>8, <1>d, <2>1 DEF Denying
    <3> QED
      BY <1>1, <1>2, <1>7, <1>d, <3>1, <3>2 DEF Stage, Denying
  <2>2. CASE Len(outbox) = 1
    <3>1. Head(outbox).kind = "error" /\ Head(outbox).n = verdict
      BY <1>5, <1>d, <2>2 DEF Denying, Ends
    <3>2. cmdConfirmStatus' = "Failed" /\ lastErrorCode' = verdict
      BY <1>9, <1>10, <1>d, <3>1 DEF HandleRxLine, Denying
    <3>3. Quiet'
      BY <1>5, <1>11, <2>2 DEF Quiet
    <3> QED
      BY <1>1, <1>2, <1>d, <3>2, <3>3 DEF Stage, Denying, Refused
  <2> QED
    BY <1>5, <2>1, <2>2
<1>e. ASSUME NEW n \in 0 .. Bytes, Parsing(n) PROVE Stage'
  <2>1. Parsing(n)'
    BY <1>1, <1>2, <1>3, <1>4, <1>6, <1>7, <1>e DEF Parsing
  <2> QED
    BY <2>1 DEF Stage
<1>f. ASSUME NEW n \in 0 .. Bytes, Granted(n) PROVE Stage'
  <2>1. Granted(n)'
    BY <1>1, <1>2, <1>3, <1>4, <1>6, <1>7, <1>f DEF Granted
  <2> QED
    BY <2>1 DEF Stage
<1>g. ASSUME NEW n \in 0 .. Bytes, Granting(n) PROVE Stage'
  <2>1. CASE Len(outbox) > 1
    <3>1. Startup(Head(outbox)) /\ Startups(Len(outbox) - 1)'
      BY <1>5, <1>g, <2>1 DEF Granting
    <3>2. Ends("ok", 0)'
      BY <1>8, <1>g, <2>1 DEF Granting
    <3>3. Granting(n)'
      BY <1>1, <1>2, <1>3, <1>4, <1>7, <1>g, <3>1, <3>2 DEF Granting
    <3> QED
      BY <3>3 DEF Stage
  <2>2. CASE Len(outbox) = 1
    <3>1. Head(outbox).kind = "ok"
      BY <1>5, <1>g, <2>2 DEF Granting, Ends
    <3>2. cmdConfirmStatus' = "Success" /\ lastErrorCode' = lastErrorCode
      BY <1>9, <1>10, <1>g, <3>1 DEF HandleRxLine, Granting
    <3>3. Quiet'
      BY <1>5, <1>11, <2>2 DEF Quiet
    <3>4. currentResponse' = currentResponse
      BY <1>9, <3>1 DEF HandleRxLine, EventCallback, RefusesRequest, Response
    <3>5. Granted(n)'
      BY <1>1, <1>2, <1>3, <1>4, <1>g, <3>2, <3>3, <3>4 DEF Granting, Granted
    <3> QED
      BY <3>5 DEF Stage
  <2> QED
    BY <1>5, <2>1, <2>2
<1>h. ASSUME NEW n \in 0 .. Bytes, Responding(n) PROVE Stage'
  <2>1. Ends("ok", 0)'
    BY <1>8, <1>h DEF Responding
  <2>2. CASE Len(outbox) > 2
    <3>1. Startup(Head(outbox)) /\ Startups(Len(outbox) - 2)'
      BY <1>5, <1>h, <2>2 DEF Responding
    <3>2. outbox'[Len(outbox') - 1] = Own(n) /\ Len(outbox') > 1
      BY <1>5, <1>h, <2>2 DEF Responding
    <3>3. Responding(n)'
      BY <1>1, <1>2, <1>3, <1>4, <1>7, <1>h, <2>1, <3>1, <3>2 DEF Responding
    <3> QED
      BY <3>3 DEF Stage
  <2>3. CASE Len(outbox) = 2
    <3>1. Head(outbox) = Own(n)
      BY <1>5, <1>h, <2>3 DEF Responding
    <3>2. /\ Head(outbox).kind = "plus" /\ Head(outbox).name = Request.name
      BY <3>1 DEF Own
    <3>3. /\ UNCHANGED <<lastErrorCode, cmdConfirmStatus>>
          /\ currentResponse' = Append(currentResponse, Head(outbox))
      BY <1>9, <1>10, <1>h, <3>2
      DEF HandleRxLine, EventCallback, RefusesRequest, Response, Responding
    <3>4. currentResponse' = <<Own(n)>>
      BY <1>h, <3>1, <3>3 DEF Responding
    <3>5. Startups(Len(outbox) - 1)'
      <4>1. Len(outbox') = 1 /\ \A i \in 1 .. 1 - 1 : FALSE
        BY <1>5, <2>3
      <4> QED
        BY <4>1 DEF Startups
    <3>6. Granting(n)'
      BY <1>1, <1>2, <1>3, <1>4, <1>h, <2>1, <3>3, <3>4, <3>5 DEF Responding, Granting
    <3> QED
      BY <3>6 DEF Stage
  <2> QED
    BY <1>5, <1>h, <2>2, <2>3 DEF Responding
<1> QED
  BY <1>0, <1>a, <1>b, <1>c, <1>d, <1>e, <1>f, <1>g, <1>h DEF Stage

LEMMA ReceiveStory ==
    ASSUME IInv, TInv, Receive
    PROVE  TInv'
<1>1. UNCHANGED <<call, calls, uartOpen, ready, world, handed, returned, asked, settled,
                  moved, verdict, inbox>>
  BY DEF Receive, history, bounds
<1>2. UNCHANGED <<requestPending, pendingCommandName>>
  BY DEF Receive, HandleRxLine, EventCallback, RefusesRequest
<1>3. ~Running => lastErrorCode' = lastErrorCode
  BY ReceiveKeepsFlag DEF IInv, PendingRuns
<1>4. Opened' /\ Named' /\ (Timely' <=> Timely) /\ (Timely => OwnResponse')
  BY <1>1, <1>2, Beside
<1>5. ASSUME Timely PROVE Story' /\ Outcome'
  <2>1. Outcome'
    BY <1>1, <1>3, <1>5, OutcomeStays DEF TInv
  <2>2. ASSUME call.op \in Functions PROVE Tally' /\ Stage'
    BY <1>1, <1>5, <2>2, ReceiveStage, SameHistory DEF TInv, Story
  <2>3. ASSUME call.op \notin Functions PROVE Quiet' /\ inbox' = <<>>
    BY <1>1, <1>5, <2>3, NextLine DEF TInv, Story, Quiet
  <2> QED
    BY <1>1, <2>1, <2>2, <2>3 DEF Story
<1> QED
  BY <1>4, <1>5 DEF TInv

LEMMA StageStays ==
    ASSUME Stage, UNCHANGED <<call, calls, asked, settled, moved, verdict, inbox, outbox,
                              awake, handed, lastErrorCode, cmdConfirmStatus>>,
           WantsReply => currentResponse' = currentResponse
    PROVE  Stage'
<1>2. /\ Id' = Id /\ Message' = Message /\ Request' = Request
      /\ (WantsReply' <=> WantsReply)
      /\ (Underway' <=> Underway) /\ (Behind' <=> Behind)
      /\ (Id \in settled)' <=> Id \in settled
      /\ MovedTo(0)' <=> MovedTo(0)
      /\ Denied' <=> Denied
  BY SameRequest, SameHistory, SameVerdict
<1>3. /\ \A n : Own(n)' = Own(n)
      /\ \A n : Gave(n)' <=> Gave(n)
  BY SameRequest, SameVerdict
<1>4. /\ \A n : Startups(n)' <=> Startups(n)
      /\ \A kind, n : Ends(kind, n)' <=> Ends(kind, n)
      /\ Quiet' <=> Quiet
  BY <1>2 DEF Startups, Ends, Quiet
<1>6. /\ (Preparing => Preparing') /\ (Waiting => Waiting')
      /\ (Denying => Denying') /\ (Refused => Refused')
  <2>1. Preparing => Preparing'
    BY <1>2, <1>4 DEF Preparing, Fresh
  <2>2. Waiting => Waiting'
    BY <1>2, <1>4 DEF Waiting, Fresh
  <2>3. Denying => Denying'
    BY <1>2, <1>4 DEF Denying
  <2>4. Refused => Refused'
    BY <1>2, <1>4 DEF Refused
  <2> QED
    BY <2>1, <2>2, <2>3, <2>4
<1>7. ASSUME NEW n \in 0 .. Bytes
      PROVE  /\ Responding(n) => Responding(n)'
             /\ Granting(n) => Granting(n)'
             /\ Granted(n) => Granted(n)'
             /\ Parsing(n) => Parsing(n)'
  <2>1. Responding(n) => Responding(n)'
    BY <1>2, <1>3, <1>4 DEF Responding
  <2>2. Granting(n) => Granting(n)'
    BY <1>2, <1>3, <1>4 DEF Granting
  <2>3. Granted(n) => Granted(n)'
    BY <1>2, <1>3, <1>4 DEF Granted
  <2>4. Parsing(n) => Parsing(n)'
    BY <1>2, <1>3, <1>4 DEF Parsing
  <2> QED
    BY <2>1, <2>2, <2>3, <2>4
<1> QED
  BY <1>6, <1>7 DEF Stage

LEMMA EventStory ==
    ASSUME IInv, TInv, NEW e \in Events, Event(e)
    PROVE  TInv'
<1> DEFINE l == [kind |-> "plus", name |-> e, n |-> 0, req |-> NoReq]
<1>0. HandleRxLine(l) /\ l.kind = "plus" /\ l.name \in Events \cup {"eventstartup"}
  BY DEF Event
<1> HIDE DEF l
<1>1. UNCHANGED <<call, calls, uartOpen, ready, world, handed, returned, asked, settled,
                  moved, verdict, inbox, outbox, awake>>
  BY DEF Event, history, module
<1>2. UNCHANGED <<requestPending, pendingCommandName>>
  BY <1>0 DEF HandleRxLine, EventCallback, RefusesRequest
<1>3. ~Running => lastErrorCode' = lastErrorCode
  BY EventKeepsFlag DEF IInv, PendingRuns
<1>4. Opened' /\ Named' /\ (Timely' <=> Timely) /\ (Timely => OwnResponse')
  BY <1>1, <1>2, Beside
<1>5. ASSUME Timely, call.op \in Functions PROVE Stage'
  <2>1. /\ UNCHANGED <<requestPending, pendingCommandName, lastErrorCode, cmdConfirmStatus>>
        /\ WantsReply => currentResponse' = currentResponse
    BY <1>0, <1>5, Unasked DEF TInv
  <2>2. Stage
    BY <1>5 DEF TInv, Story
  <2> QED
    BY <1>1, <2>1, <2>2, StageStays
<1>6. ASSUME Timely PROVE Story' /\ Outcome'
  <2>1. Outcome'
    BY <1>1, <1>3, <1>6, OutcomeStays DEF TInv
  <2>2. ASSUME call.op \in Functions PROVE Tally' /\ Stage'
    BY <1>1, <1>5, <1>6, <2>2, SameHistory DEF TInv, Story
  <2>3. ASSUME call.op \notin Functions PROVE Quiet' /\ inbox' = <<>>
    BY <1>1, <1>6, <2>3 DEF TInv, Story, Quiet, Startups
  <2> QED
    BY <1>1, <2>1, <2>2, <2>3 DEF Story
<1> QED
  BY <1>4, <1>6 DEF TInv

LEMMA BootStory ==
    ASSUME IInv, TInv, Boot
    PROVE  TInv'
<1>1. UNCHANGED <<call, calls, uartOpen, ready, world, handed, returned, asked, settled,
                  moved, verdict, inbox, requestPending, pendingCommandName,
                  currentResponse, lastErrorCode, cmdConfirmStatus>>
  BY DEF Boot, history, driver, bounds
<1>2. Opened' /\ Named' /\ (Timely' <=> Timely) /\ (Timely => OwnResponse')
  BY <1>1, Beside
<1>3. Quiet => Quiet'
  <2> DEFINE l == Reply([name |-> "eventstartup", req |-> NoReq], 0)
  <2>1. Startup(l)
    BY DEF Startup, Reply
  <2>2. outbox' = Append(outbox, l) /\ outbox \in Seq(PlusLine \cup LastLine)
    BY DEF Boot, IInv, TypeOK
  <2> HIDE DEF l
  <2>3. /\ Len(outbox') = Len(outbox) + 1 /\ Len(outbox) \in Nat
        /\ \A i \in 1 .. Len(outbox) : outbox'[i] = outbox[i]
        /\ outbox'[Len(outbox) + 1] = l
    BY <2>2
  <2>4. ASSUME Quiet, NEW i \in 1 .. Len(outbox') PROVE Startup(outbox'[i])
    <3>1. CASE i \in 1 .. Len(outbox)
      BY <2>3, <2>4, <3>1 DEF Quiet, Startups
    <3>2. CASE i = Len(outbox) + 1
      BY <2>1, <2>3, <3>2
    <3> QED
      BY <2>3, <3>1, <3>2
  <2> QED
    BY <2>4 DEF Quiet, Startups, Startup
<1>4. ASSUME Timely, call.op \in Functions PROVE Stage'
  <2>2. /\ Id' = Id /\ Message' = Message /\ Request' = Request
        /\ (WantsReply' <=> WantsReply)
        /\ (Underway' <=> Underway) /\ (Behind' <=> Behind)
        /\ (Id \in settled)' <=> Id \in settled
        /\ MovedTo(0)' <=> MovedTo(0)
        /\ Denied' <=> Denied
    BY <1>1, SameRequest, SameHistory, SameVerdict
  <2>3. /\ \A n : Own(n)' = Own(n)
        /\ \A n : Gave(n)' <=> Gave(n)
    BY <1>1, SameRequest, SameVerdict
  <2>4. ~awake
    BY DEF Boot
  <2>5. Stage
    BY <1>4 DEF TInv, Story
  <2>6. Preparing => Preparing'
    BY <1>1, <1>3, <2>2 DEF Preparing, Fresh
  <2>7. Waiting => Waiting'
    BY <1>1, <1>3, <2>2, <2>4 DEF Waiting, Fresh
  <2>8. Refused => Refused'
    BY <1>1, <1>3, <2>2 DEF Refused
  <2>9. ASSUME NEW n \in 0 .. Bytes
        PROVE  (Granted(n) => Granted(n)') /\ (Parsing(n) => Parsing(n)')
    <3>1. Granted(n) => Granted(n)'
      BY <1>1, <1>3, <2>2, <2>3 DEF Granted
    <3>2. Parsing(n) => Parsing(n)'
      BY <1>1, <1>3, <2>2, <2>3 DEF Parsing
    <3> QED
      BY <3>1, <3>2
  <2>10. ~Denying /\ \A n : ~Responding(n) /\ ~Granting(n)
    BY <2>4 DEF Denying, Responding, Granting
  <2> QED
    BY <2>5, <2>6, <2>7, <2>8, <2>9, <2>10 DEF Stage
<1>5. ASSUME Timely PROVE Story' /\ Outcome'
  <2>1. Outcome'
    BY <1>1, <1>5, OutcomeStays DEF TInv
  <2>2. ASSUME call.op \in Functions PROVE Tally' /\ Stage'
    BY <1>1, <1>4, <1>5, <2>2, SameHistory DEF TInv, Story
  <2>3. ASSUME call.op \notin Functions PROVE Quiet' /\ inbox' = <<>>
    BY <1>1, <1>3, <1>5, <2>3 DEF TInv, Story
  <2> QED
    BY <1>1, <2>1, <2>2, <2>3 DEF Story
<1> QED
  BY <1>2, <1>5 DEF TInv

-----------------------------------------------------------------------------
(* What the module takes or gives goes on where the data before ended, and *)
(* is counted with them.                                                   *)
LEMMA Moving ==
    ASSUME IInv, call.op \in Functions, NEW n \in Amounts(Message)
    PROVE  /\ n \in 0 .. ChunkSize /\ n \in 0 .. Bytes
           /\ Request.way = "once" => n = 0
           /\ Request.way = "send" => n = ChunkSize
           /\ Request.way = "write" => n \in 1 .. ChunkSize
<1>1. Request \in RequestType /\ ChunkSize \in 1 .. Bytes /\ Bytes \in Nat
  BY OfTable, InFunction, Amount
<1>2. Message.way = Request.way /\ Message.size = ChunkSize
  BY DEF Message
<1>3. Request.way \in {"once", "write", "read", "send"}
  BY <1>1 DEF RequestType
<1>4. \/ Request.way = "once"  /\ n = 0
      \/ Request.way = "send"  /\ n = ChunkSize
      \/ Request.way = "write" /\ n \in 1 .. ChunkSize
      \/ Request.way = "read"  /\ n \in 0 .. ChunkSize
  BY <1>2, <1>3 DEF Amounts
<1>5. n \in 0 .. ChunkSize
  BY <1>1, <1>4
<1>6. n \in 0 .. Bytes
  BY <1>1, <1>5
<1> QED
  BY <1>4, <1>5, <1>6

LEMMA Adding ==
    ASSUME NEW set, NEW start \in Nat, NEW n \in Nat, set \subseteq 0 .. start - 1
    PROVE  LET both == set \cup (start .. start + n - 1)
           IN  /\ Cardinality(both) = Cardinality(set) + n
               /\ both \subseteq 0 .. start + n - 1
               /\ set = 0 .. start - 1 => both = 0 .. start + n - 1
<1> DEFINE more == start .. start + n - 1
<1>1. IsFiniteSet(0 .. start - 1) /\ IsFiniteSet(more)
  BY FS_Interval
<1>2. Cardinality(more) = n
  <2>1. start \in Int /\ start + n - 1 \in Int
    OBVIOUS
  <2>2. Cardinality(more) = IF start > start + n - 1 THEN 0
                            ELSE (start + n - 1) - start + 1
    BY <2>1, FS_Interval
  <2> QED
    BY <2>2
<1>3. IsFiniteSet(set)
  BY <1>1, FS_Subset
<1>4. set \cap more = {}
  OBVIOUS
<1> HIDE DEF more
<1>5. Cardinality(set \cup more) = Cardinality(set) + n
  <2>1. Cardinality(set \cup more)
          = Cardinality(set) + Cardinality(more) - Cardinality({})
    BY <1>1, <1>3, <1>4, FS_Union
  <2>2. Cardinality({}) = 0 /\ Cardinality(set) \in Nat
    BY <1>3, FS_EmptySet, FS_CardinalityType
  <2> QED
    BY <1>2, <2>1, <2>2
<1> USE DEF more
<1>6. set \cup more \subseteq 0 .. start + n - 1
  OBVIOUS
<1>7. set = 0 .. start - 1 => set \cup more = 0 .. start + n - 1
  OBVIOUS
<1> QED
  BY <1>5, <1>6, <1>7

LEMMA ServeStage ==
    ASSUME IInv, TInv, Timely, Serve
    PROVE  call.op \in Functions /\ Tally' /\ Stage'
<1>1. At("poll") /\ inbox # <<>> /\ awake /\ inbox' = Tail(inbox)
  BY DEF Serve, Timely
<1>2. call.op \in Functions
  BY <1>1, InFunction DEF At, Exchange
<1>3. Stage /\ Tally
  BY <1>2 DEF TInv, Story
<1>4. Waiting
  BY <1>1, <1>3 DEF Stage, Preparing, Denying, Refused, Responding, Granting, Granted,
                    Parsing
<1>5. inbox = <<Message>> /\ Head(inbox) = Message /\ inbox' = <<>>
  BY <1>1, <1>4 DEF Waiting
<1>6. UNCHANGED <<call, calls, asked, requestPending, pendingCommandName, currentResponse,
                  lastErrorCode, cmdConfirmStatus, awake>>
  BY DEF Serve, driver, bounds
<1>7. /\ Id' = Id /\ Message' = Message /\ Request' = Request
      /\ (WantsReply' <=> WantsReply)
      /\ \A n : Own(n)' = Own(n)
  BY <1>6, SameRequest
<1>d. Tally'
  BY <1>3, <1>6, <1>7 DEF Tally
<1>8. Message.req = Id /\ Latest(Message) = {Id} /\ Id \in asked
  BY <1>4 DEF Message, Latest, Waiting, Underway
<1>9. outbox \in Seq(PlusLine \cup LastLine) /\ Len(outbox) \in Nat /\ Startups(Len(outbox))
  BY <1>4 DEF IInv, TypeOK, Waiting, Quiet
<1>10. lastErrorCode = 0 /\ (WantsReply => currentResponse = <<>>)
       /\ Underway /\ Id \notin settled
       /\ MovedTo(0) /\ verdict = 0
       /\ call.at = "poll" /\ cmdConfirmStatus = "Invalid"
  BY <1>1, <1>4 DEF Waiting, Fresh, At
<1>11. settled' \in {settled, settled \cup {Id}} => Underway'
  <2>1. \A id : Earlier(id)' <=> Earlier(id)
    BY <1>6 DEF Earlier
  <2> QED
    BY <1>6, <1>7, <1>10, <2>1 DEF Underway
<1>a. ASSUME NEW n \in Amounts(Message), Grant(Message, n) PROVE Stage'
  <2>1. n \in 0 .. Bytes /\ n \in Nat
    BY <1>2, Moving, Amount
  <2>2. /\ settled' = (IF Request.way = "read" /\ n = 0 THEN settled
                        ELSE settled \cup {Id})
        /\ verdict' = 0
        /\ moved' = moved \cup (call.offset .. call.offset + n - 1)
    <3>1. Message.offset = call.offset /\ Message.way = Request.way
      BY DEF Message
    <3> QED
      BY <1>8, <1>10, <1>a, <3>1 DEF Grant
  <2>a. MovedTo(n)'
    <3>1. PICK start \in Nat : start = call.offset
      BY Amount DEF IInv, TypeOK, CallType
    <3>2. PICK count \in Nat : count = call.count
      BY DEF IInv, TypeOK, CallType
    <3>3. /\ Cardinality(moved) = count
          /\ moved \subseteq 0 .. start - 1
          /\ Request.way # "read" => moved = 0 .. start - 1
      <4>1. count + 0 = count /\ start + 0 - 1 = start - 1
        OBVIOUS
      <4> QED
        BY <1>10, <3>1, <3>2, <4>1 DEF MovedTo
    <3>4. /\ Cardinality(moved') = count + n
          /\ moved' \subseteq 0 .. start + n - 1
          /\ moved = 0 .. start - 1 => moved' = 0 .. start + n - 1
      BY <2>1, <2>2, <3>1, <3>3, Adding
    <3> QED
      BY <1>6, <1>7, <3>1, <3>2, <3>3, <3>4 DEF MovedTo
  <2>3. Gave(n)'
    <3>1. (n \in Amounts(Message))'
      BY <1>7 DEF Amounts
    <3>2. (Id \in settled)' <=> (Request.way = "read" => n > 0)
      <4>1. n > 0 <=> n # 0
        BY <2>1
      <4> QED
        BY <1>7, <1>10, <2>2, <4>1
    <3> QED
      BY <1>6, <1>7, <1>10, <2>2, <2>a, <3>1, <3>2 DEF Gave
  <2> DEFINE reply == [kind |-> "plus", name |-> Request.name, n |-> n, req |-> Id]
             last  == [kind |-> "ok", name |-> NoName, n |-> 0, req |-> Id]
  <2>4. outbox' = outbox \o (IF WantsReply THEN <<reply>> ELSE <<>>) \o <<last>>
    BY <1>8, <1>a DEF Grant, Reply, Verdict, WantsReply, Message
  <2>5. reply = Own(n)
    BY DEF Own
  <2> HIDE DEF reply
  <2>6. CASE ~WantsReply
    <3>1. /\ Len(outbox') = Len(outbox) + 1 /\ outbox'[Len(outbox) + 1] = last
          /\ \A i \in 1 .. Len(outbox) : outbox'[i] = outbox[i]
      <4> HIDE DEF last
      <4>1. outbox' = outbox \o <<>> \o <<last>>
        BY <2>4, <2>6
      <4>2. outbox \o <<>> = outbox
        BY <1>9
      <4>3. outbox' = outbox \o <<last>>
        BY <4>1, <4>2
      <4> QED
        BY <1>9, <4>3
    <3>2. Ends("ok", 0)'
      <4>1. outbox' # <<>>
        BY <1>9, <3>1
      <4> QED
        BY <1>7, <3>1, <4>1 DEF Ends
    <3>3. Startups(Len(outbox) - 1)'
      BY <1>9, <3>1 DEF Startups, Startup
    <3>4. Granting(n)'
      BY <1>1, <1>5, <1>6, <1>7, <1>10, <1>11, <2>2, <2>3, <2>6, <3>2, <3>3 DEF Granting
    <3> QED
      BY <2>1, <3>4 DEF Stage
  <2>7. CASE WantsReply
    <3>1. /\ Len(outbox') = Len(outbox) + 2 /\ outbox'[Len(outbox) + 2] = last
          /\ outbox'[Len(outbox) + 1] = reply
          /\ \A i \in 1 .. Len(outbox) : outbox'[i] = outbox[i]
      <4> HIDE DEF last
      <4> DEFINE both == outbox \o <<reply>>
      <4>1. outbox' = both \o <<last>>
        BY <2>4, <2>7
      <4>2. /\ both \in Seq(PlusLine \cup LastLine \cup {reply})
            /\ Len(both) = Len(outbox) + 1
            /\ both[Len(outbox) + 1] = reply
            /\ \A i \in 1 .. Len(outbox) : both[i] = outbox[i]
        BY <1>9
      <4> HIDE DEF both
      <4>3. /\ Len(outbox') = Len(both) + 1 /\ outbox'[Len(both) + 1] = last
            /\ \A i \in 1 .. Len(both) : outbox'[i] = both[i]
        BY <4>1, <4>2
      <4> QED
        BY <1>9, <4>2, <4>3
    <3>2. Ends("ok", 0)'
      <4>1. outbox' # <<>> /\ Len(outbox') = Len(outbox) + 2
        BY <1>9, <3>1
      <4> QED
        BY <1>7, <3>1, <4>1 DEF Ends
    <3>3. Startups(Len(outbox) - 2)'
      BY <1>9, <3>1 DEF Startups, Startup
    <3>4. Len(outbox') > 1 /\ outbox'[Len(outbox') - 1] = Own(n)'
      BY <1>7, <1>9, <2>5, <3>1
    <3>5. Responding(n)'
      BY <1>1, <1>5, <1>6, <1>7, <1>10, <1>11, <2>2, <2>3, <2>7, <3>2, <3>3, <3>4
      DEF Responding
    <3> QED
      BY <2>1, <3>5 DEF Stage
  <2> QED
    BY <2>6, <2>7
<1>b. ASSUME NEW code \in ErrorCodes, Deny(Message, code) PROVE Stage'
  <2>1. code # 0
    BY ATAssumption
  <2>2. /\ settled' = (IF code = Request.excused THEN settled \cup {Id} ELSE settled)
        /\ verdict' = code /\ moved' = moved
    BY <1>8, <1>b DEF Deny, Message
  <2>3. Denied'
    <3>1. MovedTo(0)'
      BY <1>6, <1>7, <1>10, <2>2 DEF MovedTo
    <3> QED
      BY <1>7, <1>10, <2>1, <2>2, <3>1 DEF Denied
  <2> DEFINE last == [kind |-> "error", name |-> NoName, n |-> code, req |-> Id]
  <2>4. outbox' = Append(outbox, last)
    BY <1>8, <1>b DEF Deny, Verdict
  <2>5. /\ Len(outbox') = Len(outbox) + 1 /\ outbox'[Len(outbox) + 1] = last
        /\ \A i \in 1 .. Len(outbox) : outbox'[i] = outbox[i]
    <3> HIDE DEF last
    <3> QED
      BY <1>9, <2>4
  <2>6. Ends("error", verdict)'
    <3>1. outbox' # <<>>
      BY <1>9, <2>5
    <3> QED
      BY <1>7, <2>2, <2>5, <3>1 DEF Ends
  <2>7. Startups(Len(outbox) - 1)'
    BY <1>9, <2>5 DEF Startups, Startup
  <2>8. Denying'
    BY <1>1, <1>5, <1>6, <1>10, <1>11, <2>2, <2>3, <2>6, <2>7 DEF Denying
  <2> QED
    BY <2>8 DEF Stage
<1>c. (\E n \in Amounts(Message) : Grant(Message, n))
      \/ \E code \in ErrorCodes : Deny(Message, code)
  BY <1>5 DEF Serve
<1> QED
  BY <1>2, <1>a, <1>b, <1>c, <1>d

LEMMA ServeStory ==
    ASSUME IInv, TInv, Serve
    PROVE  TInv'
<1>1. UNCHANGED <<call, calls, uartOpen, ready, world, handed, requestPending,
                  pendingCommandName>>
  BY DEF Serve, driver, bounds
<1>2. Opened' /\ Named' /\ (Timely' <=> Timely) /\ (Timely => OwnResponse')
  BY <1>1, Beside
<1>3. ASSUME Timely PROVE Story' /\ Outcome'
  <2>1. call.op \in Functions /\ Tally' /\ Stage'
    BY <1>3, ServeStage
  <2>2. Running'
    BY <1>1, <2>1, OfTable DEF Running
  <2> QED
    BY <1>1, <2>1, <2>2 DEF Story, Outcome
<1> QED
  BY <1>2, <1>3 DEF TInv

-----------------------------------------------------------------------------
(* The main thread. A step that neither handles the driver nor ends a call *)
(* changes only where it is in its function.                               *)
LEMMA StartStory ==
    ASSUME IInv, TInv, NEW op \in Ops, Start(op)
    PROVE  TInv'
<1>1. /\ call'.op = op /\ call'.k = 1 /\ call'.offset = 0 /\ call'.count = 0
      /\ op \in Functions => call'.at = "pend"
      /\ op \in Handling => call'.at \in {"open", "quit", "reset"}
  <2>1. op \in Functions => op \notin {"Init", "Deinit", "PinReset"}
    BY ATAssumption DEF Handling
  <2> QED
    BY <2>1 DEF Start, Idle, Handling
<1>2. /\ op # "none"
      /\ op \in Functions \/ op \in Handling
      /\ "none" \notin Functions
      /\ op \in Functions => op \notin Handling
  BY ATAssumption DEF Ops, Handling
<1>3. ~Running /\ call.op = "none" /\ Running'
  BY <1>1, <1>2 DEF Start, Running
<1>4. /\ UNCHANGED <<requestPending, pendingCommandName, currentResponse, lastErrorCode,
                     cmdConfirmStatus, uartOpen, ready, awake, inbox, outbox, world,
                     handed>>
      /\ asked' = {} /\ settled' = {} /\ moved' = {}
  BY DEF Start, driver, module
<1>5. Opened'
  <2>1. op \in Functions => ready
    BY ATAssumption DEF Start, Handling
  <2> QED
    BY <1>1, <1>2, <1>4, <2>1 DEF TInv, Opened, At
<1>6. Named'
  BY <1>1, <1>2 DEF Named, At, Exchange
<1>7. OwnResponse' \/ ~Timely'
  BY <1>4 DEF TInv, OwnResponse, Timely
<1>8. ASSUME Timely PROVE Story' /\ Outcome'
  <2>1. Quiet /\ inbox = <<>>
    BY <1>2, <1>3, <1>8 DEF TInv, Story
  <2>2. Quiet'
    BY <1>4, <2>1 DEF Quiet, Startups, Startup
  <2>3. MovedTo(0)' /\ Tally'
    <3>1. Cardinality(moved') = 0 /\ moved' = 0 .. 0 + 0 - 1 /\ 0 + 0 = 0
      BY <1>4, FS_EmptySet
    <3> QED
      BY <1>1, <3>1 DEF MovedTo, Tally
  <2>4. op \in Functions => Preparing'
    BY <1>1, <1>4, <2>1, <2>2, <2>3 DEF Preparing, Behind
  <2> QED
    BY <1>1, <1>3, <1>4, <2>1, <2>2, <2>3, <2>4 DEF Story, Stage, Outcome
<1>9. Timely' <=> Timely
  BY <1>4 DEF Timely
<1> QED
  BY <1>5, <1>6, <1>7, <1>8, <1>9 DEF TInv

LEMMA SendRequestStory ==
    ASSUME IInv, TInv, Pend \/ Unname \/ CopyName \/ MeasureName
    PROVE  TInv'
<1>1. PICK where \in {"delay", "unnamed", "naming", "transmit"} : Goto(where)
  BY DEF Pend, Unname, CopyName, MeasureName
<1>2. Running /\ call.at \in {"pend", "delay", "unnamed", "naming"}
  BY DEF Pend, Unname, CopyName, MeasureName, At
<1>3. call.op \in Functions
  BY <1>2, InFunction DEF Exchange
<1>4. /\ call'.op = call.op /\ call'.k = call.k /\ call'.offset = call.offset
      /\ call'.count = call.count /\ call'.at = where
  BY <1>1 DEF Goto, IInv, TypeOK, CallType
<1>5. UNCHANGED <<calls, asked, settled, moved, verdict, inbox, outbox, awake, uartOpen,
                  ready, world, handed, returned, cmdConfirmStatus>>
  BY DEF Pend, Unname, CopyName, MeasureName, module, history, bounds
<1>6. /\ Id' = Id /\ Message' = Message /\ Request' = Request /\ (Tally' <=> Tally)
      /\ (WantsReply' <=> WantsReply)
      /\ (Behind' <=> Behind)
      /\ MovedTo(0)' <=> MovedTo(0)
  BY <1>4, <1>5, SameRequest, SameHistory
<1>7. Opened'
  BY <1>3, <1>4, <1>5 DEF TInv, Opened, At
<1>8. Named'
  <2>1. requestPending'
    <3>1. CASE Pend
      BY <3>1 DEF Pend
    <3>2. CASE ~Pend
      <4>1. call.at \in Exchange /\ requestPending' = requestPending
        BY <3>2 DEF Unname, CopyName, MeasureName, At, Exchange
      <4> QED
        BY <1>2, <4>1 DEF TInv, Named
    <3> QED
      BY <3>1, <3>2
  <2>2. where = "unnamed" => Unname
    BY <1>1, <1>4 DEF Pend, CopyName, MeasureName, Goto, IInv, TypeOK, CallType
  <2>3. where = "transmit" => MeasureName
    BY <1>1, <1>4 DEF Pend, CopyName, Unname, Goto, IInv, TypeOK, CallType
  <2> QED
    BY <1>4, <1>6, <2>1, <2>2, <2>3 DEF Named, At, Unname, MeasureName
<1>9. ASSUME Timely PROVE Story' /\ Outcome' /\ OwnResponse'
  <2>1. Stage /\ Tally
    BY <1>3, <1>9 DEF TInv, Story
  <2>2. Preparing
    BY <1>2, <2>1 DEF Stage, Waiting, Denying, Refused, Responding, Granting, Granted,
                      Parsing
  <2>3. Fresh'
    <3>1. CASE Pend
      BY <3>1 DEF Pend, Fresh
    <3>2. CASE ~Pend
      <4>1. Fresh /\ UNCHANGED <<lastErrorCode, currentResponse>>
        BY <2>2, <3>2 DEF Preparing, Unname, CopyName, MeasureName, At
      <4> QED
        BY <1>6, <4>1 DEF Fresh
    <3> QED
      BY <3>1, <3>2
  <2>4. Quiet'
    BY <1>5, <2>2 DEF Preparing, Quiet, Startups, Startup
  <2>5. Preparing'
    BY <1>4, <1>5, <1>6, <2>2, <2>3, <2>4 DEF Preparing
  <2>6. Running'
    BY <1>2, <1>4 DEF Running
  <2> QED
    BY <1>3, <1>4, <1>5, <1>6, <1>9, <2>1, <2>5, <2>6
    DEF Story, Stage, Outcome, TInv, OwnResponse, Timely
<1> QED
  BY <1>5, <1>7, <1>8, <1>9 DEF TInv, Timely

LEMMA TransmitStory ==
    ASSUME IInv, TInv, Transmit
    PROVE  TInv'
<1>2. Running /\ call.at = "transmit" /\ Goto("arm")
  BY DEF Transmit, At
<1>3. call.op \in Functions /\ Id \in ReqId /\ ChunkSize \in 1 .. Bytes
  BY <1>2, InFunction DEF Exchange
<1>4. /\ call'.op = call.op /\ call'.k = call.k /\ call'.offset = call.offset
      /\ call'.count = call.count /\ call'.at = "arm"
  BY <1>2 DEF Goto, IInv, TypeOK, CallType
<1>5. /\ UNCHANGED <<calls, settled, moved, outbox, awake, uartOpen, ready, world, handed,
                     returned, cmdConfirmStatus, requestPending, pendingCommandName,
                     currentResponse, lastErrorCode>>
      /\ asked' = asked \cup {Id} /\ verdict' = 0
  BY DEF Transmit, driver
<1>6. /\ Id' = Id /\ Message' = Message /\ Request' = Request
      /\ (WantsReply' <=> WantsReply)
  BY <1>4, <1>5, SameRequest
<1>a. (MovedTo(0)' <=> MovedTo(0)) /\ (Tally' <=> Tally)
  BY <1>4, <1>5, <1>6 DEF MovedTo, Tally
<1>7. Opened'
  BY <1>3, <1>4, <1>5 DEF TInv, Opened, At
<1>8. Named'
  BY <1>2, <1>4, <1>5, <1>6 DEF TInv, Named, At, Exchange
<1>9. ASSUME Timely PROVE Story' /\ Outcome' /\ OwnResponse'
  <2>1. Stage /\ Tally
    BY <1>3, <1>9 DEF TInv, Story
  <2>2. Preparing
    BY <1>2, <2>1 DEF Stage, Waiting, Denying, Refused, Responding, Granting, Granted,
                      Parsing
  <2>3. Fresh'
    BY <1>2, <1>5, <1>6, <2>2 DEF Preparing, Fresh
  <2>4. Quiet'
    BY <1>5, <2>2 DEF Preparing, Quiet, Startups, Startup
  <2>5. ~Earlier(Id)
    <3>1. call.k \in Int /\ call.offset \in Int
      BY Amount DEF IInv, TypeOK, CallType
    <3>2. Id[2] = call.k /\ Id[3] = call.offset
      BY DEF Id
    <3> QED
      BY <3>1, <3>2 DEF Earlier
  <2>6. Id \notin asked /\ Id \notin settled
    <3>1. settled \subseteq asked
      BY DEF IInv, TypeOK
    <3> QED
      BY <2>2, <2>5, <3>1 DEF Preparing, Behind
  <2>7. Underway'
    <3>1. \A id : Earlier(id)' <=> Earlier(id)
      BY <1>4, <1>5 DEF Earlier
    <3> QED
      BY <1>5, <1>6, <2>2, <2>6, <3>1 DEF Preparing, Behind, Underway
  <2>8. inbox' \in {<<>>, <<Message>>} /\ (inbox' # <<>> => awake)
    <3>1. inbox = <<>>
      BY <2>2 DEF Preparing
    <3>2. inbox' = inbox \/ (awake /\ inbox' = Append(inbox, Message))
      BY DEF Transmit, Message
    <3>3. Append(<<>>, Message) = <<Message>>
      OBVIOUS
    <3> QED
      BY <3>1, <3>2, <3>3
  <2>9. Waiting'
    BY <1>4, <1>5, <1>6, <1>a, <2>2, <2>3, <2>4, <2>6, <2>7, <2>8 DEF Preparing, Waiting
  <2>10. Running'
    BY <1>2, <1>4 DEF Running
  <2> QED
    BY <1>3, <1>4, <1>5, <1>6, <1>9, <1>a, <2>1, <2>9, <2>10
    DEF Story, Stage, Outcome, TInv, OwnResponse, Timely
<1> QED
  BY <1>5, <1>7, <1>8, <1>9 DEF TInv, Timely

LEMMA ArmStory ==
    ASSUME IInv, TInv, Arm \/ Poll
    PROVE  TInv'
<1>2. Running /\ call.at \in {"arm", "poll"}
  BY DEF Arm, Poll, At
<1>3. call.op \in Functions
  BY <1>2, InFunction DEF Exchange
<1>4. /\ call'.op = call.op /\ call'.k = call.k /\ call'.offset = call.offset
      /\ call'.count = call.count /\ call'.at = "poll"
  BY DEF Arm, Poll, At, IInv, TypeOK, CallType
<1>5. UNCHANGED <<calls, asked, settled, moved, verdict, inbox, outbox, awake, uartOpen,
                  ready, world, handed, returned, requestPending, pendingCommandName,
                  currentResponse, lastErrorCode>>
  BY DEF Arm, Poll, driver, module, history, bounds
<1>a. cmdConfirmStatus' = "Invalid" /\ (Poll => cmdConfirmStatus = "Invalid")
  BY DEF Arm, Poll, driver
<1>6. /\ Id' = Id /\ Message' = Message /\ Request' = Request /\ (Tally' <=> Tally)
      /\ (WantsReply' <=> WantsReply)
      /\ (Underway' <=> Underway) /\ (Denied' <=> Denied)
      /\ (Id \in settled)' <=> Id \in settled
      /\ MovedTo(0)' <=> MovedTo(0)
  BY <1>4, <1>5, SameRequest, SameHistory, SameVerdict
<1>b. /\ \A n : Own(n)' = Own(n)
      /\ \A n : Gave(n)' <=> Gave(n)
  BY <1>4, <1>5, SameRequest, SameVerdict
<1>7. Opened'
  BY <1>3, <1>4, <1>5 DEF TInv, Opened, At
<1>8. Named'
  BY <1>2, <1>4, <1>5, <1>6 DEF TInv, Named, At, Exchange
<1>9. ASSUME Timely PROVE Story' /\ Outcome' /\ OwnResponse'
  <2>1. Stage /\ Tally
    BY <1>3, <1>9 DEF TInv, Story
  <2>2. /\ \A n : Startups(n)' <=> Startups(n)
        /\ \A kind, n : Ends(kind, n)' <=> Ends(kind, n)
        /\ Quiet' <=> Quiet
    BY <1>5, <1>6 DEF Startups, Ends, Quiet
  <2>3. ~Preparing /\ ~Refused /\ \A n : ~Granted(n) /\ ~Parsing(n)
    <3>1. call.at = "poll" => cmdConfirmStatus = "Invalid"
      BY <1>a DEF Arm, At
    <3> QED
      BY <1>2, <3>1 DEF Preparing, Refused, Granted, Parsing
  <2>4. Waiting => Waiting'
    BY <1>4, <1>5, <1>6, <1>a, <2>2 DEF Waiting, Fresh
  <2>5. Denying => Denying'
    BY <1>4, <1>5, <1>6, <1>a, <2>2 DEF Denying
  <2>6. ASSUME NEW n \in 0 .. Bytes
        PROVE  (Responding(n) => Responding(n)') /\ (Granting(n) => Granting(n)')
    <3>1. Responding(n) => Responding(n)'
      BY <1>4, <1>5, <1>6, <1>a, <1>b, <2>2 DEF Responding
    <3>2. Granting(n) => Granting(n)'
      BY <1>4, <1>5, <1>6, <1>a, <1>b, <2>2 DEF Granting
    <3> QED
      BY <3>1, <3>2
  <2>7. Stage'
    BY <2>1, <2>3, <2>4, <2>5, <2>6 DEF Stage
  <2>8. Running'
    BY <1>2, <1>4 DEF Running
  <2> QED
    BY <1>3, <1>4, <1>5, <1>6, <1>9, <2>1, <2>7, <2>8
    DEF Story, Outcome, TInv, OwnResponse, Timely
<1> QED
  BY <1>5, <1>7, <1>8, <1>9 DEF TInv, Timely

(* A function ends.                                                        *)
LEMMA ReturnStory ==
    ASSUME IInv, TInv, call.op \in Functions,
           NEW ok \in BOOLEAN, NEW count \in Nat, Return(ok, count),
           UNCHANGED <<uartOpen, ready, world, asked, settled, moved, verdict,
                       lastErrorCode, inbox, outbox, handed>>,
           Timely => /\ Quiet /\ inbox = <<>>
                     /\ ok <=> asked \subseteq settled
                     /\ Cardinality(moved) = count
                     /\ ok /\ Requests[call.op][1].way \in {"write", "send"}
                          => moved = 0 .. Bytes - 1
                     /\ ~ok => lastErrorCode = verdict
    PROVE  TInv'
<1>1. /\ call'.op = "none" /\ "none" \notin Functions /\ ~Running'
      /\ returned'.op = call.op /\ returned'.ok = ok /\ returned'.count = count
  BY ATAssumption DEF Return, Idle, Running
<1>2. Opened' /\ Named'
  BY <1>1 DEF TInv, Opened, Named, At
<1>3. ASSUME Timely PROVE Story' /\ Outcome' /\ OwnResponse'
  <2>1. Quiet' /\ inbox' = <<>>
    BY <1>3 DEF Quiet, Startups, Startup
  <2>2. OwnResponse'
    BY DEF TInv, OwnResponse, Timely
  <2> QED
    BY <1>1, <1>3, <2>1, <2>2 DEF Story, Outcome
<1> QED
  BY <1>2, <1>3 DEF TInv, Timely

(* A function with a request after this one has no loop.                   *)
LEMMA NextRequest ==
    ASSUME IInv, call.op \in Functions, call'.op = call.op, call'.k = call.k + 1,
           call.k < Len(Requests[call.op])
    PROVE  Request.way = "once" /\ Request'.way = "once"
<1>1. call.k \in DOMAIN Requests[call.op] /\ Requests[call.op] \in Seq(RequestType)
  BY OfTable, InFunction
<1>2. call.k \in 1 .. Len(Requests[call.op]) /\ Len(Requests[call.op]) \in Nat
  BY <1>1
<1>3. /\ Len(Requests[call.op]) # 1
      /\ call.k + 1 \in DOMAIN Requests[call.op]
  <2> DEFINE last == Len(Requests[call.op])
  <2>0. call.k \in 1 .. last /\ last \in Nat /\ call.k < last
    BY <1>2
  <2> HIDE DEF last
  <2>1. last # 1 /\ call.k + 1 \in 1 .. last
    BY <2>0
  <2>2. DOMAIN Requests[call.op] = 1 .. Len(Requests[call.op])
    BY <1>1
  <2> QED
    BY <2>1, <2>2 DEF last
<1>4. \A k \in DOMAIN Requests[call.op] : Requests[call.op][k].way = "once"
  BY <1>3, TableAssumption
<1> QED
  BY <1>1, <1>3, <1>4 DEF Request

LEMMA NextBehind ==
    ASSUME IInv, call'.k = call.k + 1 \/ (call'.k = call.k /\ call'.offset > call.offset),
           call'.k \in Int, call'.offset \in Int, asked' = asked, Underway
    PROVE  Behind'
<1>1. call.k \in Int /\ call.offset \in Int /\ asked \subseteq ReqId
  BY Amount DEF IInv, TypeOK, CallType
<1>2. Id[2] = call.k /\ Id[3] = call.offset
  BY DEF Id
<1>3. ASSUME NEW id \in asked PROVE Earlier(id)'
  <2>1. id[2] \in Int /\ id[3] \in Int
    BY <1>1 DEF ReqId
  <2>2. id = Id \/ Earlier(id)
    BY DEF Underway
  <2>3. \/ id[2] = call.k /\ id[3] = call.offset
        \/ id[2] < call.k
        \/ id[2] = call.k /\ id[3] < call.offset
    BY <1>2, <2>2 DEF Earlier
  <2> QED
    BY <1>1, <2>1, <2>3 DEF Earlier
<1> QED
  BY <1>3 DEF Behind

LEMMA MovedBefore ==
    ASSUME IInv, MovedTo(0)
    PROVE  Cardinality(moved) = call.count
<1>1. PICK count \in Nat : count = call.count
  BY DEF IInv, TypeOK, CallType
<1>2. count + 0 = count
  OBVIOUS
<1> QED
  BY <1>1, <1>2 DEF MovedTo

(* A request has failed, and the function knows why.                       *)
LEMMA FailStory ==
    ASSUME IInv, TInv, At("poll"), Fail,
           UNCHANGED <<uartOpen, ready, world, asked, settled, moved, verdict, calls,
                       lastErrorCode, inbox, outbox, handed>>,
           Timely => /\ Quiet /\ inbox = <<>> /\ Underway /\ MovedTo(0)
                     /\ lastErrorCode = verdict
                     /\ Id \in settled <=> Request.excused # 0 /\ verdict = Request.excused
    PROVE  TInv'
<1>1. /\ Running /\ call.at = "poll" /\ call \in CallType /\ call.op \in Functions
      /\ call.k \in DOMAIN Requests[call.op] /\ Requests[call.op] \in Seq(RequestType)
  BY InFunction DEF IInv, TypeOK, Exchange, At
<1>2. Timely => Tally
  BY <1>1 DEF TInv, Story
<1>3. Timely => (Id \in settled <=> asked \subseteq settled)
  BY DEF Underway
<1>4. CASE Request.excused # 0 /\ lastErrorCode = Request.excused
  <2>1. call.k < Len(Requests[call.op])
    BY <1>1, <1>4, ATAssumption DEF Request
  <2>2. call' = [call EXCEPT !.k = @ + 1, !.at = "pend"] /\ UNCHANGED returned
    BY <1>4 DEF Fail
  <2>3. /\ call'.op = call.op /\ call'.at = "pend" /\ call'.k = call.k + 1
        /\ call'.offset = call.offset /\ call'.count = call.count
        /\ call'.k \in Int /\ call'.offset \in Int
    BY <1>1, <2>2, Amount DEF CallType
  <2>4. Running' /\ call'.op \in Functions
    BY <1>1, <2>3 DEF Running
  <2>5. Opened' /\ Named'
    BY <1>1, <2>3 DEF TInv, Opened, Named, At, Exchange
  <2>6. ASSUME Timely PROVE Story' /\ Outcome' /\ OwnResponse'
    <3>1. MovedTo(0)' /\ Tally'
      <4>1. Request.way = "once" /\ Request'.way = "once"
        BY <1>1, <2>1, <2>3, NextRequest
      <4> QED
        BY <1>2, <2>3, <2>6, <4>1 DEF MovedTo, Tally
    <3>2. Behind'
      <4>1. Underway /\ asked' = asked
        BY <2>6
      <4> QED
        BY <2>3, <4>1, NextBehind
    <3>3. asked' \subseteq settled'
      BY <1>3, <1>4, <2>6
    <3>4. Quiet'
      BY <2>6 DEF Quiet, Startups, Startup
    <3>5. Preparing'
      BY <2>3, <2>6, <3>1, <3>2, <3>3, <3>4 DEF Preparing
    <3>6. OwnResponse'
      BY DEF TInv, OwnResponse, Timely
    <3> QED
      BY <1>2, <2>3, <2>4, <2>6, <3>1, <3>5, <3>6 DEF Story, Stage, Outcome
  <2> QED
    BY <2>5, <2>6 DEF TInv, Timely
<1>5. CASE ~(Request.excused # 0 /\ lastErrorCode = Request.excused)
  <2>1. Return(FALSE, call.count) /\ call.count \in Nat
    BY <1>1, <1>5 DEF Fail, CallType
  <2>2. Timely => /\ Quiet /\ inbox = <<>>
                  /\ ~(asked \subseteq settled)
                  /\ Cardinality(moved) = call.count
                  /\ lastErrorCode = verdict
    BY <1>3, <1>5, MovedBefore
  <2> QED
    BY <1>1, <2>1, <2>2, ReturnStory
<1> QED
  BY <1>4, <1>5

LEMMA TimeoutStory ==
    ASSUME IInv, TInv, Timeout
    PROVE  TInv'
<1>1. /\ At("poll") /\ Fail /\ cmdConfirmStatus = "Invalid"
      /\ UNCHANGED <<uartOpen, ready, world, asked, settled, moved, verdict, calls,
                     lastErrorCode, inbox, outbox, handed>>
  BY DEF Timeout, module, history, bounds
<1>2. call.op \in Functions
  BY <1>1, InFunction DEF At, Exchange
<1>3. ASSUME Timely
      PROVE  /\ Quiet /\ inbox = <<>> /\ Underway /\ MovedTo(0)
             /\ lastErrorCode = verdict
             /\ Id \in settled <=> Request.excused # 0 /\ verdict = Request.excused
  <2>1. Stage /\ call.at = "poll"
    BY <1>1, <1>2, <1>3 DEF TInv, Story, At
  <2>2. \A m \in Range(inbox) \cup Range(outbox) : m.req # Id
    BY <1>3 DEF Timeout, Timely
  <2>3. outbox # <<>> => outbox[Len(outbox)] \in Range(outbox)
    <3>1. outbox \in Seq(PlusLine \cup LastLine)
      BY DEF IInv, TypeOK
    <3> QED
      BY <3>1 DEF Range
  <2>4. ASSUME NEW kind, NEW n PROVE ~Ends(kind, n)
    BY <2>2, <2>3 DEF Ends
  <2>5. ~Denying /\ \A n : ~Responding(n) /\ ~Granting(n)
    BY <2>4 DEF Denying, Responding, Granting
  <2>6. Waiting
    BY <1>1, <2>1, <2>5 DEF Stage, Preparing, Refused, Granted, Parsing
  <2>7. inbox # <<Message>>
    <3>1. ASSUME inbox = <<Message>> PROVE FALSE
      <4>1. Message \in Range(inbox)
        <5>1. 1 \in DOMAIN inbox /\ inbox[1] = Message
          BY <3>1
        <5> QED
          BY <5>1 DEF Range
      <4> QED
        BY <2>2, <4>1 DEF Message
    <3> QED
      BY <3>1
  <2> QED
    BY <2>6, <2>7 DEF Waiting, Fresh
<1> QED
  BY <1>1, <1>3, FailStory

LEMMA ConfirmStory ==
    ASSUME IInv, TInv, Confirm
    PROVE  TInv'
<1>1. /\ At("poll") /\ Running /\ call.at = "poll"
      /\ cmdConfirmStatus \in {"Success", "Failed"}
      /\ UNCHANGED <<uartOpen, ready, world, asked, settled, moved, verdict, calls,
                     lastErrorCode, inbox, outbox, pendingCommandName, currentResponse,
                     cmdConfirmStatus, awake>>
  BY DEF Confirm, At, IInv, TypeOK, module, history, bounds
<1>2. call.op \in Functions
  BY <1>1, InFunction DEF Exchange
<1>3. Timely => Stage /\ Tally
  BY <1>2 DEF TInv, Story
<1>4. ~Preparing /\ ~Waiting /\ ~Denying
      /\ \A n : ~Responding(n) /\ ~Granting(n) /\ ~Parsing(n)
  BY <1>1 DEF Preparing, Waiting, Denying, Responding, Granting, Parsing
<1>5. CASE cmdConfirmStatus = "Success"
  <2>1. Goto("parse") /\ UNCHANGED returned
    BY <1>5 DEF Confirm
  <2>2. /\ call'.op = call.op /\ call'.k = call.k /\ call'.offset = call.offset
        /\ call'.count = call.count /\ call'.at = "parse"
    BY <2>1 DEF Goto, IInv, TypeOK, CallType
  <2>3. Opened' /\ Named' /\ Running'
    BY <1>1, <1>2, <2>2 DEF TInv, Opened, Named, At, Exchange, Running
  <2>4. ASSUME Timely PROVE Story' /\ Outcome' /\ OwnResponse'
    <3>1. PICK n \in 0 .. Bytes : Granted(n)
      <4>1. ~Refused
        BY <1>5 DEF Refused
      <4> QED
        BY <1>3, <1>4, <2>4, <4>1 DEF Stage
    <3>2. (WantsReply' <=> WantsReply) /\ (Underway' <=> Underway) /\ (Tally' <=> Tally)
      BY <1>1, <2>2, SameRequest, SameHistory
    <3>3. Own(n)' = Own(n) /\ (Gave(n)' <=> Gave(n))
      BY <1>1, <2>2, SameRequest, SameVerdict
    <3>4. Quiet'
      BY <1>1, <3>1 DEF Granted, Quiet, Startups, Startup
    <3>5. IF WantsReply
          THEN handed' = [req |-> Id, name |-> Request.name, lines |-> <<Own(n)>>]
          ELSE handed' = handed
      BY <1>5, <3>1 DEF Confirm, Granted, WantsReply, Handed
    <3>6. Parsing(n)'
      BY <1>1, <2>2, <3>1, <3>2, <3>3, <3>4, <3>5 DEF Granted, Parsing
    <3>7. OwnResponse'
      <4>1. CASE WantsReply
        <5>1. handed'.req = Id /\ handed'.lines = <<Own(n)>>
          BY <3>5, <4>1
        <5>2. Len(handed'.lines) = 1 /\ Range(handed'.lines) = {Own(n)}
          BY <5>1 DEF Range
        <5> QED
          BY <5>1, <5>2 DEF OwnResponse, Own
      <4>2. CASE ~WantsReply
        BY <1>1, <3>5, <4>2 DEF TInv, OwnResponse, Timely
      <4> QED
        BY <4>1, <4>2
    <3> QED
      BY <1>2, <1>3, <2>2, <2>3, <2>4, <3>2, <3>6, <3>7 DEF Story, Stage, Outcome
  <2> QED
    BY <1>1, <2>3, <2>4 DEF TInv, Timely
<1>6. CASE cmdConfirmStatus = "Failed"
  <2>1. Fail /\ UNCHANGED handed
    BY <1>6 DEF Confirm
  <2>2. Timely => Refused
    BY <1>3, <1>4, <1>6 DEF Stage, Granted
  <2>3. Timely => /\ Quiet /\ inbox = <<>> /\ Underway /\ MovedTo(0)
                  /\ lastErrorCode = verdict
                  /\ Id \in settled <=> Request.excused # 0 /\ verdict = Request.excused
    BY <2>2 DEF Refused, Denied
  <2> QED
    BY <1>1, <2>1, <2>3, FailStory
<1> QED
  BY <1>1, <1>5, <1>6

(* What a response that has been asked for says is what the module did.    *)
LEMMA SaysItself ==
    ASSUME IInv, TInv, Timely, call.op \in Functions, NEW n \in 0 .. Bytes, Parsing(n)
    PROVE  /\ Parses <=> (Request.way = "read" => n > 0)
           /\ Parses <=> Id \in settled
           /\ Request.way # "once" => Said = n
           /\ Request.way # "once" => Stride \in 1 .. ChunkSize /\ n <= Stride
           /\ Request.way \in {"write", "send"} => Stride = n
<1>1. /\ Request \in RequestType /\ ChunkSize \in 1 .. Bytes /\ n \in Amounts(Message)
      /\ Request.way \in {"read", "write"} => WantsReply /\ Request.reply = "parsed"
  BY OfTable, InFunction DEF Parsing, Gave
<1>2. WantsReply => handed.lines = <<Own(n)>>
  BY DEF Parsing
<1>3. WantsReply => /\ handed.lines # <<>>
                    /\ Head(handed.lines).name = Request.name
                    /\ Head(handed.lines).n = n
  BY <1>2 DEF Own
<1>4. Parses <=> (Request.way = "read" => n > 0)
  <2>1. Request.reply = "parsed" => WantsReply
    BY DEF WantsReply
  <2> QED
    BY <1>1, <1>3, <2>1 DEF Parses
<1>a. Id \in settled <=> (Request.way = "read" => n > 0)
  BY DEF Parsing, Gave
<1>5. Request.way \in {"once", "write", "read", "send"}
  BY <1>1 DEF RequestType
<1>6. /\ Request.way = "send" => n = ChunkSize
      /\ Request.way = "write" => n \in 1 .. ChunkSize
      /\ n \in 0 .. ChunkSize
  BY <1>1, Moving
<1>7. Request.way # "once" => Said = n
  BY <1>1, <1>3, <1>5, <1>6 DEF Said
<1>8. Stride = IF Request.way = "write" THEN Said ELSE ChunkSize
  BY DEF Stride
<1>9. Request.way \in {"write", "send"} => Stride = n
  BY <1>6, <1>7, <1>8
<1>10. Request.way # "once" => Stride \in 1 .. ChunkSize /\ n <= Stride
  <2>1. CASE Request.way = "write"
    <3>1. Stride = n /\ n \in 1 .. ChunkSize
      BY <1>6, <1>9, <2>1
    <3> QED
      BY <1>1, <3>1
  <2>2. CASE Request.way # "write"
    <3>1. Stride = ChunkSize /\ n \in 0 .. ChunkSize
      BY <1>6, <1>8, <2>2
    <3> QED
      BY <1>1, <3>1
  <2> QED
    BY <2>1, <2>2
<1> QED
  BY <1>4, <1>7, <1>9, <1>10, <1>a

(* The loop goes on after a chunk.                                         *)
LEMMA Onward ==
    ASSUME NEW n \in Nat, call.offset \in Nat, call'.offset \in Nat, call.count \in Nat,
           MovedTo(n), Tally, moved' = moved, Request' = Request,
           call'.count = call.count + n, call'.offset >= call.offset + n,
           Request.way # "read" => call'.offset = call.offset + n, Request.way # "once"
    PROVE  MovedTo(0)' /\ Tally'
<1>1. Cardinality(moved') = call'.count + 0
  <2>1. Cardinality(moved) = call.count + n /\ call.count + n = (call.count + n) + 0
    BY DEF MovedTo
  <2> QED
    BY <2>1
<1>2. moved' \subseteq 0 .. call'.offset + 0 - 1
  <2>1. moved \subseteq 0 .. call.offset + n - 1
    BY DEF MovedTo
  <2>2. 0 .. call.offset + n - 1 \subseteq 0 .. call'.offset + 0 - 1
    OBVIOUS
  <2> QED
    BY <2>1, <2>2
<1>3. ASSUME Request.way # "read"
      PROVE  moved' = 0 .. call'.offset + 0 - 1 /\ call'.count = call'.offset
  <2>1. moved = 0 .. call.offset + n - 1 /\ call.count = call.offset
    BY <1>3 DEF MovedTo, Tally
  <2>2. call.offset + n = call'.offset /\ call.offset + n - 1 = call'.offset + 0 - 1
    BY <1>3
  <2> QED
    BY <2>1, <2>2
<1>4. MovedTo(0)'
  BY <1>1, <1>2, <1>3 DEF MovedTo
<1>5. Tally'
  BY <1>3 DEF Tally
<1> QED
  BY <1>4, <1>5

LEMMA ProceedStory ==
    ASSUME IInv, TInv, Proceed
    PROVE  TInv'
<1> DEFINE offset == call.offset + Stride
           count  == call.count + Said
<1>1. /\ Running /\ call.at = "parse" /\ ~requestPending'
      /\ UNCHANGED <<uartOpen, ready, world, asked, settled, moved, verdict, calls,
                     lastErrorCode, inbox, outbox, handed>>
  BY DEF Proceed, At, driver, module, history, bounds, IInv, PendingRuns, Exchange
<1>2. /\ call.op \in Functions /\ call \in CallType /\ call.count \in Nat
      /\ call.offset \in Nat /\ call.k \in Nat \ {0}
      /\ call.k \in DOMAIN Requests[call.op] /\ Requests[call.op] \in Seq(RequestType)
      /\ Request \in RequestType
      /\ ChunkSize \in 1 .. Bytes /\ call.offset + ChunkSize <= Bytes
  BY <1>1, InFunction, Amount DEF IInv, TypeOK, CallType
<1>3. Timely => Tally /\ \E n \in 0 .. Bytes : Parsing(n)
  <2>1. /\ ~Preparing /\ ~Waiting /\ ~Denying /\ ~Refused
        /\ \A n : ~Responding(n) /\ ~Granting(n) /\ ~Granted(n)
    BY <1>1 DEF Preparing, Waiting, Denying, Refused, Responding, Granting, Granted
  <2> QED
    BY <1>2, <2>1 DEF TInv, Story, Stage
<1>4. Timely => /\ Quiet /\ inbox = <<>> /\ Underway /\ lastErrorCode = verdict
                /\ Parses <=> asked \subseteq settled
  <2>1. ASSUME Timely, NEW n \in 0 .. Bytes, Parsing(n)
        PROVE  /\ Quiet /\ inbox = <<>> /\ Underway /\ lastErrorCode = verdict
               /\ Parses <=> asked \subseteq settled
    BY <1>2, <2>1, SaysItself DEF Parsing, Gave, Underway
  <2> QED
    BY <1>3, <2>1
<1>5. CASE ~Parses
  <2>1. Return(FALSE, call.count)
    BY <1>5 DEF Proceed
  <2>2. Timely => Cardinality(moved) = call.count
    <3>1. ASSUME Timely, NEW n \in 0 .. Bytes, Parsing(n)
          PROVE  MovedTo(0)
      <4>1. n = 0
        <5>1. ~(n > 0)
          BY <1>2, <1>5, <3>1, SaysItself
        <5> QED
          BY <5>1, Amount
      <4> QED
        BY <3>1, <4>1 DEF Parsing, Gave
    <3> QED
      BY <1>3, <3>1, MovedBefore
  <2> QED
    BY <1>1, <1>2, <1>4, <1>5, <2>1, <2>2, ReturnStory
<1>6. CASE Parses /\ Request.way # "once" /\ offset < Bytes
  <2>1. /\ call' = [call EXCEPT !.at = "pend", !.offset = offset, !.count = count]
        /\ UNCHANGED returned
    BY <1>6 DEF Proceed
  <2>2. /\ call'.op = call.op /\ call'.k = call.k /\ call'.at = "pend"
        /\ call'.offset = offset /\ call'.count = count
    <3> HIDE DEF offset, count
    <3> QED
      BY <1>2, <2>1 DEF CallType
  <2>3. Running' /\ Opened' /\ Named'
    BY <1>1, <1>2, <2>2 DEF TInv, Opened, Named, At, Exchange, Running
  <2>4. ASSUME Timely PROVE Story' /\ Outcome' /\ OwnResponse'
    <3>1. PICK n \in 0 .. Bytes : Parsing(n)
      BY <1>3, <2>4
    <3>2. /\ Said = n /\ Stride \in 1 .. ChunkSize /\ n <= Stride
          /\ Request.way # "read" => Stride = n
      BY <1>2, <1>6, <2>4, <3>1, SaysItself DEF RequestType
    <3>3. Behind'
      <4>1. call'.offset > call.offset /\ call'.offset \in Int /\ call'.k \in Int
        BY <1>2, <2>2, <3>2
      <4> QED
        BY <1>1, <1>4, <2>2, <2>4, <4>1, NextBehind
    <3>4. Request' = Request
      BY <2>2 DEF Request
    <3>5. /\ n \in Nat /\ call'.offset \in Nat /\ call'.count = call.count + n
          /\ call'.offset >= call.offset + n
          /\ Request.way # "read" => call'.offset = call.offset + n
      BY <1>2, <2>2, <3>2, Amount
    <3>6. MovedTo(0)' /\ Tally'
      <4>1. MovedTo(n) /\ Tally
        BY <1>3, <2>4, <3>1 DEF Parsing, Gave
      <4> QED
        BY <1>1, <1>2, <1>6, <3>4, <3>5, <4>1, Onward
    <3>7. Quiet'
      BY <1>1, <1>4, <2>4 DEF Quiet, Startups, Startup
    <3>8. Preparing'
      BY <1>1, <1>4, <1>6, <2>2, <2>4, <3>3, <3>6, <3>7 DEF Preparing
    <3>9. OwnResponse'
      BY <1>1, <2>4 DEF TInv, OwnResponse, Timely
    <3> QED
      BY <1>2, <2>2, <2>3, <3>6, <3>8, <3>9 DEF Story, Stage, Outcome
  <2> QED
    BY <1>1, <2>3, <2>4 DEF TInv, Timely
<1>7. CASE /\ Parses /\ ~(Request.way # "once" /\ offset < Bytes)
           /\ call.k < Len(Requests[call.op])
  <2>1. call' = [call EXCEPT !.at = "pend", !.k = @ + 1] /\ UNCHANGED returned
    BY <1>7 DEF Proceed
  <2>2. /\ call'.op = call.op /\ call'.k = call.k + 1 /\ call'.at = "pend"
        /\ call'.offset = call.offset /\ call'.count = call.count
        /\ call'.k \in Int /\ call'.offset \in Int
    BY <1>2, <2>1 DEF CallType
  <2>3. Running' /\ Opened' /\ Named'
    BY <1>1, <1>2, <2>2 DEF TInv, Opened, Named, At, Exchange, Running
  <2>4. ASSUME Timely PROVE Story' /\ Outcome' /\ OwnResponse'
    <3>1. PICK n \in 0 .. Bytes : Parsing(n)
      BY <1>3, <2>4
    <3>2. Request.way = "once" /\ Request'.way = "once"
      BY <1>2, <1>7, <2>2, NextRequest
    <3>3. n = 0
      BY <1>2, <3>1, <3>2, Moving DEF Parsing, Gave
    <3>4. Behind'
      BY <1>1, <1>4, <2>2, <2>4, NextBehind
    <3>5. MovedTo(0)' /\ Tally'
      <4>1. MovedTo(0) /\ Tally
        BY <1>3, <2>4, <3>1, <3>3 DEF Parsing, Gave
      <4> QED
        BY <1>1, <2>2, <3>2, <4>1 DEF MovedTo, Tally
    <3>6. Quiet'
      BY <1>1, <1>4, <2>4 DEF Quiet, Startups, Startup
    <3>7. Preparing'
      BY <1>1, <1>4, <1>7, <2>2, <2>4, <3>4, <3>5, <3>6 DEF Preparing
    <3>8. OwnResponse'
      BY <1>1, <2>4 DEF TInv, OwnResponse, Timely
    <3> QED
      BY <1>2, <2>2, <2>3, <3>5, <3>7, <3>8 DEF Story, Stage, Outcome
  <2> QED
    BY <1>1, <2>3, <2>4 DEF TInv, Timely
<1>8. CASE /\ Parses /\ ~(Request.way # "once" /\ offset < Bytes)
           /\ ~(call.k < Len(Requests[call.op]))
  <2> DEFINE given == IF Request.way = "once" THEN 0 ELSE count
  <2>1. Return(TRUE, given)
    BY <1>8 DEF Proceed
  <2>2. given \in Nat
    BY <1>1, <1>2, <1>8, SaidNumber DEF At
  <2>3. ASSUME Timely
        PROVE  /\ Cardinality(moved) = given
               /\ Requests[call.op][1].way \in {"write", "send"} => moved = 0 .. Bytes - 1
    <3>1. PICK n \in 0 .. Bytes : Parsing(n)
      BY <1>3, <2>3
    <3>2. MovedTo(n) /\ n \in Amounts(Message) /\ Tally
      BY <1>3, <2>3, <3>1 DEF Parsing, Gave
    <3>3. CASE Request.way = "once"
      <4>1. n = 0 /\ call.count = 0
        BY <1>2, <3>2, <3>3, Moving DEF Tally
      <4>a. Cardinality(moved) = 0
        BY <3>2, <4>1, MovedBefore
      <4>2. Requests[call.op][1].way \notin {"write", "send"}
        <5>1. ASSUME Requests[call.op][1].way # "once" PROVE FALSE
          <6>1. 1 \in DOMAIN Requests[call.op]
            BY <1>2
          <6>2. Len(Requests[call.op]) = 1
            BY <1>2, <5>1, <6>1, TableAssumption
          <6>3. call.k = 1
            BY <1>2, <6>2
          <6> QED
            BY <3>3, <5>1, <6>3 DEF Request
        <5> QED
          BY <5>1
      <4> QED
        BY <3>3, <4>a, <4>2
    <3>4. CASE Request.way # "once"
      <4>1. /\ Said = n
            /\ Request.way \in {"write", "send"} => Stride = n
        BY <1>2, <2>3, <3>1, <3>4, SaysItself
      <4>2. Cardinality(moved) = given
        <5>1. given = call.count + n
          BY <3>4, <4>1
        <5> QED
          BY <3>2, <5>1 DEF MovedTo
      <4>3. call.k = 1
        <5>1. Len(Requests[call.op]) = 1
          BY <1>2, <3>4, OfTable
        <5> QED
          BY <1>2, <5>1
      <4>4. ASSUME Request.way \in {"write", "send"} PROVE moved = 0 .. Bytes - 1
        <5>1. offset = call.offset + n /\ ~(offset < Bytes)
          BY <1>8, <3>4, <4>1, <4>4
        <5>2. n \in 0 .. ChunkSize
          BY <1>2, <3>2, Moving
        <5>3. call.offset + n = Bytes
          BY <1>2, <5>1, <5>2, Amount
        <5>4. moved = 0 .. call.offset + n - 1
          BY <3>2, <4>4 DEF MovedTo
        <5>5. call.offset + n - 1 = Bytes - 1
          BY <1>2, <5>3, Amount
        <5> QED
          BY <5>4, <5>5
      <4> QED
        BY <4>2, <4>3, <4>4 DEF Request
    <3> QED
      BY <3>3, <3>4
  <2> HIDE DEF given
  <2> QED
    BY <1>1, <1>2, <1>4, <1>8, <2>1, <2>2, <2>3, ReturnStory
<1> QED
  BY <1>5, <1>6, <1>7, <1>8

(* What handles the driver and the module does no more than that.          *)
LEMMA HandlingStory ==
    ASSUME IInv, TInv, Open \/ Quit \/ Close \/ LowerReset \/ RaiseReset
    PROVE  TInv'
<1>1. /\ Running /\ call.at \in {"open", "quit", "close", "reset", "release"}
      /\ call \in CallType /\ call.op \in Ops \cup {"none"}
  BY DEF Open, Quit, Close, LowerReset, RaiseReset, At, IInv, TypeOK, CallType
<1>2. call.op \notin Functions
  BY <1>1 DEF IInv, Located, Exchange
<1>3. /\ UNCHANGED <<world, handed, asked, settled, moved, verdict>>
      /\ outbox' \in {<<>>, outbox} /\ inbox' \in {<<>>, inbox}
  BY DEF Open, Quit, Close, LowerReset, RaiseReset, module, history
<1>4. CASE Open \/ Close \/ RaiseReset
  <2>1. Return(TRUE, 0)
    BY <1>4 DEF Open, Close, RaiseReset
  <2>2. /\ call'.op = "none" /\ "none" \notin Functions /\ ~Running'
        /\ returned'.op = call.op
    BY <2>1, ATAssumption DEF Return, Idle, Running
  <2>3. (ready => uartOpen)'
    <3>1. CASE Open
      BY <3>1 DEF Open
    <3>2. CASE Close
      BY <3>2 DEF Close, TInv, Opened
    <3>3. CASE RaiseReset
      BY <3>3 DEF RaiseReset, TInv, Opened, driver
    <3> QED
      BY <1>4, <3>1, <3>2, <3>3
  <2>4. Opened' /\ Named'
    BY <2>2, <2>3 DEF Opened, Named, At
  <2>5. ASSUME Timely PROVE Story' /\ Outcome' /\ OwnResponse'
    <3>1. Quiet /\ inbox = <<>>
      BY <1>2, <2>5 DEF TInv, Story
    <3>2. Quiet' /\ inbox' = <<>>
      BY <1>3, <3>1 DEF Quiet, Startups, Startup
    <3>3. OwnResponse'
      BY <1>3, <2>5 DEF TInv, OwnResponse, Timely
    <3> QED
      BY <1>2, <2>2, <3>2, <3>3 DEF Story, Outcome
  <2> QED
    BY <1>3, <2>4, <2>5 DEF TInv, Timely
<1>5. CASE Quit \/ LowerReset
  <2>1. PICK where \in {"close", "release"} : Goto(where)
    BY <1>5 DEF Quit, LowerReset
  <2>2. call'.op = call.op /\ call'.at = where /\ Running'
    BY <1>1, <2>1 DEF Goto, CallType, Running
  <2>3. where = "close" => Quit
    BY <1>1, <1>5, <2>2 DEF LowerReset, Goto, CallType
  <2>4. Opened'
    BY <1>2, <1>5, <2>2, <2>3 DEF TInv, Opened, Quit, LowerReset, driver, At
  <2>5. Named'
    BY <2>2 DEF Named, At, Exchange
  <2>6. ASSUME Timely PROVE Story' /\ Outcome' /\ OwnResponse'
    <3>1. Quiet /\ inbox = <<>>
      BY <1>2, <2>6 DEF TInv, Story
    <3>2. Quiet' /\ inbox' = <<>>
      BY <1>3, <3>1 DEF Quiet, Startups, Startup
    <3>3. OwnResponse'
      BY <1>3, <2>6 DEF TInv, OwnResponse, Timely
    <3> QED
      BY <1>2, <2>2, <3>2, <3>3 DEF Story, Outcome
  <2> QED
    BY <1>3, <2>4, <2>5, <2>6 DEF TInv, Timely
<1> QED
  BY <1>4, <1>5

LEMMA InitStory == Init => TInv
<1> SUFFICES ASSUME Init PROVE TInv
  OBVIOUS
<1>1. call.op = "none" /\ "none" \notin Functions /\ ~Running
  BY ATAssumption DEF Init, Idle, Running
<1>2. Opened /\ Named
  BY <1>1 DEF Init, Opened, Named, At
<1>3. Story /\ Outcome /\ OwnResponse
  <2>1. Quiet /\ inbox = <<>>
    BY DEF Init, Quiet, Startups
  <2>2. handed.req = NoReq
    BY DEF Init, NoResponse, Handed
  <2> QED
    BY <1>1, <2>1, <2>2 DEF Init, Story, Outcome, OwnResponse
<1> QED
  BY <1>2, <1>3 DEF TInv

LEMMA TruthInductive == IInv /\ TInv /\ [Next]_vars => TInv'
<1> SUFFICES ASSUME IInv, TInv, [Next]_vars PROVE TInv'
  OBVIOUS
<1>1. CASE UNCHANGED vars
  <2>1. UNCHANGED <<call, calls, uartOpen, ready, world, handed, returned, asked, settled,
                    moved, verdict, inbox, outbox, awake, requestPending,
                    pendingCommandName, currentResponse, lastErrorCode, cmdConfirmStatus>>
    BY <1>1 DEF vars, driver, module, history, bounds
  <2>2. Opened' /\ Named' /\ (Timely' <=> Timely) /\ (Timely => OwnResponse')
    BY <2>1, Beside
  <2>3. Timely => Outcome'
    BY <2>1, OutcomeStays DEF TInv
  <2>4. Timely => Story'
    <3>1. Stage => Stage'
      BY <2>1, StageStays
    <3>2. Tally' <=> Tally
      BY <2>1, SameHistory
    <3>3. Quiet' <=> Quiet
      BY <2>1 DEF Quiet, Startups, Startup
    <3> QED
      BY <2>1, <3>1, <3>2, <3>3 DEF TInv, Story
  <2> QED
    BY <2>2, <2>3, <2>4 DEF TInv
<1> QED
  BY <1>1, StartStory, SendRequestStory, TransmitStory, ArmStory, TimeoutStory,
     ConfirmStory, ProceedStory, HandlingStory, ReceiveStory, EventStory, ServeStory,
     BootStory DEF Next, Main

(* With a module that answers in time (world = {}) the state of a function *)
(* agrees at each of its places with what the module did to its requests   *)
(* (Calypso.c:346-444, ATFile.c:111-237, :636), whatever the module says   *)
(* and whatever events come, but for a line that begins like the command   *)
(* before in SendRequest's delay and a '+' line while it copies the name.  *)
THEOREM TruthHolds == Spec => [](IInv /\ TInv)
<1>1. Init => IInv /\ TInv
  BY TypesInit, InitStory
<1>2. (IInv /\ TInv) /\ [Next]_vars => (IInv /\ TInv)'
  BY Inductive, TruthInductive
<1> QED
  BY <1>1, <1>2, PTL DEF Spec

(* A function returns true if and only if the module has granted all of    *)
(* its requests, a chunk of a file with at least one byte, or denied one   *)
(* for the reason it excuses (Calypso.c:346, ATFile.c:636), where no line  *)
(* comes that world = {} leaves out.                                       *)
THEOREM TellsTruth == Spec => []Truthful
<1>1. TInv => Truthful
  BY DEF TInv, Outcome, Truthful, Done
<1> QED
  BY TruthHolds, <1>1, PTL

(* The bytes it reports are those that the module took or gave.            *)
THEOREM Counts == Spec => []CountsBytes
<1>1. TInv => CountsBytes
  BY DEF TInv, Outcome, CountsBytes, Done
<1> QED
  BY TruthHolds, <1>1, PTL

(* The error it tells of is that of its own latest request.                *)
THEOREM TellsOwnError == Spec => []ErrorIsOwn
<1>1. TInv => ErrorIsOwn
  BY DEF TInv, Outcome, ErrorIsOwn, Done
<1> QED
  BY TruthHolds, <1>1, PTL

(* The response it reads is the one line of its own request, where no line *)
(* that begins like the command before comes in the delay of SendRequest   *)
(* (Calypso.c:355-370), and no '+' line while it copies the name of the    *)
(* next (:371-379).                                                        *)
THEOREM ReadsOwnResponse == Spec => []OwnResponse
<1>1. TInv => OwnResponse
  BY DEF TInv, OwnResponse
<1> QED
  BY TruthHolds, <1>1, PTL

-----------------------------------------------------------------------------
(* StephanoI. BufferSafe holds for every set of functions and whatever the *)
(* module sends. Lent says where in WaitForConfirm_ex the pointer may be   *)
(* set, and Measured that the length the interrupt trusts is that of the   *)
(* array it points to, or 0 before it is stored and after it is forgotten. *)

Waits  == {"empty", "poll", "release"}
PlacesS == Waits \cup {"send", "arm", "lend", "measure", "forget"}

Placed ==
    /\ Engaged => /\ task.op \in DOMAIN StephanoI_Script
                  /\ task.k \in 1 .. Len(StephanoI_Script[task.op])
    /\ task \in [op : DOMAIN StephanoI_Script \cup {"none"}, k : Nat, at : PlacesS,
                 ok : BOOLEAN]

Lent ==
    StephanoI_currentResponseText # "NULL" =>
        Engaged /\ task.at \in Waits \cup {"measure"}

Measured ==
    /\ StephanoI_currentResponseAvailableLength \in Nat
    /\ StephanoI_currentResponseLength
         \in 0 .. StephanoI_currentResponseAvailableLength
    /\ Engaged /\ task.at \in Waits
         => StephanoI_currentResponseAvailableLength = Wanted.size
    /\ ~Engaged \/ task.at \notin Waits \cup {"forget"}
         => StephanoI_currentResponseAvailableLength = 0

SInv == Placed /\ Lent /\ Measured

LEMMA ElementOf ==
    ASSUME NEW S, NEW s \in Seq(S), NEW k \in 1 .. Len(s)
    PROVE  s[k] \in S
  OBVIOUS

(* What a function waits for has a size: 0 if it lends no array.           *)
LEMMA WantedSized ==
    ASSUME Placed, Engaged
    PROVE  Wanted.size \in Nat
  <1>1. StephanoI_Script[task.op] \in Seq([expected : Statuses, size : Nat])
    BY StephanoIAssumption DEF Placed
  <1>2. task.k \in 1 .. Len(StephanoI_Script[task.op])
    BY DEF Placed
  <1>3. StephanoI_Script[task.op][task.k] \in [expected : Statuses, size : Nat]
    BY <1>1, <1>2, ElementOf
  <1> QED BY <1>3 DEF Wanted

LEMMA StartsSafe == InitS => SInv
  BY DEF InitS, SInv, Placed, Lent, Measured, Engaged, Nothing, Waits, PlacesS

(* A line is cut to what is left of the array.                             *)
LEMMA StoredFits ==
    ASSUME Measured, NEW n \in Nat
    PROVE  StephanoI_currentResponseLength + Stored(n)
             \in 0 .. StephanoI_currentResponseAvailableLength
  BY DEF Measured, Stored

LEMMA StepSafe ==
    ASSUME SInv, NextS
    PROVE  SInv'
  <1> USE DEF SInv, Placed, Lent, Measured, Engaged, Waits, PlacesS
  <1>1. CASE OpenS
    BY <1>1 DEF OpenS, buffer, Wanted
  <1>2. CASE CloseS
    BY <1>2 DEF CloseS, Wanted
  <1>3. CASE \E f \in DOMAIN StephanoI_Script : CallS(f)
    <2> PICK f \in DOMAIN StephanoI_Script : CallS(f)
      BY <1>3
    <2>1. Len(StephanoI_Script[f]) \in Nat \ {0} /\ f # "none"
      BY StephanoIAssumption
    <2>2. task' = [op |-> f, k |-> 1, at |-> "send", ok |-> TRUE]
      BY DEF CallS, Nothing
    <2>3. task'.op = f /\ task'.k = 1 /\ task'.at = "send"
      BY <2>2
    <2>4. Placed'
      BY <2>1, <2>2, <2>3
    <2>5. Lent'
      BY <2>3 DEF CallS, buffer
    <2>6. Measured'
      BY <2>3 DEF CallS, buffer
    <2> QED BY <2>4, <2>5, <2>6
  <1>4. CASE SendS
    BY <1>4 DEF SendS, TaskAt, Turn, Wanted
  <1>5. CASE ArmS
    BY <1>5 DEF ArmS, TaskAt, Turn, buffer, Wanted
  <1>6. CASE Lend
    BY <1>6 DEF Lend, TaskAt, Turn, Wanted
  <1>7. CASE Measure
    <2>1. Wanted.size \in Nat
      BY <1>7, WantedSized DEF Measure, TaskAt
    <2>2. Wanted' = Wanted
      BY <1>7 DEF Measure, TaskAt, Turn, Wanted
    <2> QED BY <1>7, <2>1, <2>2 DEF Measure, TaskAt, Turn
  <1>8. CASE Empty
    BY <1>8 DEF Empty, TaskAt, Turn, Wanted
  <1>9. CASE ConfirmS
    BY <1>9 DEF ConfirmS, TaskAt, buffer, Wanted
  <1>10. CASE TimeoutS
    BY <1>10 DEF TimeoutS, TaskAt, buffer, Wanted
  <1>11. CASE Release
    BY <1>11 DEF Release, TaskAt, Turn, Wanted
  <1>12. CASE Forget
    <2>1. Len(StephanoI_Script[task.op]) \in Nat
      BY <1>12, StephanoIAssumption DEF Forget, TaskAt
    <2>2. CASE task.ok /\ task.k < Len(StephanoI_Script[task.op])
      <3>1. task' = [op |-> task.op, k |-> task.k + 1, at |-> "send", ok |-> TRUE]
        BY <1>12, <2>2 DEF Forget, Nothing
      <3>2. task'.op = task.op /\ task'.k = task.k + 1 /\ task'.at = "send"
        BY <3>1
      <3>3. task.op \in DOMAIN StephanoI_Script /\ task.k \in Nat
        BY <1>12 DEF TaskAt, Forget
      <3>4. task.k + 1 \in 1 .. Len(StephanoI_Script[task.op])
        BY <2>1, <2>2, <3>3
      <3>5. Placed'
        BY <3>3, <3>4, <3>1, <3>2
      <3>6. Lent' /\ Measured'
        BY <1>12, <3>2 DEF TaskAt, Forget
      <3> QED BY <3>5, <3>6
    <2>3. CASE ~(task.ok /\ task.k < Len(StephanoI_Script[task.op]))
      BY <1>12, <2>3 DEF Forget, TaskAt, Nothing
    <2> QED BY <2>2, <2>3
  <1>13. CASE \E status \in Statuses : StatusLine(status)
    BY <1>13 DEF StatusLine, buffer, Wanted
  <1>14. CASE \E n \in 1 .. MaxLine : ResponseLine(n)
    <2> PICK n \in 1 .. MaxLine : ResponseLine(n)
      BY <1>14
    <2>1. n \in Nat
      BY StephanoIAssumption
    <2> HIDE DEF SInv, Measured
    <2>2. StephanoI_currentResponseLength'
            \in 0 .. StephanoI_currentResponseAvailableLength
      BY <2>1, StoredFits DEF ResponseLine, SInv
    <2> QED BY <2>2 DEF ResponseLine, Wanted, SInv, Measured
  <1> QED
    BY <1>1, <1>2, <1>3, <1>4, <1>5, <1>6, <1>7, <1>8, <1>9, <1>10, <1>11, <1>12,
       <1>13, <1>14 DEF NextS

(* The inductive invariant: where the pointer may be set, and what the     *)
(* length is that the interrupt trusts.                                    *)
THEOREM InvarianceS == SpecS => []SInv
  <1>1. ASSUME SInv, UNCHANGED varsS
        PROVE  SInv'
    BY <1>1 DEF SInv, Placed, Lent, Measured, Engaged, Waits, Wanted, varsS, buffer
  <1> QED BY StartsSafe, StepSafe, <1>1, PTL DEF SpecS

(* Whatever lines arrive and when, the interrupt writes into an array only *)
(* while the function that lent it waits in WaitForConfirm_ex, and never   *)
(* past its end (StephanoI.c:365-428, :593-627).                           *)
THEOREM BuffersSafe == SpecS => []BufferSafe
  <1>1. ASSUME SInv
        PROVE  BufferSafe
    <2> SUFFICES ASSUME StephanoI_currentResponseText # "NULL"
                 PROVE  /\ Engaged
                        /\ task.at \in {"measure", "empty", "poll", "release"}
                        /\ StephanoI_currentResponseLength \in 0 .. Wanted.size
      BY DEF BufferSafe
    <2>1. Engaged /\ task.at \in Waits \cup {"measure"}
      BY <1>1 DEF SInv, Lent
    <2>2. Wanted.size \in Nat
      BY <1>1, <2>1, WantedSized DEF SInv
    <2> QED BY <1>1, <2>1, <2>2 DEF SInv, Measured, Waits
  <1> QED BY InvarianceS, <1>1, PTL
-----------------------------------------------------------------------------
(***************************************************************************)
(* The LoRaWAN driver DaphnisI, whose module says who it answers: when it  *)
(* answers in time, the events a function of the driver has returned are   *)
(* those of its own request.                                               *)
(***************************************************************************)

(* The words of a dialogue that may come after a word.                     *)
Verdicts == {"OK", "ERROR"}
Sayable  == Verdicts \cup {"StartUp", "TxTime"} \cup TxConf \cup TxResp
AfterD(word) ==
    IF word = "OK" THEN {"StartUp", "TxTime"} \cup TxConf \cup TxResp
    ELSE IF word = "TxConfSuccess" THEN {"TxTime"} \cup TxResp
    ELSE IF word = "TxTime" THEN TxResp
    ELSE IF word \in TxResp THEN {"TxTime"} ELSE {}

(* What the request is about that a step belongs to: what it takes to be   *)
(* granted, and all that the module may say to it.                         *)
TopicD ==
    CASE StepD.do = "ask" -> StepD.request
      [] StepD.do = "await" /\ StepD.awaited # {"StartUp"} -> "transmit"
      [] OTHER -> "reset"
NeededD(topic) ==
    CASE topic = "plain"    -> {"OK"}
      [] topic = "transmit" -> {"TxConfSuccess", "TxRespSuccess"}
      [] OTHER              -> {"StartUp"}
WordsD(topic) ==
    CASE topic = "plain"    -> Verdicts
      [] topic = "transmit" -> Verdicts \cup {"TxTime"} \cup TxConf \cup TxResp
      [] OTHER              -> Verdicts \cup {"StartUp"}
DenialsD == {"ERROR", "TxConfError", "TxRespFail"}

OwnD(l)  == l.call = callsMade
Blank    == {Free, "RxData"}
PollingD == AtStep("ask", "poll")
AskedD   == AtStep("ask", "arm") \/ PollingD
AwaitingD == Busy /\ StepD.do = "await" /\ thread.at \in {"next", "clear", "look"}
(* The slots hold what came since the request and nothing older.           *)
FreshD   == AwaitingD /\ (thread.at = "look" \/ ~StepD.reset)

StoredD(word)  == \E s \in SlotsD : DaphnisI_events[s] = word
ToComeD(word)  == \E x \in DOMAIN saying : OwnD(saying[x]) /\ saying[x].what = word
HeardD(word) ==
    \/ PollingD /\ word = "OK" /\ DaphnisI_cmdConfirmStatus = "Success"
    \/ PollingD /\ word = "ERROR" /\ DaphnisI_cmdConfirmStatus = "Failed"
    \/ FreshD /\ word \notin Blank /\ StoredD(word)
KnownD(word) == ToComeD(word) \/ HeardD(word)

LinesOfD  == [what : Sayable, call : Nat]
ThreadsD  == [op : DOMAIN ScriptD \cup {"none"}, k : Nat \ {0},
              at : {"next", "arm", "poll", "clear", "look", "undo"}, slot : SlotsD]
OutcomesD == [op : DOMAIN ScriptD \cup {"none"}, ok : BOOLEAN]

TypeD ==
    /\ DaphnisI_requestPending \in BOOLEAN
    /\ DaphnisI_cmdConfirmStatus \in {"Invalid", "Success", "Failed"}
    /\ DaphnisI_events \in [SlotsD -> Sayable \cup Blank]
    /\ DaphnisI_open \in BOOLEAN /\ initialised \in BOOLEAN
    /\ saying \in Seq(LinesOfD)
    /\ granted \in BOOLEAN /\ disturbed \in BOOLEAN
    /\ outcome \in OutcomesD
    /\ callsMade \in Nat
    /\ thread \in ThreadsD

PlacedD ==
    /\ ~Busy => thread = AtRest
    /\ Busy =>
      /\ thread.k \in DOMAIN ScriptD[thread.op]
      /\ thread.at \in {"arm", "poll"}   => StepD.do = "ask"
      /\ thread.at \in {"clear", "look"} => StepD.do = "await"
      /\ thread.at = "clear" => StepD.reset
      /\ thread.at = "undo"  => thread.op \in Opens /\ thread.k > 1
      /\ thread.at = "next"  => thread.slot = 1

PoweredD ==
    /\ initialised => DaphnisI_open
    /\ Busy => /\ (thread.op \in Opens) = ~initialised
               /\ (thread.op \in Opens /\ thread.k = 1) \/ DaphnisI_open
    /\ AskedD => DaphnisI_requestPending

(* What the module has still to say: an older call has left word of the    *)
(* time on air at most, which comes first.                                 *)
LinesD ==
    /\ \A x \in DOMAIN saying :
         /\ saying[x].call <= callsMade
         /\ (~OwnD(saying[x]) \/ ~Busy) => saying[x].what = "TxTime"
         /\ Busy /\ OwnD(saying[x]) => saying[x].what \in WordsD(TopicD)
                                      /\ Len(saying) - x <= 3
         /\ Busy /\ ~AskedD /\ ~AwaitingD => ~OwnD(saying[x])
         /\ (AwaitingD \/ (PollingD /\ DaphnisI_cmdConfirmStatus # "Invalid")) => OwnD(saying[x])
         /\ AwaitingD => saying[x].what \notin Verdicts
    /\ \A x, y \in DOMAIN saying : x < y /\ OwnD(saying[x]) =>
         OwnD(saying[y]) /\ (Busy => saying[y].what \in AfterD(saying[x].what))
    /\ \A x \in DOMAIN saying : \A word \in Sayable :
         HeardD(word) => saying[x].what \in AfterD(word)

(* The request of this step has been granted, if what grants it is known.  *)
GrantsD ==
    /\ Busy /\ ~AskedD /\ ~AwaitingD /\ thread.at # "undo" => granted
    /\ Busy /\ thread.at = "undo" => ~granted \/ disturbed
    /\ AskedD \/ AwaitingD =>
         /\ \A word \in DenialsD : KnownD(word) => ~granted
         /\ TopicD = "plain"    => (KnownD("OK") => granted)
         /\ TopicD = "reset"    => (KnownD("StartUp") => granted)
         /\ TopicD = "transmit" => (KnownD("TxRespSuccess") => granted)
         /\ granted /\ ~disturbed => \A word \in NeededD(TopicD) : KnownD(word)

(* No event finds the slots full.                                          *)
RoomD ==
    /\ AtStep("await", "clear") => \A s \in 1 .. thread.slot - 1 :
         DaphnisI_events[s] \in IF disturbed THEN Blank ELSE {Free}
    /\ FreshD => \A s \in SlotsD : DaphnisI_events[s] \in Blank \cup WordsD(TopicD)
    /\ (AwaitingD \/ (PollingD /\ DaphnisI_cmdConfirmStatus # "Invalid"))
         /\ ~disturbed => Len(saying) <= 3
    /\ FreshD /\ ~disturbed =>
         \E q \in 0 .. 3 - Len(saying) : \A s \in SlotsD : (DaphnisI_events[s] = Free) = (s > q)

BasicD == TypeD /\ PlacedD /\ PoweredD
-----------------------------------------------------------------------------
(* The functions.                                                          *)
AwaitConf == Await(TxConf, "TxConfSuccess", TRUE)
Responses == {Await(TxResp, "TxRespSuccess", FALSE),
              Await({"TxRespSuccess"}, "TxRespSuccess", FALSE)}

(* What a step is, and the next.                                           *)
KindD(op, k, step, next, length) ==
    /\ length \in Nat /\ k \in 1 .. length
    /\ step.do \in {"open", "close", "pin", "ask", "await"}
    /\ op \in Opens => length = 4
    /\ step.do = "open" <=> op \in Opens /\ k = 1
    /\ step.do = "open" => next.do \in {"pin", "ask"} /\ k < length
    /\ step.do = "close" <=> op = "Deinit"
    /\ step.do = "close" => k = length
    /\ step.do = "pin" => k < length /\ next = AwaitStartUp
    /\ step.do = "ask" =>
         \/ step.request = "plain" /\ k = length
         \/ step.request = "reset" /\ k < length /\ next = AwaitStartUp
         \/ step.request = "transmit" /\ k < length /\ next = AwaitConf /\ op \notin Opens
    /\ step.do = "await" =>
         /\ k > 1
         /\ \/ step = AwaitStartUp /\ (k < length => next = Ask("plain"))
                                   /\ (op \in Opens => k < length)
            \/ step = AwaitConf /\ k < length /\ next \in Responses /\ op \notin Opens
            \/ step \in Responses /\ k = length /\ op \notin Opens

FourD(s, a, b, c, d) ==
    Len(s) = 4 /\ DOMAIN s = 1 .. 4 /\ s[1] = a /\ s[2] = b /\ s[3] = c /\ s[4] = d
ThreeD(s, a, b, c) ==
    Len(s) = 3 /\ DOMAIN s = 1 .. 3 /\ s[1] = a /\ s[2] = b /\ s[3] = c

LEMMA InPartsD ==
    ASSUME NEW a, NEW b, NEW c, NEW d
    PROVE  /\ FourD(<<a>> \o <<b, c>> \o <<d>>, a, b, c, d)
           /\ ThreeD(<<a, b>> \o <<c>>, a, b, c)
<1>1. PICK S : S = {a, b, c, d}
  OBVIOUS
<1>2. PICK one, bc, last, ab, third :
         one = <<a>> /\ bc = <<b, c>> /\ last = <<d>> /\ ab = <<a, b>> /\ third = <<c>>
  OBVIOUS
<1>3. /\ one \in Seq(S) /\ Len(one) = 1 /\ one[1] = a
      /\ bc \in Seq(S) /\ Len(bc) = 2 /\ bc[1] = b /\ bc[2] = c
      /\ last \in Seq(S) /\ Len(last) = 1 /\ last[1] = d
      /\ ab \in Seq(S) /\ Len(ab) = 2 /\ ab[1] = a /\ ab[2] = b
      /\ third \in Seq(S) /\ Len(third) = 1 /\ third[1] = c
  BY <1>1, <1>2
<1>4. one \in Seq(S) /\ bc \in Seq(S) /\ last \in Seq(S) /\ ab \in Seq(S) /\ third \in Seq(S)
  BY <1>3
<1>5. PICK s : /\ s = one \o bc /\ s \in Seq(S) /\ Len(s) = Len(one) + Len(bc)
              /\ DOMAIN s = 1 .. Len(one) + Len(bc)
              /\ \A i \in 1 .. Len(one) : s[i] = one[i]
              /\ \A j \in 1 .. Len(bc) : s[Len(one) + j] = bc[j]
  <2>1. /\ one \o bc \in Seq(S) /\ Len(one \o bc) = Len(one) + Len(bc)
        /\ DOMAIN (one \o bc) = 1 .. Len(one) + Len(bc)
        /\ \A i \in 1 .. Len(one) : (one \o bc)[i] = one[i]
        /\ \A i \in 1 .. Len(bc) : (one \o bc)[Len(one) + i] = bc[i]
    BY <1>4
  <2> QED  BY <2>1
<1>7. Len(s) = 3 /\ s[1] = a /\ s[2] = b /\ s[3] = c
  <2>1. s[1] = one[1] /\ s[1 + 1] = bc[1] /\ s[1 + 2] = bc[2]
    BY <1>3, <1>5
  <2> QED  BY <1>3, <1>5, <2>1
<1>8. PICK t : /\ t = s \o last /\ t \in Seq(S) /\ Len(t) = Len(s) + Len(last)
              /\ DOMAIN t = 1 .. Len(s) + Len(last)
              /\ \A i \in 1 .. Len(s) : t[i] = s[i]
              /\ \A j \in 1 .. Len(last) : t[Len(s) + j] = last[j]
  <2>1. /\ s \o last \in Seq(S) /\ Len(s \o last) = Len(s) + Len(last)
        /\ DOMAIN (s \o last) = 1 .. Len(s) + Len(last)
        /\ \A i \in 1 .. Len(s) : (s \o last)[i] = s[i]
        /\ \A i \in 1 .. Len(last) : (s \o last)[Len(s) + i] = last[i]
    BY <1>4, <1>5
  <2> QED  BY <2>1
<1>10. FourD(t, a, b, c, d)
  <2>1. t[1] = s[1] /\ t[2] = s[2] /\ t[3] = s[3] /\ t[3 + 1] = last[1]
    BY <1>3, <1>7, <1>8
  <2> QED  BY <1>3, <1>7, <1>8, <2>1 DEF FourD
<1>11. PICK u : /\ u = ab \o third /\ u \in Seq(S) /\ Len(u) = Len(ab) + Len(third)
              /\ DOMAIN u = 1 .. Len(ab) + Len(third)
              /\ \A i \in 1 .. Len(ab) : u[i] = ab[i]
              /\ \A j \in 1 .. Len(third) : u[Len(ab) + j] = third[j]
  <2>1. /\ ab \o third \in Seq(S) /\ Len(ab \o third) = Len(ab) + Len(third)
        /\ DOMAIN (ab \o third) = 1 .. Len(ab) + Len(third)
        /\ \A i \in 1 .. Len(ab) : (ab \o third)[i] = ab[i]
        /\ \A i \in 1 .. Len(third) : (ab \o third)[Len(ab) + i] = third[i]
    BY <1>4
  <2> QED  BY <2>1
<1>13. ThreeD(u, a, b, c)
  <2>1. u[1] = ab[1] /\ u[2] = ab[2] /\ u[2 + 1] = third[1]
    BY <1>3, <1>11
  <2> QED  BY <1>3, <1>11, <2>1 DEF ThreeD
<1> QED  BY <1>2, <1>5, <1>8, <1>11, <1>10, <1>13, Zenon

LEMMA FunctionsD ==
    /\ DOMAIN ScriptD =
         {"InitByPin", "InitByReset", "Deinit", "PinReset", "Reset", "Test",
          "TransmitUnicast", "TransmitBroadcast"}
    /\ FourD(ScriptD["InitByPin"], Do("open"), Do("pin"), AwaitStartUp, Ask("plain"))
    /\ FourD(ScriptD["InitByReset"], Do("open"), Ask("reset"), AwaitStartUp, Ask("plain"))
    /\ ScriptD["Deinit"]   = <<Do("close")>>
    /\ ScriptD["PinReset"] = <<Do("pin"), AwaitStartUp>>
    /\ ScriptD["Reset"]    = <<Ask("reset"), AwaitStartUp>>
    /\ ScriptD["Test"]     = <<Ask("plain")>>
    /\ \A op \in {"TransmitUnicast", "TransmitBroadcast"} : \E last \in Responses :
         ThreeD(ScriptD[op], Ask("transmit"), AwaitConf, last)
  <1>1. /\ FourD(InitByPin, Do("open"), Do("pin"), AwaitStartUp, Ask("plain"))
        /\ FourD(InitByReset, Do("open"), Ask("reset"), AwaitStartUp, Ask("plain"))
    BY InPartsD, Zenon DEF InitByPin, InitByReset, PinResetSteps, ResetSteps
  <1>2. /\ ThreeD(Unicast, Ask("transmit"), AwaitConf, Await(TxResp, "TxRespSuccess", FALSE))
        /\ ThreeD(Broadcast, Ask("transmit"), AwaitConf,
                  Await({"TxRespSuccess"}, "TxRespSuccess", FALSE))
    BY InPartsD, Zenon DEF Unicast, Broadcast, SendPayload, AwaitConf
  <1>3. /\ ScriptD["InitByPin"] = InitByPin /\ ScriptD["InitByReset"] = InitByReset
        /\ ScriptD["Deinit"] = <<Do("close")>> /\ ScriptD["PinReset"] = PinResetSteps
        /\ ScriptD["Reset"] = ResetSteps /\ ScriptD["Test"] = <<Ask("plain")>>
        /\ ScriptD["TransmitUnicast"] = Unicast /\ ScriptD["TransmitBroadcast"] = Broadcast
    BY DEF ScriptD
  <1>4. DOMAIN ScriptD =
         {"InitByPin", "InitByReset", "Deinit", "PinReset", "Reset", "Test",
          "TransmitUnicast", "TransmitBroadcast"}
    BY DEF ScriptD
  <1>5. \A op \in {"TransmitUnicast", "TransmitBroadcast"} : \E last \in Responses :
          ThreeD(ScriptD[op], Ask("transmit"), AwaitConf, last)
    BY <1>2, <1>3, Zenon DEF Responses
  <1> QED
    BY <1>1, <1>3, <1>4, <1>5, Zenon DEF PinResetSteps, ResetSteps

LEMMA KindsD ==
    ASSUME NEW op \in DOMAIN ScriptD, NEW k \in DOMAIN ScriptD[op]
    PROVE  KindD(op, k, ScriptD[op][k], ScriptD[op][k + 1], Len(ScriptD[op]))
  <1> DEFINE Good(j, length) == KindD(op, j, ScriptD[op][j], ScriptD[op][j + 1], length)
  <1>1. ASSUME NEW a, NEW b, NEW c, NEW d, FourD(ScriptD[op], a, b, c, d),
               KindD(op, 1, a, b, 4), KindD(op, 2, b, c, 4), KindD(op, 3, c, d, 4),
               KindD(op, 4, d, ScriptD[op][5], 4)
        PROVE  Good(k, Len(ScriptD[op]))
    <2>1. /\ Len(ScriptD[op]) = 4 /\ ScriptD[op][1] = a /\ ScriptD[op][2] = b
          /\ ScriptD[op][3] = c /\ ScriptD[op][4] = d /\ k \in 1 .. 4
      BY <1>1 DEF FourD
    <2>2. k = 1 \/ k = 2 \/ k = 3 \/ k = 4
      BY <2>1
    <2> QED  BY <1>1, <2>1, <2>2
  <1>2. ASSUME NEW a, NEW b, NEW c, ThreeD(ScriptD[op], a, b, c),
               KindD(op, 1, a, b, 3), KindD(op, 2, b, c, 3),
               KindD(op, 3, c, ScriptD[op][4], 3)
        PROVE  Good(k, Len(ScriptD[op]))
    <2>1. /\ Len(ScriptD[op]) = 3 /\ ScriptD[op][1] = a /\ ScriptD[op][2] = b
          /\ ScriptD[op][3] = c /\ k \in 1 .. 3
      BY <1>2 DEF ThreeD
    <2>2. k = 1 \/ k = 2 \/ k = 3
      BY <2>1
    <2> QED  BY <1>2, <2>1, <2>2
  <1>3. ASSUME NEW a, NEW b, ScriptD[op] = <<a, b>>, KindD(op, 1, a, b, 2),
               KindD(op, 2, b, ScriptD[op][3], 2)
        PROVE  Good(k, Len(ScriptD[op]))
    <2>1. Len(ScriptD[op]) = 2 /\ ScriptD[op][1] = a /\ ScriptD[op][2] = b /\ k \in 1 .. 2
      BY <1>3
    <2>2. k = 1 \/ k = 2
      BY <2>1
    <2> QED  BY <1>3, <2>1, <2>2
  <1>4. ASSUME NEW a, ScriptD[op] = <<a>>, KindD(op, 1, a, ScriptD[op][2], 1)
        PROVE  Good(k, Len(ScriptD[op]))
    <2>1. Len(ScriptD[op]) = 1 /\ ScriptD[op][1] = a /\ k \in 1 .. 1
      BY <1>4
    <2>2. k = 1
      BY <2>1
    <2> QED  BY <1>4, <2>1, <2>2
  <1>5. CASE op \in Opens
    <2>1. ASSUME NEW first \in {Do("pin"), Ask("reset")},
                 FourD(ScriptD[op], Do("open"), first, AwaitStartUp, Ask("plain"))
          PROVE  Good(k, Len(ScriptD[op]))
      <3>1. KindD(op, 1, Do("open"), first, 4) /\ KindD(op, 2, first, AwaitStartUp, 4)
        BY <1>5 DEF KindD, Do, Ask, Opens
      <3>2. /\ KindD(op, 3, AwaitStartUp, Ask("plain"), 4)
            /\ KindD(op, 4, Ask("plain"), ScriptD[op][5], 4)
        BY <1>5 DEF KindD, Ask, AwaitStartUp, Await, Opens
      <3> QED  BY <1>1, <2>1, <3>1, <3>2
    <2> QED  BY <1>5, <2>1, FunctionsD DEF Opens
  <1>6. CASE op \in {"Deinit", "Test"}
    <2>1. KindD("Deinit", 1, Do("close"), ScriptD[op][2], 1)
      BY DEF KindD, Do, Opens
    <2>2. KindD("Test", 1, Ask("plain"), ScriptD[op][2], 1)
      BY DEF KindD, Ask, Opens
    <2> QED  BY <1>4, <1>6, <2>1, <2>2, FunctionsD
  <1>7. CASE op \in {"PinReset", "Reset"}
    <2>1. ASSUME NEW first \in {Do("pin"), Ask("reset")},
                 ScriptD[op] = <<first, AwaitStartUp>>
          PROVE  Good(k, Len(ScriptD[op]))
      <3>1. KindD(op, 1, first, AwaitStartUp, 2)
        BY <1>7 DEF KindD, Do, Ask, Opens
      <3>2. KindD(op, 2, AwaitStartUp, ScriptD[op][3], 2)
        BY <1>7 DEF KindD, AwaitStartUp, Await, Opens
      <3> QED  BY <1>3, <2>1, <3>1, <3>2
    <2> QED  BY <1>7, <2>1, FunctionsD
  <1>8. CASE op \in {"TransmitUnicast", "TransmitBroadcast"}
    <2>1. PICK last \in Responses : ThreeD(ScriptD[op], Ask("transmit"), AwaitConf, last)
      BY <1>8, FunctionsD
    <2>2. KindD(op, 1, Ask("transmit"), AwaitConf, 3)
      BY <1>8 DEF KindD, Ask, Opens
    <2>3. KindD(op, 2, AwaitConf, last, 3)
      BY <1>8 DEF KindD, AwaitConf, Await, Opens
    <2>4. KindD(op, 3, last, ScriptD[op][4], 3)
      <3>1. last.do = "await"
        BY DEF Responses, Await
      <3> QED  BY <1>8, <3>1 DEF KindD, Opens
    <2> QED  BY <1>2, <2>1, <2>2, <2>3, <2>4
  <1> QED  BY <1>5, <1>6, <1>7, <1>8, FunctionsD DEF Opens

LEMMA LengthsD == \A op \in DOMAIN ScriptD : DOMAIN ScriptD[op] = 1 .. Len(ScriptD[op])
  <1>1. \A a, b : DOMAIN <<a>> = 1 .. Len(<<a>>) /\ DOMAIN <<a, b>> = 1 .. Len(<<a, b>>)
    OBVIOUS
  <1> QED  BY FunctionsD, <1>1 DEF FourD, ThreeD

(* What the steps are made of.                                             *)
LEMMA StepsD ==
    /\ AwaitStartUp.do = "await" /\ AwaitStartUp.awaited = {"StartUp"}
    /\ AwaitStartUp.success = "StartUp" /\ AwaitStartUp.reset = TRUE
    /\ AwaitConf.do = "await" /\ AwaitConf.awaited = TxConf
    /\ AwaitConf.success = "TxConfSuccess" /\ AwaitConf.reset = TRUE
    /\ \A last \in Responses :
         /\ last.do = "await" /\ "TxRespSuccess" \in last.awaited
         /\ last.awaited \subseteq TxResp
         /\ last.success = "TxRespSuccess" /\ last.reset = FALSE
    /\ \A request : Ask(request).do = "ask" /\ Ask(request).request = request
BY DEF AwaitStartUp, AwaitConf, Responses, Await, Ask, TxResp

-----------------------------------------------------------------------------
(* The dialogues.                                                          *)

(* A beginning of a dialogue about a topic, by which the module grants the *)
(* request or does not.                                                    *)
Theme(request) == IF request = "pin" THEN "reset" ELSE request

Telling(request, d) ==
    /\ Len(d) \in 0 .. 4
    /\ \A i \in 1 .. Len(d) : d[i] \in WordsD(Theme(request))
    /\ \A i, j \in 1 .. Len(d) : i < j => d[j] \in AfterD(d[i])
    /\ \A i, j \in 1 .. Len(d) : d[i] \in DenialsD => d[j] # Proof(request)
    /\ \A i \in 1 .. Len(d) : d[i] = Proof(request) =>
         \A word \in NeededD(Theme(request)) : \E j \in 1 .. i : d[j] = word
    /\ request = "pin" => Len(d) <= 1 /\ \A i \in 1 .. Len(d) : d[i] = "StartUp"

LEMMA TellingWhole ==
    ASSUME NEW request \in {"plain", "reset", "pin", "transmit"},
           NEW d \in Dialogues(request)
    PROVE  Telling(request, d) /\ \E S : d \in Seq(S)
  <1>1. \A x \in {"StartUp", "ERROR", "OK"} : Len(<<x>>) = 1 /\ <<x>>[1] = x
    OBVIOUS
  <1>2. CASE request = "plain"
    <2>1. PICK x \in {"OK", "ERROR"} : d = <<x>>
      BY <1>2 DEF Dialogues
    <2>2. d \in Seq({x}) /\ Len(d) = 1 /\ d[1] = x
      BY <2>1
    <2>3. WordsD(Theme(request)) = Verdicts /\ NeededD(Theme(request)) = {"OK"}
          /\ Proof(request) = "OK"
      BY <1>2 DEF WordsD, NeededD, Theme, Proof
    <2> QED
      BY <1>2, <2>1, <2>2, <2>3 DEF Telling, DenialsD, Verdicts
  <1>3. CASE request = "pin"
    <2>1. d = <<"StartUp">>
      BY <1>3 DEF Dialogues
    <2>2. d \in Seq({"StartUp"}) /\ Len(d) = 1 /\ d[1] = "StartUp"
      BY <2>1
    <2>3. WordsD(Theme(request)) = Verdicts \cup {"StartUp"}
          /\ NeededD(Theme(request)) = {"StartUp"} /\ Proof(request) = "StartUp"
      BY <1>3 DEF WordsD, NeededD, Theme, Proof
    <2> QED
      BY <1>3, <2>1, <2>2, <2>3 DEF Telling, DenialsD
  <1>4. CASE request = "reset"
    <2>1. d = <<"OK", "StartUp">> \/ d = <<"ERROR">>
      BY <1>4 DEF Dialogues
    <2>2. WordsD(Theme(request)) = Verdicts \cup {"StartUp"}
          /\ NeededD(Theme(request)) = {"StartUp"} /\ Proof(request) = "StartUp"
      BY <1>4 DEF WordsD, NeededD, Theme, Proof
    <2>3. CASE d = <<"ERROR">>
      <3>1. d \in Seq({"ERROR"}) /\ Len(d) = 1 /\ d[1] = "ERROR"
        BY <2>3
      <3> QED  BY <1>4, <2>2, <3>1 DEF Telling, DenialsD, Verdicts
    <2>4. CASE d = <<"OK", "StartUp">>
      <3>1. d \in Seq({"OK", "StartUp"}) /\ Len(d) = 2 /\ d[1] = "OK" /\ d[2] = "StartUp"
        BY <2>4
      <3>2. \A i \in 1 .. 2 : i = 1 \/ i = 2
        OBVIOUS
      <3>3. "StartUp" \in AfterD("OK")
        BY DEF AfterD
      <3>4. \A i \in 1 .. 2 : d[i] \in Verdicts \cup {"StartUp"} /\ d[i] \notin DenialsD
        BY <3>1, <3>2 DEF Verdicts, DenialsD
      <3>5. \A i, j \in 1 .. 2 : i < j => d[j] \in AfterD(d[i])
        BY <3>1, <3>2, <3>3
      <3>6. \A i \in 1 .. 2 : d[i] = "StartUp" =>
              \A word \in {"StartUp"} : \E j \in 1 .. i : d[j] = word
        BY <3>1, <3>2
      <3> QED  BY <1>4, <2>2, <3>1, <3>4, <3>5, <3>6 DEF Telling
    <2> QED  BY <2>1, <2>3, <2>4
  <1>5. CASE request = "transmit"
    <2>1. \/ d = <<"ERROR">> \/ d = <<"OK", "TxConfError">>
          \/ \E r \in TxResp : \/ d = <<"OK", "TxConfSuccess", "TxTime", r>>
                               \/ d = <<"OK", "TxConfSuccess", r, "TxTime">>
      BY <1>5 DEF Dialogues
    <2>2. /\ WordsD(Theme(request)) = Verdicts \cup {"TxTime"} \cup TxConf \cup TxResp
          /\ NeededD(Theme(request)) = {"TxConfSuccess", "TxRespSuccess"}
          /\ Proof(request) = "TxRespSuccess"
      BY <1>5 DEF WordsD, NeededD, Theme, Proof
    <2>3. CASE d = <<"ERROR">>
      <3>1. d \in Seq({"ERROR"}) /\ Len(d) = 1 /\ d[1] = "ERROR"
        BY <2>3
      <3> QED  BY <1>5, <2>2, <3>1 DEF Telling, DenialsD, Verdicts
    <2>4. CASE d = <<"OK", "TxConfError">>
      <3>1. /\ d \in Seq({"OK", "TxConfError"}) /\ Len(d) = 2 /\ d[1] = "OK"
            /\ d[2] = "TxConfError"
        BY <2>4
      <3>2. \A i \in 1 .. 2 : i = 1 \/ i = 2
        OBVIOUS
      <3>3. "TxConfError" \in AfterD("OK")
        BY DEF AfterD, TxConf
      <3>4. \A i \in 1 .. 2 : /\ d[i] \in Verdicts \cup TxConf
                             /\ d[i] # "TxRespSuccess"
        BY <3>1, <3>2 DEF Verdicts, TxConf
      <3>5. \A i, j \in 1 .. 2 : i < j => d[j] \in AfterD(d[i])
        BY <3>1, <3>2, <3>3
      <3> QED  BY <1>5, <2>2, <3>1, <3>4, <3>5 DEF Telling
    <2>5. ASSUME NEW r \in TxResp, NEW a, NEW b,
                 (a = "TxTime" /\ b = r) \/ (a = r /\ b = "TxTime"),
                 d = <<"OK", "TxConfSuccess", a, b>>
          PROVE  Telling(request, d) /\ \E S : d \in Seq(S)
      <3>1. PICK S : S = {"OK", "TxConfSuccess", a, b}
        OBVIOUS
      <3>2. /\ d \in Seq(S) /\ Len(d) = 4
            /\ d[1] = "OK" /\ d[2] = "TxConfSuccess" /\ d[3] = a /\ d[4] = b
        BY <2>5, <3>1
      <3>3. \A i \in 1 .. 4 : i = 1 \/ i = 2 \/ i = 3 \/ i = 4
        OBVIOUS
      <3>4. \A i \in 1 .. 4 : d[i] \in Verdicts \cup {"TxTime"} \cup TxConf \cup TxResp
        <4>1. "OK" \in Verdicts /\ "TxConfSuccess" \in TxConf
          BY DEF Verdicts, TxConf
        <4> QED  BY <2>5, <3>2, <3>3, <4>1
      <3>5. \A i, j \in 1 .. 4 : i < j => d[j] \in AfterD(d[i])
        <4>1. AfterD("OK") = {"StartUp", "TxTime"} \cup TxConf \cup TxResp
          BY DEF AfterD
        <4>2. AfterD("TxConfSuccess") = {"TxTime"} \cup TxResp
          BY DEF AfterD
        <4>3. b \in AfterD(a)
          BY <2>5 DEF AfterD, TxResp
        <4>4. a \in {"TxTime"} \cup TxResp /\ b \in {"TxTime"} \cup TxResp
          BY <2>5
        <4>5. "TxConfSuccess" \in TxConf
          BY DEF TxConf
        <4>6. \A j \in 2 .. 4 : d[j] \in AfterD("OK")
          BY <3>2, <4>1, <4>4, <4>5
        <4>7. \A j \in 3 .. 4 : d[j] \in AfterD("TxConfSuccess")
          BY <3>2, <4>2, <4>4
        <4> SUFFICES ASSUME NEW i \in 1 .. 4, NEW j \in 1 .. 4, i < j
                     PROVE  d[j] \in AfterD(d[i])
          OBVIOUS
        <4>8. CASE i = 1
          BY <4>8, <3>2, <4>6
        <4>9. CASE i = 2
          BY <4>9, <3>2, <4>7
        <4>10. CASE i = 3
          BY <4>10, <3>2, <4>3
        <4> QED  BY <4>8, <4>9, <4>10
      <3>6. \A i, j \in 1 .. 4 : d[i] \in DenialsD => d[j] # "TxRespSuccess"
        <4>1. "OK" \notin DenialsD /\ "TxConfSuccess" \notin DenialsD /\ "TxTime" \notin DenialsD
          BY DEF DenialsD
        <4>2. r \in DenialsD => r # "TxRespSuccess"
          BY DEF DenialsD
        <4> QED  BY <2>5, <3>2, <3>3, <4>1, <4>2
      <3>7. \A i \in 1 .. 4 : d[i] = "TxRespSuccess" =>
              \A word \in {"TxConfSuccess", "TxRespSuccess"} : \E j \in 1 .. i : d[j] = word
        <4>1. \A i \in 1 .. 4 : d[i] = "TxRespSuccess" => 2 \in 1 .. i
          BY <3>2, <3>3
        <4>2. \A i \in 1 .. 4 : i \in 1 .. i
          OBVIOUS
        <4> QED  BY <3>2, <4>1, <4>2
      <3>8. request # "pin" /\ 4 \in 0 .. 4
        BY <1>5
      <3>9. Telling(request, d)
        BY <3>2, <3>4, <3>5, <3>6, <3>7, <3>8, <2>2, Zenon DEF Telling
      <3> QED  BY <3>9, <3>2
    <2>6. ASSUME NEW r \in TxResp, d = <<"OK", "TxConfSuccess", "TxTime", r>>
          PROVE  Telling(request, d) /\ \E S : d \in Seq(S)
      BY <2>5, <2>6
    <2>7. ASSUME NEW r \in TxResp, d = <<"OK", "TxConfSuccess", r, "TxTime">>
          PROVE  Telling(request, d) /\ \E S : d \in Seq(S)
      BY <2>5, <2>7
    <2>8. CASE d = <<"ERROR">> \/ d = <<"OK", "TxConfError">>
      <3>1. \E S : d \in Seq(S)
        <4>1. /\ <<"ERROR">> \in Seq({"ERROR"})
              /\ <<"OK", "TxConfError">> \in Seq({"OK", "TxConfError"})
          OBVIOUS
        <4> QED  BY <2>8, <4>1
      <3> QED  BY <2>8, <2>3, <2>4, <3>1
    <2> QED  BY <2>1, <2>6, <2>7, <2>8
  <1> QED  BY <1>2, <1>3, <1>4, <1>5

LEMMA TellingBegun ==
    ASSUME NEW request \in {"plain", "reset", "pin", "transmit"},
           NEW d \in UNION {Prefixes(dialogue) : dialogue \in Dialogues(request)}
    PROVE  Telling(request, d) /\ DOMAIN d = 1 .. Len(d)
  <1>1. PICK whole \in Dialogues(request) : d \in Prefixes(whole)
    OBVIOUS
  <1>2. Telling(request, whole)
    BY TellingWhole
  <1>3. PICK l \in 0 .. Len(whole) : d = SubSeq(whole, 1, l)
    BY <1>1 DEF Prefixes
  <1>4. Len(whole) \in 0 .. 4
    BY <1>2 DEF Telling
  <1>5. PICK S : whole \in Seq(S)
    BY TellingWhole
  <1>6. Len(d) = l /\ DOMAIN d = 1 .. l /\ \A i \in 1 .. l : d[i] = whole[i]
    BY <1>3, <1>4, <1>5
  <1>7. l \in 0 .. 4 /\ \A i \in 1 .. l : i \in 1 .. Len(whole) /\ \A j \in 1 .. i : j \in 1 .. l
    BY <1>4, <1>3
  <1>8. /\ \A i \in 1 .. l : d[i] \in WordsD(Theme(request))
        /\ \A i, j \in 1 .. l : i < j => d[j] \in AfterD(d[i])
        /\ \A i, j \in 1 .. l : d[i] \in DenialsD => d[j] # Proof(request)
        /\ request = "pin" => \A i \in 1 .. l : d[i] = "StartUp"
    BY <1>2, <1>6, <1>7, Zenon DEF Telling
  <1>9. \A i \in 1 .. l : d[i] = Proof(request) =>
          \A word \in NeededD(Theme(request)) : \E j \in 1 .. i : d[j] = word
    <2> SUFFICES ASSUME NEW i \in 1 .. l, d[i] = Proof(request),
                        NEW word \in NeededD(Theme(request))
                 PROVE  \E j \in 1 .. i : d[j] = word
      OBVIOUS
    <2>1. i \in 1 .. Len(whole) /\ whole[i] = Proof(request)
      BY <1>6, <1>7
    <2>2. PICK j \in 1 .. i : whole[j] = word
      BY <1>2, <2>1, Zenon DEF Telling
    <2> QED  BY <1>6, <1>7, <2>2
  <1>10. request = "pin" => l <= 1
    <2>1. request = "pin" => Len(whole) <= 1
      BY <1>2 DEF Telling
    <2> QED  BY <2>1, <1>3, <1>4
  <1> QED  BY <1>6, <1>7, <1>8, <1>9, <1>10 DEF Telling

-----------------------------------------------------------------------------
(* The types, where the thread is, and what is powered.                    *)
LEMMA StageD ==
    ASSUME TypeD, PlacedD, Busy
    PROVE  /\ thread.op \in DOMAIN ScriptD /\ thread.k \in DOMAIN ScriptD[thread.op]
           /\ KindD(thread.op, thread.k, StepD, ScriptD[thread.op][thread.k + 1],
                    Len(ScriptD[thread.op]))
  <1>1. thread.op \in DOMAIN ScriptD /\ thread.k \in DOMAIN ScriptD[thread.op]
    BY DEF TypeD, PlacedD, Busy, ThreadsD
  <1> QED  BY <1>1, KindsD DEF StepD

(* How a step ends.                                                        *)
LEMMA SucceedD ==
    ASSUME TypeD, PlacedD, Busy, Succeed
    PROVE  \/ /\ thread.k = Len(ScriptD[thread.op]) /\ End(TRUE)
           \/ /\ thread.k < Len(ScriptD[thread.op])
              /\ thread.k + 1 \in DOMAIN ScriptD[thread.op]
              /\ thread' = [op |-> thread.op, k |-> thread.k + 1, at |-> "next", slot |-> 1]
              /\ outcome' = outcome /\ initialised' = initialised
  <1>1. thread.op \in DOMAIN ScriptD /\ thread.k \in DOMAIN ScriptD[thread.op]
    BY StageD
  <1>2. thread.k \in 1 .. Len(ScriptD[thread.op]) /\ Len(ScriptD[thread.op]) \in Nat
    BY StageD DEF KindD
  <1>3. CASE thread.k = Len(ScriptD[thread.op])
    BY <1>3 DEF Succeed
  <1>4. CASE thread.k # Len(ScriptD[thread.op])
    <2>1. thread.k < Len(ScriptD[thread.op]) /\ thread.k + 1 \in 1 .. Len(ScriptD[thread.op])
      BY <1>2, <1>4
    <2>2. DOMAIN ScriptD[thread.op] = 1 .. Len(ScriptD[thread.op])
      BY <1>1, LengthsD
    <2>3. thread' = [op |-> thread.op, k |-> thread.k + 1, at |-> "next", slot |-> 1]
      BY <1>4 DEF Succeed, AtRest
    <2> QED  BY <1>4, <2>1, <2>2, <2>3 DEF Succeed
  <1> QED  BY <1>3, <1>4

LEMMA StoreD ==
    ASSUME DaphnisI_events \in [SlotsD -> Sayable \cup Blank], NEW e \in Sayable \cup Blank
    PROVE  /\ Store(e) \in [SlotsD -> Sayable \cup Blank]
           /\ \A s \in SlotsD : Store(e)[s] = DaphnisI_events[s] \/ Store(e)[s] = e
BY DEF Store

LEMMA StoreFirstD ==
    ASSUME DaphnisI_events \in [SlotsD -> Sayable \cup Blank], NEW e \in Sayable \cup Blank,
           NEW q \in Nat, q + 1 \in SlotsD,
           \A s \in SlotsD : (DaphnisI_events[s] = Free) = (s > q)
    PROVE  Store(e) = [DaphnisI_events EXCEPT ![q + 1] = e]
  <1>1. \A s \in SlotsD : s \in Nat
    BY DaphnisIAssumption DEF SlotsD
  <1>2. q + 1 \in Vacant /\ \A r \in Vacant : q + 1 <= r
    BY <1>1 DEF Vacant
  <1>3. \A c \in Vacant : (\A r \in Vacant : c <= r) => c = q + 1
    <2> SUFFICES ASSUME NEW c \in Vacant, \A r \in Vacant : c <= r
                 PROVE  c = q + 1
      OBVIOUS
    <2>1. c <= q + 1 /\ q + 1 <= c /\ c \in Nat
      BY <1>1, <1>2 DEF Vacant
    <2> QED  BY <2>1
  <1>4. (CHOOSE s \in Vacant : \A r \in Vacant : s <= r) = q + 1
    BY <1>2, <1>3
  <1> QED  BY <1>2, <1>4 DEF Store

LEMMA AnswerD ==
    ASSUME TypeD, NEW request \in {"plain", "reset", "pin", "transmit"},
           NEW unsaid \in Seq(LinesOfD), Answer(request, unsaid)
    PROVE  \E d :
             /\ Telling(request, d)
             /\ saying' \in Seq(LinesOfD) /\ Len(saying') = Len(unsaid) + Len(d)
             /\ \A x \in 1 .. Len(unsaid) : saying'[x] = unsaid[x]
             /\ \A i \in 1 .. Len(d) :
                  saying'[Len(unsaid) + i] = [what |-> d[i], call |-> callsMade]
             /\ granted' \in BOOLEAN
             /\ granted' <=> granted /\ \E i \in 1 .. Len(d) : d[i] = Proof(request)
  <1>1. PICK d \in UNION {Prefixes(dialogue) : dialogue \in Dialogues(request)} :
          /\ saying' = unsaid \o [i \in DOMAIN d |-> [what |-> d[i], call |-> callsMade]]
          /\ granted' = (granted /\ Proof(request) \in Range(d))
    BY DEF Answer
  <1>2. Telling(request, d) /\ DOMAIN d = 1 .. Len(d)
    BY TellingBegun
  <1>3. Len(d) \in Nat /\ \A i \in 1 .. Len(d) : d[i] \in Sayable
    BY <1>2 DEF Telling, WordsD, Sayable
  <1>4. PICK told : told = [i \in 1 .. Len(d) |-> [what |-> d[i], call |-> callsMade]]
    OBVIOUS
  <1>5. told \in Seq(LinesOfD) /\ Len(told) = Len(d)
    <2>1. callsMade \in Nat
      BY DEF TypeD
    <2>2. \A i \in 1 .. Len(d) : [what |-> d[i], call |-> callsMade] \in LinesOfD
      BY <1>3, <2>1 DEF LinesOfD
    <2>3. told \in [1 .. Len(d) -> LinesOfD]
      BY <1>4, <2>2
    <2> QED  BY <1>3, <2>3
  <1>6. saying' = unsaid \o told
    BY <1>1, <1>2, <1>4
  <1>7. /\ saying' \in Seq(LinesOfD) /\ Len(saying') = Len(unsaid) + Len(d)
        /\ \A x \in 1 .. Len(unsaid) : saying'[x] = unsaid[x]
        /\ \A i \in 1 .. Len(d) : saying'[Len(unsaid) + i] = told[i]
    <2>1. /\ unsaid \o told \in Seq(LinesOfD) /\ Len(unsaid \o told) = Len(unsaid) + Len(told)
          /\ \A x \in 1 .. Len(unsaid) : (unsaid \o told)[x] = unsaid[x]
          /\ \A i \in 1 .. Len(told) : (unsaid \o told)[Len(unsaid) + i] = told[i]
      BY <1>5
    <2> QED  BY <1>5, <1>6, <2>1
  <1>8. Proof(request) \in Range(d) <=> \E i \in 1 .. Len(d) : d[i] = Proof(request)
    <2>1. DOMAIN d = 1 .. Len(d)
      BY <1>2
    <2>2. Range(d) = {d[i] : i \in 1 .. Len(d)}
      BY <2>1, Zenon DEF Range
    <2>3. \A p : p \in Range(d) <=> \E i \in 1 .. Len(d) : d[i] = p
      BY <2>2, Zenon
    <2> QED  BY <2>3, Zenon
  <1>9. \A i \in 1 .. Len(d) :
          saying'[Len(unsaid) + i] = [what |-> d[i], call |-> callsMade]
    BY <1>4, <1>7
  <1>10. /\ granted' \in BOOLEAN
         /\ granted' <=> granted /\ \E i \in 1 .. Len(d) : d[i] = Proof(request)
    <2>1. granted' <=> granted /\ Proof(request) \in Range(d)
      BY <1>1, Zenon
    <2>2. granted' \in BOOLEAN
      BY <1>1
    <2> QED  BY <1>8, <2>1, <2>2, Zenon
  <1> QED  BY <1>2, <1>7, <1>9, <1>10, Zenon

(* What is left when a function ends, and when it goes on.                 *)
LEMMA EndD ==
    ASSUME TypeD, PlacedD, PoweredD, Busy, NEW ok \in BOOLEAN, End(ok),
           DaphnisI_open' \in BOOLEAN,
           ok /\ thread.op \in Opens => thread.k > 1,
           \/ DaphnisI_open' = DaphnisI_open
           \/ thread.op \in Opens /\ ~ok
           \/ thread.op = "Deinit"
    PROVE  /\ thread' \in ThreadsD /\ outcome' \in OutcomesD /\ initialised' \in BOOLEAN
           /\ ~Busy' /\ outcome' = [op |-> thread.op, ok |-> ok]
           /\ PlacedD' /\ PoweredD'
  <1>1. thread' = [op |-> "none", k |-> 1, at |-> "next", slot |-> 1]
    BY DEF End, AtRest
  <1>2. ~Busy' /\ PlacedD'
    BY <1>1 DEF Busy, PlacedD, AtRest
  <1>3. thread' \in ThreadsD
    BY <1>1, DaphnisIAssumption DEF ThreadsD, SlotsD
  <1>4. thread.op \in DOMAIN ScriptD /\ outcome' = [op |-> thread.op, ok |-> ok]
    BY StageD DEF End
  <1>5. outcome' \in OutcomesD
    BY <1>4 DEF OutcomesD
  <1>6. initialised' = IF thread.op \in Opens THEN ok
                       ELSE initialised /\ thread.op # "Deinit"
    BY DEF End
  <1>7. initialised' \in BOOLEAN /\ (initialised' => DaphnisI_open')
    <2>1. initialised \in BOOLEAN /\ (initialised => DaphnisI_open)
      BY DEF TypeD, PoweredD
    <2>2. ok /\ thread.op \in Opens => DaphnisI_open
      BY DEF PoweredD
    <2>3. CASE thread.op \in Opens
      <3>1. initialised' = ok
        BY <1>6, <2>3
      <3>2. ok => DaphnisI_open'
        BY <2>2, <2>3 DEF Opens
      <3> QED  BY <3>1, <3>2
    <2>4. CASE thread.op \notin Opens
      <3>1. initialised' = (initialised /\ thread.op # "Deinit")
        BY <1>6, <2>4
      <3> QED  BY <2>1, <2>4, <3>1
    <2> QED  BY <2>3, <2>4
  <1>8. PoweredD'
    BY <1>2, <1>7 DEF PoweredD, AskedD, PollingD, AtStep
  <1> QED  BY <1>2, <1>3, <1>4, <1>5, <1>7, <1>8

LEMMA AdvanceD ==
    ASSUME TypeD, PlacedD, PoweredD, Busy,
           thread.k + 1 \in DOMAIN ScriptD[thread.op],
           thread' = [op |-> thread.op, k |-> thread.k + 1, at |-> "next", slot |-> 1],
           initialised' = initialised,
           DaphnisI_open' \/ (DaphnisI_open' = DaphnisI_open /\ StepD.do # "open")
    PROVE  thread' \in ThreadsD /\ Busy' /\ PlacedD' /\ PoweredD'
  <1>1. /\ thread.op \in DOMAIN ScriptD /\ thread.k \in Nat \ {0}
        /\ thread.op # "none" /\ Len(ScriptD[thread.op]) \in Nat
        /\ StepD.do = "open" <=> thread.op \in Opens /\ thread.k = 1
    BY StageD DEF Busy, TypeD, ThreadsD, KindD
  <1>2. thread' \in ThreadsD
    BY <1>1, DaphnisIAssumption DEF ThreadsD, SlotsD
  <1>3. Busy' /\ ~AskedD'
    BY <1>1 DEF Busy, AskedD, PollingD, AtStep
  <1>4. PlacedD'
    BY <1>1, <1>3 DEF PlacedD
  <1>5. PoweredD'
    BY <1>1, <1>3 DEF PoweredD
  <1> QED  BY <1>2, <1>3, <1>4, <1>5

LEMMA CallBasicD ==
    ASSUME BasicD, NEW op \in DaphnisI_Called, CallD(op)
    PROVE  BasicD'
  <1>1. op \in DOMAIN ScriptD /\ op # "none"
    BY DaphnisICalled, FunctionsD
  <1>2. thread' = [op |-> op, k |-> 1, at |-> "next", slot |-> 1]
    BY DEF CallD, AtRest
  <1>3. thread' \in ThreadsD
    BY <1>1, <1>2, DaphnisIAssumption DEF ThreadsD, SlotsD
  <1>4. callsMade' \in Nat
    BY DEF CallD, BasicD, TypeD
  <1>5. /\ UNCHANGED <<driverD, saying, initialised, outcome>>
        /\ granted' = TRUE /\ disturbed' = FALSE /\ (op \in Opens) = ~initialised
    BY DEF CallD
  <1>6. TypeD'
    BY <1>3, <1>4, <1>5 DEF BasicD, TypeD, driverD, SlotsD
  <1>7. Busy' /\ ~AskedD'
    BY <1>1, <1>2 DEF Busy, AskedD, PollingD, AtStep
  <1>8. 1 \in DOMAIN ScriptD[op]
    BY <1>1, FunctionsD DEF FourD, ThreeD
  <1>9. PlacedD'
    BY <1>2, <1>7, <1>8 DEF PlacedD
  <1>10. PoweredD'
    BY <1>2, <1>5, <1>7 DEF BasicD, PoweredD, driverD
  <1> QED  BY <1>6, <1>9, <1>10 DEF BasicD

(* A step that stays on the same wait leaves what is powered.              *)
LEMMA StaysBasicD ==
    ASSUME BasicD, Busy,
           NEW what \in {"next", "arm", "poll", "clear", "look", "undo"}, NEW s \in SlotsD,
           thread' = [thread EXCEPT !.at = what, !.slot = s],
           UNCHANGED <<DaphnisI_open, initialised, outcome>>,
           what \in {"arm", "poll"} => StepD.do = "ask" /\ DaphnisI_requestPending',
           what \in {"clear", "look"} => StepD.do = "await",
           what = "clear" => StepD.reset,
           what = "undo" => thread.op \in Opens /\ thread.k > 1,
           what = "next" => s = 1
    PROVE  thread' \in ThreadsD /\ PlacedD' /\ PoweredD'
  <1>1. thread' = [op |-> thread.op, k |-> thread.k, at |-> what, slot |-> s]
    BY DEF BasicD, TypeD, ThreadsD
  <1>2. thread' \in ThreadsD
    BY <1>1 DEF BasicD, TypeD, ThreadsD
  <1>3. Busy' /\ StepD' = StepD
    BY <1>1 DEF Busy, StepD
  <1>4. PlacedD'
    BY <1>1, <1>3 DEF BasicD, PlacedD
  <1>5. AskedD' => DaphnisI_requestPending'
    BY <1>1, <1>3 DEF AskedD, PollingD, AtStep
  <1>6. PoweredD'
    BY <1>1, <1>3, <1>5 DEF BasicD, PoweredD
  <1> QED  BY <1>2, <1>4, <1>6

LEMMA AskBasicD ==
    ASSUME BasicD, SendRequest \/ ArmD
    PROVE  BasicD'
  <1>1. Busy /\ StepD.do = "ask"
    BY DEF SendRequest, ArmD, AtStep
  <1>2. KindD(thread.op, thread.k, StepD, ScriptD[thread.op][thread.k + 1],
              Len(ScriptD[thread.op])) /\ thread.slot \in SlotsD
    BY <1>1, StageD DEF BasicD, TypeD, ThreadsD
  <1>3. CASE SendRequest
    <2>1. StepD.request \in {"plain", "reset", "transmit"}
      BY <1>1, <1>2 DEF KindD
    <2>2. Answer(StepD.request, saying) /\ saying \in Seq(LinesOfD)
      BY <1>3 DEF SendRequest, BasicD, TypeD
    <2>3. saying' \in Seq(LinesOfD) /\ granted' \in BOOLEAN
      BY <2>1, <2>2, AnswerD DEF BasicD
    <2>4. thread' = [thread EXCEPT !.at = "arm", !.slot = thread.slot]
      BY <1>3 DEF SendRequest, GoTo, BasicD, TypeD, ThreadsD
    <2>5. /\ DaphnisI_requestPending' = TRUE
          /\ UNCHANGED <<DaphnisI_cmdConfirmStatus, DaphnisI_events, DaphnisI_open,
                         initialised, outcome, disturbed, callsMade>>
      BY <1>3 DEF SendRequest, boundsD
    <2>6. thread' \in ThreadsD /\ PlacedD' /\ PoweredD'
      BY <1>1, <1>2, <2>4, <2>5, StaysBasicD
    <2>7. TypeD'
      BY <2>3, <2>5, <2>6 DEF BasicD, TypeD, SlotsD
    <2> QED  BY <2>6, <2>7 DEF BasicD
  <1>4. CASE ArmD
    <2>1. thread' = [thread EXCEPT !.at = "poll", !.slot = thread.slot]
      BY <1>4 DEF ArmD, GoTo, BasicD, TypeD, ThreadsD
    <2>2. AskedD
      BY <1>4 DEF ArmD, AskedD
    <2>3. /\ DaphnisI_cmdConfirmStatus' = "Invalid"
          /\ UNCHANGED <<DaphnisI_requestPending, DaphnisI_events, DaphnisI_open, saying,
                         initialised, outcome, granted, disturbed, callsMade>>
      BY <1>4 DEF ArmD, boundsD, historyD
    <2>4. DaphnisI_requestPending'
      BY <2>2, <2>3 DEF BasicD, PoweredD
    <2>5. thread' \in ThreadsD /\ PlacedD' /\ PoweredD'
      BY <1>1, <1>2, <2>1, <2>3, <2>4, StaysBasicD
    <2>6. TypeD'
      BY <2>3, <2>5 DEF BasicD, TypeD, SlotsD
    <2> QED  BY <2>5, <2>6 DEF BasicD
  <1> QED  BY <1>3, <1>4

(* A step is over: with success or not.                                    *)
LEMMA OverBasicD ==
    ASSUME BasicD, Busy, Succeed \/ Abandon, DaphnisI_open' \in BOOLEAN,
           StepD.do # "open" => DaphnisI_open' = DaphnisI_open,
           StepD.do = "open" => Succeed /\ DaphnisI_open',
           StepD.do # "close"
    PROVE  /\ thread' \in ThreadsD /\ outcome' \in OutcomesD /\ initialised' \in BOOLEAN
           /\ PlacedD' /\ PoweredD'
  <1>1. TypeD /\ PlacedD /\ PoweredD
    BY DEF BasicD
  <1>2. /\ KindD(thread.op, thread.k, StepD, ScriptD[thread.op][thread.k + 1],
                 Len(ScriptD[thread.op]))
        /\ outcome \in OutcomesD /\ initialised \in BOOLEAN /\ thread.slot \in SlotsD
    BY <1>1, StageD DEF TypeD, ThreadsD
  <1>3. CASE Succeed
    <2>1. CASE /\ thread.k = Len(ScriptD[thread.op]) /\ End(TRUE)
      <3>1. StepD.do # "open"
        BY <1>2, <2>1 DEF KindD
      <3>3. thread.op \in Opens => thread.k > 1
        BY <1>2, <3>1 DEF KindD
      <3> QED  BY <1>1, <2>1, <3>1, <3>3, EndD
    <2>2. CASE /\ thread.k < Len(ScriptD[thread.op])
               /\ thread.k + 1 \in DOMAIN ScriptD[thread.op]
               /\ thread' = [op |-> thread.op, k |-> thread.k + 1, at |-> "next", slot |-> 1]
               /\ outcome' = outcome /\ initialised' = initialised
      BY <1>1, <1>2, <2>2, AdvanceD
    <2> QED  BY <1>1, <1>3, <2>1, <2>2, SucceedD
  <1>4. CASE Abandon /\ ~Succeed
    <2>1. StepD.do # "open" /\ DaphnisI_open' = DaphnisI_open
      BY <1>4
    <2>2. thread.op \in Opens => thread.k > 1
      BY <1>2, <2>1 DEF KindD
    <2>3. CASE StartUpFailed
      <3>1. /\ thread' = [thread EXCEPT !.at = "undo", !.slot = thread.slot]
            /\ UNCHANGED <<outcome, initialised>>
        BY <1>1, <1>4, <2>3 DEF Abandon, GoTo, TypeD, ThreadsD
      <3>2. thread.op \in Opens
        BY <2>3 DEF StartUpFailed
      <3>3. /\ thread' = [thread EXCEPT !.at = "undo", !.slot = thread.slot]
            /\ UNCHANGED <<DaphnisI_open, initialised, outcome>>
            /\ thread.op \in Opens /\ thread.k > 1 /\ thread.slot \in SlotsD
        BY <1>2, <2>1, <2>2, <3>1, <3>2
      <3>4. thread' \in ThreadsD /\ PlacedD' /\ PoweredD'
        BY <3>3, StaysBasicD
      <3> QED  BY <1>2, <3>3, <3>4
    <2>4. CASE ~StartUpFailed
      BY <1>1, <1>4, <2>1, <2>4, EndD DEF Abandon
    <2> QED  BY <2>3, <2>4
  <1> QED  BY <1>3, <1>4

LEMMA PollBasicD ==
    ASSUME BasicD, WaitForConfirm
    PROVE  BasicD'
  <1>1. Busy /\ StepD.do = "ask" /\ (Succeed \/ Abandon)
    BY DEF WaitForConfirm, AtStep
  <1>2. /\ DaphnisI_requestPending' = FALSE
        /\ UNCHANGED <<DaphnisI_cmdConfirmStatus, DaphnisI_events, DaphnisI_open, saying,
                       granted, disturbed, callsMade>>
    BY DEF WaitForConfirm, boundsD
  <1>3. /\ thread' \in ThreadsD /\ outcome' \in OutcomesD /\ initialised' \in BOOLEAN
        /\ PlacedD' /\ PoweredD'
    BY <1>1, <1>2, OverBasicD DEF BasicD, TypeD
  <1>4. TypeD'
    BY <1>2, <1>3 DEF BasicD, TypeD, SlotsD
  <1> QED  BY <1>3, <1>4 DEF BasicD

LEMMA WaitBasicD ==
    ASSUME BasicD, BeginWait \/ ClearEvent \/ NextEvent
    PROVE  BasicD'
  <1>1. Busy /\ StepD.do = "await" /\ thread \in ThreadsD /\ thread.slot \in SlotsD
    BY DEF BeginWait, ClearEvent, NextEvent, AtStep, BasicD, TypeD, ThreadsD
  <1>2. thread.slot \in Nat /\ 1 \in SlotsD
    BY <1>1, DaphnisIAssumption DEF SlotsD
  <1>3. thread.slot # EVENT_BUFFER_LENGTH => thread.slot + 1 \in SlotsD
    BY <1>1, DaphnisIAssumption DEF SlotsD
  <1>4. /\ UNCHANGED <<DaphnisI_requestPending, DaphnisI_cmdConfirmStatus, DaphnisI_open, saying,
                       initialised, outcome, granted, disturbed, callsMade>>
        /\ DaphnisI_events' \in [SlotsD -> Sayable \cup Blank]
    <2>1. [DaphnisI_events EXCEPT ![thread.slot] = Free] \in [SlotsD -> Sayable \cup Blank]
      BY DEF BasicD, TypeD, Blank
    <2> QED  BY <2>1 DEF BeginWait, ClearEvent, NextEvent, boundsD, historyD, driverD, BasicD, TypeD
  <1>5. \E what \in {"clear", "look"}, s \in SlotsD :
          /\ thread' = [thread EXCEPT !.at = what, !.slot = s]
          /\ what = "clear" => StepD.reset
    <2>1. CASE BeginWait
      <3>1. CASE StepD.reset
        <4>1. thread' = [thread EXCEPT !.at = "clear", !.slot = thread.slot]
          BY <1>1, <2>1, <3>1 DEF BeginWait, GoTo, ThreadsD
        <4> QED  BY <1>1, <3>1, <4>1
      <3>2. CASE ~StepD.reset
        <4>1. thread' = [thread EXCEPT !.at = "look", !.slot = thread.slot]
          BY <1>1, <2>1, <3>2 DEF BeginWait, GoTo, ThreadsD
        <4> QED  BY <1>1, <4>1
      <3> QED  BY <3>1, <3>2
    <2>2. CASE ClearEvent
      <3>1. thread.at = "clear" /\ StepD.reset
        BY <2>2 DEF ClearEvent, AtStep, BasicD, PlacedD
      <3>2. CASE thread.slot = EVENT_BUFFER_LENGTH
        BY <1>2, <2>2, <3>2 DEF ClearEvent
      <3>3. CASE thread.slot # EVENT_BUFFER_LENGTH
        <4>1. thread' = [thread EXCEPT !.at = "clear", !.slot = thread.slot + 1]
          BY <1>1, <2>2, <3>1, <3>3 DEF ClearEvent, ThreadsD
        <4> QED  BY <1>3, <3>1, <3>3, <4>1
      <3> QED  BY <3>2, <3>3
    <2>3. CASE NextEvent
      <3>1. PICK s \in SlotsD :
              s = IF thread.slot = EVENT_BUFFER_LENGTH THEN 1 ELSE thread.slot + 1
        BY <1>2, <1>3
      <3>2. thread' = [thread EXCEPT !.at = "look", !.slot = s]
        BY <1>1, <2>3, <3>1 DEF NextEvent, AtStep, ThreadsD
      <3> QED  BY <3>2
    <2> QED  BY <2>1, <2>2, <2>3
  <1>6. thread' \in ThreadsD /\ PlacedD' /\ PoweredD'
    BY <1>1, <1>4, <1>5, StaysBasicD
  <1>7. TypeD'
    BY <1>4, <1>6 DEF BasicD, TypeD, SlotsD
  <1> QED  BY <1>6, <1>7 DEF BasicD

LEMMA SearchBasicD ==
    ASSUME BasicD, FindEvent \/ MissEvent
    PROVE  BasicD'
  <1>1. Busy /\ StepD.do = "await" /\ (Succeed \/ Abandon)
    BY DEF FindEvent, MissEvent, AtStep
  <1>2. UNCHANGED <<DaphnisI_requestPending, DaphnisI_cmdConfirmStatus, DaphnisI_events,
                    DaphnisI_open, saying, granted, disturbed, callsMade>>
    BY DEF FindEvent, MissEvent, boundsD, driverD
  <1>3. /\ thread' \in ThreadsD /\ outcome' \in OutcomesD /\ initialised' \in BOOLEAN
        /\ PlacedD' /\ PoweredD'
    BY <1>1, <1>2, OverBasicD DEF BasicD, TypeD
  <1>4. TypeD'
    BY <1>2, <1>3 DEF BasicD, TypeD, SlotsD
  <1> QED  BY <1>3, <1>4 DEF BasicD

LEMMA PinsBasicD ==
    ASSUME BasicD, OpenD \/ PulseReset
    PROVE  BasicD'
  <1>1. Busy /\ StepD.do \in {"open", "pin"} /\ Succeed
    BY DEF OpenD, PulseReset, AtStep
  <1>2. /\ DaphnisI_requestPending' \in BOOLEAN /\ DaphnisI_open' \in BOOLEAN
        /\ DaphnisI_events' \in [SlotsD -> Sayable \cup Blank]
        /\ saying' \in Seq(LinesOfD) /\ granted' \in BOOLEAN
        /\ UNCHANGED <<DaphnisI_cmdConfirmStatus, disturbed, callsMade>>
        /\ StepD.do = "open" => DaphnisI_open'
        /\ StepD.do = "pin" => DaphnisI_open' = DaphnisI_open
    <2>1. CASE OpenD
      <3>1. StepD.do = "open"
        BY <2>1 DEF OpenD, AtStep
      <3> QED  BY <2>1, <3>1 DEF OpenD, boundsD, BasicD, TypeD, Blank
    <2>2. CASE PulseReset
      <3>1. StepD.do = "pin" /\ Answer("pin", <<>>)
        BY <2>2 DEF PulseReset, AtStep
      <3>2. saying' \in Seq(LinesOfD) /\ granted' \in BOOLEAN
        <4>1. <<>> \in Seq(LinesOfD)
          OBVIOUS
        <4> QED  BY <3>1, <4>1, AnswerD DEF BasicD
      <3> QED  BY <2>2, <3>1, <3>2 DEF PulseReset, boundsD, driverD, BasicD, TypeD
    <2> QED  BY <2>1, <2>2
  <1>3. /\ thread' \in ThreadsD /\ outcome' \in OutcomesD /\ initialised' \in BOOLEAN
        /\ PlacedD' /\ PoweredD'
    BY <1>1, <1>2, OverBasicD
  <1>4. TypeD'
    BY <1>2, <1>3 DEF BasicD, TypeD, SlotsD
  <1> QED  BY <1>3, <1>4 DEF BasicD

LEMMA CloseBasicD ==
    ASSUME BasicD, CloseD
    PROVE  BasicD' /\ End(thread.op = "Deinit") /\ Busy
           /\ (thread.op = "Deinit" \/ thread.op \in Opens)
  <1>1. Busy /\ (StepD.do = "close" \/ thread.at = "undo") /\ End(thread.op = "Deinit")
    BY DEF CloseD, AtStep
  <1>2. KindD(thread.op, thread.k, StepD, ScriptD[thread.op][thread.k + 1],
              Len(ScriptD[thread.op]))
    BY <1>1, StageD DEF BasicD
  <1>3. thread.op = "Deinit" \/ thread.op \in Opens
    BY <1>1, <1>2 DEF KindD, BasicD, PlacedD
  <1>4. /\ DaphnisI_requestPending' = FALSE /\ DaphnisI_open' = FALSE
        /\ UNCHANGED <<DaphnisI_cmdConfirmStatus, DaphnisI_events, saying, granted,
                       disturbed, callsMade>>
    BY DEF CloseD, boundsD
  <1>5. "Deinit" \notin Opens
    BY DEF Opens
  <1>6. PICK ok \in BOOLEAN : ok = (thread.op = "Deinit")
    OBVIOUS
  <1>7. /\ thread' \in ThreadsD /\ outcome' \in OutcomesD /\ initialised' \in BOOLEAN
        /\ PlacedD' /\ PoweredD'
    <2>1. End(ok)
      BY <1>1, <1>6
    <2>2. ok => thread.op \notin Opens
      BY <1>5, <1>6
    <2>3. (thread.op \in Opens /\ ~ok) \/ thread.op = "Deinit"
      BY <1>3, <1>6, <1>5
    <2> QED  BY <1>1, <1>4, <2>1, <2>2, <2>3, EndD DEF BasicD
  <1>8. TypeD'
    BY <1>4, <1>7 DEF BasicD, TypeD, SlotsD
  <1> QED  BY <1>1, <1>3, <1>7, <1>8 DEF BasicD

LEMMA ReceiveBasicD ==
    ASSUME BasicD, Say \/ Disturb
    PROVE  BasicD'
  <1>1. UNCHANGED <<DaphnisI_requestPending, DaphnisI_open, thread, initialised, outcome,
                    granted, callsMade>>
    BY DEF Say, Disturb, HandleRxLineD, historyD, boundsD
  <1>2. PlacedD' /\ PoweredD'
    <2>1. (Busy' <=> Busy) /\ StepD' = StepD
      BY <1>1 DEF Busy, StepD
    <2>2. PlacedD'
      BY <1>1, <2>1 DEF BasicD, PlacedD
    <2>3. AskedD' <=> AskedD
      BY <1>1, <2>1 DEF AskedD, PollingD, AtStep
    <2> QED  BY <1>1, <2>1, <2>2, <2>3 DEF BasicD, PoweredD
  <1>3. saying' \in Seq(LinesOfD) /\ disturbed' \in BOOLEAN
    <2>1. saying \in Seq(LinesOfD) /\ disturbed \in BOOLEAN
      BY DEF BasicD, TypeD
    <2>2. saying # <<>> => Tail(saying) \in Seq(LinesOfD)
      BY <2>1
    <2> QED  BY <2>1, <2>2 DEF Say, Disturb, historyD
  <1>4. /\ DaphnisI_cmdConfirmStatus' \in {"Invalid", "Success", "Failed"}
        /\ DaphnisI_events' \in [SlotsD -> Sayable \cup Blank]
    <2>1. PICK what \in Sayable \cup Blank : HandleRxLineD(what)
      <3>1. CASE Say
        <4>1. saying # <<>> /\ saying \in Seq(LinesOfD)
          BY <3>1 DEF Say, BasicD, TypeD
        <4>2. Head(saying) \in LinesOfD
          BY <4>1
        <4>3. Head(saying).what \in Sayable
          BY <4>2 DEF LinesOfD
        <4> QED  BY <3>1, <4>3 DEF Say
      <3>2. CASE Disturb
        BY <3>2 DEF Disturb, Blank
      <3> QED  BY <3>1, <3>2
    <2>2. Store(what) \in [SlotsD -> Sayable \cup Blank]
      BY StoreD DEF BasicD, TypeD
    <2> QED  BY <2>1, <2>2 DEF HandleRxLineD, BasicD, TypeD
  <1>5. TypeD'
    BY <1>1, <1>3, <1>4 DEF BasicD, TypeD, SlotsD
  <1> QED  BY <1>2, <1>5 DEF BasicD

-----------------------------------------------------------------------------
(* The lines, the slots and what is granted.                               *)
TimelyD == ~Prompt /\ ~Late /\ EVENT_BUFFER_LENGTH >= 3
TruthD  == LinesD /\ GrantsD /\ RoomD /\ EventsTruthful

(* Where nothing is asked or awaited.                                      *)
OlderD == \A x \in DOMAIN saying :
            saying[x].call <= callsMade /\ ~OwnD(saying[x]) /\ saying[x].what = "TxTime"
CalmD ==
    /\ Busy /\ ~AskedD /\ ~AwaitingD /\ OlderD
    /\ IF thread.at = "undo" THEN ~granted \/ disturbed ELSE granted
IdleD ==
    /\ ~Busy /\ EventsTruthful
    /\ \A x \in DOMAIN saying : saying[x].call <= callsMade /\ saying[x].what = "TxTime"
    /\ \A x, y \in DOMAIN saying : x < y /\ OwnD(saying[x]) => OwnD(saying[y])

LEMMA CalmStateD == CalmD => TruthD
  <1> SUFFICES ASSUME CalmD PROVE TruthD
    OBVIOUS
  <1>1. ~PollingD /\ ~FreshD /\ \A word : ~HeardD(word)
    BY DEF CalmD, AskedD, FreshD, HeardD
  <1>2. ~AtStep("await", "clear")
    BY DEF CalmD, AwaitingD, AtStep
  <1>3. LinesD
    BY <1>1 DEF CalmD, OlderD, LinesD
  <1>4. GrantsD
    BY DEF CalmD, GrantsD
  <1>5. RoomD
    BY <1>1, <1>2 DEF CalmD, RoomD
  <1>6. EventsTruthful
    BY DEF CalmD, EventsTruthful
  <1> QED  BY <1>3, <1>4, <1>5, <1>6 DEF TruthD

LEMMA IdleStateD == IdleD => TruthD
  <1> SUFFICES ASSUME IdleD PROVE TruthD
    OBVIOUS
  <1>1. ~PollingD /\ ~AskedD /\ ~AwaitingD /\ ~FreshD /\ ~AtStep("await", "clear")
    BY DEF IdleD, AskedD, PollingD, AwaitingD, FreshD, AtStep
  <1>2. \A word : ~HeardD(word)
    BY <1>1 DEF HeardD
  <1>3. LinesD
    BY <1>1, <1>2 DEF IdleD, LinesD
  <1>4. GrantsD
    BY <1>1 DEF IdleD, GrantsD
  <1>5. RoomD
    BY <1>1 DEF RoomD
  <1> QED  BY <1>3, <1>4, <1>5 DEF TruthD, IdleD

LEMMA AftersD == (CalmD' => TruthD') /\ (IdleD' => TruthD')
BY CalmStateD, IdleStateD, PTL

(* The topics and the words.                                               *)
LEMMA TopicsD ==
    ASSUME TypeD, PlacedD, Busy
    PROVE  /\ StepD.do = "ask" => /\ TopicD = StepD.request
                                  /\ TopicD \in {"plain", "reset", "transmit"}
           /\ StepD = AwaitStartUp => TopicD = "reset"
           /\ StepD = AwaitConf \/ StepD \in Responses => TopicD = "transmit"
  <1>1. KindD(thread.op, thread.k, StepD, ScriptD[thread.op][thread.k + 1],
              Len(ScriptD[thread.op]))
    BY StageD
  <1>2. CASE StepD.do = "ask"
    <2>1. TopicD = StepD.request
      BY <1>2 DEF TopicD
    <2>2. StepD # AwaitStartUp /\ StepD # AwaitConf /\ StepD \notin Responses
      BY <1>2, StepsD
    <2> QED  BY <1>1, <1>2, <2>1, <2>2 DEF KindD
  <1>3. CASE StepD = AwaitStartUp
    <2>1. StepD.do = "await" /\ StepD.awaited = {"StartUp"}
      BY <1>3, StepsD
    <2>2. StepD # AwaitConf /\ StepD \notin Responses
      BY <2>1, StepsD DEF TxConf, TxResp
    <2> QED  BY <2>1, <2>2 DEF TopicD
  <1>4. CASE StepD = AwaitConf \/ StepD \in Responses
    <2>1. StepD.do = "await" /\ StepD.awaited # {"StartUp"}
      BY <1>4, StepsD DEF TxConf
    <2> QED  BY <1>3, <2>1 DEF TopicD
  <1> QED  BY <1>2, <1>3, <1>4

LEMMA WordsAfterD ==
    /\ \A word \in Sayable : AfterD(word) \cap Verdicts = {}
    /\ \A word \in {"ERROR", "StartUp", "TxConfError"} : AfterD(word) = {}
    /\ \A word \in TxResp : AfterD(word) = {"TxTime"}
    /\ WordsD("plain") = Verdicts
    /\ NeededD("plain") = {"OK"} /\ NeededD("reset") = {"StartUp"}
    /\ NeededD("transmit") = {"TxConfSuccess", "TxRespSuccess"}
    /\ \A topic \in {"plain", "reset", "transmit"} :
         /\ WordsD(topic) \subseteq Sayable /\ NeededD(topic) \subseteq Sayable
         /\ NeededD(topic) # {}
         /\ topic # "plain" => NeededD(topic) \cap Verdicts = {}
    /\ Sayable \cap Blank = {}
  <1>1. \A word \in Sayable : AfterD(word) \cap Verdicts = {}
    BY DEF AfterD, Verdicts, TxConf, TxResp
  <1>2. \A word \in {"ERROR", "StartUp", "TxConfError"} : AfterD(word) = {}
    BY DEF AfterD, TxResp
  <1>3. \A word \in TxResp : AfterD(word) = {"TxTime"}
    BY DEF AfterD, TxResp
  <1>4. /\ WordsD("plain") = Verdicts
        /\ WordsD("reset") = Verdicts \cup {"StartUp"}
        /\ WordsD("transmit") = Verdicts \cup {"TxTime"} \cup TxConf \cup TxResp
    BY DEF WordsD
  <1>5. /\ NeededD("plain") = {"OK"} /\ NeededD("reset") = {"StartUp"}
        /\ NeededD("transmit") = {"TxConfSuccess", "TxRespSuccess"}
    BY DEF NeededD
  <1>6. ASSUME NEW topic \in {"plain", "reset", "transmit"}
        PROVE  /\ WordsD(topic) \subseteq Sayable /\ NeededD(topic) \subseteq Sayable
               /\ NeededD(topic) # {}
               /\ topic # "plain" => NeededD(topic) \cap Verdicts = {}
    <2>1. CASE topic = "plain"
      BY <2>1, <1>4, <1>5 DEF Sayable, Verdicts
    <2>2. CASE topic = "reset"
      BY <2>2, <1>4, <1>5 DEF Sayable, Verdicts
    <2>3. CASE topic = "transmit"
      BY <2>3, <1>4, <1>5 DEF Sayable, Verdicts, TxConf, TxResp
    <2> QED  BY <2>1, <2>2, <2>3
  <1>7. Sayable \cap Blank = {}
    BY DEF Sayable, Blank, Verdicts, TxConf, TxResp, Free
  <1> QED  BY <1>1, <1>2, <1>3, <1>4, <1>5, <1>6, <1>7

LEMMA CallTruthD ==
    ASSUME BasicD, TruthD, NEW op \in DaphnisI_Called, CallD(op)
    PROVE  TruthD'
  <1>1. op \in DOMAIN ScriptD /\ 1 \in DOMAIN ScriptD[op] /\ op # "none"
    BY DaphnisICalled, FunctionsD DEF FourD, ThreeD
  <1>2. thread' = [op |-> op, k |-> 1, at |-> "next", slot |-> 1]
    BY DEF CallD, AtRest
  <1>3. StepD'.do # "await" /\ Busy'
    <2>1. KindD(op, 1, ScriptD[op][1], ScriptD[op][1 + 1], Len(ScriptD[op]))
      BY <1>1, KindsD
    <2>2. ScriptD[op][1].do # "await"
      BY <2>1 DEF KindD
    <2> QED  BY <1>1, <1>2, <2>2 DEF StepD, Busy
  <1>4. ~AskedD' /\ ~AwaitingD'
    BY <1>2, <1>3 DEF AskedD, PollingD, AwaitingD, AtStep
  <1>5. saying' = saying /\ callsMade' = callsMade + 1 /\ granted' = TRUE /\ ~Busy
    BY DEF CallD
  <1>6. OlderD'
    <2> SUFFICES ASSUME NEW x \in DOMAIN saying
                 PROVE  /\ saying[x].call <= callsMade + 1 /\ saying[x].call # callsMade + 1
                        /\ saying[x].what = "TxTime"
      BY <1>5 DEF OlderD, OwnD
    <2>1. saying[x].call <= callsMade /\ saying[x].what = "TxTime"
      BY <1>5 DEF TruthD, LinesD
    <2>2. saying[x] \in LinesOfD /\ callsMade \in Nat
      BY DEF BasicD, TypeD
    <2>3. saying[x].call \in Nat
      BY <2>2 DEF LinesOfD
    <2> QED  BY <2>1, <2>2, <2>3
  <1>7. CalmD'
    BY <1>2, <1>3, <1>4, <1>5, <1>6 DEF CalmD
  <1> QED  BY <1>7, AftersD

(* Where no line of this call is to come, and none but word of the time on *)
(* air: the function ends, or undoes what it did, or goes on calmly.       *)
LEMMA EndTruthD ==
    ASSUME BasicD, TruthD, Busy, NEW ok \in BOOLEAN, End(ok),
           UNCHANGED <<saying, callsMade, granted, disturbed>>,
           \A x \in DOMAIN saying : saying[x].what = "TxTime",
           thread.op \in DaphnisI_Called \ {"Deinit"} =>
              /\ ok => granted
              /\ ~ok => ~granted \/ disturbed
    PROVE  TruthD'
  <1>1. ~Busy'
    BY DEF End, Busy, AtRest
  <1>2. outcome' = [op |-> thread.op, ok |-> ok]
    BY DEF End
  <1>3. EventsTruthful'
    BY <1>2 DEF EventsTruthful
  <1>4. \A x \in DOMAIN saying : saying[x].call <= callsMade
    BY DEF TruthD, LinesD
  <1>5. \A x, y \in DOMAIN saying : x < y /\ OwnD(saying[x]) => OwnD(saying[y])
    BY DEF TruthD, LinesD
  <1>6. \A x, y \in DOMAIN saying' : x < y /\ OwnD(saying[x])' => OwnD(saying[y])'
    BY <1>5 DEF OwnD
  <1>7. IdleD'
    BY <1>1, <1>3, <1>4, <1>6 DEF IdleD
  <1> QED  BY <1>7, AftersD

LEMMA OlderLinesD ==
    ASSUME TruthD, Busy, \A x \in DOMAIN saying : ~OwnD(saying[x])
    PROVE  OlderD
BY DEF TruthD, LinesD, OlderD

LEMMA UndoTruthD ==
    ASSUME BasicD, TruthD, Busy, OlderD, GoTo("undo"),
           UNCHANGED <<saying, callsMade, granted, disturbed>>, ~granted \/ disturbed
    PROVE  TruthD'
  <1>1. thread' = [thread EXCEPT !.at = "undo"] /\ thread \in ThreadsD
    BY DEF GoTo, BasicD, TypeD
  <1>2. thread'.at = "undo" /\ Busy'
    BY <1>1 DEF Busy, ThreadsD
  <1>3. ~AskedD' /\ ~AwaitingD'
    BY <1>2 DEF AskedD, PollingD, AwaitingD, AtStep
  <1>4. OlderD'
    BY DEF OlderD, OwnD
  <1>5. CalmD'
    BY <1>2, <1>3, <1>4 DEF CalmD
  <1> QED  BY <1>5, AftersD

(* A step that failed.                                                     *)
LEMMA AbandonTruthD ==
    ASSUME BasicD, TruthD, Busy, Abandon, OlderD,
           UNCHANGED <<saying, callsMade, granted, disturbed>>, ~granted \/ disturbed
    PROVE  TruthD'
  <1>1. CASE StartUpFailed
    BY <1>1, UndoTruthD DEF Abandon
  <1>2. CASE ~StartUpFailed
    <2>1. End(FALSE) /\ \A x \in DOMAIN saying : saying[x].what = "TxTime"
      BY <1>2 DEF Abandon, OlderD
    <2> QED  BY <2>1, EndTruthD
  <1> QED  BY <1>1, <1>2

(* A step that is followed by one that asks.                               *)
LEMMA AdvanceTruthD ==
    ASSUME BasicD, TruthD, Busy, OlderD,
           thread.k + 1 \in DOMAIN ScriptD[thread.op],
           ScriptD[thread.op][thread.k + 1].do \in {"ask", "pin"},
           thread' = [op |-> thread.op, k |-> thread.k + 1, at |-> "next", slot |-> 1],
           UNCHANGED <<saying, callsMade, granted, disturbed>>, granted
    PROVE  TruthD'
  <1>1. Busy' /\ StepD'.do # "await"
    BY DEF Busy, StepD
  <1>2. ~AskedD' /\ ~AwaitingD'
    BY <1>1 DEF AskedD, PollingD, AwaitingD, AtStep
  <1>3. OlderD'
    BY DEF OlderD, OwnD
  <1>4. CalmD'
    BY <1>1, <1>2, <1>3 DEF CalmD
  <1> QED  BY <1>4, AftersD

LEMMA OpenTruthD ==
    ASSUME BasicD, TruthD, OpenD
    PROVE  TruthD'
  <1>1. Busy /\ StepD.do = "open" /\ thread.at = "next" /\ Succeed
    BY DEF OpenD, AtStep
  <1>2. KindD(thread.op, thread.k, StepD, ScriptD[thread.op][thread.k + 1],
              Len(ScriptD[thread.op]))
    BY <1>1, StageD DEF BasicD
  <1>3. /\ thread.k < Len(ScriptD[thread.op])
        /\ ScriptD[thread.op][thread.k + 1].do \in {"ask", "pin"}
    BY <1>1, <1>2 DEF KindD
  <1>4. /\ thread.k + 1 \in DOMAIN ScriptD[thread.op]
        /\ thread' = [op |-> thread.op, k |-> thread.k + 1, at |-> "next", slot |-> 1]
    <2>1. thread.k # Len(ScriptD[thread.op])
      BY <1>2, <1>3 DEF KindD
    <2> QED  BY <1>1, <2>1, SucceedD DEF BasicD
  <1>5. ~AskedD /\ ~AwaitingD
    BY <1>1 DEF AskedD, PollingD, AwaitingD, AtStep
  <1>6. granted /\ \A x \in DOMAIN saying : ~OwnD(saying[x])
    BY <1>1, <1>5 DEF TruthD, LinesD, GrantsD
  <1>7. OlderD
    BY <1>1, <1>6, OlderLinesD
  <1>8. UNCHANGED <<saying, callsMade, granted, disturbed>>
    BY DEF OpenD, boundsD
  <1> QED  BY <1>1, <1>3, <1>4, <1>6, <1>7, <1>8, AdvanceTruthD

LEMMA CloseTruthD ==
    ASSUME BasicD, TruthD, CloseD
    PROVE  TruthD'
  <1>1. /\ Busy /\ (StepD.do = "close" \/ thread.at = "undo")
        /\ StepD.do = "close" => thread.at = "next" \/ thread.at = "undo"
    BY DEF CloseD, AtStep
  <1>2. Busy /\ End(thread.op = "Deinit") /\ (thread.op = "Deinit" \/ thread.op \in Opens)
    BY CloseBasicD
  <1>3. ~AskedD /\ ~AwaitingD
    BY <1>1 DEF AskedD, PollingD, AwaitingD, AtStep
  <1>4. \A x \in DOMAIN saying : ~OwnD(saying[x])
    BY <1>2, <1>3 DEF TruthD, LinesD
  <1>5. \A x \in DOMAIN saying : saying[x].what = "TxTime"
    BY <1>2, <1>4, OlderLinesD DEF OlderD
  <1>6. UNCHANGED <<saying, callsMade, granted, disturbed>>
    BY DEF CloseD, boundsD
  <1>7. PICK ok \in BOOLEAN : ok = (thread.op = "Deinit")
    OBVIOUS
  <1>8. thread.op \in DaphnisI_Called \ {"Deinit"} => ~ok /\ (~granted \/ disturbed)
    <2> SUFFICES ASSUME thread.op # "Deinit"
                 PROVE  ~ok /\ (~granted \/ disturbed)
      OBVIOUS
    <2>1. KindD(thread.op, thread.k, StepD, ScriptD[thread.op][thread.k + 1],
                Len(ScriptD[thread.op]))
      BY <1>2, StageD DEF BasicD
    <2>2. thread.at = "undo"
      BY <1>1, <2>1 DEF KindD
    <2> QED  BY <1>2, <1>3, <1>7, <2>2 DEF TruthD, GrantsD
  <1> QED  BY <1>2, <1>5, <1>6, <1>7, <1>8, EndTruthD

(* What the module has to say when it has heard a request.                 *)
LEMMA ToldD ==
    ASSUME BasicD, NEW request \in {"plain", "reset", "pin", "transmit"},
           NEW unsaid \in Seq(LinesOfD), Answer(request, unsaid), granted,
           callsMade' = callsMade,
           \A x \in 1 .. Len(unsaid) : /\ unsaid[x].call <= callsMade
                                       /\ unsaid[x].call # callsMade
                                       /\ unsaid[x].what = "TxTime"
    PROVE  /\ \A x \in DOMAIN saying' :
                /\ saying'[x].call <= callsMade'
                /\ saying'[x].call # callsMade' => saying'[x].what = "TxTime"
                /\ saying'[x].call = callsMade' =>
                     /\ saying'[x].what \in WordsD(Theme(request))
                     /\ Len(saying') - x <= 3
                /\ unsaid = <<>> => saying'[x].call = callsMade'
                /\ unsaid = <<>> /\ request = "pin" => saying'[x].what = "StartUp"
           /\ unsaid = <<>> /\ request = "pin" => Len(saying') <= 1
           /\ \A x, y \in DOMAIN saying' : x < y /\ saying'[x].call = callsMade' =>
                /\ saying'[y].call = callsMade'
                /\ saying'[y].what \in AfterD(saying'[x].what)
           /\ \A word \in DenialsD : ToComeD(word)' => ~granted'
           /\ ToComeD(Proof(request))' => granted'
           /\ granted' => \A word \in NeededD(Theme(request)) : ToComeD(word)'
  <1>1. PICK d :
             /\ Telling(request, d)
             /\ saying' \in Seq(LinesOfD) /\ Len(saying') = Len(unsaid) + Len(d)
             /\ \A x \in 1 .. Len(unsaid) : saying'[x] = unsaid[x]
             /\ \A i \in 1 .. Len(d) :
                  saying'[Len(unsaid) + i] = [what |-> d[i], call |-> callsMade]
             /\ granted' \in BOOLEAN
             /\ granted' <=> granted /\ \E i \in 1 .. Len(d) : d[i] = Proof(request)
    BY AnswerD DEF BasicD
  <1>2. Len(d) \in 0 .. 4 /\ Len(unsaid) \in Nat /\ (request = "pin" => Len(d) <= 1)
    BY <1>1 DEF Telling
  <1>3. DOMAIN saying' = 1 .. Len(unsaid) + Len(d)
    BY <1>1, <1>2
  <1>4. ASSUME NEW x \in DOMAIN saying'
        PROVE  \/ x \in 1 .. Len(unsaid) /\ saying'[x] = unsaid[x]
               \/ \E i \in 1 .. Len(d) : /\ x = Len(unsaid) + i
                                        /\ saying'[x] = [what |-> d[i], call |-> callsMade]
    <2>1. x \in 1 .. Len(unsaid) + Len(d)
      BY <1>3
    <2>2. CASE x <= Len(unsaid)
      BY <1>1, <1>2, <2>1, <2>2
    <2>3. CASE x > Len(unsaid)
      <3>1. x - Len(unsaid) \in 1 .. Len(d) /\ x = Len(unsaid) + (x - Len(unsaid))
        <4>1. PICK u, n : u = Len(unsaid) /\ n = Len(d)
          OBVIOUS
        <4>2. u \in Nat /\ n \in Nat /\ x \in 1 .. u + n /\ x > u
          BY <1>2, <2>1, <2>3, <4>1
        <4>3. x - u \in 1 .. n /\ x = u + (x - u)
          BY <4>2
        <4> QED  BY <4>1, <4>3
      <3> QED  BY <1>1, <3>1
    <2> QED  BY <1>2, <2>1, <2>2, <2>3
  <1>5. ASSUME NEW x \in DOMAIN saying', saying'[x].call = callsMade
        PROVE  \E i \in 1 .. Len(d) : x = Len(unsaid) + i /\ saying'[x].what = d[i]
    <2>1. ~(x \in 1 .. Len(unsaid) /\ saying'[x] = unsaid[x])
      BY <1>5
    <2>2. PICK i \in 1 .. Len(d) : /\ x = Len(unsaid) + i
                                  /\ saying'[x] = [what |-> d[i], call |-> callsMade]
      BY <1>4, <2>1
    <2> QED  BY <2>2
  <1>6. ASSUME NEW i \in 1 .. Len(d)
        PROVE  /\ Len(unsaid) + i \in DOMAIN saying'
               /\ saying'[Len(unsaid) + i].call = callsMade
               /\ saying'[Len(unsaid) + i].what = d[i]
    <2>1. Len(unsaid) + i \in 1 .. Len(unsaid) + Len(d)
      BY <1>2
    <2>2. saying'[Len(unsaid) + i] = [what |-> d[i], call |-> callsMade]
      BY <1>1
    <2> QED  BY <1>3, <2>1, <2>2
  <1>7. \A word : ToComeD(word)' <=> \E i \in 1 .. Len(d) : d[i] = word
    <2> SUFFICES ASSUME NEW word
                 PROVE  ToComeD(word)' <=> \E i \in 1 .. Len(d) : d[i] = word
      OBVIOUS
    <2>1. ASSUME ToComeD(word)'
          PROVE  \E i \in 1 .. Len(d) : d[i] = word
      <3>1. PICK x \in DOMAIN saying' : saying'[x].call = callsMade /\ saying'[x].what = word
        BY <2>1 DEF ToComeD, OwnD
      <3> QED  BY <1>5, <3>1
    <2>2. ASSUME NEW i \in 1 .. Len(d), d[i] = word
          PROVE  ToComeD(word)'
      BY <1>6, <2>2 DEF ToComeD, OwnD
    <2> QED  BY <2>1, <2>2
  <1>8. /\ \A i \in 1 .. Len(d) : d[i] \in WordsD(Theme(request))
        /\ \A i, j \in 1 .. Len(d) : i < j => d[j] \in AfterD(d[i])
        /\ \A i, j \in 1 .. Len(d) : d[i] \in DenialsD => d[j] # Proof(request)
        /\ request = "pin" => \A i \in 1 .. Len(d) : d[i] = "StartUp"
    BY <1>1 DEF Telling
  <1>9. ASSUME NEW x \in DOMAIN saying'
        PROVE  /\ saying'[x].call <= callsMade
               /\ saying'[x].call # callsMade => saying'[x].what = "TxTime"
               /\ saying'[x].call = callsMade =>
                    /\ saying'[x].what \in WordsD(Theme(request))
                    /\ Len(saying') - x <= 3
               /\ unsaid = <<>> => saying'[x].call = callsMade
               /\ unsaid = <<>> /\ request = "pin" => saying'[x].what = "StartUp"
    <2>1. CASE x \in 1 .. Len(unsaid) /\ saying'[x] = unsaid[x]
      <3>1. unsaid # <<>>
        BY <2>1
      <3> QED  BY <2>1, <3>1
    <2>2. ASSUME NEW i \in 1 .. Len(d), x = Len(unsaid) + i,
                 saying'[x] = [what |-> d[i], call |-> callsMade]
          PROVE  /\ saying'[x].call = callsMade /\ saying'[x].call <= callsMade
                 /\ saying'[x].what \in WordsD(Theme(request))
                 /\ Len(saying') - x <= 3
                 /\ request = "pin" => saying'[x].what = "StartUp"
      <3>1. saying'[x].call = callsMade /\ saying'[x].what = d[i]
        BY <2>2
      <3>2. callsMade \in Nat
        BY DEF BasicD, TypeD
      <3>3. Len(saying') - x <= 3
        <4>1. ASSUME NEW n \in Nat, NEW m \in 0 .. 4, NEW j \in 1 .. m
              PROVE  n + m - (n + j) <= 3
          OBVIOUS
        <4>2. Len(saying') = Len(unsaid) + Len(d)
          BY <1>1
        <4>3. Len(unsaid) + Len(d) - (Len(unsaid) + i) <= 3
          BY <1>2, <4>1
        <4>4. x = Len(unsaid) + i
          BY <2>2
        <4>5. Len(saying') - x = Len(unsaid) + Len(d) - (Len(unsaid) + i)
          BY <4>2, <4>4
        <4> QED  BY <4>3, <4>5
      <3>4. callsMade <= callsMade
        BY <3>2
      <3>5. saying'[x].call <= callsMade
        BY <3>1, <3>4
      <3>6. d[i] \in WordsD(Theme(request)) /\ (request = "pin" => d[i] = "StartUp")
        BY <1>8
      <3> QED  BY <3>1, <3>3, <3>5, <3>6
    <2> QED  BY <1>4, <2>1, <2>2
  <1>10. ASSUME NEW x \in DOMAIN saying', NEW y \in DOMAIN saying', x < y,
                saying'[x].call = callsMade
         PROVE  saying'[y].call = callsMade /\ saying'[y].what \in AfterD(saying'[x].what)
    <2>1. PICK i \in 1 .. Len(d) : x = Len(unsaid) + i /\ saying'[x].what = d[i]
      BY <1>5, <1>10
    <2>2. y > Len(unsaid) /\ y \in Nat
      BY <1>2, <1>3, <1>10, <2>1
    <2>3. PICK j \in 1 .. Len(d) : /\ y = Len(unsaid) + j
                                  /\ saying'[y] = [what |-> d[j], call |-> callsMade]
      BY <1>2, <1>4, <2>2
    <2>4. i < j
      BY <1>2, <1>10, <2>1, <2>3
    <2> QED  BY <1>8, <2>1, <2>3, <2>4
  <1>11. /\ \A word \in DenialsD : ToComeD(word)' => ~granted'
         /\ ToComeD(Proof(request))' => granted'
    BY <1>1, <1>7, <1>8
  <1>12. granted' => \A word \in NeededD(Theme(request)) : ToComeD(word)'
    <2> SUFFICES ASSUME granted', NEW word \in NeededD(Theme(request))
                 PROVE  ToComeD(word)'
      OBVIOUS
    <2>1. PICK i \in 1 .. Len(d) : d[i] = Proof(request)
      BY <1>1
    <2>2. PICK j \in 1 .. i : d[j] = word
      BY <1>1, <2>1, Zenon DEF Telling
    <2>3. j \in 1 .. Len(d)
      BY <1>2
    <2> QED  BY <1>7, <2>2, <2>3
  <1>13. unsaid = <<>> /\ request = "pin" => Len(saying') <= 1
    BY <1>1, <1>2
  <1> QED  BY <1>9, <1>10, <1>11, <1>12, <1>13

LEMMA SendTruthD ==
    ASSUME BasicD, TruthD, SendRequest
    PROVE  TruthD'
  <1>1. Busy /\ StepD.do = "ask" /\ thread.at = "next"
    BY DEF SendRequest, AtStep
  <1>2. /\ TopicD = StepD.request /\ StepD.request \in {"plain", "reset", "transmit"}
    BY <1>1, TopicsD DEF BasicD
  <1>3. ~AskedD /\ ~AwaitingD
    BY <1>1 DEF AskedD, PollingD, AwaitingD, AtStep
  <1>4. granted /\ \A x \in DOMAIN saying : ~OwnD(saying[x])
    BY <1>1, <1>3 DEF TruthD, LinesD, GrantsD
  <1>5. OlderD
    BY <1>1, <1>4, OlderLinesD
  <1>6. thread' = [thread EXCEPT !.at = "arm"] /\ thread \in ThreadsD
    BY DEF SendRequest, GoTo, BasicD, TypeD
  <1>7. /\ thread'.at = "arm" /\ Busy' /\ StepD' = StepD
    BY <1>1, <1>6 DEF Busy, StepD, ThreadsD
  <1>8. /\ AskedD' /\ ~PollingD' /\ ~AwaitingD' /\ ~FreshD' /\ ~AtStep("await", "clear")'
        /\ TopicD' = TopicD
    BY <1>1, <1>7 DEF AskedD, PollingD, AwaitingD, FreshD, AtStep, TopicD
  <1>18. PICK request \in {"plain", "reset", "transmit"} : request = StepD.request
    BY <1>2
  <1>9. /\ Answer(request, saying) /\ callsMade' = callsMade
        /\ disturbed' = disturbed /\ saying \in Seq(LinesOfD)
    BY <1>18 DEF SendRequest, boundsD, BasicD, TypeD
  <1>10. \A x \in 1 .. Len(saying) : /\ saying[x].call <= callsMade
                                     /\ saying[x].call # callsMade
                                     /\ saying[x].what = "TxTime"
    BY <1>5, <1>9 DEF OlderD, OwnD
  <1>11. Theme(request) = request
    BY DEF Theme
  <1>12. /\ \A x \in DOMAIN saying' :
                /\ saying'[x].call <= callsMade'
                /\ saying'[x].call # callsMade' => saying'[x].what = "TxTime"
                /\ saying'[x].call = callsMade' =>
                     /\ saying'[x].what \in WordsD(request)
                     /\ Len(saying') - x <= 3
         /\ \A x, y \in DOMAIN saying' : x < y /\ saying'[x].call = callsMade' =>
                /\ saying'[y].call = callsMade'
                /\ saying'[y].what \in AfterD(saying'[x].what)
         /\ \A word \in DenialsD : ToComeD(word)' => ~granted'
         /\ ToComeD(Proof(request))' => granted'
         /\ granted' => \A word \in NeededD(request) : ToComeD(word)'
    BY <1>4, <1>9, <1>10, <1>11, ToldD
  <1>13. \A word : ~HeardD(word)'
    BY <1>8 DEF HeardD
  <1>14. LinesD'
    <2>1. TopicD' = request
      BY <1>2, <1>8, <1>18
    <2> QED  BY <1>7, <1>8, <1>12, <1>13, <2>1 DEF LinesD, OwnD
  <1>15. GrantsD'
    <2>1. \A word : KnownD(word)' <=> ToComeD(word)'
      BY <1>13 DEF KnownD
    <2>2. /\ request = "plain" => Proof(request) = "OK"
          /\ request = "reset" => Proof(request) = "StartUp"
          /\ request = "transmit" => Proof(request) = "TxRespSuccess"
      BY DEF Proof
    <2>3. TopicD' = request
      BY <1>2, <1>8, <1>18
    <2> QED  BY <1>7, <1>8, <1>12, <2>1, <2>2, <2>3 DEF GrantsD
  <1>16. RoomD'
    BY <1>8 DEF RoomD
  <1>17. EventsTruthful'
    BY <1>7 DEF EventsTruthful
  <1> QED  BY <1>14, <1>15, <1>16, <1>17 DEF TruthD

LEMMA PulseTruthD ==
    ASSUME BasicD, TruthD, PulseReset
    PROVE  TruthD'
  <1>1. Busy /\ StepD.do = "pin" /\ thread.at = "next" /\ Succeed
    BY DEF PulseReset, AtStep
  <1>2. KindD(thread.op, thread.k, StepD, ScriptD[thread.op][thread.k + 1],
              Len(ScriptD[thread.op]))
    BY <1>1, StageD DEF BasicD
  <1>3. thread.k # Len(ScriptD[thread.op]) /\ ScriptD[thread.op][thread.k + 1] = AwaitStartUp
    BY <1>1, <1>2 DEF KindD
  <1>4. thread' = [op |-> thread.op, k |-> thread.k + 1, at |-> "next", slot |-> 1]
    BY <1>1, <1>3, SucceedD DEF BasicD
  <1>5. ~AskedD /\ ~AwaitingD
    BY <1>1 DEF AskedD, PollingD, AwaitingD, AtStep
  <1>6. granted
    BY <1>1, <1>5 DEF TruthD, GrantsD
  <1>7. Busy' /\ StepD' = AwaitStartUp /\ thread'.at = "next"
    BY <1>1, <1>3, <1>4 DEF Busy, StepD
  <1>8. /\ ~AskedD' /\ ~PollingD' /\ AwaitingD' /\ ~FreshD' /\ ~AtStep("await", "clear")'
        /\ TopicD' = "reset"
    <2>1. /\ StepD'.do = "await" /\ StepD'.reset = TRUE /\ StepD'.awaited = {"StartUp"}
      BY <1>7, StepsD
    <2>2. ~AskedD' /\ ~PollingD' /\ ~AtStep("await", "clear")'
      BY <1>7, <2>1 DEF AskedD, PollingD, AtStep
    <2>3. AwaitingD' /\ ~FreshD'
      BY <1>7, <2>1 DEF AwaitingD, FreshD
    <2>4. TopicD' = "reset"
      BY <2>1 DEF TopicD
    <2> QED  BY <2>2, <2>3, <2>4
  <1>9. /\ Answer("pin", <<>>) /\ callsMade' = callsMade /\ disturbed' = disturbed
    BY DEF PulseReset, boundsD
  <1>10. PICK unsaid : unsaid = <<>> /\ unsaid \in Seq(LinesOfD) /\ Len(unsaid) = 0
    <2>1. <<>> \in Seq(LinesOfD) /\ Len(<<>>) = 0
      OBVIOUS
    <2> QED  BY <2>1, Zenon
  <1>11. /\ \A x \in DOMAIN saying' :
                /\ saying'[x].call <= callsMade'
                /\ Len(saying') - x <= 3
                /\ saying'[x].call = callsMade'
                /\ saying'[x].what = "StartUp"
         /\ Len(saying') <= 1
         /\ \A word \in DenialsD : ToComeD(word)' => ~granted'
         /\ ToComeD("StartUp")' => granted'
         /\ granted' => \A word \in NeededD("reset") : ToComeD(word)'
    <2>1. Theme("pin") = "reset" /\ Proof("pin") = "StartUp"
      BY DEF Theme, Proof
    <2>2. /\ \A x \in DOMAIN saying' :
                /\ saying'[x].call <= callsMade'
                /\ saying'[x].call = callsMade' => Len(saying') - x <= 3
                /\ unsaid = <<>> => saying'[x].call = callsMade'
                /\ unsaid = <<>> => saying'[x].what = "StartUp"
          /\ unsaid = <<>> => Len(saying') <= 1
          /\ \A word \in DenialsD : ToComeD(word)' => ~granted'
          /\ ToComeD(Proof("pin"))' => granted'
          /\ granted' => \A word \in NeededD(Theme("pin")) : ToComeD(word)'
      <3>1. \A x \in 1 .. Len(unsaid) : /\ unsaid[x].call <= callsMade
                                        /\ unsaid[x].call # callsMade
                                        /\ unsaid[x].what = "TxTime"
        BY <1>10
      <3>2. Answer("pin", unsaid)
        BY <1>9, <1>10
      <3> QED  BY <1>6, <1>9, <1>10, <3>1, <3>2, ToldD
    <2> QED  BY <1>10, <2>1, <2>2
  <1>12. \A word : ~HeardD(word)'
    BY <1>8 DEF HeardD
  <1>13. saying' \in Seq(LinesOfD)
    BY PinsBasicD DEF BasicD, TypeD
  <1>14. LinesD'
    <2>1. "StartUp" \in WordsD("reset") /\ "StartUp" \notin Verdicts
      BY DEF WordsD, Verdicts
    <2>2. \A x, y \in DOMAIN saying' : ~(x < y)
      BY <1>11, <1>13
    <2> QED  BY <1>7, <1>8, <1>11, <1>12, <2>1, <2>2 DEF LinesD, OwnD
  <1>15. GrantsD'
    <2>1. \A word : KnownD(word)' <=> ToComeD(word)'
      BY <1>12 DEF KnownD
    <2> QED  BY <1>7, <1>8, <1>11, <2>1 DEF GrantsD
  <1>16. RoomD'
    BY <1>8, <1>11, <1>13 DEF RoomD
  <1>17. EventsTruthful'
    BY <1>7 DEF EventsTruthful
  <1> QED  BY <1>14, <1>15, <1>16, <1>17 DEF TruthD

LEMMA ArmTruthD ==
    ASSUME BasicD, TruthD, ArmD
    PROVE  TruthD'
  <1>1. Busy /\ StepD.do = "ask" /\ thread.at = "arm"
    BY DEF ArmD, AtStep
  <1>2. AskedD /\ ~PollingD /\ ~AwaitingD /\ ~FreshD
    BY <1>1 DEF AskedD, PollingD, AwaitingD, FreshD, AtStep
  <1>3. thread' = [thread EXCEPT !.at = "poll"] /\ thread \in ThreadsD
    BY DEF ArmD, GoTo, BasicD, TypeD
  <1>4. /\ thread'.at = "poll" /\ Busy' /\ StepD' = StepD
    BY <1>1, <1>3 DEF Busy, StepD, ThreadsD
  <1>5. /\ AskedD' /\ PollingD' /\ ~AwaitingD' /\ ~FreshD' /\ ~AtStep("await", "clear")'
        /\ TopicD' = TopicD
    BY <1>1, <1>4 DEF AskedD, PollingD, AwaitingD, FreshD, AtStep, TopicD
  <1>6. /\ DaphnisI_cmdConfirmStatus' = "Invalid"
        /\ UNCHANGED <<saying, callsMade, granted, disturbed, outcome>>
    BY DEF ArmD, historyD, boundsD
  <1>7. \A word : ~HeardD(word) /\ ~HeardD(word)'
    BY <1>2, <1>5, <1>6 DEF HeardD
  <1>8. \A word : KnownD(word)' <=> KnownD(word)
    BY <1>6, <1>7 DEF KnownD, ToComeD, OwnD
  <1>9. LinesD'
    BY <1>1, <1>2, <1>4, <1>5, <1>6, <1>7 DEF TruthD, LinesD, OwnD
  <1>10. GrantsD'
    BY <1>2, <1>4, <1>5, <1>6, <1>8 DEF TruthD, GrantsD
  <1>11. RoomD'
    BY <1>5, <1>6 DEF RoomD
  <1>12. EventsTruthful'
    BY <1>4 DEF EventsTruthful
  <1> QED  BY <1>9, <1>10, <1>11, <1>12 DEF TruthD

(* The confirmation of a request that an event is awaited for.             *)
LEMMA ConfirmedD ==
    ASSUME BasicD, TruthD, PollingD, DaphnisI_cmdConfirmStatus = "Success",
           TopicD \in {"reset", "transmit"},
           Busy', thread'.at = "next", StepD'.do = "await", StepD'.reset, TopicD' = TopicD,
           UNCHANGED <<saying, callsMade, granted, disturbed>>
    PROVE  TruthD'
  <1>1. AskedD /\ ~AwaitingD /\ ~FreshD /\ Busy
    BY DEF AskedD, PollingD, AwaitingD, FreshD, AtStep
  <1>2. /\ ~AskedD' /\ ~PollingD' /\ AwaitingD' /\ ~FreshD' /\ ~AtStep("await", "clear")'
    BY DEF AskedD, PollingD, AwaitingD, FreshD, AtStep
  <1>3. HeardD("OK") /\ "OK" \in Sayable
    BY DEF HeardD, Sayable, Verdicts
  <1>4. \A word : HeardD(word) => word \in Verdicts
    BY <1>1 DEF HeardD, Verdicts
  <1>5. \A word : ~HeardD(word)'
    BY <1>2 DEF HeardD
  <1>6. \A x \in DOMAIN saying : saying[x].what \notin Verdicts
    <2> SUFFICES ASSUME NEW x \in DOMAIN saying PROVE saying[x].what \notin Verdicts
      OBVIOUS
    <2>1. saying[x].what \in AfterD("OK")
      BY <1>3 DEF TruthD, LinesD
    <2> QED  BY <1>3, <2>1, WordsAfterD
  <1>7. \A x \in DOMAIN saying : OwnD(saying[x])
    BY DEF TruthD, LinesD
  <1>8. /\ \A x \in DOMAIN saying : /\ saying[x].call <= callsMade
                                   /\ saying[x].what \in WordsD(TopicD)
                                   /\ Len(saying) - x <= 3
        /\ \A x, y \in DOMAIN saying : x < y => saying[y].what \in AfterD(saying[x].what)
    BY <1>1, <1>7 DEF TruthD, LinesD
  <1>9. LinesD'
    BY <1>2, <1>5, <1>6, <1>7, <1>8 DEF LinesD, OwnD
  <1>10. GrantsD'
    <2>1. \A word : KnownD(word)' <=> ToComeD(word)
      BY <1>5 DEF KnownD, ToComeD, OwnD
    <2>2. \A word \in DenialsD : ToComeD(word) => ~granted
      BY <1>1 DEF TruthD, GrantsD, KnownD
    <2>3. /\ TopicD = "reset" => (ToComeD("StartUp") => granted)
          /\ TopicD = "transmit" => (ToComeD("TxRespSuccess") => granted)
      BY <1>1 DEF TruthD, GrantsD, KnownD
    <2>4. granted /\ ~disturbed => \A word \in NeededD(TopicD) : ToComeD(word)
      <3> SUFFICES ASSUME granted, ~disturbed, NEW word \in NeededD(TopicD)
                   PROVE  ToComeD(word)
        OBVIOUS
      <3>1. KnownD(word)
        BY <1>1 DEF TruthD, GrantsD
      <3>2. word \notin Verdicts
        BY WordsAfterD
      <3> QED  BY <1>4, <3>1, <3>2 DEF KnownD
    <2> QED  BY <1>2, <2>1, <2>2, <2>3, <2>4 DEF GrantsD
  <1>11. RoomD'
    <2>1. ~disturbed => Len(saying) <= 3
      BY DEF TruthD, RoomD
    <2> QED  BY <1>2, <2>1 DEF RoomD
  <1>12. EventsTruthful'
    BY DEF EventsTruthful
  <1> QED  BY <1>9, <1>10, <1>11, <1>12 DEF TruthD

LEMMA PollTruthD ==
    ASSUME TimelyD, BasicD, TruthD, WaitForConfirm
    PROVE  TruthD'
  <1>1. PollingD /\ Busy /\ StepD.do = "ask" /\ thread.at = "poll"
    BY DEF WaitForConfirm, AtStep, PollingD
  <1>2. AskedD /\ ~AwaitingD /\ ~FreshD
    BY <1>1 DEF AskedD, AwaitingD, FreshD
  <1>3. KindD(thread.op, thread.k, StepD, ScriptD[thread.op][thread.k + 1],
              Len(ScriptD[thread.op])) /\ thread.op # "none"
    BY <1>1, StageD DEF BasicD, Busy
  <1>4. UNCHANGED <<saying, callsMade, granted, disturbed>>
    BY DEF WaitForConfirm, boundsD
  <1>5. /\ TopicD = StepD.request /\ TopicD \in {"plain", "reset", "transmit"}
    BY <1>1, TopicsD DEF BasicD
  <1>6. CASE DaphnisI_cmdConfirmStatus = "Success"
    <2>1. Succeed
      BY <1>6 DEF WaitForConfirm
    <2>2. CASE thread.k = Len(ScriptD[thread.op])
      <3>1. TopicD = "plain"
        BY <1>1, <1>3, <1>5, <2>2 DEF KindD
      <3>2. End(TRUE)
        BY <2>1, <2>2 DEF Succeed
      <3>3. HeardD("OK") /\ "OK" \in Sayable
        BY <1>1, <1>6 DEF HeardD, Sayable, Verdicts
      <3>4. granted
        BY <1>2, <3>1, <3>3 DEF TruthD, GrantsD, KnownD
      <3>5. ASSUME NEW x \in DOMAIN saying PROVE FALSE
        <4>1. saying[x].what \in AfterD("OK")
          BY <3>3 DEF TruthD, LinesD
        <4>2. OwnD(saying[x])
          BY <1>1, <1>6 DEF TruthD, LinesD
        <4>3. saying[x].what \in WordsD("plain")
          BY <1>1, <3>1, <4>2 DEF TruthD, LinesD
        <4> QED  BY <3>3, <4>1, <4>3, WordsAfterD
      <3> QED  BY <1>1, <1>4, <3>2, <3>4, <3>5, EndTruthD
    <2>3. CASE thread.k # Len(ScriptD[thread.op])
      <3>1. /\ thread' = [op |-> thread.op, k |-> thread.k + 1, at |-> "next", slot |-> 1]
        BY <1>1, <2>1, <2>3, SucceedD DEF BasicD
      <3>2. \/ TopicD = "reset" /\ ScriptD[thread.op][thread.k + 1] = AwaitStartUp
            \/ TopicD = "transmit" /\ ScriptD[thread.op][thread.k + 1] = AwaitConf
        BY <1>1, <1>3, <1>5, <2>3 DEF KindD
      <3>3. Busy' /\ thread'.at = "next" /\ StepD' = ScriptD[thread.op][thread.k + 1]
        BY <1>3, <3>1 DEF Busy, StepD
      <3>4. StepD'.do = "await" /\ StepD'.reset
        BY <3>2, <3>3, StepsD
      <3>5. TopicD' = TopicD
        <4>1. TopicD' = IF StepD'.awaited # {"StartUp"} THEN "transmit" ELSE "reset"
          BY <3>4 DEF TopicD
        <4> QED  BY <3>2, <3>3, <4>1, StepsD DEF TxConf
      <3> QED  BY <1>1, <1>4, <1>6, <3>2, <3>3, <3>4, <3>5, ConfirmedD
    <2> QED  BY <2>2, <2>3
  <1>7. CASE DaphnisI_cmdConfirmStatus # "Success"
    <2>1. Abandon
      BY <1>7 DEF WaitForConfirm
    <2>2. CASE DaphnisI_cmdConfirmStatus = "Failed"
      <3>1. HeardD("ERROR") /\ "ERROR" \in Sayable /\ "ERROR" \in DenialsD
        BY <1>1, <2>2 DEF HeardD, Sayable, Verdicts, DenialsD
      <3>2. ~granted
        BY <1>2, <3>1 DEF TruthD, GrantsD, KnownD
      <3>3. \A x \in DOMAIN saying : FALSE
        BY <3>1, WordsAfterD DEF TruthD, LinesD
      <3>4. OlderD
        BY <3>3 DEF OlderD
      <3> QED  BY <1>1, <1>4, <2>1, <3>2, <3>4, AbandonTruthD
    <2>3. CASE DaphnisI_cmdConfirmStatus = "Invalid"
      <3>1. \A x \in DOMAIN saying : ~OwnD(saying[x])
        <4>1. \A l \in Range(saying) : l.call # callsMade
          BY <2>3 DEF WaitForConfirm, GivesUp, TimelyD
        <4> QED  BY <4>1 DEF Range, OwnD
      <3>2. OlderD
        BY <1>1, <3>1, OlderLinesD
      <3>3. \A word : ~KnownD(word)
        BY <1>2, <2>3, <3>1 DEF KnownD, HeardD, ToComeD
      <3>4. ~granted \/ disturbed
        <4>1. NeededD(TopicD) # {}
          BY <1>5, WordsAfterD
        <4> QED  BY <1>2, <3>3, <4>1 DEF TruthD, GrantsD
      <3> QED  BY <1>1, <1>4, <2>1, <3>2, <3>4, AbandonTruthD
    <2> QED  BY <1>7, <2>2, <2>3 DEF BasicD, TypeD
  <1> QED  BY <1>6, <1>7

(* A wait that goes on, with what it has heard.                            *)
LEMMA WaitsOnD ==
    ASSUME BasicD, TruthD, AwaitingD, AwaitingD', TopicD' = TopicD, Busy',
           FreshD' <=> FreshD, thread'.at = "clear" => thread'.slot = 1,
           UNCHANGED <<saying, callsMade, granted, disturbed, DaphnisI_events, outcome>>
    PROVE  TruthD'
  <1>1. Busy /\ ~AskedD /\ ~PollingD /\ StepD.do = "await"
    BY DEF AwaitingD, AskedD, PollingD, AtStep
  <1>2. ~AskedD' /\ ~PollingD' /\ thread'.at # "undo"
    BY DEF AwaitingD, AskedD, PollingD, AtStep
  <1>3. \A word : HeardD(word)' <=> HeardD(word)
    BY <1>1, <1>2 DEF HeardD, StoredD
  <1>4. \A word : KnownD(word)' <=> KnownD(word)
    BY <1>3 DEF KnownD, ToComeD, OwnD
  <1>5. LinesD'
    BY <1>1, <1>2, <1>3 DEF TruthD, LinesD, OwnD
  <1>6. GrantsD'
    BY <1>1, <1>2, <1>4 DEF TruthD, GrantsD
  <1>7. RoomD'
    <2>1. AtStep("await", "clear")' => \A s \in 1 .. thread'.slot - 1 :
            DaphnisI_events'[s] \in IF disturbed' THEN Blank ELSE {Free}
      BY DEF AtStep
    <2> QED  BY <1>1, <1>2, <2>1 DEF TruthD, RoomD
  <1>8. EventsTruthful'
    BY DEF EventsTruthful
  <1> QED  BY <1>5, <1>6, <1>7, <1>8 DEF TruthD

LEMMA BeginTruthD ==
    ASSUME BasicD, TruthD, BeginWait \/ NextEvent
    PROVE  TruthD'
  <1>1. /\ Busy /\ StepD.do = "await" /\ thread.at \in {"next", "look"} /\ AwaitingD
        /\ thread \in ThreadsD
    BY DEF BeginWait, NextEvent, AtStep, AwaitingD, BasicD, TypeD
  <1>2. UNCHANGED <<saying, callsMade, granted, disturbed, DaphnisI_events, outcome>>
    BY DEF BeginWait, NextEvent, historyD, boundsD, driverD
  <1>3. /\ thread'.op = thread.op /\ thread'.k = thread.k
        /\ \/ thread'.at = "clear" /\ thread'.slot = thread.slot /\ StepD.reset
              /\ thread.at = "next"
           \/ thread'.at = "look" /\ (thread.at = "next" => ~StepD.reset)
    <2>1. CASE BeginWait
      <3>1. thread.at = "next"
        BY <2>1 DEF BeginWait, AtStep
      <3>2. CASE StepD.reset
        <4>1. thread' = [thread EXCEPT !.at = "clear"]
          BY <2>1, <3>2 DEF BeginWait, GoTo
        <4> QED  BY <1>1, <3>1, <3>2, <4>1 DEF ThreadsD
      <3>3. CASE ~StepD.reset
        <4>1. thread' = [thread EXCEPT !.at = "look"]
          BY <2>1, <3>3 DEF BeginWait, GoTo
        <4> QED  BY <1>1, <3>3, <4>1 DEF ThreadsD
      <3> QED  BY <3>2, <3>3
    <2>2. CASE NextEvent
      <3>1. thread.at = "look"
        BY <2>2 DEF NextEvent, AtStep
      <3> QED  BY <1>1, <2>2, <3>1 DEF NextEvent, ThreadsD
    <2> QED  BY <2>1, <2>2
  <1>4. Busy' /\ StepD' = StepD /\ TopicD' = TopicD
    BY <1>1, <1>3 DEF Busy, StepD, TopicD
  <1>5. AwaitingD' /\ (FreshD' <=> FreshD)
    BY <1>1, <1>3, <1>4 DEF AwaitingD, FreshD
  <1>6. thread'.at = "clear" => thread'.slot = 1
    <2>1. thread.at = "next" => thread.slot = 1
      BY <1>1 DEF BasicD, PlacedD
    <2> QED  BY <1>3, <2>1
  <1>7. AwaitingD
    BY <1>1
  <1> QED  BY <1>2, <1>4, <1>5, <1>6, <1>7, WaitsOnD, Zenon

LEMMA ClearTruthD ==
    ASSUME TimelyD, BasicD, TruthD, ClearEvent
    PROVE  TruthD'
  <1>1. /\ Busy /\ StepD.do = "await" /\ thread.at = "clear" /\ AwaitingD /\ StepD.reset
        /\ thread \in ThreadsD /\ thread.slot \in SlotsD
    BY DEF ClearEvent, AtStep, AwaitingD, BasicD, TypeD, PlacedD, ThreadsD
  <1>2. ~FreshD /\ ~AskedD /\ ~PollingD
    BY <1>1 DEF FreshD, AskedD, PollingD, AtStep
  <1>3. /\ UNCHANGED <<saying, callsMade, granted, disturbed, outcome>>
        /\ DaphnisI_events' = [DaphnisI_events EXCEPT ![thread.slot] = Free]
        /\ DaphnisI_events \in [SlotsD -> Sayable \cup Blank]
    BY DEF ClearEvent, historyD, boundsD, BasicD, TypeD
  <1>4. /\ thread'.op = thread.op /\ thread'.k = thread.k
        /\ IF thread.slot = EVENT_BUFFER_LENGTH THEN thread'.at = "look"
           ELSE thread'.at = "clear" /\ thread'.slot = thread.slot + 1
    BY <1>1 DEF ClearEvent, ThreadsD
  <1>5. Busy' /\ StepD' = StepD /\ TopicD' = TopicD
    BY <1>1, <1>4 DEF Busy, StepD, TopicD
  <1>6. /\ AwaitingD' /\ ~AskedD' /\ ~PollingD'
        /\ FreshD' => thread.slot = EVENT_BUFFER_LENGTH
    BY <1>1, <1>4, <1>5 DEF AwaitingD, AskedD, PollingD, FreshD, AtStep
  <1>7. \A s \in 1 .. thread.slot - 1 :
          DaphnisI_events[s] \in IF disturbed THEN Blank ELSE {Free}
    BY <1>1 DEF TruthD, RoomD, AtStep
  <1>8. \A s \in 1 .. thread.slot : DaphnisI_events'[s] \in IF disturbed THEN Blank ELSE {Free}
    <2> SUFFICES ASSUME NEW s \in 1 .. thread.slot
                 PROVE  DaphnisI_events'[s] \in IF disturbed THEN Blank ELSE {Free}
      OBVIOUS
    <2>1. thread.slot \in Nat /\ s \in SlotsD /\ (s # thread.slot => s \in 1 .. thread.slot - 1)
      BY <1>1, DaphnisIAssumption DEF SlotsD
    <2>2. CASE s = thread.slot
      BY <1>3, <2>1, <2>2 DEF Blank
    <2>3. CASE s # thread.slot
      BY <1>3, <1>7, <2>1, <2>3
    <2> QED  BY <2>2, <2>3
  <1>9. FreshD' => \A s \in SlotsD : DaphnisI_events'[s] \in IF disturbed THEN Blank ELSE {Free}
    BY <1>6, <1>8 DEF SlotsD
  <1>10. \A word : ~HeardD(word) /\ ~HeardD(word)'
    BY <1>2, <1>6, <1>9 DEF HeardD, StoredD, Blank, SlotsD
  <1>11. \A word : KnownD(word)' <=> KnownD(word)
    BY <1>3, <1>10 DEF KnownD, ToComeD, OwnD
  <1>12. LinesD'
    <2>1. /\ \A x \in DOMAIN saying : /\ saying[x].call <= callsMade
                                     /\ OwnD(saying[x])
                                     /\ saying[x].what \in WordsD(TopicD)
                                     /\ saying[x].what \notin Verdicts
                                     /\ Len(saying) - x <= 3
          /\ \A x, y \in DOMAIN saying : x < y => saying[y].what \in AfterD(saying[x].what)
      BY <1>1 DEF TruthD, LinesD
    <2> QED  BY <1>3, <1>5, <1>6, <1>10, <2>1 DEF LinesD, OwnD
  <1>13. GrantsD'
    BY <1>1, <1>2, <1>3, <1>4, <1>5, <1>6, <1>11 DEF TruthD, GrantsD
  <1>14. RoomD'
    <2>1. AtStep("await", "clear")' => \A s \in 1 .. thread'.slot - 1 :
            DaphnisI_events'[s] \in IF disturbed' THEN Blank ELSE {Free}
      <3>1. AtStep("await", "clear")' => thread'.slot - 1 = thread.slot
        <4>1. thread.slot \in Nat
          BY <1>1 DEF SlotsD
        <4> QED  BY <1>4, <4>1 DEF AtStep
      <3> QED  BY <1>3, <1>8, <3>1
    <2>2. FreshD' => \A s \in SlotsD' : DaphnisI_events'[s] \in Blank \cup WordsD(TopicD')
      BY <1>9 DEF Blank, SlotsD
    <2>3. ~disturbed => Len(saying) <= 3
      BY <1>1 DEF TruthD, RoomD
    <2>4. FreshD' /\ ~disturbed =>
            \E q \in 0 .. 3 - Len(saying) :
              \A s \in SlotsD : (DaphnisI_events'[s] = Free) = (s > q)
      <3> SUFFICES ASSUME FreshD', ~disturbed
                   PROVE  \E q \in 0 .. 3 - Len(saying) :
                            \A s \in SlotsD : (DaphnisI_events'[s] = Free) = (s > q)
        OBVIOUS
      <3>1. \A s \in SlotsD : DaphnisI_events'[s] = Free /\ s > 0
        BY <1>9 DEF SlotsD
      <3>2. 0 \in 0 .. 3 - Len(saying)
        <4>1. Len(saying) \in Nat
          BY DEF BasicD, TypeD
        <4> QED  BY <2>3, <4>1
      <3> QED  BY <3>1, <3>2
    <2> QED  BY <1>3, <1>5, <1>6, <2>1, <2>2, <2>3, <2>4 DEF RoomD, SlotsD
  <1>15. EventsTruthful'
    BY <1>5 DEF EventsTruthful
  <1> QED  BY <1>12, <1>13, <1>14, <1>15 DEF TruthD

LEMMA FindTruthD ==
    ASSUME BasicD, TruthD, FindEvent
    PROVE  TruthD'
  <1>1. /\ Busy /\ StepD.do = "await" /\ thread.at = "look" /\ AwaitingD /\ FreshD
        /\ thread.slot \in SlotsD
    BY DEF FindEvent, AtStep, AwaitingD, FreshD, BasicD, TypeD, ThreadsD
  <1>2. ~AskedD /\ ~PollingD
    BY <1>1 DEF AskedD, PollingD, AtStep
  <1>3. KindD(thread.op, thread.k, StepD, ScriptD[thread.op][thread.k + 1],
              Len(ScriptD[thread.op])) /\ thread.op # "none"
    BY <1>1, StageD DEF BasicD, Busy
  <1>4. UNCHANGED <<saying, callsMade, granted, disturbed, DaphnisI_events>>
    BY DEF FindEvent, boundsD, driverD
  <1>5. PICK e : e = DaphnisI_events[thread.slot] /\ e \in StepD.awaited
    BY DEF FindEvent, Found
  <1>6. e \notin Blank => HeardD(e)
    BY <1>1, <1>5 DEF HeardD, StoredD
  <1>7. ASSUME e \in Sayable, AfterD(e) = {}
        PROVE  OlderD /\ \A x \in DOMAIN saying : FALSE
    <2>1. HeardD(e)
      BY <1>6, <1>7, WordsAfterD
    <2>2. \A x \in DOMAIN saying : FALSE
      BY <1>7, <2>1 DEF TruthD, LinesD
    <2> QED  BY <2>2 DEF OlderD
  <1>8. ASSUME e \in Sayable, e \in DenialsD
        PROVE  ~granted
    <2>1. KnownD(e)
      BY <1>6, <1>8, WordsAfterD DEF KnownD
    <2> QED  BY <1>1, <1>8, <2>1 DEF TruthD, GrantsD
  <1>9. CASE StepD = AwaitStartUp
    <2>1. e = "StartUp" /\ e = StepD.success /\ e \in Sayable
      BY <1>5, <1>9, StepsD DEF Sayable
    <2>2. OlderD /\ \A x \in DOMAIN saying : FALSE
      BY <1>7, <2>1, WordsAfterD
    <2>3. TopicD = "reset"
      BY <1>1, <1>9, TopicsD DEF BasicD
    <2>4. granted
      <3>1. KnownD("StartUp")
        BY <1>6, <2>1, WordsAfterD DEF KnownD
      <3> QED  BY <1>1, <2>3, <3>1 DEF TruthD, GrantsD
    <2>5. Succeed
      BY <1>5, <2>1 DEF FindEvent
    <2>6. CASE thread.k = Len(ScriptD[thread.op])
      <3>1. End(TRUE)
        BY <2>5, <2>6 DEF Succeed
      <3> QED  BY <1>1, <1>4, <2>2, <2>4, <3>1, EndTruthD
    <2>7. CASE thread.k # Len(ScriptD[thread.op])
      <3>1. /\ thread.k + 1 \in DOMAIN ScriptD[thread.op]
            /\ thread' = [op |-> thread.op, k |-> thread.k + 1, at |-> "next", slot |-> 1]
        BY <1>1, <2>5, <2>7, SucceedD DEF BasicD
      <3>2. StepD \notin Responses /\ StepD # AwaitConf
        BY <1>9, StepsD DEF TxConf, TxResp
      <3>3. ScriptD[thread.op][thread.k + 1] = Ask("plain")
        BY <1>1, <1>3, <2>7, <3>2 DEF KindD
      <3>4. ScriptD[thread.op][thread.k + 1].do = "ask"
        BY <3>3, StepsD
      <3> QED  BY <1>1, <1>4, <2>2, <2>4, <3>1, <3>4, AdvanceTruthD
    <2> QED  BY <2>6, <2>7
  <1>10. CASE StepD = AwaitConf
    <2>1. e \in TxConf /\ StepD.success = "TxConfSuccess"
      BY <1>5, <1>10, StepsD
    <2>2. StepD # AwaitStartUp /\ StepD \notin Responses
      BY <1>10, StepsD DEF TxConf, TxResp
    <2>3. /\ thread.k < Len(ScriptD[thread.op]) /\ thread.op \notin Opens
          /\ ScriptD[thread.op][thread.k + 1] \in Responses
      BY <1>1, <1>3, <2>2 DEF KindD
    <2>4. CASE e = "TxConfSuccess"
      <3>1. Succeed
        BY <1>5, <2>1, <2>4 DEF FindEvent
      <3>2. thread.k # Len(ScriptD[thread.op])
        BY <1>3, <2>3 DEF KindD
      <3>3. /\ thread' = [op |-> thread.op, k |-> thread.k + 1, at |-> "next", slot |-> 1]
            /\ outcome' = outcome
        BY <1>1, <3>1, <3>2, SucceedD DEF BasicD
      <3>4. Busy' /\ thread'.at = "next" /\ StepD' = ScriptD[thread.op][thread.k + 1]
        BY <1>3, <3>3 DEF Busy, StepD
      <3>5. /\ StepD'.do = "await" /\ ~StepD'.reset /\ StepD'.awaited # {"StartUp"}
        BY <2>3, <3>4, StepsD
      <3>6. AwaitingD' /\ (FreshD' <=> FreshD)
        BY <1>1, <3>4, <3>5 DEF AwaitingD, FreshD
      <3>7. TopicD' = "transmit" /\ TopicD = "transmit"
        <4>1. TopicD' = "transmit"
          BY <3>5 DEF TopicD
        <4>2. TopicD = "transmit"
          BY <1>1, <1>10, TopicsD DEF BasicD
        <4> QED  BY <4>1, <4>2
      <3>8. UNCHANGED <<saying, callsMade, granted, disturbed, DaphnisI_events, outcome>>
        BY <1>4, <3>3
      <3>9. AwaitingD /\ TopicD' = TopicD /\ (thread'.at = "clear" => thread'.slot = 1)
        BY <1>1, <3>4, <3>7
      <3> QED  BY <3>4, <3>6, <3>8, <3>9, WaitsOnD, Zenon
    <2>5. CASE e = "TxConfError"
      <3>1. Abandon /\ e \in Sayable /\ e \in DenialsD
        BY <1>5, <2>1, <2>5 DEF FindEvent, Sayable, DenialsD
      <3>2. OlderD
        BY <1>7, <2>5, <3>1, WordsAfterD
      <3>3. ~granted
        BY <1>8, <3>1
      <3> QED  BY <1>1, <1>4, <3>1, <3>2, <3>3, AbandonTruthD
    <2> QED  BY <2>1, <2>4, <2>5 DEF TxConf
  <1>11. CASE StepD \in Responses
    <2>1. e \in TxResp /\ StepD.success = "TxRespSuccess"
      BY <1>5, <1>11, StepsD
    <2>2. StepD # AwaitStartUp /\ StepD # AwaitConf
      BY <1>11, StepsD DEF TxConf, TxResp
    <2>3. thread.k = Len(ScriptD[thread.op]) /\ thread.op \notin Opens
      BY <1>1, <1>3, <2>2 DEF KindD
    <2>4. e \in Sayable /\ HeardD(e)
      <3>1. e \in Sayable
        BY <2>1 DEF Sayable
      <3> QED  BY <1>6, <3>1, WordsAfterD
    <2>5. \A x \in DOMAIN saying : saying[x].what = "TxTime"
      <3> SUFFICES ASSUME NEW x \in DOMAIN saying PROVE saying[x].what = "TxTime"
        OBVIOUS
      <3>1. saying[x].what \in AfterD(e)
        BY <2>4 DEF TruthD, LinesD
      <3> QED  BY <2>1, <3>1, WordsAfterD
    <2>6. CASE e = "TxRespSuccess"
      <3>1. End(TRUE)
        BY <1>5, <2>1, <2>3, <2>6 DEF FindEvent, Succeed
      <3>2. granted
        <4>1. TopicD = "transmit"
          BY <1>1, <1>11, TopicsD DEF BasicD
        <4> QED  BY <1>1, <2>4, <2>6, <4>1 DEF TruthD, GrantsD, KnownD
      <3> QED  BY <1>1, <1>4, <2>5, <3>1, <3>2, EndTruthD
    <2>7. CASE e = "TxRespFail"
      <3>1. End(FALSE)
        BY <1>5, <2>1, <2>3, <2>7 DEF FindEvent, Abandon, StartUpFailed
      <3>2. ~granted
        BY <1>8, <2>4, <2>7 DEF DenialsD
      <3> QED  BY <1>1, <1>4, <2>5, <3>1, <3>2, EndTruthD
    <2> QED  BY <2>1, <2>6, <2>7 DEF TxResp
  <1> QED  BY <1>1, <1>3, <1>9, <1>10, <1>11 DEF KindD

LEMMA MissTruthD ==
    ASSUME TimelyD, BasicD, TruthD, MissEvent
    PROVE  TruthD'
  <1>1. /\ Busy /\ StepD.do = "await" /\ thread.at = "look" /\ AwaitingD
    BY DEF MissEvent, AtStep, AwaitingD
  <1>2. ~AskedD /\ ~PollingD
    BY <1>1 DEF AskedD, PollingD, AtStep
  <1>3. KindD(thread.op, thread.k, StepD, ScriptD[thread.op][thread.k + 1],
              Len(ScriptD[thread.op])) /\ thread.op # "none"
    BY <1>1, StageD DEF BasicD, Busy
  <1>4. UNCHANGED <<saying, callsMade, granted, disturbed>> /\ Abandon
    BY DEF MissEvent, boundsD, driverD
  <1>5. \A x \in DOMAIN saying : ~OwnD(saying[x])
    <2>1. \A l \in Range(saying) : l.call # callsMade
      BY DEF MissEvent, GivesUp, TimelyD
    <2> QED  BY <2>1 DEF Range, OwnD
  <1>6. OlderD
    BY <1>1, <1>5, OlderLinesD
  <1>7. \A word \in StepD.awaited : ~StoredD(word)
    BY DEF MissEvent, TimelyD, StoredD
  <1>8. \A word \in StepD.awaited : ~KnownD(word)
    BY <1>2, <1>5, <1>7 DEF KnownD, HeardD, ToComeD
  <1>9. \E word \in NeededD(TopicD) : word \in StepD.awaited
    <2>1. CASE StepD = AwaitStartUp
      <3>1. TopicD = "reset"
        BY <1>1, <2>1, TopicsD DEF BasicD
      <3> QED  BY <2>1, <3>1, StepsD, WordsAfterD
    <2>2. CASE StepD = AwaitConf
      <3>1. TopicD = "transmit"
        BY <1>1, <2>2, TopicsD DEF BasicD
      <3>2. "TxConfSuccess" \in StepD.awaited
        BY <2>2, StepsD DEF TxConf
      <3> QED  BY <3>1, <3>2, WordsAfterD
    <2>3. CASE StepD \in Responses
      <3>1. TopicD = "transmit"
        BY <1>1, <2>3, TopicsD DEF BasicD
      <3>2. "TxRespSuccess" \in StepD.awaited
        BY <2>3, StepsD
      <3> QED  BY <3>1, <3>2, WordsAfterD
    <2> QED  BY <1>1, <1>3, <2>1, <2>2, <2>3 DEF KindD
  <1>10. ~granted \/ disturbed
    BY <1>1, <1>8, <1>9 DEF TruthD, GrantsD
  <1> QED  BY <1>1, <1>4, <1>6, <1>10, AbandonTruthD

(* A line comes: the others follow.                                        *)
LEMMA TakenD ==
    ASSUME BasicD, Say
    PROVE  /\ Len(saying) \in Nat \ {0} /\ 1 \in DOMAIN saying /\ Head(saying) = saying[1]
           /\ saying[1] \in LinesOfD
           /\ Len(saying') = Len(saying) - 1
           /\ \A x \in DOMAIN saying' : /\ x \in Nat \ {0} /\ x + 1 \in DOMAIN saying
                                        /\ saying'[x] = saying[x + 1]
           /\ \A x \in DOMAIN saying : x = 1 \/ (x - 1 \in DOMAIN saying'
                                                 /\ saying'[x - 1] = saying[x])
           /\ UNCHANGED <<thread, callsMade, granted, disturbed, outcome, initialised>>
           /\ HandleRxLineD(saying[1].what)
  <1>1. saying \in Seq(LinesOfD) /\ saying # <<>> /\ saying' = Tail(saying)
    BY DEF Say, BasicD, TypeD
  <1>2. /\ Len(saying) \in Nat \ {0} /\ 1 \in DOMAIN saying /\ Head(saying) = saying[1]
        /\ DOMAIN saying = 1 .. Len(saying) /\ saying[1] \in LinesOfD
    BY <1>1
  <1>3. /\ Len(saying') = Len(saying) - 1 /\ DOMAIN saying' = 1 .. Len(saying) - 1
        /\ \A x \in 1 .. Len(saying) - 1 : saying'[x] = saying[x + 1]
    BY <1>1
  <1>4. \A x \in DOMAIN saying' : /\ x \in Nat \ {0} /\ x + 1 \in DOMAIN saying
                                 /\ saying'[x] = saying[x + 1]
    BY <1>2, <1>3
  <1>5. ASSUME NEW x \in DOMAIN saying, x # 1
        PROVE  x - 1 \in DOMAIN saying' /\ saying'[x - 1] = saying[x]
    <2>1. x - 1 \in 1 .. Len(saying) - 1 /\ (x - 1) + 1 = x
      BY <1>2, <1>5
    <2> QED  BY <1>3, <2>1
  <1> QED  BY <1>2, <1>3, <1>4, <1>5 DEF Say, historyD, boundsD

(* What is known of a line that has come is as before.                     *)
LEMMA SayLinesD ==
    ASSUME BasicD, TruthD, Say,
           Busy /\ (AwaitingD \/ (PollingD /\ DaphnisI_cmdConfirmStatus' # "Invalid")) =>
              OwnD(saying[1]),
           \A word \in Sayable : HeardD(word)' => HeardD(word) \/ word = saying[1].what
    PROVE  LinesD'
  <1>1. /\ \A x \in DOMAIN saying' : /\ x \in Nat \ {0} /\ x + 1 \in DOMAIN saying
                                     /\ saying'[x] = saying[x + 1]
        /\ 1 \in DOMAIN saying /\ Len(saying') = Len(saying) - 1 /\ Len(saying) \in Nat
        /\ UNCHANGED <<thread, callsMade>>
    BY TakenD
  <1>2. /\ (Busy' <=> Busy) /\ StepD' = StepD /\ (AskedD' <=> AskedD)
        /\ (AwaitingD' <=> AwaitingD) /\ (PollingD' <=> PollingD) /\ TopicD' = TopicD
    BY <1>1 DEF Busy, StepD, AskedD, AwaitingD, PollingD, AtStep, TopicD
  <1>3. LinesD
    BY DEF TruthD
  <1>4. ASSUME NEW x \in DOMAIN saying'
        PROVE  /\ saying'[x].call <= callsMade
               /\ (~OwnD(saying'[x]) \/ ~Busy) => saying'[x].what = "TxTime"
               /\ Busy /\ OwnD(saying'[x]) => /\ saying'[x].what \in WordsD(TopicD)
                                             /\ Len(saying') - x <= 3
               /\ Busy /\ ~AskedD /\ ~AwaitingD => ~OwnD(saying'[x])
               /\ AwaitingD => saying'[x].what \notin Verdicts
    <2>1. Len(saying') - x = Len(saying) - (x + 1)
      BY <1>1
    <2> QED  BY <1>1, <1>3, <2>1 DEF LinesD, OwnD
  <1>5. ASSUME NEW x \in DOMAIN saying', NEW y \in DOMAIN saying', x < y, OwnD(saying'[x])
        PROVE  OwnD(saying'[y]) /\ (Busy => saying'[y].what \in AfterD(saying'[x].what))
    <2>1. x + 1 < y + 1
      BY <1>1, <1>5
    <2> QED  BY <1>1, <1>3, <1>5, <2>1 DEF LinesD, OwnD
  <1>6. ASSUME NEW x \in DOMAIN saying', NEW word \in Sayable, HeardD(word)'
        PROVE  saying'[x].what \in AfterD(word)
    <2>1. CASE HeardD(word)
      BY <1>1, <1>3, <2>1 DEF LinesD
    <2>2. CASE word = saying[1].what
      <3>1. Busy /\ (AwaitingD \/ (PollingD /\ DaphnisI_cmdConfirmStatus' # "Invalid"))
        <4>1. (PollingD' /\ DaphnisI_cmdConfirmStatus' # "Invalid") \/ FreshD'
          BY <1>6 DEF HeardD
        <4>2. FreshD' => AwaitingD'
          BY DEF FreshD
        <4> QED  BY <1>2, <4>1, <4>2 DEF PollingD, AwaitingD, AtStep
      <3>2. OwnD(saying[1])
        BY <3>1
      <3>3. 1 < x + 1
        BY <1>1
      <3> QED  BY <1>1, <1>3, <2>2, <3>1, <3>2, <3>3 DEF LinesD
    <2> QED  BY <1>6, <2>1, <2>2
  <1>7. ASSUME NEW x \in DOMAIN saying',
               AwaitingD \/ (PollingD /\ DaphnisI_cmdConfirmStatus' # "Invalid")
        PROVE  OwnD(saying'[x])
    <2>1. Busy
      BY <1>7 DEF AwaitingD, PollingD, AtStep
    <2>2. OwnD(saying[1]) /\ 1 < x + 1
      BY <1>1, <1>7, <2>1
    <2> QED  BY <1>1, <1>3, <2>2 DEF LinesD
  <1> QED  BY <1>1, <1>2, <1>4, <1>5, <1>6, <1>7 DEF LinesD, OwnD

LEMMA SayTruthD ==
    ASSUME TimelyD, BasicD, TruthD, Say
    PROVE  TruthD'
  <1>1. /\ Len(saying) \in Nat \ {0} /\ 1 \in DOMAIN saying /\ Head(saying) = saying[1]
        /\ saying[1] \in LinesOfD
        /\ Len(saying') = Len(saying) - 1
        /\ \A x \in DOMAIN saying' : /\ x \in Nat \ {0} /\ x + 1 \in DOMAIN saying
                                     /\ saying'[x] = saying[x + 1]
        /\ \A x \in DOMAIN saying : x = 1 \/ (x - 1 \in DOMAIN saying'
                                              /\ saying'[x - 1] = saying[x])
        /\ UNCHANGED <<thread, callsMade, granted, disturbed, outcome, initialised>>
        /\ HandleRxLineD(saying[1].what)
    BY TakenD
  <1>2. /\ (Busy' <=> Busy) /\ StepD' = StepD /\ (AskedD' <=> AskedD)
        /\ (AwaitingD' <=> AwaitingD) /\ (PollingD' <=> PollingD) /\ TopicD' = TopicD
        /\ (FreshD' <=> FreshD)
    BY <1>1 DEF Busy, StepD, AskedD, AwaitingD, PollingD, AtStep, TopicD, FreshD
  <1>3. PICK what \in Sayable : what = saying[1].what
    BY <1>1 DEF LinesOfD
  <1>4. /\ OwnD(saying[1]) /\ what \in Verdicts => thread.at = "poll"
        /\ OwnD(saying[1]) /\ what \notin Verdicts => ~Busy \/ thread.at = "look"
        /\ ~OwnD(saying[1]) \/ ~Busy => what = "TxTime"
    <2>1. InTime(saying[1])
      BY <1>1 DEF Say
    <2>2. ~OwnD(saying[1]) \/ ~Busy => what = "TxTime"
      BY <1>1, <1>3 DEF TruthD, LinesD
    <2> QED  BY <1>3, <2>1, <2>2 DEF InTime, TimelyD, OwnD, Verdicts
  <1>5. EventsTruthful'
    BY <1>1, <1>2 DEF EventsTruthful, TruthD
  <1>6. \A word : ToComeD(word) <=> ToComeD(word)' \/ (OwnD(saying[1]) /\ word = what)
    <2> SUFFICES ASSUME NEW word
                 PROVE  ToComeD(word) <=> ToComeD(word)' \/ (OwnD(saying[1]) /\ word = what)
      OBVIOUS
    <2>1. ASSUME ToComeD(word)
          PROVE  ToComeD(word)' \/ (OwnD(saying[1]) /\ word = what)
      <3>1. PICK x \in DOMAIN saying : OwnD(saying[x]) /\ saying[x].what = word
        BY <2>1 DEF ToComeD
      <3> QED  BY <1>1, <1>3, <3>1 DEF ToComeD, OwnD
    <2>2. ASSUME ToComeD(word)'
          PROVE  ToComeD(word)
      <3>1. PICK x \in DOMAIN saying' : saying'[x].call = callsMade /\ saying'[x].what = word
        BY <1>1, <2>2 DEF ToComeD, OwnD
      <3> QED  BY <1>1, <3>1 DEF ToComeD, OwnD
    <2>3. ASSUME OwnD(saying[1]), word = what
          PROVE  ToComeD(word)
      BY <1>1, <1>3, <2>3 DEF ToComeD
    <2> QED  BY <2>1, <2>2, <2>3
  <1>7. CASE ~Busy
    <2>1. ~AwaitingD /\ ~PollingD /\ ~AskedD /\ ~FreshD /\ ~AtStep("await", "clear")'
      BY <1>2, <1>7 DEF AwaitingD, PollingD, AskedD, FreshD, AtStep
    <2>2. LinesD'
      BY <1>2, <1>7, <2>1, SayLinesD DEF HeardD
    <2>3. GrantsD'
      BY <1>2, <1>7, <2>1 DEF GrantsD
    <2>4. RoomD'
      BY <1>2, <2>1 DEF RoomD
    <2> QED  BY <1>5, <2>2, <2>3, <2>4 DEF TruthD
  <1>8. CASE Busy /\ ~OwnD(saying[1])
    <2>1. ~AwaitingD /\ ~FreshD /\ ~(PollingD /\ DaphnisI_cmdConfirmStatus # "Invalid")
      BY <1>1, <1>8 DEF TruthD, LinesD, FreshD
    <2>2. DaphnisI_cmdConfirmStatus' = DaphnisI_cmdConfirmStatus
      <3>1. what # "OK" /\ what # "ERROR"
        BY <1>4, <1>8
      <3> QED  BY <1>1, <1>3, <3>1 DEF HandleRxLineD
    <2>3. \A word : ~HeardD(word) /\ ~HeardD(word)'
      BY <1>2, <2>1, <2>2, <1>8 DEF HeardD
    <2>4. LinesD'
      BY <2>1, <2>2, <2>3, SayLinesD
    <2>5. \A word : KnownD(word)' <=> KnownD(word)
      BY <1>6, <1>8, <2>3 DEF KnownD
    <2>6. GrantsD'
      BY <1>1, <1>2, <2>5 DEF TruthD, GrantsD
    <2>7. RoomD'
      <3>1. ~AtStep("await", "clear")'
        BY <1>2, <1>8, <2>1 DEF AtStep, AwaitingD
      <3>2. ~AwaitingD' /\ ~FreshD'
        BY <1>2, <2>1
      <3>3. ~(PollingD' /\ DaphnisI_cmdConfirmStatus' # "Invalid")
        BY <1>2, <2>1, <2>2
      <3> QED  BY <3>1, <3>2, <3>3 DEF RoomD
    <2> QED  BY <1>5, <2>4, <2>6, <2>7 DEF TruthD
  <1>9. CASE Busy /\ OwnD(saying[1]) /\ what \in Verdicts
    <2>1. thread.at = "poll" /\ PollingD /\ AskedD
      BY <1>4, <1>9 DEF BasicD, PlacedD, PollingD, AskedD, AtStep
    <2>2. ~AwaitingD /\ ~FreshD /\ ~AtStep("await", "clear")'
      BY <1>1, <2>1 DEF AwaitingD, FreshD, AtStep
    <2>3. DaphnisI_open /\ DaphnisI_requestPending
      <3>1. KindD(thread.op, thread.k, StepD, ScriptD[thread.op][thread.k + 1],
                  Len(ScriptD[thread.op]))
        BY <1>9, StageD DEF BasicD
      <3>2. StepD.do = "ask"
        BY <2>1 DEF PollingD, AtStep
      <3>3. ~(thread.op \in Opens /\ thread.k = 1)
        BY <3>1, <3>2 DEF KindD
      <3> QED  BY <1>9, <2>1, <3>3 DEF BasicD, PoweredD
    <2>4. DaphnisI_cmdConfirmStatus' = IF what = "OK" THEN "Success" ELSE "Failed"
      BY <1>1, <1>3, <1>9, <2>3 DEF HandleRxLineD, Verdicts
    <2>5. DaphnisI_cmdConfirmStatus = "Invalid"
      <3>1. SUFFICES ASSUME DaphnisI_cmdConfirmStatus # "Invalid" PROVE FALSE
        OBVIOUS
      <3>2. PICK word \in {"OK", "ERROR"} : HeardD(word)
        <4>1. DaphnisI_cmdConfirmStatus \in {"Success", "Failed"}
          BY <3>1 DEF BasicD, TypeD
        <4> QED  BY <2>1, <4>1 DEF HeardD
      <3>3. word \in Sayable
        BY DEF Sayable, Verdicts
      <3>4. what \in AfterD(word)
        BY <1>1, <1>3, <3>2, <3>3 DEF TruthD, LinesD
      <3> QED  BY <1>9, <3>3, <3>4, WordsAfterD
    <2>6. /\ \A word : ~HeardD(word)
          /\ \A word : HeardD(word)' <=> word = what
      BY <1>2, <1>9, <2>1, <2>2, <2>4, <2>5 DEF HeardD, Verdicts
    <2>7. LinesD'
      BY <1>3, <1>9, <2>6, SayLinesD
    <2>8. \A word : KnownD(word)' <=> KnownD(word)
      BY <1>6, <1>9, <2>6 DEF KnownD
    <2>9. GrantsD'
      BY <1>1, <1>2, <2>8 DEF TruthD, GrantsD
    <2>10. RoomD'
      <3>1. Len(saying') <= 3
        <4>1. Len(saying) - 1 <= 3
          BY <1>1, <1>9 DEF TruthD, LinesD
        <4> QED  BY <1>1, <4>1
      <3> QED  BY <1>2, <2>2, <3>1 DEF RoomD
    <2> QED  BY <1>5, <2>7, <2>9, <2>10 DEF TruthD
  <1>10. CASE Busy /\ OwnD(saying[1]) /\ what \notin Verdicts
    <2>1. /\ thread.at = "look" /\ StepD.do = "await" /\ AwaitingD /\ FreshD
      BY <1>4, <1>10 DEF BasicD, PlacedD, AwaitingD, FreshD
    <2>2. ~PollingD /\ ~AskedD /\ ~AtStep("await", "clear")'
      BY <1>1, <2>1 DEF PollingD, AskedD, AtStep
    <2>3. DaphnisI_open
      <3>1. KindD(thread.op, thread.k, StepD, ScriptD[thread.op][thread.k + 1],
                  Len(ScriptD[thread.op]))
        BY <1>10, StageD DEF BasicD
      <3>2. ~(thread.op \in Opens /\ thread.k = 1)
        BY <2>1, <3>1 DEF KindD
      <3> QED  BY <1>10, <3>2 DEF BasicD, PoweredD
    <2>4. DaphnisI_events' = Store(what)
      BY <1>1, <1>3, <1>10, <2>3 DEF HandleRxLineD, Verdicts
    <2>5. /\ DaphnisI_events \in [SlotsD -> Sayable \cup Blank] /\ what \in Sayable \cup Blank
      BY DEF BasicD, TypeD
    <2>6. \A s \in SlotsD : DaphnisI_events'[s] = DaphnisI_events[s] \/ DaphnisI_events'[s] = what
      BY <2>4, <2>5, StoreD
    <2>7. \A word : HeardD(word)' => HeardD(word) \/ word = what
      BY <1>2, <2>1, <2>2, <2>6 DEF HeardD, StoredD, SlotsD
    <2>8. LinesD'
      BY <1>3, <1>10, <2>7, SayLinesD
    <2>9. \A word : KnownD(word)' => KnownD(word)
      BY <1>6, <1>10, <2>7 DEF KnownD
    <2>10. what \in WordsD(TopicD) /\ what \notin Blank
      <3>1. what \in WordsD(TopicD)
        BY <1>1, <1>3, <1>10 DEF TruthD, LinesD
      <3> QED  BY <3>1, WordsAfterD
    <2>11. ASSUME ~disturbed
           PROVE  /\ \E q \in 0 .. 3 - Len(saying') :
                       \A s \in SlotsD : (DaphnisI_events'[s] = Free) = (s > q)
                  /\ \A word : KnownD(word) => KnownD(word)'
                  /\ Len(saying') <= 3
      <3>1. PICK q \in 0 .. 3 - Len(saying) : \A s \in SlotsD : (DaphnisI_events[s] = Free) = (s > q)
        BY <2>1, <2>11 DEF TruthD, RoomD
      <3>2. q \in Nat /\ q + 1 \in SlotsD /\ q + 1 \in 0 .. 3 - Len(saying')
        BY <1>1, DaphnisIAssumption DEF TimelyD, SlotsD
      <3>3. DaphnisI_events' = [DaphnisI_events EXCEPT ![q + 1] = what]
        BY <2>4, <2>5, <3>1, <3>2, StoreFirstD
      <3>4. \A s \in SlotsD : (DaphnisI_events'[s] = Free) = (s > q + 1)
        <4> SUFFICES ASSUME NEW s \in SlotsD
                     PROVE  (DaphnisI_events'[s] = Free) = (s > q + 1)
          OBVIOUS
        <4>1. s \in Nat
          BY DEF SlotsD
        <4>2. CASE s = q + 1
          <5>1. DaphnisI_events'[s] # Free
            BY <2>5, <2>10, <3>3, <4>2 DEF Blank
          <5>2. ~(s > q + 1)
            BY <3>2, <4>2
          <5> QED  BY <5>1, <5>2
        <4>3. CASE s # q + 1
          <5>1. DaphnisI_events'[s] = DaphnisI_events[s]
            BY <2>5, <3>3, <4>3
          <5>2. (s > q) = (s > q + 1)
            BY <3>2, <4>1, <4>3
          <5> QED  BY <3>1, <5>1, <5>2
        <4> QED  BY <4>2, <4>3
      <3>5. \A word : (StoredD(word) /\ word \notin Blank) \/ word = what => StoredD(word)'
        <4>1. DaphnisI_events[q + 1] = Free
          BY <3>1, <3>2
        <4>2. \A s \in SlotsD : s # q + 1 => DaphnisI_events'[s] = DaphnisI_events[s]
          BY <2>5, <3>3
        <4>3. DaphnisI_events'[q + 1] = what
          BY <2>5, <3>2, <3>3
        <4> QED  BY <3>2, <4>1, <4>2, <4>3 DEF StoredD, Blank, SlotsD
      <3>6. \A word : KnownD(word) => KnownD(word)'
        <4>1. \A word : HeardD(word) => HeardD(word)'
          BY <1>2, <2>1, <2>2, <3>5 DEF HeardD
        <4>2. HeardD(what)'
          BY <1>2, <2>1, <2>10, <3>5 DEF HeardD, Blank
        <4> QED  BY <1>6, <4>1, <4>2 DEF KnownD
      <3>7. Len(saying') <= 3
        <4>1. Len(saying) <= 3
          BY <2>1, <2>11 DEF TruthD, RoomD
        <4> QED  BY <1>1, <4>1
      <3> QED  BY <3>2, <3>4, <3>6, <3>7
    <2>12. GrantsD'
      <3>1. /\ \A word \in DenialsD : KnownD(word)' => ~granted
            /\ TopicD = "plain"    => (KnownD("OK")' => granted)
            /\ TopicD = "reset"    => (KnownD("StartUp")' => granted)
            /\ TopicD = "transmit" => (KnownD("TxRespSuccess")' => granted)
        BY <2>1, <2>9 DEF TruthD, GrantsD
      <3>2. granted /\ ~disturbed => \A word \in NeededD(TopicD) : KnownD(word)'
        BY <2>1, <2>11 DEF TruthD, GrantsD
      <3> QED  BY <1>1, <1>2, <2>1, <3>1, <3>2 DEF GrantsD
    <2>13. RoomD'
      <3>1. \A s \in SlotsD : DaphnisI_events'[s] \in Blank \cup WordsD(TopicD)
        BY <2>1, <2>6, <2>10 DEF TruthD, RoomD
      <3> QED  BY <1>1, <1>2, <2>2, <2>11, <3>1 DEF RoomD, SlotsD
    <2> QED  BY <1>5, <2>8, <2>12, <2>13 DEF TruthD
  <1> QED  BY <1>7, <1>8, <1>9, <1>10

LEMMA DisturbTruthD ==
    ASSUME BasicD, TruthD, Disturb
    PROVE  TruthD'
  <1>1. /\ UNCHANGED <<thread, saying, callsMade, granted, outcome, DaphnisI_cmdConfirmStatus>>
        /\ disturbed' = TRUE /\ DaphnisI_events' = Store("RxData")
    BY DEF Disturb, HandleRxLineD
  <1>2. /\ (Busy' <=> Busy) /\ StepD' = StepD /\ (AskedD' <=> AskedD)
        /\ (AwaitingD' <=> AwaitingD) /\ (PollingD' <=> PollingD) /\ TopicD' = TopicD
        /\ (FreshD' <=> FreshD)
        /\ (AtStep("await", "clear")' <=> AtStep("await", "clear"))
    BY <1>1 DEF Busy, StepD, AskedD, AwaitingD, PollingD, AtStep, TopicD, FreshD
  <1>3. "RxData" \in Blank
    BY DEF Blank
  <1>4. /\ DaphnisI_events \in [SlotsD -> Sayable \cup Blank]
        /\ \A s \in SlotsD : \/ DaphnisI_events'[s] = DaphnisI_events[s]
                            \/ DaphnisI_events'[s] = "RxData"
    BY <1>1, <1>3, StoreD DEF BasicD, TypeD
  <1>5. \A word : HeardD(word)' => HeardD(word)
    BY <1>1, <1>2, <1>3, <1>4 DEF HeardD, StoredD, SlotsD
  <1>6. \A word : KnownD(word)' => KnownD(word)
    BY <1>1, <1>5 DEF KnownD, ToComeD, OwnD
  <1>7. LinesD'
    BY <1>1, <1>2, <1>5 DEF TruthD, LinesD, OwnD
  <1>8. GrantsD'
    BY <1>1, <1>2, <1>6 DEF TruthD, GrantsD
  <1>9. RoomD'
    <2>1. AtStep("await", "clear") => \A s \in 1 .. thread.slot - 1 : DaphnisI_events'[s] \in Blank
      <3> SUFFICES ASSUME AtStep("await", "clear"), NEW s \in 1 .. thread.slot - 1
                   PROVE  DaphnisI_events'[s] \in Blank
        OBVIOUS
      <3>1. DaphnisI_events[s] \in Blank
        BY DEF TruthD, RoomD, Blank
      <3>2. s \in SlotsD
        BY DaphnisIAssumption DEF BasicD, TypeD, ThreadsD, SlotsD
      <3> QED  BY <1>3, <1>4, <3>1, <3>2
    <2>2. FreshD => \A s \in SlotsD : DaphnisI_events'[s] \in Blank \cup WordsD(TopicD)
      BY <1>3, <1>4 DEF TruthD, RoomD
    <2> QED  BY <1>1, <1>2, <2>1, <2>2 DEF RoomD, SlotsD
  <1>10. EventsTruthful'
    BY <1>1, <1>2 DEF TruthD, EventsTruthful
  <1> QED  BY <1>7, <1>8, <1>9, <1>10 DEF TruthD

LEMMA InductiveD == TimelyD /\ BasicD /\ TruthD /\ [NextD]_varsD => (BasicD /\ TruthD)'
  <1> SUFFICES ASSUME TimelyD, BasicD, TruthD, [NextD]_varsD
               PROVE  BasicD' /\ TruthD'
    OBVIOUS
  <1>1. ASSUME NEW op \in DaphnisI_Called, CallD(op)
        PROVE  BasicD' /\ TruthD'
    BY <1>1, CallBasicD, CallTruthD
  <1>2. CASE SendRequest
    BY <1>2, AskBasicD, SendTruthD
  <1>3. CASE ArmD
    BY <1>3, AskBasicD, ArmTruthD
  <1>4. CASE WaitForConfirm
    BY <1>4, PollBasicD, PollTruthD
  <1>5. CASE BeginWait \/ NextEvent
    BY <1>5, WaitBasicD, BeginTruthD
  <1>6. CASE ClearEvent
    BY <1>6, WaitBasicD, ClearTruthD
  <1>7. CASE FindEvent
    BY <1>7, SearchBasicD, FindTruthD
  <1>8. CASE MissEvent
    BY <1>8, SearchBasicD, MissTruthD
  <1>9. CASE OpenD
    BY <1>9, PinsBasicD, OpenTruthD
  <1>10. CASE PulseReset
    BY <1>10, PinsBasicD, PulseTruthD
  <1>11. CASE CloseD
    BY <1>11, CloseBasicD, CloseTruthD
  <1>12. CASE Say
    BY <1>12, ReceiveBasicD, SayTruthD
  <1>13. CASE Disturb
    BY <1>13, ReceiveBasicD, DisturbTruthD
  <1>14. CASE UNCHANGED varsD
    <2>1. /\ UNCHANGED <<DaphnisI_requestPending, DaphnisI_cmdConfirmStatus, DaphnisI_events,
                         DaphnisI_open, thread, saying, initialised, outcome, granted,
                         disturbed, callsMade>>
      BY <1>14 DEF varsD, driverD, historyD, boundsD
    <2>2. /\ (Busy' <=> Busy) /\ StepD' = StepD /\ (AskedD' <=> AskedD)
          /\ (AwaitingD' <=> AwaitingD) /\ (PollingD' <=> PollingD) /\ TopicD' = TopicD
          /\ (FreshD' <=> FreshD)
          /\ (AtStep("await", "clear")' <=> AtStep("await", "clear"))
      BY <2>1 DEF Busy, StepD, AskedD, AwaitingD, PollingD, AtStep, TopicD, FreshD
    <2>3. /\ \A word : HeardD(word)' <=> HeardD(word)
          /\ \A word : KnownD(word)' <=> KnownD(word)
      BY <2>1, <2>2 DEF HeardD, StoredD, KnownD, ToComeD, OwnD, SlotsD
    <2>4. TypeD' /\ PlacedD'
      BY <2>1, <2>2 DEF BasicD, TypeD, PlacedD, SlotsD
    <2>5. PoweredD'
      BY <2>1, <2>2 DEF BasicD, PoweredD
    <2>6. LinesD'
      BY <2>1, <2>2, <2>3 DEF TruthD, LinesD, OwnD
    <2>7. GrantsD'
      BY <2>1, <2>2, <2>3 DEF TruthD, GrantsD
    <2>8. RoomD'
      BY <2>1, <2>2 DEF TruthD, RoomD, SlotsD
    <2>9. EventsTruthful'
      BY <2>1, <2>2 DEF TruthD, EventsTruthful
    <2> QED  BY <2>4, <2>5, <2>6, <2>7, <2>8, <2>9 DEF BasicD, TruthD
  <1> QED  BY <1>1, <1>2, <1>3, <1>4, <1>5, <1>6, <1>7, <1>8, <1>9, <1>10, <1>11, <1>12,
              <1>13, <1>14 DEF NextD

LEMMA StartsD == InitD => BasicD /\ TruthD
  <1> SUFFICES ASSUME InitD PROVE BasicD /\ TruthD
    OBVIOUS
  <1>1. thread = [op |-> "none", k |-> 1, at |-> "next", slot |-> 1] /\ ~Busy
    BY DEF InitD, AtRest, Busy
  <1>2. thread \in ThreadsD
    BY <1>1, DaphnisIAssumption DEF ThreadsD, SlotsD
  <1>3. saying \in Seq(LinesOfD) /\ DOMAIN saying = {}
    <2>1. <<>> \in Seq(LinesOfD) /\ DOMAIN <<>> = {}
      OBVIOUS
    <2> QED  BY <2>1 DEF InitD
  <1>4. /\ DaphnisI_events \in [SlotsD -> Sayable \cup Blank]
        /\ outcome \in OutcomesD
    BY DEF InitD, OutcomesD, Blank
  <1>5. TypeD
    BY <1>2, <1>3, <1>4 DEF InitD, TypeD
  <1>6. PlacedD
    BY <1>1 DEF PlacedD, AtRest
  <1>7. PoweredD
    BY <1>1 DEF InitD, PoweredD, AskedD, PollingD, AtStep
  <1>8. IdleD
    <2>1. EventsTruthful
      BY DEF InitD, EventsTruthful
    <2> QED  BY <1>1, <1>3, <2>1 DEF IdleD
  <1>9. TruthD
    BY <1>8, IdleStateD
  <1> QED  BY <1>5, <1>6, <1>7, <1>9 DEF BasicD

(* Of a module that answers in time, the functions that wait for events    *)
(* tell the truth, whatever events older calls have left or are still to   *)
(* cause, and whatever functions are called: three slots are enough.       *)
THEOREM EventsTellTruth == ASSUME TimelyD PROVE SpecD => []EventsTruthful
  <1>1. InitD => BasicD /\ TruthD
    BY StartsD
  <1>2. (BasicD /\ TruthD) /\ [NextD]_varsD => (BasicD /\ TruthD)'
    BY InductiveD
  <1>3. BasicD /\ TruthD => EventsTruthful
    BY DEF TruthD
  <1> QED  BY <1>1, <1>2, <1>3, PTL DEF SpecD
=============================================================================
