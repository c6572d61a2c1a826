------------------------------- MODULE SkollI -------------------------------
(***************************************************************************)
(* The Bluetooth driver Skoll_I: commands of the vendor's EZ-Serial        *)
(* library, one at a time, the packets of the module stored by the receive *)
(* interrupt in two slots, and a pointer to a slot handed to the caller.   *)
(***************************************************************************)
EXTENDS Integers, Sequences

CONSTANTS
    SkollI_Called,              \* the functions called, by how the module
                                \*   answers: "in time" or at "any" time
    Crossing,                   \* an event may come between the emptying of
                                \*   the slots and the type being set
    MaxCallsK, MaxUnaskedK      \* bounds: calls; what happens unasked

ASSUME SkollIAssumption ==
    /\ DOMAIN SkollI_Called \subseteq {"in time", "any"}
    /\ Crossing \in BOOLEAN
    /\ MaxCallsK \in Nat /\ MaxUnaskedK \in Nat

VARIABLES
    receiveBuffer,              \* the slots: [isInUse, packet]
    expectedResponseType, pending_response,
    datamode, transparentdata_handler,
    Skoll_I_open,               \* uartInit was called
    SPPDriven,                  \* the SPP pin is an output, high
    callerK,                    \* the main thread: function, where it is
    parser, passing,            \* the module: what it reads, whether it
                                \*   passes on what it reads
    channelK,                   \* a peer has opened the channel
    sent,                       \* the packets it has still to send
    pace,
    lent,                       \* the packet the caller was handed
    resultK,                    \* history: how the latest call ended
    willing,                    \* history: the module did all it was asked,
    answers,                    \*   or at least answered since Configure
    calledK, unaskedK           \* the bounded counters

slots     == <<receiveBuffer, expectedResponseType>>
settingsK == <<datamode, transparentdata_handler, Skoll_I_open, SPPDriven>>
moduleK   == <<parser, passing, channelK, sent>>
historyK  == <<willing, answers>>
boundsK   == <<calledK, unaskedK>>
varsK     == <<slots, pending_response, settingsK, callerK, moduleK, pace, lent,
               resultK, historyK, boundsK>>

NoPacket  == [type |-> "none", name |-> "none", call |-> 0]
Nowhere   == [slot |-> 0, packet |-> NoPacket]
Unused    == [isInUse |-> FALSE, packet |-> NoPacket]
SlotsK    == 1..2
RestingK  == [op |-> "none", k |-> 1, at |-> "send", ret |-> TRUE]

InitK ==
    /\ receiveBuffer = [i \in SlotsK |-> Unused]
    /\ expectedResponseType = "ANY" /\ pending_response = 0
    /\ datamode = "Invalid" /\ transparentdata_handler = FALSE
    /\ Skoll_I_open = FALSE /\ SPPDriven = FALSE
    /\ callerK = RestingK
    /\ parser \in {"text", "binary"} /\ passing = FALSE /\ channelK = FALSE
    /\ sent = <<>>
    /\ pace \in DOMAIN SkollI_Called
    /\ lent = Nowhere
    /\ resultK = [op |-> "none", ok |-> TRUE]
    /\ willing = TRUE /\ answers = FALSE
    /\ calledK = 0 /\ unaskedK = 0

-----------------------------------------------------------------------------
(* The functions, as steps. Whether one goes on after a step that failed   *)
(* depends on it: Ask ends the function, Ping and Attempt do not.          *)
Ask(command)     == [do |-> "ask", command |-> command, type |-> "RESPONSE"]
Ping             == [do |-> "ping", command |-> "ping", type |-> "RESPONSE"]
Attempt(command) == [do |-> "attempt", command |-> command, type |-> "RESPONSE"]
Order(command)   == [do |-> "order", command |-> command]
WaitFor(type)    == [do |-> "wait", type |-> type]
DoK(what)        == [do |-> "do", what |-> what]

Configure == <<Ping, DoK("binary"), Ask("echo"), Ask("parse mode")>>

ScriptK ==
    [InitCommand |-> <<DoK("open")>> \o Configure,
     InitTransparent |-> <<DoK("open")>> \o Configure,
     Deinit |-> <<DoK("close")>>,
     PinReset |-> <<DoK("reset")>> \o Configure,
     ClassicPinDisconnect |-> <<DoK("drive"), DoK("release"), WaitFor("EVENT")>>,
     LEPinDisconnect |-> <<DoK("drive"), Attempt("disconnect"), DoK("release")>>,
     Command |-> <<Ask("command")>>,
     FactoryReset |-> <<Order("factory reset"), WaitFor("EVENT")>>,
     CheckForPacket |-> <<WaitFor("ANY")>>]

(* The functions called are among these.                                   *)
ASSUME CalledAssumption ==
    \A p \in DOMAIN SkollI_Called : SkollI_Called[p] \subseteq DOMAIN ScriptK

OpensK == {"InitCommand", "InitTransparent"}
CallingK == callerK.op # "none"
StepK    == ScriptK[callerK.op][callerK.k]
AtK(do, what) == CallingK /\ StepK.do \in do /\ callerK.at = what
MoveK(what) == callerK' = [callerK EXCEPT !.at = what]

EndK(ok) ==
    /\ resultK' = [op |-> callerK.op, ok |-> ok]
    /\ callerK' = RestingK

(* The step after the next 'over', with ret for what the function returns. *)
PassK(over, ret) ==
    IF callerK.k + over >= Len(ScriptK[callerK.op]) THEN EndK(ret)
    ELSE /\ callerK' = [callerK EXCEPT !.k = @ + 1 + over, !.at = "send", !.ret = ret]
         /\ UNCHANGED resultK
AdvanceK == PassK(0, callerK.ret)

CallK(op) ==
    /\ ~CallingK /\ calledK < MaxCallsK
    /\ (op \in OpensK) = ~Skoll_I_open
    /\ pace = "any" \/ sent = <<>>
    /\ callerK' = [RestingK EXCEPT !.op = op]
    /\ calledK' = calledK + 1
    /\ willing' = TRUE
    /\ UNCHANGED <<slots, pending_response, settingsK, moduleK, pace, lent, resultK,
                   answers, unaskedK>>

-----------------------------------------------------------------------------
(* The module.                                                             *)
Packet(type, name) == [type |-> type, name |-> name, call |-> calledK]
Settles(packet) == packet.type = "RESPONSE" \/ packet.name = "system error"
SPPLow == channelK /\ ~SPPDriven
Understands == parser = "binary" /\ ~(passing /\ SPPLow)

(* What the module does when it follows a command.                         *)
Follow(command) ==
    /\ passing' = IF command = "parse mode" THEN transparentdata_handler
                  ELSE passing /\ command # "factory reset"
    /\ channelK' = (channelK /\ command \notin {"disconnect", "factory reset"})
    /\ parser' \in IF command = "factory reset" THEN {"text", "binary"} ELSE {parser}

(* A command arrives. It is followed and answered, refused with an error,  *)
(* or there is no answer; or it is passed on to the peer.                  *)
HearK(command) ==
    \/ /\ Understands /\ Follow(command)
       /\ sent' = sent \o <<Packet("RESPONSE", command)>>
                    \o IF command = "factory reset" THEN <<Packet("EVENT", "event")>>
                       ELSE <<>>
       /\ UNCHANGED historyK
    \/ /\ Understands /\ command # "ping"
       /\ sent' = Append(sent, Packet("EVENT", "system error"))
       /\ willing' = FALSE
       /\ UNCHANGED <<parser, passing, channelK, answers>>
    \/ /\ Understands /\ command # "ping" /\ Follow(command)
       /\ willing' = FALSE /\ answers' = FALSE
       /\ UNCHANGED sent
    \/ /\ willing' = (willing /\ command = "ping") /\ answers' = FALSE
       /\ UNCHANGED moduleK

(* A peer opens the channel or leaves; the module restarts by itself.      *)
PeerK ==
    /\ unaskedK < MaxUnaskedK
    /\ unaskedK' = unaskedK + 1
    /\ channelK' = ~channelK
    /\ UNCHANGED <<slots, pending_response, settingsK, callerK, parser, passing, sent,
                   pace, lent, resultK, historyK, calledK>>

RestartedK == /\ parser' \in {"text", "binary"} /\ passing' = FALSE /\ channelK' = FALSE
              /\ sent' = <<>>

(* Packets that the driver does not come to read.                          *)
Miss(packets) ==
    /\ willing' = (willing /\ \A p \in packets : p.call # calledK \/ p.name = "ping")
    /\ answers' = (answers /\ ~\E p \in packets : Settles(p))

RestartK ==
    /\ unaskedK < MaxUnaskedK
    /\ unaskedK' = unaskedK + 1
    /\ RestartedK
    /\ Miss({sent[n] : n \in DOMAIN sent})
    /\ UNCHANGED <<slots, pending_response, settingsK, callerK, pace, lent, resultK,
                   calledK>>

-----------------------------------------------------------------------------
(* The main thread.                                                        *)
(* A step has succeeded or failed; the answer to "parse mode" decides how  *)
(* data are read while the channel is open.                                *)
Setting == StepK.do = "ask" /\ StepK.command = "parse mode"

SucceedK ==
    /\ PassK(IF StepK.do = "ping" THEN 1 ELSE 0, callerK.ret)
    /\ datamode' = IF ~Setting THEN datamode
                   ELSE IF transparentdata_handler THEN "Transparent" ELSE "Command"

FailK ==
    /\ IF StepK.do \in {"ping", "order"} THEN AdvanceK
       ELSE IF StepK.do = "attempt" THEN PassK(0, FALSE)
       ELSE EndK(FALSE)
    /\ datamode' = IF Setting THEN "Invalid" ELSE datamode

Sending == {"ask", "ping", "attempt", "order"}
Waiting == {"ask", "ping", "attempt", "wait"}

(* appOutput_uarttransmit                                                  *)
Refuse ==
    /\ AtK(Sending, "send") /\ pending_response # 0
    /\ FailK
    /\ UNCHANGED <<slots, pending_response, transparentdata_handler, Skoll_I_open,
                   SPPDriven, moduleK, pace, lent, historyK, boundsK>>

TransmitK ==
    /\ AtK(Sending, "send") /\ pending_response = 0
    /\ pending_response' = pending_response + 1
    /\ HearK(StepK.command)
    /\ IF StepK.do = "order" THEN AdvanceK ELSE MoveK("clear") /\ UNCHANGED resultK
    /\ UNCHANGED <<slots, settingsK, pace, lent, boundsK>>

(* uartTransmit fails: the command counts as pending all the same.         *)
TransmitFails ==
    /\ AtK(Sending, "send") /\ pending_response = 0
    /\ unaskedK < MaxUnaskedK
    /\ unaskedK' = unaskedK + 1
    /\ pending_response' = pending_response + 1
    /\ willing' = (willing /\ StepK.do = "ping") /\ answers' = FALSE
    /\ FailK
    /\ UNCHANGED <<slots, transparentdata_handler, Skoll_I_open, SPPDriven, moduleK,
                   pace, lent, calledK>>

(* Skoll_I_Wait4CNF                                                        *)
ClearSlotK(i) == receiveBuffer' = [receiveBuffer EXCEPT ![i].isInUse = FALSE]

ClearFirst ==
    /\ AtK(Waiting, "clear") \/ AtK({"wait"}, "send")
    /\ ClearSlotK(1)
    /\ lent' = Nowhere
    /\ MoveK("clear2")
    /\ UNCHANGED <<expectedResponseType, pending_response, settingsK, moduleK, pace,
                   resultK, historyK, boundsK>>

ClearSecond ==
    /\ AtK(Waiting, "clear2")
    /\ ClearSlotK(2)
    /\ MoveK("expect")
    /\ UNCHANGED <<expectedResponseType, pending_response, settingsK, moduleK, pace,
                   lent, resultK, historyK, boundsK>>

Expect ==
    /\ AtK(Waiting, "expect")
    /\ expectedResponseType' = StepK.type
    /\ MoveK("look1")
    /\ UNCHANGED <<receiveBuffer, pending_response, settingsK, moduleK, pace, lent,
                   resultK, historyK, boundsK>>

Wants(packet) == StepK.type \in {"ANY", packet.type}
Looking == {"look1", "look2", "time"}
LookAt(i) == AtK(Waiting, IF i = 1 THEN "look1" ELSE "look2")

(* The packet waited for: the caller is handed a pointer to the slot.      *)
Hand(i) ==
    /\ LookAt(i) /\ receiveBuffer[i].isInUse /\ Wants(receiveBuffer[i].packet)
    /\ lent' = [slot |-> i, packet |-> receiveBuffer[i].packet]
    /\ SucceedK
    /\ answers' = (answers \/ Setting)
    /\ UNCHANGED <<slots, pending_response, transparentdata_handler, Skoll_I_open,
                   SPPDriven, moduleK, pace, willing, boundsK>>

(* None, or one of the wrong type.                                         *)
Discard(i) ==
    /\ LookAt(i)
    /\ ~(receiveBuffer[i].isInUse /\ Wants(receiveBuffer[i].packet))
    /\ ClearSlotK(i)
    /\ MoveK(IF i = 1 THEN "look2" ELSE "time")
    /\ UNCHANGED <<expectedResponseType, pending_response, settingsK, moduleK, pace,
                   lent, resultK, historyK, boundsK>>

LookAgain ==
    /\ AtK(Waiting, "time")
    /\ MoveK("look1")
    /\ UNCHANGED <<slots, pending_response, settingsK, moduleK, pace, lent, resultK,
                   historyK, boundsK>>

(* With a module that answers in time, nothing for this call is to come or *)
(* to be found.                                                            *)
NothingToComeK ==
    pace = "any" \/
        /\ \A n \in DOMAIN sent : sent[n].call # calledK
        /\ \A i \in SlotsK : receiveBuffer[i].isInUse => ~Wants(receiveBuffer[i].packet)

GiveUpK ==
    /\ AtK(Waiting, "time") /\ NothingToComeK
    /\ FailK
    /\ UNCHANGED <<slots, pending_response, transparentdata_handler, Skoll_I_open,
                   SPPDriven, moduleK, pace, lent, historyK, boundsK>>

(* The other steps.                                                        *)
Emptied ==
    [i \in SlotsK |-> [isInUse |-> FALSE, packet |-> receiveBuffer[i].packet]]

AtDo(what) == AtK({"do"}, "send") /\ StepK.what = what

OpenK ==
    /\ AtDo("open")
    /\ transparentdata_handler' = (callerK.op = "InitTransparent")
    /\ receiveBuffer' = Emptied
    /\ lent' = Nowhere
    /\ Skoll_I_open' = TRUE
    /\ SPPDriven' = FALSE
    /\ AdvanceK
    /\ UNCHANGED <<expectedResponseType, pending_response, datamode, moduleK, pace,
                   historyK, boundsK>>

CloseK ==
    /\ AtDo("close")
    /\ datamode' = "Invalid"
    /\ Skoll_I_open' = FALSE
    /\ SPPDriven' = FALSE
    /\ AdvanceK
    /\ UNCHANGED <<slots, pending_response, transparentdata_handler, moduleK, pace, lent,
                   historyK, boundsK>>

PulseResetK ==
    /\ AtDo("reset")
    /\ RestartedK
    /\ AdvanceK
    /\ UNCHANGED <<slots, pending_response, settingsK, pace, lent, historyK, boundsK>>

(* The SPP pin is driven, or let go. That ends a Classic connection.       *)
DriveSPP ==
    /\ AtDo("drive") \/ AtDo("release")
    /\ SPPDriven' = (StepK.what = "drive")
    /\ channelK' = (channelK /\ callerK.op # "ClassicPinDisconnect")
    /\ sent' = IF channelK /\ ~channelK' THEN Append(sent, Packet("EVENT", "event"))
               ELSE sent
    /\ AdvanceK
    /\ UNCHANGED <<slots, pending_response, datamode, transparentdata_handler,
                   Skoll_I_open, parser, passing, pace, lent, historyK, boundsK>>

(* Mutant of SetBinary: the ping is pending for ever.                      *)
SetBinaryPending ==
    /\ AtDo("binary")
    /\ parser' = IF passing /\ SPPLow THEN parser ELSE "binary"
    /\ AdvanceK
    /\ UNCHANGED <<slots, pending_response, settingsK, passing, channelK, sent, pace, lent,
                   historyK, boundsK>>

(* After a ping without an answer: "\r\nSPPM,M=01\r\n".                    *)
SetBinary ==
    /\ AtDo("binary")
    /\ pending_response' = 0
    /\ parser' = IF passing /\ SPPLow THEN parser ELSE "binary"
    /\ AdvanceK
    /\ UNCHANGED <<slots, settingsK, passing, channelK, sent, pace, lent, historyK,
                   boundsK>>

(* A pin cannot be set, or, when it is opened or the module put into binary *)
(* mode, the UART fails.                                                   *)
DoFails ==
    /\ AtK({"do"}, "send")
    /\ unaskedK < MaxUnaskedK
    /\ unaskedK' = unaskedK + 1
    /\ transparentdata_handler' =
         IF StepK.what = "open" THEN callerK.op = "InitTransparent"
         ELSE transparentdata_handler
    /\ receiveBuffer' =
         IF StepK.what = "open" THEN Emptied ELSE receiveBuffer
    /\ lent' = IF StepK.what = "open" THEN Nowhere ELSE lent
    /\ pending_response' = IF StepK.what = "binary" THEN 0 ELSE pending_response
    /\ willing' = FALSE /\ answers' = FALSE
    /\ EndK(FALSE)
    /\ UNCHANGED <<expectedResponseType, datamode, Skoll_I_open, SPPDriven, moduleK, pace,
                   calledK>>

MainK == \/ Refuse \/ TransmitK \/ TransmitFails \/ ClearFirst \/ ClearSecond \/ Expect
         \/ \E i \in SlotsK : Hand(i) \/ Discard(i)
         \/ LookAgain \/ GiveUpK \/ OpenK \/ CloseK \/ PulseResetK \/ DriveSPP
         \/ SetBinary \/ DoFails

-----------------------------------------------------------------------------
(* The receive interrupt.                                                  *)
(* Mutant of internal_ezsHandler: the first slot is always taken.          *)
internal_ezsHandlerOver(packet) ==
    /\ receiveBuffer' =
         IF expectedResponseType \notin {"ANY", packet.type} THEN receiveBuffer
         ELSE [receiveBuffer EXCEPT ![1] = [isInUse |-> TRUE, packet |-> packet]]
    /\ pending_response' =
         IF Settles(packet) /\ pending_response # 0 THEN pending_response - 1
         ELSE pending_response

(* A packet of the type expected takes every slot that is free.            *)
internal_ezsHandler(packet) ==
    /\ receiveBuffer' =
         [i \in SlotsK |->
            IF expectedResponseType \in {"ANY", packet.type} /\ ~receiveBuffer[i].isInUse
            THEN [isInUse |-> TRUE, packet |-> packet] ELSE receiveBuffer[i]]
    /\ pending_response' =
         IF Settles(packet) /\ pending_response # 0 THEN pending_response - 1
         ELSE pending_response

(* While the channel is open the bytes go to the application, unread.      *)
HandleRxByteK(packet) ==
    IF transparentdata_handler /\ datamode = "Transparent" /\ SPPLow
    THEN /\ UNCHANGED <<receiveBuffer, pending_response>>
         /\ Miss({packet})
    ELSE internal_ezsHandler(packet) /\ UNCHANGED historyK

ReceiveK ==
    /\ sent # <<>>
    /\ pace = "any" \/ ~CallingK \/ callerK.at \in Looking
    /\ sent' = Tail(sent)
    /\ IF Skoll_I_open THEN HandleRxByteK(Head(sent))
       ELSE UNCHANGED <<receiveBuffer, pending_response, historyK>>
    /\ UNCHANGED <<expectedResponseType, settingsK, callerK, parser, passing, channelK,
                   pace, lent, resultK, boundsK>>

(* An event that no command has caused. When it comes before the type is   *)
(* set it takes both slots, and the response may come before either of     *)
(* them is free again.                                                     *)
EventK ==
    /\ unaskedK < MaxUnaskedK /\ Skoll_I_open
    /\ Crossing \/ callerK.at # "expect"
    /\ unaskedK' = unaskedK + 1
    /\ HandleRxByteK([Packet("EVENT", "event") EXCEPT !.call = 0])
    /\ UNCHANGED <<expectedResponseType, settingsK, callerK, moduleK, pace, lent, resultK,
                   calledK>>

NextK == \/ \E op \in SkollI_Called[pace] : CallK(op)
         \/ MainK \/ ReceiveK \/ EventK \/ PeerK \/ RestartK

SpecK == InitK /\ [][NextK]_varsK

-----------------------------------------------------------------------------
ResultOfK(op) == ~CallingK /\ resultK.op = op

Configures == OpensK \cup {"PinReset"}

(* With a module that answers in time a function succeeds when the module  *)
(* did what it was asked and still answers commands, and what a command is *)
(* handed is the response to it, not an event and nothing left in the      *)
(* slots or pending from before (Skoll_I_Wait4CNF, Skoll_I.c:208-251, and  *)
(* appOutput_uarttransmit, :165-186). Init and PinReset succeed iff the    *)
(* module obeyed them.                                                     *)
OwnAnswers == pace = "in time" =>
    /\ \A op \in Configures : ResultOfK(op) => resultK.ok = willing
    /\ ResultOfK("Command") /\ resultK.ok =>
         lent.packet = Packet("RESPONSE", "command")
    /\ \A op \in {"Command", "LEPinDisconnect", "FactoryReset"} :
         ResultOfK(op) /\ willing /\ answers => resultK.ok

(* Wait4CNF returns a pointer into the slots: what it points to stays as   *)
(* it was, and the slot in use, until the next wait, whatever the          *)
(* interrupt receives meanwhile (Skoll_I.c:100-107, :230).                 *)
PacketKept ==
    lent # Nowhere =>
        /\ receiveBuffer[lent.slot].isInUse
        /\ receiveBuffer[lent.slot].packet = lent.packet
=============================================================================
